SPECIFICATION Spec
CONSTANTS
  o1 = o1
  o2 = o2
  o3 = o3
  r1 = r1
  r2 = r2
  w1 = w1
  m1 = m1
  m2 = m2
  p1 = p1
  p2 = p2
  null = null
  Obj <- Objects
  NoObj = null
  Root <- Roots
  Weak <- Weaks
  Member <- Members
  Rank <- Layers
INVARIANTS
  CountsExact
  AccessSafe
  AliveIffHeld
CHECK_DEADLOCK FALSE
