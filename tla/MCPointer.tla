----------------------------- MODULE MCPointer -----------------------------
(***************************************************************************)
(* An instance of Pointer for TLC: a proxy, a session and an interface.    *)
(* The two upper ones hold a lower one; the proxy has a weak reference to  *)
(* itself (_ptr), the session one that may be to itself or to the proxy.   *)
(***************************************************************************)
EXTENDS Pointer, TLC

CONSTANTS o1, o2, o3, r1, r2, w1, m1, m2, p1, p2, null

Objects == {o1, o2, o3}
Roots == {r1, r2, w1}
Weaks == {w1, p1, p2}
Members == (o1 :> {m1, p1}) @@ (o2 :> {m2, p2}) @@ (o3 :> {})
Layers == (o1 :> 0) @@ (o2 :> 1) @@ (o3 :> 2)
=============================================================================
