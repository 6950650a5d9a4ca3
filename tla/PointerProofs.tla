--------------------------- MODULE PointerProofs ---------------------------
(***************************************************************************)
(* Theorems about the reference counts of ptr.h, for every set of objects, *)
(* every set of pointer variables and every nesting of destructors.        *)
(***************************************************************************)
EXTENDS Pointer, FiniteSetTheorems, SequenceTheorems, TLAPS

(***************************************************************************)
(* The inductive invariant.  While calls are in progress a counter differs *)
(* from the number of references: a slot keeps its value until release()   *)
(* ends, and the deletion of an object holds a reference of its own.       *)
(***************************************************************************)
TypeOK ==
  /\ slot \in [Slot -> Obj \cup {NoObj}]
  /\ obj \in [Obj -> {"unborn", "alive", "dying", "dead"}]
  /\ block \in [Obj -> [allocated : BOOLEAN, sc : Int, wc : Int]]
  /\ stack \in Seq(Frame)

\* The slots whose reference has been given up, though they still name it.
Gone ==
  {s \in Slot : \E n \in DOMAIN stack :
                  stack[n].pc \in {"destroy", "free"} /\ stack[n].s = s}

Refs(o) == {s \in Slot : slot[s] = o}

\* The counters, in the middle of calls too.
Counted(o) ==
  /\ IsFiniteSet(Refs(o))
  /\ block[o].sc = Cardinality(Strong(o) \ Gone)
  /\ block[o].wc = Cardinality(Feeble(o) \ Gone)
                     + (IF obj[o] = "dying" THEN 1 ELSE 0)
  /\ block[o].allocated <=> Refs(o) # {}

\* What the counters say of the object.
Life(o) ==
  /\ obj[o] = "alive" <=> block[o].sc > 0
  /\ obj[o] = "dying" <=> \E n \in DOMAIN stack : /\ stack[n].pc = "destroy"
                                                  /\ slot[stack[n].s] = o
  /\ obj[o] = "unborn" => Refs(o) = {}
  /\ obj[o] \in {"unborn", "dead"} => \A m \in Member[o] : slot[m] = NoObj
  /\ \A m \in Member[o] \ Weak : slot[m] # NoObj => Rank[o] < Rank[slot[m]]

\* A call in progress and the one that made it.
Call(n) ==
  /\ stack[n].pc = "take" => n = 1
  /\ stack[n].pc # "take" => slot[stack[n].s] # NoObj
  /\ stack[n].pc = "destroy" => stack[n].s \notin Weak
  /\ n < Len(stack) => stack[n].pc \in {"take", "destroy"}
  /\ n > 1 => IF stack[n - 1].pc = "take" THEN stack[n].s = stack[n - 1].s
              ELSE stack[n].s \in Member[slot[stack[n - 1].s]]

\* The calls are about different slots, and go down the layers.
Nested ==
  \A n, k \in DOMAIN stack :
    n < k /\ stack[n].pc # "take"
      => /\ stack[n].s # stack[k].s
         /\ stack[k].s \notin Weak
              => Rank[slot[stack[n].s]] < Rank[slot[stack[k].s]]

\* The outermost call: its slot exists throughout, and what an acquire() is
\* to take stays alive.
Outermost ==
  stack # <<>> =>
    LET f == stack[1] IN
    /\ \A o \in Obj : f.s \in Member[o] =>
         /\ obj[o] = "alive"
         /\ f.pc = "take" /\ f.s \notin Weak => Rank[o] < Rank[f.ref]
    /\ f.pc = "take" =>
         IF Len(stack) = 1 THEN slot[f.s] = NoObj /\ obj[f.ref] = "alive"
         ELSE \E k \in Root \ (Weak \cup {f.s}) : slot[k] = f.ref

IInv ==
  /\ TypeOK
  /\ \A o \in Obj : Counted(o) /\ Life(o)
  /\ \A n \in DOMAIN stack : Call(n)
  /\ Nested
  /\ Outermost

-----------------------------------------------------------------------------
(***************************************************************************)
(* The stack of calls.                                                     *)
(***************************************************************************)
\* The fields of a call.
LEMMA FrameFields ==
  ASSUME NEW f \in Frame
  PROVE  /\ f.s \in Slot
         /\ f.pc \in {"release", "destroy", "free", "take"}
         /\ f.pc = "take" => f.ref \in Obj
  BY DEF Frame

\* The innermost call is the last one.
LEMMA TopLast ==
  ASSUME TypeOK, stack # <<>>
  PROVE  /\ Len(stack) \in Nat /\ Len(stack) >= 1
         /\ DOMAIN stack = 1 .. Len(stack)
         /\ Top = stack[Len(stack)]
         /\ Top \in Frame
         /\ \A n \in 1 .. Len(stack) : stack[n] \in Frame
  BY DEF TypeOK, Top

\* Without the innermost call.
LEMMA CallersStack ==
  ASSUME TypeOK, stack # <<>>
  PROVE  /\ Callers \in Seq(Frame)
         /\ Len(Callers) = Len(stack) - 1
         /\ \A n \in 1 .. Len(stack) - 1 : Callers[n] = stack[n]
<1> DEFINE k == Len(stack) - 1
<1>1. k \in Int /\ 1 \in Int /\ k >= 0 /\ \A n \in 1 .. k : stack[n] \in Frame
  BY TopLast
<1> HIDE DEF k
<1>2. /\ SubSeq(stack, 1, k) \in Seq(Frame)
      /\ Len(SubSeq(stack, 1, k)) = IF 1 <= k THEN k - 1 + 1 ELSE 0
      /\ \A n \in 1 .. k - 1 + 1 : SubSeq(stack, 1, k)[n] = stack[1 + n - 1]
  BY <1>1, SubSeqProperties
<1>3. \A n \in 1 .. k : n \in 1 .. k - 1 + 1 /\ 1 + n - 1 = n
  BY <1>1
<1>4. \A n \in 1 .. k : SubSeq(stack, 1, k)[n] = stack[n]
  BY <1>2, <1>3
<1>5. Len(SubSeq(stack, 1, k)) = k
  BY <1>1, <1>2
<1> QED BY <1>2, <1>4, <1>5 DEF k, Callers

\* A call that goes on.
LEMMA GotoStack ==
  ASSUME TypeOK, stack # <<>>, Top.pc # "take",
         NEW pc \in {"destroy", "free"}, Goto(pc)
  PROVE  /\ stack' \in Seq(Frame)
         /\ Len(stack') = Len(stack)
         /\ DOMAIN stack' = 1 .. Len(stack)
         /\ \A n \in 1 .. Len(stack) - 1 : stack'[n] = stack[n]
         /\ stack'[Len(stack)].pc = pc
         /\ stack'[Len(stack)].s = Top.s
<1> DEFINE g == [Top EXCEPT !.pc = pc]
<1>1. g \in Frame /\ g.pc = pc /\ g.s = Top.s
  BY TopLast DEF Frame
<1>2. stack' = Append(Callers, g)
  BY DEF Goto
<1> HIDE DEF g
<1> QED BY <1>1, <1>2, CallersStack, TopLast

\* A call that returns.
LEMMA ReturnStack ==
  ASSUME TypeOK, stack # <<>>, Return
  PROVE  /\ stack' \in Seq(Frame)
         /\ Len(stack') = Len(stack) - 1
         /\ DOMAIN stack' = 1 .. Len(stack) - 1
         /\ \A n \in 1 .. Len(stack) - 1 : stack'[n] = stack[n]
<1>1. stack' = Callers
  BY DEF Return
<1>2. Len(stack) \in Nat
  BY TopLast
<1> QED BY <1>1, <1>2, CallersStack

\* A destructor that releases a member.
LEMMA PushStack ==
  ASSUME TypeOK, NEW m \in Slot, stack' = Append(stack, release(m))
  PROVE  /\ stack' \in Seq(Frame)
         /\ Len(stack') = Len(stack) + 1
         /\ DOMAIN stack' = 1 .. Len(stack) + 1
         /\ \A n \in 1 .. Len(stack) : stack'[n] = stack[n]
         /\ stack'[Len(stack) + 1] = release(m)
         /\ release(m).pc = "release" /\ release(m).s = m
<1>1. release(m) \in Frame /\ release(m).pc = "release" /\ release(m).s = m
  BY DEF release, Frame
<1> QED BY <1>1 DEF TypeOK

\* A slot belongs to one object at most, and a root slot to none.
LEMMA Owner ==
  /\ \A o, q \in Obj, s \in Slot : s \in Member[o] /\ s \in Member[q] => o = q
  /\ \A o \in Obj : Member[o] \subseteq Slot /\ Member[o] \cap Root = {}
  /\ Root \subseteq Slot
  BY PointerAssumption DEF Slot

\* The set the counters count.
LEMMA CountFinite ==
  ASSUME NEW o \in Obj, IsFiniteSet(Refs(o))
  PROVE  /\ IsFiniteSet(Strong(o) \ Gone) /\ IsFiniteSet(Feeble(o) \ Gone)
         /\ Cardinality(Strong(o) \ Gone) \in Nat
         /\ Cardinality(Feeble(o) \ Gone) \in Nat
         /\ Cardinality(Strong(o) \ Gone) = 0 <=> Strong(o) \ Gone = {}
         /\ Cardinality(Feeble(o) \ Gone) = 0 <=> Feeble(o) \ Gone = {}
<1>1. Strong(o) \ Gone \in SUBSET Refs(o) /\ Feeble(o) \ Gone \in SUBSET Refs(o)
  BY PointerAssumption DEF Strong, Feeble, Refs
<1>2. IsFiniteSet(Strong(o) \ Gone) /\ IsFiniteSet(Feeble(o) \ Gone)
  BY <1>1, FS_Subset
<1> QED BY <1>2, FS_CardinalityType, FS_EmptySet, Zenon

\* What a step adds to the counters of one block.
LEMMA AddsBlock ==
  ASSUME TypeOK, NEW o \in Obj, NEW a \in Int, NEW b \in Int
  PROVE  /\ Adds(o, a, b) \in [Obj -> [allocated : BOOLEAN, sc : Int, wc : Int]]
         /\ Adds(o, a, b)[o].sc = block[o].sc + a
         /\ Adds(o, a, b)[o].wc = block[o].wc + b
         /\ Adds(o, a, b)[o].allocated = block[o].allocated
         /\ \A q \in Obj : q # o => Adds(o, a, b)[q] = block[q]
<1> DEFINE r == [allocated |-> block[o].allocated,
                 sc |-> block[o].sc + a, wc |-> block[o].wc + b]
<1>1. block[o] \in [allocated : BOOLEAN, sc : Int, wc : Int]
  BY DEF TypeOK
<1>2. r \in [allocated : BOOLEAN, sc : Int, wc : Int]
  BY <1>1
<1>3. Adds(o, a, b) = [block EXCEPT ![o] = r]
  BY DEF Adds
<1>4. r.sc = block[o].sc + a /\ r.wc = block[o].wc + b
        /\ r.allocated = block[o].allocated
  OBVIOUS
<1> HIDE DEF r
<1> QED BY <1>2, <1>3, <1>4 DEF TypeOK

-----------------------------------------------------------------------------
(***************************************************************************)
(* What the invariant says of the calls in progress.                       *)
(***************************************************************************)
\* A call other than an acquire() works on a block, and a destructor on an
\* object that is being deleted.
LEMMA Works ==
  ASSUME IInv, NEW n \in DOMAIN stack, stack[n].pc # "take"
  PROVE  /\ stack[n].s \in Slot
         /\ slot[stack[n].s] \in Obj
         /\ stack[n].pc = "destroy" => obj[slot[stack[n].s]] = "dying"
<1>1. stack[n] \in Frame /\ stack[n].s \in Slot
  BY FrameFields DEF IInv, TypeOK
<1>2. slot[stack[n].s] \in Obj
  BY <1>1 DEF IInv, TypeOK, Call
<1> QED BY <1>1, <1>2 DEF IInv, Life

\* The slot of a call is that of the outermost one or a member of an object
\* that is being deleted.
LEMMA CallSlot ==
  ASSUME IInv, NEW n \in DOMAIN stack, stack[n].s # stack[1].s
  PROVE  /\ n > 1 /\ n - 1 \in DOMAIN stack
         /\ stack[n - 1].pc = "destroy"
         /\ stack[n].s \in Member[slot[stack[n - 1].s]]
         /\ slot[stack[n - 1].s] \in Obj
         /\ obj[slot[stack[n - 1].s]] = "dying"
<1>1. Len(stack) \in Nat /\ DOMAIN stack = 1 .. Len(stack)
  BY DEF IInv, TypeOK
<1>2. n \in 1 .. Len(stack) /\ n > 1 /\ n - 1 \in 1 .. Len(stack) /\ n - 1 < Len(stack)
  BY <1>1
<1>3. n - 1 \in DOMAIN stack
  BY <1>1, <1>2
<1>4. /\ stack[n - 1].pc = "take" => n - 1 = 1
      /\ stack[n - 1].pc \in {"take", "destroy"}
  BY <1>2, <1>3, Zenon DEF IInv, Call
<1>5. IF stack[n - 1].pc = "take" THEN stack[n].s = stack[n - 1].s
      ELSE stack[n].s \in Member[slot[stack[n - 1].s]]
  BY <1>2 DEF IInv, Call
<1>6. stack[n - 1].pc # "take"
  BY <1>4, <1>5
<1>7. stack[n - 1].pc = "destroy"
  BY <1>4, <1>6
<1> QED BY <1>2, <1>3, <1>5, <1>6, <1>7, Works, Zenon

\* No call releases a root slot but the outermost one.
LEMMA RootStays ==
  ASSUME IInv, NEW k \in Root, stack # <<>> => k # stack[1].s
  PROVE  k \notin Gone
<1> SUFFICES ASSUME NEW n \in DOMAIN stack, stack[n].s = k
             PROVE  FALSE
  BY DEF Gone
<1>1. stack # <<>>
  BY DEF IInv, TypeOK
<1>2. stack[n].s \in Member[slot[stack[n - 1].s]] /\ slot[stack[n - 1].s] \in Obj
  BY <1>1, CallSlot
<1> QED BY <1>2, Owner

\* A call that has not given up its reference is the only one about its slot.
LEMMA TopHeld ==
  ASSUME IInv, stack # <<>>, Top.pc = "release"
  PROVE  Top.s \notin Gone
<1> SUFFICES ASSUME NEW n \in DOMAIN stack, stack[n].pc \in {"destroy", "free"},
                    stack[n].s = Top.s
             PROVE  FALSE
  BY DEF Gone
<1>1. /\ Len(stack) \in DOMAIN stack /\ Len(stack) \in Nat
      /\ n \in 1 .. Len(stack) /\ Top = stack[Len(stack)]
  BY TopLast DEF IInv
<1>2. n < Len(stack)
  BY <1>1
<1> QED BY <1>1, <1>2 DEF IInv, Nested

\* What a strong reference that is counted does.
LEMMA HeldAlive ==
  ASSUME IInv, NEW o \in Obj, NEW s \in Slot \ Weak, slot[s] = o, s \notin Gone
  PROVE  /\ block[o].sc > 0
         /\ obj[o] = "alive"
         /\ block[o].allocated
<1>1. s \in Strong(o) \ Gone /\ s \in Refs(o)
  BY DEF Strong, Refs
<1>2. Counted(o) /\ Life(o)
  BY DEF IInv
<1>3. block[o].sc > 0
  <2> DEFINE n == Cardinality(Strong(o) \ Gone)
  <2>1. IsFiniteSet(Refs(o)) /\ block[o].sc = n
    BY <1>2, Zenon DEF Counted
  <2>2. n \in Nat /\ n # 0
    BY <1>1, <2>1, CountFinite, Zenon
  <2> HIDE DEF n
  <2> QED BY <2>1, <2>2
<1> QED BY <1>1, <1>2, <1>3 DEF Counted, Life

\* And a weak one.
LEMMA HeldWeakly ==
  ASSUME IInv, NEW o \in Obj, NEW s \in Weak, slot[s] = o, s \notin Gone
  PROVE  block[o].wc > 0
<1>1. s \in Feeble(o) \ Gone
  BY DEF Feeble
<1>2. Counted(o)
  BY DEF IInv
<1>3. Cardinality(Feeble(o) \ Gone) > 0
  <2>1. Cardinality(Feeble(o) \ Gone) \in Nat /\ Cardinality(Feeble(o) \ Gone) # 0
    BY <1>1, <1>2, CountFinite, Zenon DEF Counted
  <2> QED BY <2>1
<1>4. Cardinality(Feeble(o) \ Gone) \in Nat
  BY <1>2, CountFinite, Zenon DEF Counted
<1> QED BY <1>2, <1>3, <1>4 DEF Counted

\* An acquire() in progress will find its object alive.
LEMMA TakenAlive ==
  ASSUME IInv, stack # <<>>, stack[1].pc = "take"
  PROVE  /\ stack[1].ref \in Obj /\ stack[1].s \in Slot
         /\ obj[stack[1].ref] = "alive"
<1>1. stack[1] \in Frame
  BY TopLast DEF IInv
<1>2. stack[1].ref \in Obj /\ stack[1].s \in Slot
  BY <1>1, FrameFields
<1>3. CASE Len(stack) = 1
  BY <1>2, <1>3 DEF IInv, Outermost
<1>4. CASE Len(stack) # 1
  <2>1. PICK k \in Root \ (Weak \cup {stack[1].s}) : slot[k] = stack[1].ref
    BY <1>4 DEF IInv, Outermost
  <2>2. k \notin Gone /\ k \in Slot \ Weak
    BY <2>1, RootStays, Owner, Zenon
  <2> QED BY <1>2, <2>1, <2>2, HeldAlive, Zenon
<1> QED BY <1>2, <1>3, <1>4

\* The owner of the outermost slot is above all objects that are deleted.
LEMMA OwnerAbove ==
  ASSUME IInv, NEW o \in Obj, NEW n \in DOMAIN stack, stack[n].pc # "take",
         stack[n].s \notin Weak, stack[1].s \in Member[o]
  PROVE  Rank[o] < Rank[slot[stack[n].s]]
<1>1. /\ Len(stack) \in Nat /\ DOMAIN stack = 1 .. Len(stack)
      /\ n \in 1 .. Len(stack) /\ 1 \in DOMAIN stack
  BY DEF IInv, TypeOK
<1>2. ASSUME NEW b \in DOMAIN stack, stack[b].s = stack[1].s, stack[b].pc # "take",
             stack[b].s \notin Weak
      PROVE  Rank[o] < Rank[slot[stack[b].s]]
  BY <1>2 DEF IInv, Call, Life
<1>3. CASE stack[n].s = stack[1].s
  BY <1>2, <1>3, Zenon
<1>4. CASE stack[n].s # stack[1].s
  <2>1. PICK b \in DOMAIN stack : b < n /\ stack[b].s = stack[1].s /\ stack[b].pc = "destroy"
    <3>1. CASE stack[1].pc = "take"
      <4>1. n > 2
        BY <1>1, <1>4, <3>1 DEF IInv, Call
      <4>2. 2 \in DOMAIN stack /\ 2 < Len(stack)
        BY <1>1, <4>1
      <4>3. stack[2].s = stack[1].s /\ stack[2].pc = "destroy"
        BY <1>1, <3>1, <4>2 DEF IInv, Call
      <4> QED BY <4>1, <4>2, <4>3, Zenon
    <3>2. CASE stack[1].pc # "take"
      <4>1. n > 1 /\ 1 < Len(stack)
        BY <1>1, <1>4, SMTT(30)
      <4>2. stack[1].pc = "destroy"
        BY <1>1, <3>2, <4>1, Zenon DEF IInv, Call
      <4> QED BY <1>1, <4>1, <4>2
    <3> QED BY <3>1, <3>2
  <2>2. stack[b].s \notin Weak
    BY <2>1 DEF IInv, Call
  <2>3. Rank[o] < Rank[slot[stack[b].s]]
    BY <1>2, <2>1, <2>2, Zenon
  <2>4. Rank[slot[stack[b].s]] < Rank[slot[stack[n].s]]
    BY <2>1 DEF IInv, Nested
  <2>5. slot[stack[b].s] \in Obj /\ slot[stack[n].s] \in Obj
    BY <2>1, Works, Zenon
  <2> QED BY <2>3, <2>4, <2>5, PointerAssumption, SMTT(30)
<1> QED BY <1>3, <1>4

-----------------------------------------------------------------------------
(***************************************************************************)
(* The steps preserve the invariant.                                       *)
(***************************************************************************)
\* The block that the innermost call works on.
LEMMA HereIs ==
  ASSUME IInv, stack # <<>>
  PROVE  /\ Here \in Obj /\ Top.s \in Slot
         /\ Len(stack) \in DOMAIN stack /\ Top = stack[Len(stack)]
         /\ Top.pc # "take" => Here = slot[Top.s]
         /\ Top.pc = "take" => Here = Top.ref /\ Len(stack) = 1
<1>1. /\ Len(stack) \in DOMAIN stack /\ Top = stack[Len(stack)]
      /\ Top \in Frame
  BY TopLast DEF IInv
<1>2. Top.s \in Slot /\ (Top.pc = "take" => Top.ref \in Obj)
  BY <1>1, FrameFields, Zenon
<1>3. CASE Top.pc = "take"
  BY <1>1, <1>2, <1>3, Zenon DEF Here, IInv, Call
<1>4. CASE Top.pc # "take"
  BY <1>1, <1>2, <1>4, Works, Zenon DEF Here
<1> QED BY <1>1, <1>2, <1>3, <1>4, Zenon

\* A call that goes on keeps its place.
LEMMA GotoCalls ==
  ASSUME IInv, stack # <<>>, Top.pc # "take",
         NEW pc \in {"destroy", "free"}, Goto(pc), slot' = slot,
         pc = "destroy" => Top.s \notin Weak,
         \A o \in Obj : obj[o] = "alive" /\ stack[1].s \in Member[o]
                          => obj'[o] = "alive"
  PROVE  /\ \A n \in DOMAIN stack' : Call(n)'
         /\ Nested'
         /\ Outermost'
<1>1. /\ Len(stack) \in Nat /\ Len(stack) >= 1
      /\ DOMAIN stack = 1 .. Len(stack)
      /\ Top = stack[Len(stack)]
  BY TopLast DEF IInv
<1>2. /\ Len(stack') = Len(stack)
      /\ DOMAIN stack' = 1 .. Len(stack)
      /\ \A n \in 1 .. Len(stack) - 1 : stack'[n] = stack[n]
      /\ stack'[Len(stack)].pc = pc
      /\ stack'[Len(stack)].s = Top.s
  BY GotoStack DEF IInv
<1>3. \A n \in 1 .. Len(stack) : /\ stack'[n].s = stack[n].s
                                 /\ stack'[n].pc = "take" <=> stack[n].pc = "take"
                                 /\ n < Len(stack) => stack'[n] = stack[n]
  BY <1>1, <1>2
<1>4. ASSUME NEW n \in DOMAIN stack'
      PROVE  Call(n)'
  <2>1. n \in 1 .. Len(stack) /\ Call(n)
    BY <1>1, <1>2 DEF IInv
  <2>2. n > 1 => n - 1 \in 1 .. Len(stack) /\ n - 1 < Len(stack)
    BY <1>1, <2>1
  <2>3. n > 1 => stack'[n - 1] = stack[n - 1]
    BY <1>3, <2>2, Zenon
  <2>4. stack'[n].pc = "destroy" => stack'[n].s \notin Weak
    BY <1>1, <1>2, <1>3, <2>1, SMTT(30) DEF Call
  <2> QED BY <1>1, <1>2, <1>3, <2>1, <2>3, <2>4, ZenonT(30) DEF Call
<1>5. Nested'
  BY <1>1, <1>2, <1>3, SMTT(30) DEF IInv, Nested
<1>6. Outermost'
  <2>1. 1 \in 1 .. Len(stack)
    BY <1>1
  <2>2. \A o \in Obj : stack[1].s \in Member[o] => obj'[o] = "alive"
    BY DEF IInv, Outermost
  <2>3. CASE stack[1].pc = "take"
    <3>1. 1 < Len(stack) /\ stack'[1] = stack[1]
      BY <1>1, <1>3, <2>1, <2>3, SMTT(30)
    <3> QED BY <1>2, <2>2, <2>3, <3>1, ZenonT(30) DEF IInv, Outermost
  <2>4. CASE stack[1].pc # "take"
    BY <1>3, <2>1, <2>2, <2>4, Zenon DEF Outermost
  <2> QED BY <2>3, <2>4
<1> QED BY <1>4, <1>5, <1>6

\* Which references are given up when a call goes on.
LEMMA GotoGone ==
  ASSUME IInv, stack # <<>>, Top.pc # "take",
         NEW pc \in {"destroy", "free"}, Goto(pc), slot' = slot
  PROVE  /\ Gone' = Gone \cup {Top.s}
         /\ \A o \in Obj : /\ Refs(o)' = Refs(o)
                           /\ (Strong(o) \ Gone)' = (Strong(o) \ Gone) \ {Top.s}
                           /\ (Feeble(o) \ Gone)' = (Feeble(o) \ Gone) \ {Top.s}
         /\ \A o \in Obj :
              (\E n \in DOMAIN stack' : stack'[n].pc = "destroy" /\ slot'[stack'[n].s] = o)
              <=> \/ \E n \in DOMAIN stack : /\ n < Len(stack)
                                             /\ stack[n].pc = "destroy"
                                             /\ slot[stack[n].s] = o
                  \/ pc = "destroy" /\ o = slot[Top.s]
<1>1. /\ Len(stack) \in Nat /\ Len(stack) >= 1
      /\ DOMAIN stack = 1 .. Len(stack)
      /\ Top = stack[Len(stack)]
      /\ Top.s \in Slot
  BY TopLast, FrameFields DEF IInv
<1>2. /\ Len(stack') = Len(stack)
      /\ DOMAIN stack' = 1 .. Len(stack)
      /\ \A n \in 1 .. Len(stack) - 1 : stack'[n] = stack[n]
      /\ stack'[Len(stack)].pc = pc
      /\ stack'[Len(stack)].s = Top.s
  BY GotoStack DEF IInv
<1>3. ASSUME NEW s \in Slot
      PROVE  s \in Gone' <=> s \in Gone \/ s = Top.s
  <2>1. s \in Gone => s \in Gone' \/ s = Top.s
    BY <1>1, <1>2 DEF Gone
  <2>2. Top.s \in Gone'
    BY <1>1, <1>2 DEF Gone
  <2>3. s \in Gone' => s \in Gone \/ s = Top.s
    BY <1>1, <1>2 DEF Gone
  <2> QED BY <2>1, <2>2, <2>3, Zenon
<1>4. Gone' = Gone \cup {Top.s}
  BY <1>1, <1>3 DEF Gone
<1>5. \A o \in Obj : Refs(o)' = Refs(o) /\ Strong(o)' = Strong(o) /\ Feeble(o)' = Feeble(o)
  BY DEF Refs, Strong, Feeble
<1>6. ASSUME NEW o \in Obj
      PROVE  (\E n \in DOMAIN stack' : stack'[n].pc = "destroy" /\ slot'[stack'[n].s] = o)
              <=> \/ \E n \in DOMAIN stack : /\ n < Len(stack)
                                             /\ stack[n].pc = "destroy"
                                             /\ slot[stack[n].s] = o
                  \/ pc = "destroy" /\ o = slot[Top.s]
  BY <1>1, <1>2, SMTT(30)
<1> QED BY <1>4, <1>5, <1>6, SMTT(30)

\* The counted references without slot s.
LEMMA CountWithout ==
  ASSUME NEW o \in Obj, IsFiniteSet(Refs(o)), NEW s \in Slot, s \notin Gone
  PROVE  /\ s \notin Weak /\ slot[s] = o =>
              Cardinality((Strong(o) \ Gone) \ {s}) = Cardinality(Strong(o) \ Gone) - 1
         /\ s \in Weak \/ slot[s] # o =>
              Cardinality((Strong(o) \ Gone) \ {s}) = Cardinality(Strong(o) \ Gone)
         /\ s \in Weak /\ slot[s] = o =>
              Cardinality((Feeble(o) \ Gone) \ {s}) = Cardinality(Feeble(o) \ Gone) - 1
         /\ s \notin Weak \/ slot[s] # o =>
              Cardinality((Feeble(o) \ Gone) \ {s}) = Cardinality(Feeble(o) \ Gone)
<1>1. /\ s \in Strong(o) \ Gone <=> s \notin Weak /\ slot[s] = o
      /\ s \in Feeble(o) \ Gone <=> s \in Weak /\ slot[s] = o
  BY DEF Strong, Feeble
<1>2. /\ IsFiniteSet(Strong(o) \ Gone) /\ IsFiniteSet(Feeble(o) \ Gone)
      /\ Cardinality(Strong(o) \ Gone) \in Nat
      /\ Cardinality(Feeble(o) \ Gone) \in Nat
  BY CountFinite
<1> DEFINE S == Strong(o) \ Gone
           F == Feeble(o) \ Gone
<1> HIDE DEF S, F
<1>3. /\ Cardinality(S \ {s}) = IF s \in S THEN Cardinality(S) - 1 ELSE Cardinality(S)
      /\ Cardinality(F \ {s}) = IF s \in F THEN Cardinality(F) - 1 ELSE Cardinality(F)
  BY <1>2, FS_RemoveElement, Zenon DEF S, F
<1> QED BY <1>1, <1>2, <1>3 DEF S, F

\* release() of a reference that is not the last strong one.
LEMMA ReleaseSharedKeeps ==
  ASSUME IInv, ReleaseShared
  PROVE  IInv'
<1> DEFINE t == Top.s
           h == slot[Top.s]
           w == Top.s \in Weak
<1>1. /\ stack # <<>> /\ Top.pc = "release" /\ Goto("free")
      /\ slot' = slot /\ obj' = obj
      /\ t \in Slot /\ h \in Obj /\ Here = h
      /\ Len(stack) \in DOMAIN stack /\ Top = stack[Len(stack)]
      /\ ~w => block[h].sc > 1
  BY HereIs DEF ReleaseShared, At
<1>2. t \notin Gone
  BY <1>1, TopHeld, ZenonT(30)
<1>3. /\ block' \in [Obj -> [allocated : BOOLEAN, sc : Int, wc : Int]]
      /\ block'[h].sc = block[h].sc - (IF w THEN 0 ELSE 1)
      /\ block'[h].wc = block[h].wc - (IF w THEN 1 ELSE 0)
      /\ block'[h].allocated = block[h].allocated
      /\ \A q \in Obj : q # h => block'[q] = block[q]
  <2>0. TypeOK /\ block[h].sc \in Int /\ block[h].wc \in Int
    BY <1>1, ZenonT(30) DEF IInv, TypeOK
  <2>1. CASE w
    <3>1. block' = Adds(h, 0, -1)
      BY <1>1, <2>1, ZenonT(30) DEF ReleaseShared
    <3> QED BY <1>1, <2>0, <2>1, <3>1, AddsBlock, SMTT(30)
  <2>2. CASE ~w
    <3>1. block' = Adds(h, -1, 0)
      BY <1>1, <2>2, ZenonT(30) DEF ReleaseShared
    <3> QED BY <1>1, <2>0, <2>2, <3>1, AddsBlock, SMTT(30)
  <2> QED BY <2>1, <2>2
<1>4. TypeOK'
  BY <1>1, <1>3, GotoStack, Zenon DEF IInv, TypeOK
<1>5. /\ \A n \in DOMAIN stack' : Call(n)'
      /\ Nested' /\ Outermost'
  BY <1>1, GotoCalls, Zenon
<1>6. \A o \in Obj : /\ Refs(o)' = Refs(o)
                     /\ (Strong(o) \ Gone)' = (Strong(o) \ Gone) \ {t}
                     /\ (Feeble(o) \ Gone)' = (Feeble(o) \ Gone) \ {t}
  BY <1>1, GotoGone, Zenon
<1>7. ASSUME NEW o \in Obj
      PROVE  Counted(o)' /\ Life(o)'
  <2>1. Counted(o) /\ Life(o) /\ block[o].sc \in Int /\ block[o].wc \in Int
    BY DEF IInv, TypeOK
  <2>2. /\ Cardinality((Strong(o) \ Gone)') = Cardinality(Strong(o) \ Gone)
                                                - (IF ~w /\ h = o THEN 1 ELSE 0)
        /\ Cardinality((Feeble(o) \ Gone)') = Cardinality(Feeble(o) \ Gone)
                                                - (IF w /\ h = o THEN 1 ELSE 0)
    <3>1. /\ ~w /\ h = o => Cardinality((Strong(o) \ Gone) \ {t}) = Cardinality(Strong(o) \ Gone) - 1
          /\ w \/ h # o => Cardinality((Strong(o) \ Gone) \ {t}) = Cardinality(Strong(o) \ Gone)
          /\ w /\ h = o => Cardinality((Feeble(o) \ Gone) \ {t}) = Cardinality(Feeble(o) \ Gone) - 1
          /\ ~w \/ h # o => Cardinality((Feeble(o) \ Gone) \ {t}) = Cardinality(Feeble(o) \ Gone)
      BY <1>1, <1>2, <2>1, CountWithout, Zenon DEF Counted
    <3>2. Cardinality(Strong(o) \ Gone) \in Nat /\ Cardinality(Feeble(o) \ Gone) \in Nat
      BY <2>1, CountFinite DEF Counted
    <3>3. /\ Cardinality((Strong(o) \ Gone)') = Cardinality((Strong(o) \ Gone) \ {t})
          /\ Cardinality((Feeble(o) \ Gone)') = Cardinality((Feeble(o) \ Gone) \ {t})
      BY <1>6, Zenon
    <3> QED BY <3>1, <3>2, <3>3
  <2>3. /\ block'[o].sc = block[o].sc - (IF ~w /\ h = o THEN 1 ELSE 0)
        /\ block'[o].wc = block[o].wc - (IF w /\ h = o THEN 1 ELSE 0)
        /\ block'[o].allocated = block[o].allocated
    BY <1>3, <2>1
  <2>4. /\ Cardinality(Strong(o) \ Gone) \in Nat
        /\ Cardinality(Feeble(o) \ Gone) \in Nat
    BY <2>1, CountFinite, ZenonT(30) DEF Counted
  <2>5. Counted(o)'
    BY <1>1, <1>6, <2>1, <2>2, <2>3, <2>4, SMTT(30) DEF Counted
  <2>6. (\E n \in DOMAIN stack' : stack'[n].pc = "destroy" /\ slot'[stack'[n].s] = o)
        <=> \E n \in DOMAIN stack : /\ n < Len(stack)
                                    /\ stack[n].pc = "destroy"
                                    /\ slot[stack[n].s] = o
    BY <1>1, GotoGone, Zenon
  <2>7. (\E n \in DOMAIN stack : stack[n].pc = "destroy" /\ slot[stack[n].s] = o)
        <=> \E n \in DOMAIN stack : /\ n < Len(stack)
                                    /\ stack[n].pc = "destroy"
                                    /\ slot[stack[n].s] = o
    BY <1>1, TopLast, SMTT(30) DEF IInv
  <2>8. block'[o].sc > 0 <=> block[o].sc > 0
    BY <1>1, <2>1, <2>3, SMTT(30)
  <2>9. obj'[o] = "dying" <=> \E n \in DOMAIN stack' : stack'[n].pc = "destroy" /\ slot'[stack'[n].s] = o
    BY <1>1, <2>1, <2>6, <2>7, Zenon DEF Life
  <2> QED BY <1>1, <1>6, <2>1, <2>5, <2>8, <2>9, Zenon DEF Life
<1> QED BY <1>4, <1>5, <1>7, Zenon DEF IInv

\* release() of the last strong one.
LEMMA ReleaseLastKeeps ==
  ASSUME IInv, ReleaseLast
  PROVE  IInv'
<1> DEFINE t == Top.s
           h == slot[Top.s]
<1>1. /\ stack # <<>> /\ Top.pc = "release" /\ Goto("destroy")
      /\ slot' = slot /\ obj' = [obj EXCEPT ![h] = "dying"]
      /\ t \in Slot /\ h \in Obj /\ Here = h
      /\ Len(stack) \in DOMAIN stack /\ Top = stack[Len(stack)]
      /\ t \notin Weak /\ block[h].sc = 1 /\ block' = Adds(h, -1, 1)
  BY HereIs, Zenon DEF ReleaseLast, At
<1>2. t \notin Gone
  BY <1>1, TopHeld, ZenonT(30)
<1>3. /\ block' \in [Obj -> [allocated : BOOLEAN, sc : Int, wc : Int]]
      /\ block'[h].sc = block[h].sc - 1
      /\ block'[h].wc = block[h].wc + 1
      /\ block'[h].allocated = block[h].allocated
      /\ \A q \in Obj : q # h => block'[q] = block[q]
  <2>1. TypeOK /\ block[h].sc \in Int
    BY <1>1, Zenon DEF IInv, TypeOK
  <2>2. -1 \in Int /\ 1 \in Int
    OBVIOUS
  <2>3. /\ block' \in [Obj -> [allocated : BOOLEAN, sc : Int, wc : Int]]
        /\ block'[h].sc = block[h].sc + (-1)
        /\ block'[h].wc = block[h].wc + 1
        /\ block'[h].allocated = block[h].allocated
        /\ \A q \in Obj : q # h => block'[q] = block[q]
    <3>1. h \in Obj /\ block' = Adds(h, -1, 1)
      BY <1>1, Zenon
    <3>2. LET B == Adds(h, -1, 1) IN
          /\ B \in [Obj -> [allocated : BOOLEAN, sc : Int, wc : Int]]
          /\ B[h].sc = block[h].sc + (-1)
          /\ B[h].wc = block[h].wc + 1
          /\ B[h].allocated = block[h].allocated
          /\ \A q \in Obj : q # h => B[q] = block[q]
      BY <2>1, <2>2, <3>1, AddsBlock, ZenonT(30)
    <3> QED BY <3>1, <3>2, Zenon
  <2> QED BY <2>1, <2>3
<1>4. TypeOK'
  BY <1>1, <1>3, GotoStack, Zenon DEF IInv, TypeOK
<1>5. obj[h] = "alive" /\ obj'[h] = "dying" /\ \A q \in Obj : q # h => obj'[q] = obj[q]
  BY <1>1 DEF IInv, TypeOK, Life
<1>6. \A o \in Obj : obj[o] = "alive" /\ stack[1].s \in Member[o] => obj'[o] = "alive"
  <2>1. ASSUME NEW o \in Obj, stack[1].s \in Member[o] PROVE o # h
    <3>1. Rank[o] < Rank[h]
      BY <1>1, <2>1, OwnerAbove, Zenon
    <3> QED BY <3>1, <1>1, PointerAssumption
  <2> QED BY <1>5, <2>1, Zenon
<1>7. /\ \A n \in DOMAIN stack' : Call(n)'
      /\ Nested' /\ Outermost'
  BY <1>1, <1>6, GotoCalls, Zenon
<1>8. \A o \in Obj : /\ Refs(o)' = Refs(o)
                     /\ (Strong(o) \ Gone)' = (Strong(o) \ Gone) \ {t}
                     /\ (Feeble(o) \ Gone)' = (Feeble(o) \ Gone) \ {t}
  BY <1>1, GotoGone, Zenon
<1>9. ASSUME NEW o \in Obj
      PROVE  Counted(o)' /\ Life(o)'
  <2>1. Counted(o) /\ Life(o) /\ block[o].sc \in Int /\ block[o].wc \in Int
    BY DEF IInv, TypeOK
  <2>2. /\ Cardinality((Strong(o) \ Gone)') = Cardinality(Strong(o) \ Gone)
                                                - (IF h = o THEN 1 ELSE 0)
        /\ Cardinality((Feeble(o) \ Gone)') = Cardinality(Feeble(o) \ Gone)
    <3>1. /\ h = o => Cardinality((Strong(o) \ Gone) \ {t}) = Cardinality(Strong(o) \ Gone) - 1
          /\ h # o => Cardinality((Strong(o) \ Gone) \ {t}) = Cardinality(Strong(o) \ Gone)
          /\ Cardinality((Feeble(o) \ Gone) \ {t}) = Cardinality(Feeble(o) \ Gone)
      BY <1>1, <1>2, <2>1, CountWithout, Zenon DEF Counted
    <3>2. Cardinality(Strong(o) \ Gone) \in Nat
      BY <2>1, CountFinite, ZenonT(30) DEF Counted
    <3>3. /\ Cardinality((Strong(o) \ Gone)') = Cardinality((Strong(o) \ Gone) \ {t})
          /\ Cardinality((Feeble(o) \ Gone)') = Cardinality((Feeble(o) \ Gone) \ {t})
      BY <1>8, Zenon
    <3> QED BY <3>1, <3>2, <3>3
  <2>3. /\ block'[o].sc = block[o].sc - (IF h = o THEN 1 ELSE 0)
        /\ block'[o].wc = block[o].wc + (IF h = o THEN 1 ELSE 0)
        /\ block'[o].allocated = block[o].allocated
    BY <1>3, <2>1, SMTT(30)
  <2>4. /\ Cardinality(Strong(o) \ Gone) \in Nat
        /\ Cardinality(Feeble(o) \ Gone) \in Nat
    BY <2>1, CountFinite DEF Counted
  <2>5. Counted(o)'
    <3> DEFINE sc == Cardinality(Strong(o) \ Gone)
               wc == Cardinality(Feeble(o) \ Gone)
    <3>1. /\ IsFiniteSet(Refs(o)) /\ block[o].sc = sc
          /\ block[o].wc = wc + (IF obj[o] = "dying" THEN 1 ELSE 0)
          /\ block[o].allocated <=> Refs(o) # {}
      BY <2>1, Zenon DEF Counted
    <3>2. Refs(o)' = Refs(o)
      BY <1>8, Zenon
    <3>3. /\ h = o => obj[o] # "dying" /\ obj'[o] = "dying"
          /\ h # o => obj'[o] = obj[o]
      BY <1>5
    <3>4. /\ Cardinality((Strong(o) \ Gone)') = sc - (IF h = o THEN 1 ELSE 0)
          /\ Cardinality((Feeble(o) \ Gone)') = wc
          /\ sc \in Nat /\ wc \in Nat
      BY <2>2, <2>4, Zenon
    <3> HIDE DEF sc, wc
    <3>5. /\ block'[o].sc = sc - (IF h = o THEN 1 ELSE 0)
          /\ block'[o].wc = wc + (IF obj'[o] = "dying" THEN 1 ELSE 0)
      BY <2>3, <3>1, <3>3, <3>4, SMTT(30)
    <3>6. IsFiniteSet(Refs(o)') /\ (block'[o].allocated <=> Refs(o)' # {})
      BY <2>3, <3>1, <3>2, Zenon
    <3> QED BY <3>4, <3>5, <3>6, Zenon DEF Counted
  <2>6. (\E n \in DOMAIN stack' : stack'[n].pc = "destroy" /\ slot'[stack'[n].s] = o)
        <=> \/ \E n \in DOMAIN stack : /\ n < Len(stack)
                                       /\ stack[n].pc = "destroy"
                                       /\ slot[stack[n].s] = o
            \/ o = h
    BY <1>1, GotoGone, ZenonT(30)
  <2>7. (\E n \in DOMAIN stack : stack[n].pc = "destroy" /\ slot[stack[n].s] = o)
        <=> \E n \in DOMAIN stack : /\ n < Len(stack)
                                    /\ stack[n].pc = "destroy"
                                    /\ slot[stack[n].s] = o
    BY <1>1, TopLast, SMTT(30) DEF IInv
  <2>8. obj'[o] = "alive" <=> block'[o].sc > 0
    BY <1>1, <1>5, <2>1, <2>3, SMTT(30) DEF Life
  <2>9. obj'[o] = "dying" <=> \E n \in DOMAIN stack' : stack'[n].pc = "destroy" /\ slot'[stack'[n].s] = o
    BY <1>5, <2>1, <2>6, <2>7, Zenon DEF Life
  <2>10. obj'[o] \in {"unborn", "dead"} => obj'[o] = obj[o]
    BY <1>5, Zenon
  <2> QED BY <1>1, <1>8, <2>1, <2>5, <2>8, <2>9, <2>10, ZenonT(30) DEF Life
<1> QED BY <1>4, <1>7, <1>9 DEF IInv

\* The destructor returns.
LEMMA DestroyedKeeps ==
  ASSUME IInv, Destroyed
  PROVE  IInv'
<1> DEFINE t == Top.s
           h == slot[Top.s]
<1>1. /\ stack # <<>> /\ Top.pc = "destroy" /\ Goto("free")
      /\ slot' = slot /\ obj' = [obj EXCEPT ![h] = "dead"]
      /\ t \in Slot /\ h \in Obj /\ Here = h
      /\ Len(stack) \in DOMAIN stack /\ Top = stack[Len(stack)]
      /\ block' = Adds(h, 0, -1)
      /\ \A m \in Member[h] : slot[m] = NoObj
  BY HereIs, Zenon DEF Destroyed, At
<1>2. t \in Gone /\ t \notin Weak /\ obj[h] = "dying"
  BY <1>1, Works, Zenon DEF Gone, IInv, Call
<1>3. /\ block' \in [Obj -> [allocated : BOOLEAN, sc : Int, wc : Int]]
      /\ block'[h].sc = block[h].sc
      /\ block'[h].wc = block[h].wc - 1
      /\ block'[h].allocated = block[h].allocated
      /\ \A q \in Obj : q # h => block'[q] = block[q]
  <2>1. TypeOK /\ block[h].sc \in Int /\ block[h].wc \in Int
    BY <1>1 DEF IInv, TypeOK
  <2>2. 0 \in Int /\ -1 \in Int
    BY SMTT(30)
  <2>3. /\ block' \in [Obj -> [allocated : BOOLEAN, sc : Int, wc : Int]]
        /\ block'[h].sc = block[h].sc + 0
        /\ block'[h].wc = block[h].wc + (-1)
        /\ block'[h].allocated = block[h].allocated
        /\ \A q \in Obj : q # h => block'[q] = block[q]
    BY <1>1, <2>1, <2>2, AddsBlock, SMTT(30)
  <2> QED BY <2>1, <2>3, SMTT(30)
<1>4. TypeOK'
  BY <1>1, <1>3, GotoStack, Zenon DEF IInv, TypeOK
<1>5. obj'[h] = "dead" /\ \A q \in Obj : q # h => obj'[q] = obj[q]
  BY <1>1 DEF IInv, TypeOK
<1>6. /\ \A n \in DOMAIN stack' : Call(n)'
      /\ Nested' /\ Outermost'
  BY <1>1, <1>2, <1>5, GotoCalls, Zenon
<1>7. \A o \in Obj : /\ Refs(o)' = Refs(o)
                     /\ (Strong(o) \ Gone)' = Strong(o) \ Gone
                     /\ (Feeble(o) \ Gone)' = Feeble(o) \ Gone
  BY <1>1, <1>2, GotoGone, SMTT(30)
<1>8. ASSUME NEW n \in DOMAIN stack, n < Len(stack), stack[n].pc = "destroy"
      PROVE  slot[stack[n].s] # h
  <2>1. Rank[slot[stack[n].s]] < Rank[h]
    BY <1>1, <1>2, <1>8, Zenon DEF IInv, Nested
  <2> QED BY <1>1, <2>1, PointerAssumption
<1>9. ASSUME NEW o \in Obj
      PROVE  Counted(o)' /\ Life(o)'
  <2>1. Counted(o) /\ Life(o) /\ block[o].sc \in Int /\ block[o].wc \in Int
    BY DEF IInv, TypeOK
  <2>2. /\ Cardinality((Strong(o) \ Gone)') = Cardinality(Strong(o) \ Gone)
        /\ Cardinality((Feeble(o) \ Gone)') = Cardinality(Feeble(o) \ Gone)
    BY <1>7, ZenonT(30)
  <2>3. /\ Cardinality(Strong(o) \ Gone) \in Nat
        /\ Cardinality(Feeble(o) \ Gone) \in Nat
    BY <2>1, CountFinite DEF Counted
  <2>4. Counted(o)'
    <3>1. CASE o = h
      BY <1>2, <1>3, <1>5, <1>7, <2>1, <2>2, <2>3, <3>1, SMTT(30) DEF Counted
    <3>2. CASE o # h
      BY <1>3, <1>5, <1>7, <2>1, <2>2, <2>3, <3>2, Zenon DEF Counted
    <3> QED BY <3>1, <3>2, Zenon
  <2>5. (\E n \in DOMAIN stack' : stack'[n].pc = "destroy" /\ slot'[stack'[n].s] = o)
        <=> \E n \in DOMAIN stack : /\ n < Len(stack)
                                    /\ stack[n].pc = "destroy"
                                    /\ slot[stack[n].s] = o
    BY <1>1, GotoGone, Zenon
  <2>6. \A n \in DOMAIN stack : n < Len(stack) \/ n = Len(stack)
    BY <1>1, TopLast DEF IInv
  <2>7. obj'[o] = "dying" <=> \E n \in DOMAIN stack' : stack'[n].pc = "destroy" /\ slot'[stack'[n].s] = o
    <3>1. CASE o = h
      BY <1>5, <1>8, <2>5, <3>1, Zenon
    <3>2. CASE o # h
      BY <1>1, <1>5, <2>1, <2>5, <2>6, <3>2, Zenon DEF Life
    <3> QED BY <3>1, <3>2, Zenon
  <2>8. obj'[o] = "alive" <=> block'[o].sc > 0
    BY <1>2, <1>3, <1>5, <2>1, Zenon DEF Life
  <2>9. obj'[o] \in {"unborn", "dead"} => \A m \in Member[o] : slot[m] = NoObj
    BY <1>1, <1>5, <2>1, Zenon DEF Life
  <2>10. obj'[o] = "unborn" => obj[o] = "unborn"
    BY <1>5
  <2> QED BY <1>1, <1>7, <2>1, <2>4, <2>7, <2>8, <2>9, <2>10, ZenonT(30) DEF Life
<1> QED BY <1>4, <1>6, <1>9 DEF IInv

\* The destructor releases a member.
LEMMA DestroyMemberKeeps ==
  ASSUME IInv, NEW m \in Slot, DestroyMember(m)
  PROVE  IInv'
<1> DEFINE h == slot[Top.s]
           L == Len(stack)
<1>1. /\ stack # <<>> /\ Top.pc = "destroy" /\ stack' = Append(stack, release(m))
      /\ slot' = slot /\ obj' = obj /\ block' = block
      /\ Top.s \in Slot /\ h \in Obj /\ Here = h
      /\ L \in DOMAIN stack /\ Top = stack[L]
      /\ m \in Member[h] /\ slot[m] # NoObj
  BY HereIs DEF DestroyMember, At
<1>2. L \in Nat /\ L >= 1 /\ DOMAIN stack = 1 .. L
  BY <1>1, TopLast, Zenon DEF IInv
<1>3. obj[h] = "dying" /\ Top.s \notin Weak
  BY <1>1, Works, Zenon DEF IInv, Call
<1>4. /\ stack' \in Seq(Frame)
      /\ Len(stack') = L + 1
      /\ DOMAIN stack' = 1 .. L + 1
      /\ \A n \in 1 .. L : stack'[n] = stack[n]
      /\ stack'[L + 1].pc = "release" /\ stack'[L + 1].s = m
  BY <1>1, PushStack DEF IInv
<1> HIDE DEF L
<1>5. Gone' = Gone
  <2>1. ASSUME NEW s \in Slot PROVE s \in Gone' <=> s \in Gone
    BY <1>2, <1>4 DEF Gone
  <2> QED BY <2>1 DEF Gone
<1>6. ASSUME NEW o \in Obj
      PROVE  Counted(o)' /\ Life(o)'
  <2>1. Counted(o) /\ Life(o)
    BY DEF IInv
  <2>2. Refs(o)' = Refs(o) /\ Strong(o)' = Strong(o) /\ Feeble(o)' = Feeble(o)
    BY <1>1 DEF Refs, Strong, Feeble
  <2>3. (\E n \in DOMAIN stack' : stack'[n].pc = "destroy" /\ slot'[stack'[n].s] = o)
        <=> \E n \in DOMAIN stack : stack[n].pc = "destroy" /\ slot[stack[n].s] = o
    BY <1>1, <1>2, <1>4
  <2>4. /\ Cardinality((Strong(o) \ Gone)') = Cardinality(Strong(o) \ Gone)
        /\ Cardinality((Feeble(o) \ Gone)') = Cardinality(Feeble(o) \ Gone)
    BY <1>5, <2>2, Zenon
  <2>5. Counted(o)'
    BY <1>1, <2>1, <2>2, <2>4, Zenon DEF Counted
  <2> QED BY <1>1, <2>1, <2>2, <2>3, <2>5, Zenon DEF Life
<1>7. ASSUME NEW n \in DOMAIN stack'
      PROVE  Call(n)'
  <2>1. CASE n = L + 1
    <3>1. n - 1 = L /\ stack'[n - 1] = stack[L]
      BY <1>2, <1>4, <2>1, SMTT(30)
    <3> QED BY <1>1, <1>2, <1>4, <2>1, <3>1, SMTT(30) DEF Call
  <2>2. CASE n # L + 1
    <3>1. n \in 1 .. L /\ (n > 1 => n - 1 \in 1 .. L)
      BY <1>2, <1>4, <2>2
    <3>2. Call(n) /\ stack'[n] = stack[n] /\ (n > 1 => stack'[n - 1] = stack[n - 1])
      BY <1>2, <1>4, <3>1, Zenon DEF IInv
    <3>3. stack[n].pc \in {"take", "destroy"}
      BY <1>1, <1>2, <3>1, <3>2, SMTT(30) DEF Call, L
    <3> QED BY <1>1, <3>2, <3>3, Zenon DEF Call
  <2> QED BY <2>1, <2>2, Zenon
<1>8. ASSUME NEW n \in 1 .. L, stack[n].pc # "take"
      PROVE  stack[n].s # m
  <2>1. SUFFICES ASSUME stack[n].s = m PROVE FALSE
    OBVIOUS
  <2>2. stack[1].s # m
    BY <1>1, <1>3, Zenon DEF IInv, Outermost
  <2>3. /\ n > 1 /\ n - 1 \in DOMAIN stack
        /\ stack[n - 1].pc = "destroy"
        /\ m \in Member[slot[stack[n - 1].s]]
        /\ slot[stack[n - 1].s] \in Obj
    BY <1>2, <2>1, <2>2, CallSlot, Zenon
  <2>4. slot[stack[n - 1].s] = h
    BY <1>1, <2>3, Owner, SMTT(30)
  <2>5. n - 1 < L
    BY <1>2
  <2>6. Rank[h] < Rank[h]
    BY <1>1, <1>3, <2>3, <2>4, <2>5, Zenon DEF IInv, Nested
  <2> QED BY <1>1, <2>6, PointerAssumption
<1>9. ASSUME NEW n \in 1 .. L, stack[n].pc # "take", m \notin Weak
      PROVE  Rank[slot[stack[n].s]] < Rank[slot[m]]
  <2>1. Rank[h] < Rank[slot[m]]
    BY <1>1, <1>9, Zenon DEF IInv, Life
  <2>2. CASE n = L
    BY <1>1, <2>1, <2>2, Zenon
  <2>3. CASE n # L
    <3>1. Rank[slot[stack[n].s]] < Rank[h]
      BY <1>1, <1>2, <1>3, <1>9, <2>3 DEF IInv, Nested
    <3>2. slot[stack[n].s] \in Obj /\ slot[m] \in Obj
      BY <1>1, <1>2, <1>9, Works, Zenon DEF IInv, TypeOK
    <3> QED BY <1>1, <2>1, <3>1, <3>2, PointerAssumption, SMTT(30)
  <2> QED BY <2>2, <2>3, Zenon
<1>10. Nested'
  <2> SUFFICES ASSUME NEW n \in DOMAIN stack', NEW k \in DOMAIN stack',
                      n < k, stack'[n].pc # "take"
               PROVE  /\ stack'[n].s # stack'[k].s
                      /\ stack'[k].s \notin Weak
                           => Rank[slot'[stack'[n].s]] < Rank[slot'[stack'[k].s]]
    BY DEF Nested
  <2>1. n \in 1 .. L /\ stack'[n] = stack[n]
    BY <1>2, <1>4
  <2>2. CASE k = L + 1
    BY <1>1, <1>4, <1>8, <1>9, <2>1, <2>2, ZenonT(30)
  <2>3. CASE k # L + 1
    <3>1. k \in 1 .. L /\ stack'[k] = stack[k]
      BY <1>2, <1>4, <2>3, SMTT(30)
    <3> QED BY <1>1, <1>2, <2>1, <3>1, SMTT(30) DEF IInv, Nested
  <2> QED BY <2>2, <2>3, Zenon
<1>11. Outermost'
  <2>1. stack'[1] = stack[1] /\ Len(stack') # 1
    BY <1>2, <1>4
  <2>2. stack[1].pc = "take" => L # 1
    BY <1>1, Zenon
  <2> QED BY <1>1, <2>1, <2>2, Zenon DEF IInv, Outermost, L
<1>12. TypeOK'
  BY <1>1, <1>4 DEF IInv, TypeOK
<1> QED BY <1>6, <1>7, <1>10, <1>11, <1>12, Zenon DEF IInv

\* The end of release().
LEMMA FreeKeeps ==
  ASSUME IInv, Free
  PROVE  IInv'
<1> DEFINE t == Top.s
           h == slot[Top.s]
           L == Len(stack)
<1>1. /\ stack # <<>> /\ Top.pc = "free" /\ Return
      /\ slot' = [slot EXCEPT ![t] = NoObj] /\ obj' = obj
      /\ t \in Slot /\ h \in Obj /\ Here = h
      /\ L \in DOMAIN stack /\ Top = stack[L]
      /\ block' = [block EXCEPT ![h].allocated =
                     @ /\ (block[h].sc > 0 \/ block[h].wc > 0)]
  BY HereIs, Zenon DEF Free, At
<1>2. L \in Nat /\ L >= 1 /\ DOMAIN stack = 1 .. L
  BY <1>1, TopLast, Zenon DEF IInv
<1>3. /\ stack' \in Seq(Frame)
      /\ Len(stack') = L - 1
      /\ DOMAIN stack' = 1 .. L - 1
      /\ \A n \in 1 .. L - 1 : stack'[n] = stack[n]
  BY <1>1, ReturnStack DEF IInv
<1> HIDE DEF L
<1>4. /\ block' \in [Obj -> [allocated : BOOLEAN, sc : Int, wc : Int]]
      /\ \A q \in Obj : block'[q].sc = block[q].sc /\ block'[q].wc = block[q].wc
      /\ \A q \in Obj : q # h => block'[q].allocated = block[q].allocated
      /\ block'[h].allocated <=> block[h].allocated /\ (block[h].sc > 0 \/ block[h].wc > 0)
  BY <1>1, ZenonT(30) DEF IInv, TypeOK
<1>5. slot'[t] = NoObj /\ \A s \in Slot : s # t => slot'[s] = slot[s]
  BY <1>1 DEF IInv, TypeOK
<1>6. t \in Gone
  BY <1>1 DEF Gone
<1>7. ASSUME NEW n \in 1 .. L - 1, stack[n].pc # "take"
      PROVE  stack[n].s # t /\ stack[n].s \in Slot
  <2>1. n \in DOMAIN stack /\ n < L
    BY <1>2
  <2> QED BY <1>1, <1>7, <2>1, Works DEF IInv, Nested
<1>8. Gone' = Gone \ {t}
  <2>1. ASSUME NEW s \in Gone, s # t PROVE s \in Gone'
    <3>1. PICK n \in DOMAIN stack : stack[n].pc \in {"destroy", "free"} /\ stack[n].s = s
      BY DEF Gone
    <3>2. n \in 1 .. L - 1
      BY <1>1, <1>2, <2>1, <3>1
    <3> QED BY <1>3, <3>1, <3>2 DEF Gone
  <2>2. ASSUME NEW s \in Gone' PROVE s \in Gone /\ s # t
    <3>1. PICK n \in DOMAIN stack' : stack'[n].pc \in {"destroy", "free"} /\ stack'[n].s = s
      BY DEF Gone
    <3>2. n \in 1 .. L - 1 /\ stack'[n] = stack[n] /\ n \in DOMAIN stack
      BY <1>2, <1>3
    <3> QED BY <1>7, <3>1, <3>2, Zenon DEF Gone
  <2> QED BY <2>1, <2>2
<1>9. \A o \in Obj : /\ Refs(o)' = Refs(o) \ {t}
                     /\ (Strong(o) \ Gone)' = Strong(o) \ Gone
                     /\ (Feeble(o) \ Gone)' = Feeble(o) \ Gone
  <2> SUFFICES ASSUME NEW o \in Obj
               PROVE  /\ Refs(o)' = Refs(o) \ {t}
                      /\ (Strong(o) \ Gone)' = Strong(o) \ Gone
                      /\ (Feeble(o) \ Gone)' = Feeble(o) \ Gone
    OBVIOUS
  <2>1. o # NoObj /\ Weak \subseteq Slot
    BY PointerAssumption
  <2>2. Refs(o)' = Refs(o) \ {t}
    BY <1>5, <2>1 DEF Refs
  <2>3. (Strong(o) \ Gone)' = Strong(o) \ Gone
    BY <1>5, <1>6, <1>8, <2>1, Zenon DEF Strong
  <2>4. (Feeble(o) \ Gone)' = Feeble(o) \ Gone
    BY <1>5, <1>6, <1>8, <2>1, Zenon DEF Feeble
  <2> QED BY <2>2, <2>3, <2>4, Zenon
<1>10. block'[h].allocated <=> Refs(h) \ {t} # {}
  <2>1. Counted(h) /\ Life(h)
    BY <1>1 DEF IInv
  <2>2. /\ Cardinality(Strong(h) \ Gone) \in Nat
        /\ Cardinality(Feeble(h) \ Gone) \in Nat
        /\ Cardinality(Strong(h) \ Gone) = 0 <=> Strong(h) \ Gone = {}
        /\ Cardinality(Feeble(h) \ Gone) = 0 <=> Feeble(h) \ Gone = {}
    BY <1>1, <2>1, CountFinite, Zenon DEF Counted
  <2>3. block[h].allocated
    BY <1>1, <2>1, ZenonT(30) DEF Counted, Refs
  <2>4. block[h].sc > 0 <=> Strong(h) \ Gone # {}
    BY <2>1, <2>2, SMTT(30) DEF Counted
  <2>5. block[h].wc > 0 <=> Feeble(h) \ Gone # {} \/ obj[h] = "dying"
    BY <2>1, <2>2, SMTT(30) DEF Counted
  <2>6. obj[h] = "dying" <=> \E n \in 1 .. L - 1 : stack[n].pc = "destroy" /\ slot[stack[n].s] = h
    BY <1>1, <1>2, <2>1 DEF Life
  <2>7. ASSUME NEW s \in Refs(h), s # t
        PROVE  s \in Strong(h) \ Gone \/ s \in Feeble(h) \ Gone \/ obj[h] = "dying"
    <3>1. CASE s \notin Gone
      BY <3>1 DEF Refs, Strong, Feeble
    <3>2. CASE s \in Gone
      <4>1. PICK n \in DOMAIN stack : stack[n].pc \in {"destroy", "free"} /\ stack[n].s = s
        BY <3>2, Zenon DEF Gone
      <4>2. n \in 1 .. L - 1 /\ n < L
        BY <1>1, <1>2, <2>7, <4>1, SMTT(30)
      <4>3. stack[n].pc = "destroy"
        BY <4>1, <4>2, Zenon DEF IInv, Call, L
      <4> QED BY <2>6, <4>1, <4>2, <4>3, Zenon DEF Refs
    <3> QED BY <3>1, <3>2, Zenon
  <2>8. Strong(h) \ Gone \subseteq Refs(h) \ {t} /\ Feeble(h) \ Gone \subseteq Refs(h) \ {t}
    BY <1>6, PointerAssumption, Zenon DEF Strong, Feeble, Refs
  <2>9. obj[h] = "dying" => Refs(h) \ {t} # {}
    BY <1>7, <2>6, Zenon DEF Refs
  <2>10. block'[h].allocated <=> Strong(h) \ Gone # {} \/ Feeble(h) \ Gone # {} \/ obj[h] = "dying"
    BY <1>4, <2>3, <2>4, <2>5, Zenon
  <2> HIDE DEF h, t
  <2> QED BY <2>7, <2>8, <2>9, <2>10, Zenon
<1>11. ASSUME NEW o \in Obj
      PROVE  Counted(o)' /\ Life(o)'
  <2>1. Counted(o) /\ Life(o) /\ block[o].sc \in Int /\ block[o].wc \in Int
    BY DEF IInv, TypeOK
  <2>2. /\ Cardinality((Strong(o) \ Gone)') = Cardinality(Strong(o) \ Gone)
        /\ Cardinality((Feeble(o) \ Gone)') = Cardinality(Feeble(o) \ Gone)
    BY <1>9, Zenon
  <2>3. block'[o].allocated <=> Refs(o)' # {}
    <3>1. CASE o = h
      BY <1>9, <1>10, <3>1, Zenon
    <3>2. CASE o # h
      <4>1. Refs(o) \ {t} = Refs(o)
        BY <3>2 DEF Refs
      <4> QED BY <1>4, <1>9, <2>1, <3>2, <4>1, Zenon DEF Counted
    <3> QED BY <3>1, <3>2, Zenon
  <2>4. IsFiniteSet(Refs(o)')
    <3>1. IsFiniteSet(Refs(o) \ {t})
      BY <2>1, FS_RemoveElement, SMTT(30) DEF Counted
    <3> QED BY <1>9, <3>1, Zenon
  <2>5. Counted(o)'
    BY <1>1, <1>4, <2>1, <2>2, <2>3, <2>4, Zenon DEF Counted
  <2>6. (\E n \in DOMAIN stack' : stack'[n].pc = "destroy" /\ slot'[stack'[n].s] = o)
        <=> \E n \in DOMAIN stack : stack[n].pc = "destroy" /\ slot[stack[n].s] = o
    <3>1. \A n \in 1 .. L - 1 : stack[n].pc = "destroy" => slot'[stack[n].s] = slot[stack[n].s]
      BY <1>5, <1>7, Zenon
    <3>2. \A n \in DOMAIN stack : stack[n].pc = "destroy" => n \in 1 .. L - 1
      BY <1>1, <1>2
    <3>3. \A n \in 1 .. L - 1 : n \in DOMAIN stack
      BY <1>2
    <3> QED BY <1>3, <3>1, <3>2, <3>3, Zenon
  <2>7. obj'[o] = "unborn" => Refs(o)' = {}
    BY <1>1, <1>9, <2>1, Zenon DEF Life
  <2>8. \A m \in Member[o] : slot'[m] = NoObj \/ slot'[m] = slot[m]
    BY <1>5, Owner, Zenon
  <2>9. obj'[o] \in {"unborn", "dead"} => \A m \in Member[o] : slot'[m] = NoObj
    BY <1>1, <2>1, <2>8, Zenon DEF Life
  <2>10. \A m \in Member[o] \ Weak : slot'[m] # NoObj => Rank[o] < Rank[slot'[m]]
    BY <2>1, <2>8, Zenon DEF Life
  <2>11. /\ obj'[o] = "alive" <=> block'[o].sc > 0
         /\ obj'[o] = "dying" <=> \E n \in DOMAIN stack' :
                                   stack'[n].pc = "destroy" /\ slot'[stack'[n].s] = o
    BY <1>1, <1>4, <2>1, <2>6, Zenon DEF Life
  <2> QED BY <2>5, <2>7, <2>9, <2>10, <2>11, Zenon DEF Life
<1>12. ASSUME NEW n \in DOMAIN stack'
      PROVE  Call(n)'
  <2>1. n \in 1 .. L - 1 /\ n \in DOMAIN stack /\ n < L /\ stack'[n] = stack[n]
    BY <1>2, <1>3
  <2>2. n > 1 => n - 1 \in 1 .. L - 1 /\ stack'[n - 1] = stack[n - 1]
    BY <1>2, <1>3, <2>1, SMTT(30)
  <2>3. Call(n)
    BY <2>1 DEF IInv
  <2>4. stack[n].pc # "take" => slot'[stack[n].s] = slot[stack[n].s]
    BY <1>5, <1>7, <2>1, Zenon
  <2>5. n > 1 /\ stack[n - 1].pc # "take" => slot'[stack[n - 1].s] = slot[stack[n - 1].s]
    BY <1>5, <1>7, <2>2, Zenon
  <2>6. stack[n].pc \in {"take", "destroy"}
    BY <2>1, <2>3, Zenon DEF Call, L
  <2> QED BY <2>1, <2>2, <2>3, <2>4, <2>5, <2>6, Zenon DEF Call
<1>13. Nested'
  <2> SUFFICES ASSUME NEW n \in DOMAIN stack', NEW k \in DOMAIN stack',
                      n < k, stack'[n].pc # "take"
               PROVE  /\ stack'[n].s # stack'[k].s
                      /\ stack'[k].s \notin Weak
                           => Rank[slot'[stack'[n].s]] < Rank[slot'[stack'[k].s]]
    BY DEF Nested
  <2>1. /\ n \in 1 .. L - 1 /\ stack'[n] = stack[n] /\ n \in DOMAIN stack
        /\ k \in 1 .. L - 1 /\ stack'[k] = stack[k] /\ k \in DOMAIN stack
    BY <1>2, <1>3
  <2>2. stack[k].pc # "take"
    BY <2>1 DEF IInv, Call
  <2>3. slot'[stack[n].s] = slot[stack[n].s] /\ slot'[stack[k].s] = slot[stack[k].s]
    BY <1>5, <1>7, <2>1, <2>2, Zenon
  <2> QED BY <2>1, <2>3, ZenonT(30) DEF IInv, Nested
<1>14. Outermost'
  <2> SUFFICES ASSUME stack' # <<>> PROVE Outermost'
    BY DEF Outermost
  <2>1. L >= 2 /\ stack'[1] = stack[1] /\ 1 \in DOMAIN stack /\ 2 \in DOMAIN stack
    <3>1. Len(stack') # 0
      BY <1>3
    <3> QED BY <1>2, <1>3, <3>1
  <2>2. ASSUME stack[1].pc = "take"
        PROVE  IF Len(stack') = 1
               THEN slot'[stack[1].s] = NoObj /\ obj[stack[1].ref] = "alive"
               ELSE \E k \in Root \ (Weak \cup {stack[1].s}) : slot'[k] = stack[1].ref
    <3>1. CASE L = 2
      <4>1. stack[2].s = stack[1].s
        BY <2>1, <2>2, SMTT(30) DEF IInv, Call
      <4> QED BY <1>1, <1>2, <1>3, <1>5, <2>2, <3>1, <4>1, TakenAlive, SMTT(30)
    <3>2. CASE L # 2
      <4>1. PICK k \in Root \ (Weak \cup {stack[1].s}) : slot[k] = stack[1].ref
        BY <1>1, <1>2, <2>1, <2>2, Zenon DEF IInv, Outermost, L
      <4>2. k # t
        <5>1. SUFFICES ASSUME k = t PROVE FALSE
          OBVIOUS
        <5>2. stack[L].s # stack[1].s
          BY <1>1, <4>1, <5>1, Zenon
        <5>3. t \in Member[slot[stack[L - 1].s]] /\ slot[stack[L - 1].s] \in Obj
          BY <1>1, <5>2, CallSlot, Zenon
        <5> QED BY <4>1, <5>1, <5>3, Owner, Zenon
      <4>3. slot'[k] = stack[1].ref
        BY <1>5, <4>1, <4>2, Owner, Zenon
      <4> QED BY <1>2, <1>3, <3>2, <4>1, <4>3, SMTT(30)
    <3> QED BY <3>1, <3>2, Zenon
  <2> QED BY <1>1, <2>1, <2>2, Zenon DEF IInv, Outermost
<1>15. TypeOK'
  BY <1>1, <1>3, <1>4, Zenon DEF IInv, TypeOK
<1> QED BY <1>11, <1>12, <1>13, <1>14, <1>15, Zenon DEF IInv

\* Between two calls no reference is being given up.
LEMMA EmptyGone ==
  /\ stack = <<>> => Gone = {} /\ ~\E n \in DOMAIN stack : TRUE
  /\ stack' = <<>> => Gone' = {} /\ ~\E n \in DOMAIN stack' : TRUE
<1>1. DOMAIN <<>> = {}
  OBVIOUS
<1> QED BY <1>1 DEF Gone

\* A step that leaves no call in progress has only the counters to keep.
LEMMA IdleKeeps ==
  ASSUME TypeOK', stack' = <<>>, \A o \in Obj : Counted(o)' /\ Life(o)'
  PROVE  IInv'
  BY EmptyGone, Zenon DEF IInv, Nested, Outermost

\* The counters between two calls.
LEMMA IdleCounts ==
  ASSUME NEW o \in Obj, Counted(o), Gone = {}, obj[o] # "dying"
  PROVE  /\ IsFiniteSet(Refs(o)) /\ IsFiniteSet(Strong(o)) /\ IsFiniteSet(Feeble(o))
         /\ Cardinality(Strong(o)) \in Nat /\ Cardinality(Feeble(o)) \in Nat
         /\ block[o].sc = Cardinality(Strong(o))
         /\ block[o].wc = Cardinality(Feeble(o))
<1>1. Strong(o) \ Gone = Strong(o) /\ Feeble(o) \ Gone = Feeble(o)
  OBVIOUS
<1>2. /\ IsFiniteSet(Strong(o)) /\ IsFiniteSet(Feeble(o))
      /\ Cardinality(Strong(o)) \in Nat /\ Cardinality(Feeble(o)) \in Nat
  BY <1>1, CountFinite, Zenon DEF Counted
<1>3. /\ Cardinality(Strong(o) \ Gone) = Cardinality(Strong(o))
      /\ Cardinality(Feeble(o) \ Gone) = Cardinality(Feeble(o))
  BY <1>1, Zenon
<1> QED BY <1>2, <1>3 DEF Counted

\* A null slot t that is made to refer to h: the sets of references,
LEMMA RefSets ==
  ASSUME NEW t \in Slot, NEW h \in Obj, NEW o \in Obj,
         slot[t] = NoObj, slot'[t] = h, \A s \in Slot : s # t => slot'[s] = slot[s]
  PROVE  /\ t \notin Refs(o) /\ t \notin Strong(o) /\ t \notin Feeble(o)
         /\ o = h => Refs(o)' = Refs(o) \cup {t}
         /\ o # h => Refs(o)' = Refs(o)
         /\ o = h /\ t \notin Weak => Strong(o)' = Strong(o) \cup {t}
         /\ o # h \/ t \in Weak => Strong(o)' = Strong(o)
         /\ o = h /\ t \in Weak => Feeble(o)' = Feeble(o) \cup {t}
         /\ o # h \/ t \notin Weak => Feeble(o)' = Feeble(o)
<1>1. o # NoObj /\ h # NoObj /\ Weak \subseteq Slot
  BY PointerAssumption
<1>2. t \notin Refs(o) /\ t \notin Strong(o) /\ t \notin Feeble(o)
  BY <1>1 DEF Refs, Strong, Feeble
<1>3. /\ o = h => Refs(o)' = Refs(o) \cup {t}
      /\ o # h => Refs(o)' = Refs(o)
  BY <1>1 DEF Refs
<1>4. /\ o = h /\ t \notin Weak => Strong(o)' = Strong(o) \cup {t}
      /\ o # h \/ t \in Weak => Strong(o)' = Strong(o)
  BY <1>1 DEF Strong
<1>5. /\ o = h /\ t \in Weak => Feeble(o)' = Feeble(o) \cup {t}
      /\ o # h \/ t \notin Weak => Feeble(o)' = Feeble(o)
  BY <1>1, Zenon DEF Feeble
<1> QED BY <1>2, <1>3, <1>4, <1>5, Zenon

\* and the counters.
LEMMA RefCounted ==
  ASSUME NEW t \in Slot, NEW h \in Obj, NEW o \in Obj,
         slot[t] = NoObj, slot'[t] = h, \A s \in Slot : s # t => slot'[s] = slot[s],
         Gone = {}, Gone' = {}, obj[o] # "dying", obj'[o] # "dying", Counted(o),
         block'[o].sc = block[o].sc + (IF o = h /\ t \notin Weak THEN 1 ELSE 0),
         block'[o].wc = block[o].wc + (IF o = h /\ t \in Weak THEN 1 ELSE 0),
         block'[o].allocated <=> o = h \/ block[o].allocated
  PROVE  Counted(o)'
<1>1. /\ IsFiniteSet(Refs(o)) /\ IsFiniteSet(Strong(o)) /\ IsFiniteSet(Feeble(o))
      /\ Cardinality(Strong(o)) \in Nat /\ Cardinality(Feeble(o)) \in Nat
      /\ block[o].sc = Cardinality(Strong(o))
      /\ block[o].wc = Cardinality(Feeble(o))
      /\ block[o].allocated <=> Refs(o) # {}
  BY IdleCounts DEF Counted
<1>2. /\ IsFiniteSet(Refs(o) \cup {t})
      /\ t \notin Strong(o) => Cardinality(Strong(o) \cup {t}) = Cardinality(Strong(o)) + 1
      /\ t \notin Feeble(o) => Cardinality(Feeble(o) \cup {t}) = Cardinality(Feeble(o)) + 1
  BY <1>1, FS_AddElement, Zenon
<1>3. IsFiniteSet(Refs(o)') /\ (block'[o].allocated <=> Refs(o)' # {})
  <2>1. CASE o = h
    <3>1. Refs(o)' = Refs(o) \cup {t}
      BY <2>1, RefSets
    <3>2. IsFiniteSet(Refs(o)')
      BY <1>2, <3>1, Zenon
    <3> QED BY <2>1, <3>1, <3>2, Zenon
  <2>2. CASE o # h
    <3>1. Refs(o)' = Refs(o)
      BY <2>2, RefSets
    <3>2. IsFiniteSet(Refs(o)')
      BY <1>1, <3>1, Zenon
    <3> QED BY <1>1, <2>2, <3>1, <3>2, Zenon
  <2> QED BY <2>1, <2>2, Zenon
<1>4. block'[o].sc = Cardinality(Strong(o)')
  <2>1. CASE o = h /\ t \notin Weak
    <3>1. Strong(o)' = Strong(o) \cup {t} /\ t \notin Strong(o)
      BY <2>1, RefSets
    <3>2. Cardinality(Strong(o)') = Cardinality(Strong(o) \cup {t})
      BY <3>1, Zenon
    <3> QED BY <1>1, <1>2, <2>1, <3>1, <3>2, ZenonT(30)
  <2>2. CASE o # h \/ t \in Weak
    <3>1. Strong(o)' = Strong(o)
      BY <2>2, RefSets
    <3>2. Cardinality(Strong(o)') = Cardinality(Strong(o))
      BY <3>1, Zenon
    <3> QED BY <1>1, <2>2, <3>2, SMTT(30)
  <2> QED BY <2>1, <2>2, Zenon
<1>5. block'[o].wc = Cardinality(Feeble(o)')
  <2>1. CASE o = h /\ t \in Weak
    <3>1. Feeble(o)' = Feeble(o) \cup {t} /\ t \notin Feeble(o)
      BY <2>1, RefSets, ZenonT(30)
    <3>2. Cardinality(Feeble(o)') = Cardinality(Feeble(o) \cup {t})
      BY <3>1, Zenon
    <3> QED BY <1>1, <1>2, <2>1, <3>1, <3>2, ZenonT(30)
  <2>2. CASE o # h \/ t \notin Weak
    <3>1. Feeble(o)' = Feeble(o)
      BY <2>2, RefSets, SMTT(30)
    <3>2. Cardinality(Feeble(o)') = Cardinality(Feeble(o))
      BY <3>1, Zenon
    <3> QED BY <1>1, <2>2, <3>2, SMTT(30)
  <2> QED BY <2>1, <2>2, Zenon
<1>6. Strong(o)' \ Gone' = Strong(o)' /\ Feeble(o)' \ Gone' = Feeble(o)'
  OBVIOUS
<1>7. /\ Cardinality(Strong(o)' \ Gone') = Cardinality(Strong(o)')
      /\ Cardinality(Feeble(o)' \ Gone') = Cardinality(Feeble(o)')
  BY <1>6, Zenon
<1>8. block'[o].wc = Cardinality(Feeble(o)') + 0
  BY <1>1, <1>5
<1> QED BY <1>3, <1>4, <1>7, <1>8, ZenonT(30) DEF Counted

\* The end of acquire().
LEMMA TakeKeeps ==
  ASSUME IInv, Take
  PROVE  IInv'
<1>1. PICK t \in Slot, h \in Obj :
        /\ stack # <<>> /\ Top.pc = "take" /\ Return /\ obj' = obj
        /\ Here = h /\ t = Top.s /\ h = Top.ref
        /\ Len(stack) = 1 /\ Top = stack[1]
        /\ slot' = [slot EXCEPT ![t] = h]
        /\ block' = IF t \in Weak THEN Adds(h, 0, 1) ELSE Adds(h, 1, 0)
  BY HereIs, Zenon DEF Take, At
<1>2. stack' = <<>>
  <2>1. stack' \in Seq(Frame) /\ Len(stack') = 0
    BY <1>1, ReturnStack DEF IInv
  <2> QED BY <2>1
<1>3. /\ slot[t] = NoObj /\ obj[h] = "alive"
      /\ \A o \in Obj : t \in Member[o] => /\ obj[o] = "alive"
                                           /\ t \notin Weak => Rank[o] < Rank[h]
  BY <1>1, Zenon DEF IInv, Outermost
<1>4. /\ block' \in [Obj -> [allocated : BOOLEAN, sc : Int, wc : Int]]
      /\ block'[h].sc = block[h].sc + (IF t \in Weak THEN 0 ELSE 1)
      /\ block'[h].wc = block[h].wc + (IF t \in Weak THEN 1 ELSE 0)
      /\ block'[h].allocated = block[h].allocated
      /\ \A q \in Obj : q # h => block'[q] = block[q]
  <2>1. TypeOK /\ 0 \in Int /\ 1 \in Int
    BY DEF IInv
  <2>2. CASE t \in Weak
    <3>1. h \in Obj /\ block' = Adds(h, 0, 1)
      BY <1>1, <2>2, Zenon
    <3>2. LET B == Adds(h, 0, 1) IN
          /\ B \in [Obj -> [allocated : BOOLEAN, sc : Int, wc : Int]]
          /\ B[h].sc = block[h].sc + 0
          /\ B[h].wc = block[h].wc + 1
          /\ B[h].allocated = block[h].allocated
          /\ \A q \in Obj : q # h => B[q] = block[q]
      BY <2>1, <3>1, AddsBlock, ZenonT(30)
    <3> QED BY <2>2, <3>1, <3>2, Zenon
  <2>3. CASE t \notin Weak
    <3>1. h \in Obj /\ block' = Adds(h, 1, 0)
      BY <1>1, <2>3, Zenon
    <3>2. LET B == Adds(h, 1, 0) IN
          /\ B \in [Obj -> [allocated : BOOLEAN, sc : Int, wc : Int]]
          /\ B[h].sc = block[h].sc + 1
          /\ B[h].wc = block[h].wc + 0
          /\ B[h].allocated = block[h].allocated
          /\ \A q \in Obj : q # h => B[q] = block[q]
      BY <2>1, <3>1, AddsBlock, ZenonT(30)
    <3> QED BY <2>3, <3>1, <3>2, Zenon
  <2> QED BY <2>2, <2>3
<1>5. slot'[t] = h /\ \A s \in Slot : s # t => slot'[s] = slot[s]
  BY <1>1, ZenonT(30) DEF IInv, TypeOK
<1>6. TypeOK'
  BY <1>1, <1>2, <1>4, SMTT(30) DEF IInv, TypeOK
<1>7. Gone = {} /\ Gone' = {} /\ ~\E n \in DOMAIN stack : stack[n].pc = "destroy"
  BY <1>1, <1>2, TopLast, EmptyGone DEF Gone, IInv
<1>8. h # NoObj
  BY PointerAssumption, Zenon
<1>9. ASSUME NEW o \in Obj
      PROVE  Counted(o)' /\ Life(o)'
  <2>1. Counted(o) /\ Life(o) /\ block[o].sc \in Int /\ block[o].wc \in Int
    BY Zenon DEF IInv, TypeOK
  <2>2. obj[o] # "dying" /\ obj'[o] # "dying"
    BY <1>1, <1>7, <2>1, Zenon DEF Life
  <2>3. block[h].allocated
    <3>1. Counted(h) /\ Life(h) /\ block[h].sc > 0
      BY <1>3, ZenonT(30) DEF IInv, Life
    <3>2. Strong(h) # {}
      BY <1>7, <3>1, CountFinite, SMTT(30) DEF Counted
    <3> QED BY <3>1, <3>2, Zenon DEF Counted, Refs, Strong
  <2>4. /\ block'[o].sc = block[o].sc + (IF o = h /\ t \notin Weak THEN 1 ELSE 0)
        /\ block'[o].wc = block[o].wc + (IF o = h /\ t \in Weak THEN 1 ELSE 0)
        /\ block'[o].allocated <=> o = h \/ block[o].allocated
    <3>1. CASE o = h
      <4>1. block'[h].allocated
        BY <1>4, <2>3, Zenon
      <4>2. /\ block'[h].sc = block[h].sc + (IF t \notin Weak THEN 1 ELSE 0)
            /\ block'[h].wc = block[h].wc + (IF t \in Weak THEN 1 ELSE 0)
        BY <1>4, Zenon
      <4> QED BY <3>1, <4>1, <4>2, Zenon
    <3>2. CASE o # h
      BY <1>4, <2>1, <3>2, SMTT(30)
    <3> QED BY <3>1, <3>2, Zenon
  <2>5. Counted(o)'
    BY <1>3, <1>5, <1>7, <2>1, <2>2, <2>4, RefCounted, ZenonT(30)
  <2>6. obj'[o] = "alive" <=> block'[o].sc > 0
    BY <1>1, <1>3, <2>1, <2>4, SMTT(30) DEF Life
  <2>7. obj'[o] = "unborn" => Refs(o)' = {}
    <3>1. SUFFICES ASSUME obj'[o] = "unborn" PROVE Refs(o)' = {}
      OBVIOUS
    <3>2. o # h /\ Refs(o) = {}
      BY <1>1, <1>3, <2>1, <3>1, ZenonT(30) DEF Life
    <3>3. Refs(o)' = Refs(o)
      BY <1>3, <1>5, <3>2, RefSets, SMTT(30)
    <3> QED BY <3>2, <3>3
  <2>8. obj'[o] \in {"unborn", "dead"} => \A m \in Member[o] : slot'[m] = NoObj
    BY <1>1, <1>3, <1>5, <2>1, Owner, ZenonT(30) DEF Life
  <2>9. \A m \in Member[o] \ Weak : slot'[m] # NoObj => Rank[o] < Rank[slot'[m]]
    BY <1>3, <1>5, <2>1, Owner, Zenon DEF Life
  <2> QED BY <1>2, <2>2, <2>5, <2>6, <2>7, <2>8, <2>9, EmptyGone, ZenonT(30) DEF Life
<1> QED BY <1>2, <1>6, <1>9, IdleKeeps, Zenon

\* acquire() of a new object.
LEMMA NewKeeps ==
  ASSUME IInv, NEW t \in Root, NEW h \in Obj, New(t, h)
  PROVE  IInv'
<1>1. /\ stack = <<>> /\ stack' = <<>> /\ t \in Slot /\ t \notin Weak
      /\ slot[t] = NoObj /\ obj[h] = "unborn"
      /\ slot' = [slot EXCEPT ![t] = h]
      /\ obj' = [obj EXCEPT ![h] = "alive"]
      /\ block' = [block EXCEPT ![h] = [allocated |-> TRUE, sc |-> 1, wc |-> 0]]
  BY Owner DEF New
<1>2. slot'[t] = h /\ \A s \in Slot : s # t => slot'[s] = slot[s]
  BY <1>1 DEF IInv, TypeOK
<1>3. obj'[h] = "alive" /\ \A q \in Obj : q # h => obj'[q] = obj[q]
  BY <1>1, Zenon DEF IInv, TypeOK
<1>4. /\ block'[h].sc = 1 /\ block'[h].wc = 0 /\ block'[h].allocated
      /\ \A q \in Obj : q # h => block'[q] = block[q]
  BY <1>1 DEF IInv, TypeOK
<1>5. TypeOK'
  BY <1>1 DEF IInv, TypeOK
<1>6. Gone = {} /\ Gone' = {} /\ ~\E n \in DOMAIN stack : TRUE
  BY <1>1, EmptyGone, Zenon
<1>7. block[h].sc = 0 /\ block[h].wc = 0
  <2>1. Counted(h) /\ Refs(h) = {}
    BY <1>1, Zenon DEF IInv, Life
  <2>2. Strong(h) = {} /\ Feeble(h) = {}
    BY <2>1, PointerAssumption DEF Refs, Strong, Feeble
  <2>3. Cardinality(Strong(h)) = 0 /\ Cardinality(Feeble(h)) = 0
    BY <2>2, FS_EmptySet, Zenon
  <2> QED BY <1>1, <1>6, <2>1, <2>3, IdleCounts, Zenon
<1>8. ASSUME NEW o \in Obj
      PROVE  Counted(o)' /\ Life(o)'
  <2>1. Counted(o) /\ Life(o) /\ block[o].sc \in Int /\ block[o].wc \in Int
    BY Zenon DEF IInv, TypeOK
  <2>2. obj[o] # "dying" /\ obj'[o] # "dying"
    BY <1>3, <1>6, <2>1, Zenon DEF Life
  <2>3. /\ block'[o].sc = block[o].sc + (IF o = h /\ t \notin Weak THEN 1 ELSE 0)
        /\ block'[o].wc = block[o].wc + (IF o = h /\ t \in Weak THEN 1 ELSE 0)
        /\ block'[o].allocated <=> o = h \/ block[o].allocated
    BY <1>1, <1>4, <1>7, <2>1, SMTT(30)
  <2>4. Counted(o)'
    BY <1>1, <1>2, <1>6, <2>1, <2>2, <2>3, RefCounted, ZenonT(30)
  <2>5. obj'[o] = "alive" <=> block'[o].sc > 0
    BY <1>3, <1>4, <2>1, SMTT(30) DEF Life
  <2>6. obj'[o] = "unborn" => Refs(o)' = {}
    BY <1>1, <1>2, <1>3, <2>1, RefSets, SMTT(30) DEF Life
  <2>7. \A m \in Member[o] : slot'[m] = slot[m]
    BY <1>2, Owner, Zenon
  <2> QED BY <1>1, <1>3, <2>1, <2>2, <2>4, <2>5, <2>6, <2>7, EmptyGone, ZenonT(30) DEF Life
<1> QED BY <1>1, <1>5, <1>8, IdleKeeps, ZenonT(30)

\* A call that begins changes no counter.
LEMMA BeginCounts ==
  ASSUME IInv, stack = <<>>, slot' = slot, obj' = obj, block' = block,
         \A n \in DOMAIN stack' : stack'[n].pc \in {"take", "release"}
  PROVE  \A o \in Obj : Counted(o)' /\ Life(o)'
<1>1. Gone = {} /\ Gone' = {} /\ ~\E n \in DOMAIN stack : TRUE
  BY EmptyGone, Zenon DEF Gone
<1> SUFFICES ASSUME NEW o \in Obj PROVE Counted(o)' /\ Life(o)'
  OBVIOUS
<1>2. Counted(o) /\ Life(o)
  BY DEF IInv
<1>3. Refs(o)' = Refs(o) /\ Strong(o)' = Strong(o) /\ Feeble(o)' = Feeble(o)
  BY DEF Refs, Strong, Feeble
<1>4. /\ Cardinality((Strong(o) \ Gone)') = Cardinality(Strong(o) \ Gone)
      /\ Cardinality((Feeble(o) \ Gone)') = Cardinality(Feeble(o) \ Gone)
  BY <1>1, <1>3, Zenon
<1>5. Counted(o)'
  BY <1>2, <1>3, <1>4, Zenon DEF Counted
<1>6. obj[o] # "dying" /\ ~\E n \in DOMAIN stack' : stack'[n].pc = "destroy"
  BY <1>1, <1>2 DEF Life
<1>7. obj[o] = "unborn" => Refs(o)' = {}
  BY <1>2, <1>3, Zenon DEF Life
<1> QED BY <1>2, <1>5, <1>6, <1>7, ZenonT(30) DEF Life

\* ptr(const ptr&), operator=(const ptr&).
LEMMA AssignKeeps ==
  ASSUME IInv, NEW d \in Slot, NEW s \in Slot, Assign(d, s)
  PROVE  IInv'
<1> DEFINE r == slot[s]
<1>1. /\ stack = <<>> /\ slot' = slot /\ obj' = obj /\ block' = block
      /\ Usable(d) /\ Kept(d, s) /\ Layered(d, s)
      /\ r \in Obj /\ obj[r] = "alive"
  BY DEF Assign, is_null, IInv, TypeOK
<1>2. \A o \in Obj : d \in Member[o] => obj[o] = "alive"
  BY <1>1, Owner, Zenon DEF Usable
<1>3. /\ take(d, r) \in Frame /\ take(d, r).pc = "take"
      /\ take(d, r).s = d /\ take(d, r).ref = r
      /\ release(d) \in Frame /\ release(d).pc = "release" /\ release(d).s = d
  BY <1>1 DEF take, release, Frame
<1>4. CASE slot[d] = NoObj
  <2>1. stack' = <<take(d, r)>>
    BY <1>4, Zenon DEF Assign
  <2>2. /\ Len(stack') = 1 /\ DOMAIN stack' = {1} /\ stack'[1] = take(d, r)
        /\ stack' \in Seq(Frame) /\ stack' # <<>>
    BY <1>3, <2>1
  <2> HIDE DEF r
  <2>3. \A o \in Obj : Counted(o)' /\ Life(o)'
    BY <1>1, <1>3, <2>2, BeginCounts, Zenon
  <2>4. (\A n \in DOMAIN stack' : Call(n)') /\ Nested'
    BY <1>3, <2>2 DEF Call, Nested
  <2>5. Outermost'
    BY <1>1, <1>2, <1>3, <1>4, <2>2, Zenon DEF Outermost, Layered, r
  <2>6. TypeOK'
    BY <1>1, <2>2, Zenon DEF IInv, TypeOK
  <2> QED BY <2>3, <2>4, <2>5, <2>6, Zenon DEF IInv
<1>5. CASE slot[d] # NoObj
  <2>1. stack' = <<take(d, r), release(d)>>
    BY <1>5, Zenon DEF Assign
  <2>2. /\ Len(stack') = 2 /\ DOMAIN stack' = {1, 2}
        /\ stack'[1] = take(d, r) /\ stack'[2] = release(d)
        /\ stack' \in Seq(Frame) /\ stack' # <<>>
    BY <1>3, <2>1
  <2> HIDE DEF r
  <2>3. \A o \in Obj : Counted(o)' /\ Life(o)'
    BY <1>1, <1>3, <2>2, BeginCounts, ZenonT(30)
  <2>4. (\A n \in DOMAIN stack' : Call(n)') /\ Nested'
    BY <1>1, <1>3, <1>5, <2>2, SMTT(30) DEF Call, Nested
  <2>5. Outermost'
    BY <1>1, <1>2, <1>3, <1>5, <2>2, ZenonT(30) DEF Outermost, Layered, Kept, r
  <2>6. TypeOK'
    BY <1>1, <2>2, SMTT(30) DEF IInv, TypeOK
  <2> QED BY <2>3, <2>4, <2>5, <2>6, SMTT(30) DEF IInv
<1> QED BY <1>4, <1>5, Zenon

\* ~ptr.
LEMMA DropKeeps ==
  ASSUME IInv, NEW s \in Slot, Drop(s)
  PROVE  IInv'
<1>1. /\ stack = <<>> /\ slot' = slot /\ obj' = obj /\ block' = block
      /\ Usable(s) /\ slot[s] # NoObj /\ stack' = <<release(s)>>
  BY Zenon DEF Drop
<1>2. \A o \in Obj : s \in Member[o] => obj[o] = "alive"
  BY <1>1, Owner, Zenon DEF Usable
<1>3. release(s) \in Frame /\ release(s).pc = "release" /\ release(s).s = s
  BY Zenon DEF release, Frame
<1>4. /\ Len(stack') = 1 /\ DOMAIN stack' = {1} /\ stack'[1] = release(s)
      /\ stack' \in Seq(Frame) /\ stack' # <<>>
  BY <1>1, <1>3
<1>5. \A o \in Obj : Counted(o)' /\ Life(o)'
  BY <1>1, <1>3, <1>4, BeginCounts, ZenonT(30)
<1>6. (\A n \in DOMAIN stack' : Call(n)') /\ Nested'
  BY <1>1, <1>3, <1>4 DEF Call, Nested
<1>7. Outermost'
  BY <1>1, <1>2, <1>3, <1>4, Zenon DEF Outermost
<1>8. TypeOK'
  BY <1>1, <1>4, Zenon DEF IInv, TypeOK
<1> QED BY <1>5, <1>6, <1>7, <1>8, SMTT(30) DEF IInv

-----------------------------------------------------------------------------
(***************************************************************************)
(* The theorems.                                                           *)
(***************************************************************************)
\* No pointer refers to anything in the initial state.
LEMMA InitIInv == Init => IInv
<1> SUFFICES ASSUME Init PROVE IInv
  OBVIOUS
<1>1. TypeOK
  BY DEF Init, TypeOK
<1>2. Gone = {} /\ ~\E n \in DOMAIN stack : TRUE
  BY EmptyGone, Zenon DEF Init
<1>3. ASSUME NEW o \in Obj PROVE Counted(o) /\ Life(o)
  <2>1. Refs(o) = {} /\ Strong(o) \ Gone = {} /\ Feeble(o) \ Gone = {}
    BY PointerAssumption DEF Init, Refs, Strong, Feeble
  <2>2. /\ IsFiniteSet(Refs(o)) /\ Cardinality(Strong(o) \ Gone) = 0
        /\ Cardinality(Feeble(o) \ Gone) = 0
    BY <2>1, FS_EmptySet, Zenon
  <2>3. /\ obj[o] = "unborn" /\ block[o].sc = 0 /\ block[o].wc = 0
        /\ ~block[o].allocated /\ \A m \in Member[o] : slot[m] = NoObj
    BY Owner DEF Init
  <2> QED BY <1>2, <2>1, <2>2, <2>3, SMTT(30) DEF Counted, Life
<1>4. stack = <<>>
  BY DEF Init
<1> QED BY <1>1, <1>2, <1>3, <1>4, Zenon DEF IInv, Nested, Outermost

\* Every step keeps the invariant.
LEMMA NextIInv == IInv /\ [Next]_vars => IInv'
<1> SUFFICES ASSUME IInv, [Next]_vars PROVE IInv'
  OBVIOUS
<1>1. CASE \E s \in Root, o \in Obj : New(s, o)
  BY <1>1, NewKeeps
<1>2. CASE \E d, s \in Slot : Assign(d, s)
  BY <1>2, AssignKeeps
<1>3. CASE \E s \in Slot : Drop(s)
  BY <1>3, DropKeeps
<1>4. CASE ReleaseShared
  BY <1>4, ReleaseSharedKeeps
<1>5. CASE ReleaseLast
  BY <1>5, ReleaseLastKeeps, ZenonT(30)
<1>6. CASE Destroyed
  BY <1>6, DestroyedKeeps
<1>7. CASE Free
  BY <1>7, FreeKeeps
<1>8. CASE Take
  BY <1>8, TakeKeeps
<1>9. CASE \E m \in Slot : DestroyMember(m)
  BY <1>9, DestroyMemberKeeps
<1>10. CASE UNCHANGED vars
  <2>1. slot' = slot /\ obj' = obj /\ block' = block /\ stack' = stack
    BY <1>10, ZenonT(30) DEF vars
  <2>2. TypeOK' /\ (\A n \in DOMAIN stack' : Call(n)') /\ Nested' /\ Outermost'
    BY <2>1, SMTT(30) DEF IInv, TypeOK, Call, Nested, Outermost
  <2>3. ASSUME NEW o \in Obj PROVE Counted(o)' /\ Life(o)'
    <3>1. Counted(o) /\ Life(o)
      BY DEF IInv
    <3>2. Counted(o)'
      BY <2>1, <3>1, Zenon DEF Counted, Gone, Refs, Strong, Feeble
    <3> QED BY <2>1, <3>1, <3>2, Zenon DEF Life, Refs
  <2> QED BY <2>2, <2>3, Zenon DEF IInv
<1> QED
  BY <1>1, <1>2, <1>3, <1>4, <1>5, <1>6, <1>7, <1>8, <1>9, <1>10, ZenonT(30) DEF Next, Unwind

\* The invariant holds always.
LEMMA AlwaysIInv == Spec => []IInv
  BY InitIInv, NextIInv, PTL DEF Spec

\* The counters are exact between two calls, whatever objects and pointers there
\* are and however deep the destructors have nested (acquire, release).
THEOREM CountsAreExact == Spec => []CountsExact
<1>1. IInv => CountsExact
  <2> SUFFICES ASSUME IInv, stack = <<>>, NEW o \in Obj
               PROVE  /\ block[o].sc = Cardinality(Strong(o))
                      /\ block[o].wc = Cardinality(Feeble(o))
                      /\ block[o].allocated <=> Strong(o) \cup Feeble(o) # {}
    BY DEF CountsExact
  <2>1. Gone = {} /\ ~\E n \in DOMAIN stack : TRUE
    BY EmptyGone, ZenonT(30)
  <2>2. Counted(o) /\ obj[o] # "dying"
    BY <2>1 DEF IInv, Life
  <2>3. Refs(o) = Strong(o) \cup Feeble(o)
    BY PointerAssumption, Zenon DEF Refs, Strong, Feeble
  <2> QED BY <2>1, <2>2, <2>3, IdleCounts, ZenonT(30) DEF Counted
<1> QED BY <1>1, AlwaysIInv, PTL

\* Every access of release() and acquire() is to an allocated block and its
\* assertions hold, in every order of nested destructors.
THEOREM AccessesAreSafe == Spec => []AccessSafe
<1>1. IInv => AccessSafe
  <2> SUFFICES ASSUME IInv, stack # <<>>
               PROVE  /\ Here # NoObj
                      /\ block[Here].allocated
                      /\ Top.pc = "release" => IF Top.s \in Weak THEN block[Here].wc > 0
                                               ELSE block[Here].sc > 0 /\ obj[Here] = "alive"
                      /\ Top.pc = "take" => block[Here].sc > 0
    BY DEF AccessSafe
  <2>1. /\ Here \in Obj /\ Here # NoObj /\ Top.s \in Slot
        /\ Top.pc # "take" => Here = slot[Top.s]
        /\ Top.pc = "take" => Here = Top.ref /\ Top = stack[1]
    BY HereIs, PointerAssumption
  <2>2. Counted(Here) /\ Life(Here)
    BY <2>1, Zenon DEF IInv
  <2>3. Top.pc = "take" => block[Here].sc > 0
    BY <2>1, <2>2, TakenAlive, Zenon DEF Life
  <2>4. block[Here].allocated
    <3>1. CASE Top.pc = "take"
      <4>1. Strong(Here) \ Gone # {}
        <5>1. block[Here].sc = Cardinality(Strong(Here) \ Gone) /\ block[Here].sc > 0
          BY <2>2, <2>3, <3>1, SMTT(30) DEF Counted
        <5>2. Cardinality(Strong(Here) \ Gone) = 0 <=> Strong(Here) \ Gone = {}
          BY <2>1, <2>2, CountFinite, Zenon DEF Counted
        <5> QED BY <5>1, <5>2, SMTT(30)
      <4> QED BY <2>2, <4>1, Zenon DEF Counted, Strong, Refs
    <3>2. CASE Top.pc # "take"
      BY <2>1, <2>2, <3>2, Zenon DEF Counted, Refs
    <3> QED BY <3>1, <3>2, Zenon
  <2>5. ASSUME Top.pc = "release"
        PROVE  IF Top.s \in Weak THEN block[Here].wc > 0
               ELSE block[Here].sc > 0 /\ obj[Here] = "alive"
    <3>1. Top.s \notin Gone /\ slot[Top.s] = Here
      BY <2>1, <2>5, TopHeld, Zenon
    <3>2. CASE Top.s \in Weak
      BY <2>1, <3>1, <3>2, HeldWeakly, Zenon
    <3>3. CASE Top.s \notin Weak
      BY <2>1, <3>1, <3>3, HeldAlive, ZenonT(30)
    <3> QED BY <3>2, <3>3, Zenon
  <2> QED BY <2>1, <2>3, <2>4, <2>5, Zenon
<1> QED BY <1>1, AlwaysIInv, PTL

\* Between two calls an object is alive exactly as long as a strong reference to
\* it is left, and otherwise its members refer to nothing.
THEOREM ObjectsLiveWhileHeld == Spec => []AliveIffHeld
<1>1. IInv => AliveIffHeld
  <2> SUFFICES ASSUME IInv, stack = <<>>, NEW o \in Obj
               PROVE  /\ obj[o] = "alive" <=> Strong(o) # {}
                      /\ obj[o] # "alive" =>
                           obj[o] # "dying" /\ \A m \in Member[o] : slot[m] = NoObj
    BY Zenon DEF AliveIffHeld
  <2>1. Gone = {} /\ ~\E n \in DOMAIN stack : TRUE
    BY EmptyGone
  <2>2. /\ Counted(o) /\ Life(o) /\ obj[o] # "dying"
        /\ obj[o] \in {"unborn", "alive", "dying", "dead"}
    BY <2>1, Zenon DEF IInv, Life, TypeOK
  <2>3. /\ block[o].sc = Cardinality(Strong(o)) /\ Cardinality(Strong(o)) \in Nat
        /\ Cardinality(Strong(o)) = 0 <=> Strong(o) = {}
    BY <2>1, <2>2, IdleCounts, FS_EmptySet
  <2> QED BY <2>2, <2>3 DEF Life
<1> QED BY <1>1, AlwaysIInv, PTL
=============================================================================
