------------------------------ MODULE Pointer ------------------------------
(***************************************************************************)
(* The smart pointers of ptr.h: strong (ptr) and weak (weak_ptr) references *)
(* that share a control block ptr_ref with two counters.                   *)
(*                                                                         *)
(* A slot is one pointer variable of the program: a local variable, a list *)
(* element or a static one (Root), or a member of an object.  An object is *)
(* wrapped when it is created and never again, so an object and its        *)
(* control block share a name.                                             *)
(*                                                                         *)
(* release() runs the destructor of the object, which releases the slots   *)
(* that are its members, which may destroy further objects.  stack holds   *)
(* the calls in progress, the innermost last; the steps of a call are the  *)
(* stretches between two points at which another call begins or ends.      *)
(***************************************************************************)
EXTENDS Integers, FiniteSets, Sequences

CONSTANTS
  Obj,        \* objects, each of them created at most once
  NoObj,      \* a null _ref
  Root,       \* slots that are not members of an object
  Weak,       \* the slots that are weak_ptrs
  Member,     \* Member[o]: the slots that are members of object o
  Rank        \* Rank[o]: the layer of its class

VARIABLES
  slot,       \* slot[s]: the control block that _ref of s points to
  obj,        \* obj[o]: "unborn", "alive", "dying" (in its destructor), "dead"
  block,      \* block[o]: whether the control block is allocated, sc, wc
  stack       \* calls of acquire and release in progress

vars == <<slot, obj, block, stack>>

Slot == Root \cup UNION {Member[o] : o \in Obj}

ASSUME PointerAssumption ==
  /\ IsFiniteSet(Root)
  /\ NoObj \notin Obj
  /\ Member \in [Obj -> SUBSET Slot]
  /\ \A o \in Obj : IsFiniteSet(Member[o]) /\ Member[o] \cap Root = {}
  /\ \A o, q \in Obj : o # q => Member[o] \cap Member[q] = {}
  /\ Weak \subseteq Slot
  /\ Rank \in [Obj -> Nat]

-----------------------------------------------------------------------------
\* A call at one of its stopping points: "release", "destroy" (the object of
\* slot s is being deleted), "free" (the end of release()), "take" (acquire()
\* after the release, with the block ref that it was given).
Frame == [pc : {"release", "destroy", "free"}, s : Slot, ref : {NoObj}]
           \cup [pc : {"take"}, s : Slot, ref : Obj]

release(s) == [pc |-> "release", s |-> s, ref |-> NoObj]
take(s, o) == [pc |-> "take", s |-> s, ref |-> o]

Top == stack[Len(stack)]
Callers == SubSeq(stack, 1, Len(stack) - 1)
Goto(pc) == stack' = Append(Callers, [Top EXCEPT !.pc = pc])
Return == stack' = Callers
At(pc) == stack # <<>> /\ Top.pc = pc

\* The block the innermost call works on.
Here == IF Top.pc = "take" THEN Top.ref ELSE slot[Top.s]

\* is_null: the pointer to the object is cleared before the object is deleted.
is_null(s) == slot[s] = NoObj \/ obj[slot[s]] # "alive"

\* A slot exists while the object does whose member it is.
Usable(s) == s \in Root \/ \E o \in Obj : s \in Member[o] /\ obj[o] = "alive"

Init ==
  /\ slot = [s \in Slot |-> NoObj]
  /\ obj = [o \in Obj |-> "unborn"]
  /\ block = [o \in Obj |-> [allocated |-> FALSE, sc |-> 0, wc |-> 0]]
  /\ stack = <<>>

-----------------------------------------------------------------------------
\* ptr(T*), operator=(T*): acquire(void*) with a new object.
New(s, o) ==
  /\ stack = <<>>
  /\ s \in Root \ Weak
  /\ slot[s] = NoObj
  /\ obj[o] = "unborn"
  /\ slot' = [slot EXCEPT ![s] = o]
  /\ obj' = [obj EXCEPT ![o] = "alive"]
  /\ block' = [block EXCEPT ![o] = [allocated |-> TRUE, sc |-> 1, wc |-> 0]]
  /\ UNCHANGED stack

\* The source of an assignment outlives the release of the destination d: the
\* daemon assigns to null pointers, or from a pointer that the calling function
\* or a list keeps.
Kept(d, s) ==
  slot[d] = NoObj \/ \E k \in Root \ (Weak \cup {d}) : slot[k] = slot[s]

\* The classes hold each other strongly in one direction only: a proxy its rules
\* and sessions, these and the routes their interfaces.
Layered(d, s) ==
  d \notin Weak => \A o \in Obj : d \in Member[o] => Rank[o] < Rank[slot[s]]

\* ptr(const ptr&), operator=(const ptr&): acquire(ptr_ref*), from a source that
\* was found not to be null.
Assign(d, s) ==
  /\ stack = <<>>
  /\ Usable(d) /\ Usable(s)
  /\ ~is_null(s)
  /\ Kept(d, s) /\ Layered(d, s)
  /\ stack' = IF slot[d] = NoObj THEN <<take(d, slot[s])>>
              ELSE <<take(d, slot[s]), release(d)>>
  /\ UNCHANGED <<slot, obj, block>>

\* ~ptr: the end of a scope, the erasure of a list element.  The assignment of a
\* null pointer does the same.
Drop(s) ==
  /\ stack = <<>>
  /\ Usable(s)
  /\ slot[s] # NoObj
  /\ stack' = <<release(s)>>
  /\ UNCHANGED <<slot, obj, block>>

-----------------------------------------------------------------------------
Adds(o, sc, wc) ==
  [block EXCEPT ![o] = [allocated |-> @.allocated, sc |-> @.sc + sc, wc |-> @.wc + wc]]

\* release() of a reference that is not the last strong one.
ReleaseShared ==
  /\ At("release")
  /\ Top.s \in Weak \/ block[Here].sc > 1
  /\ block' = IF Top.s \in Weak THEN Adds(Here, 0, -1) ELSE Adds(Here, -1, 0)
  /\ Goto("free")
  /\ UNCHANGED <<slot, obj>>

\* Mutant: no reference of its own on the block while the object is deleted.
ReleaseLast_unguarded ==
  /\ At("release")
  /\ Top.s \notin Weak /\ block[Here].sc = 1
  /\ block' = Adds(Here, -1, 0)
  /\ obj' = [obj EXCEPT ![Here] = "dying"]
  /\ Goto("destroy")
  /\ UNCHANGED slot

\* release() of the last strong one, up to the deletion of the object.
ReleaseLast ==
  /\ At("release")
  /\ Top.s \notin Weak /\ block[Here].sc = 1
  /\ block' = Adds(Here, -1, 1)
  /\ obj' = [obj EXCEPT ![Here] = "dying"]
  /\ Goto("destroy")
  /\ UNCHANGED slot

\* The destructor of the object destroys its members, one after the other.
DestroyMember(m) ==
  /\ At("destroy")
  /\ m \in Member[Here]
  /\ slot[m] # NoObj
  /\ stack' = Append(stack, release(m))
  /\ UNCHANGED <<slot, obj, block>>

\* The destructor returns.
Destroyed ==
  /\ At("destroy")
  /\ \A m \in Member[Here] : slot[m] = NoObj
  /\ obj' = [obj EXCEPT ![Here] = "dead"]
  /\ block' = Adds(Here, 0, -1)
  /\ Goto("free")
  /\ UNCHANGED slot

\* Mutant: only a strong reference frees the block.
Free_strong ==
  /\ At("free")
  /\ block' = [block EXCEPT ![Here].allocated =
                 @ /\ (block[Here].sc > 0 \/ block[Here].wc > 0 \/ Top.s \in Weak)]
  /\ slot' = [slot EXCEPT ![Top.s] = NoObj]
  /\ Return
  /\ UNCHANGED obj

\* The end of release(): the block goes with the last reference of either kind.
Free ==
  /\ At("free")
  /\ block' = [block EXCEPT ![Here].allocated =
                 @ /\ (block[Here].sc > 0 \/ block[Here].wc > 0)]
  /\ slot' = [slot EXCEPT ![Top.s] = NoObj]
  /\ Return
  /\ UNCHANGED obj

\* Mutant: a weak reference counts as a strong one.
Take_strong ==
  /\ At("take")
  /\ block[Here].sc > 0
  /\ slot' = [slot EXCEPT ![Top.s] = Here]
  /\ block' = Adds(Here, 1, 0)
  /\ Return
  /\ UNCHANGED obj

\* The end of acquire(), which throws when the object is gone (see AccessSafe).
Take ==
  /\ At("take")
  /\ block[Here].sc > 0
  /\ slot' = [slot EXCEPT ![Top.s] = Here]
  /\ block' = IF Top.s \in Weak THEN Adds(Here, 0, 1) ELSE Adds(Here, 1, 0)
  /\ Return
  /\ UNCHANGED obj

Unwind ==
  \/ ReleaseShared \/ ReleaseLast \/ Destroyed \/ Free \/ Take
  \/ \E m \in Slot : DestroyMember(m)

Next ==
  \/ \E s \in Root, o \in Obj : New(s, o)
  \/ \E d, s \in Slot : Assign(d, s)
  \/ \E s \in Slot : Drop(s)
  \/ Unwind

Spec == Init /\ [][Next]_vars

-----------------------------------------------------------------------------
(***************************************************************************)
(* Properties.                                                             *)
(***************************************************************************)
Strong(o) == {s \in Slot \ Weak : slot[s] = o}
Feeble(o) == {s \in Weak : slot[s] = o}

\* Between two calls the counters are the numbers of references, and the block
\* exists exactly as long as there are any: neither a leak of the block nor a
\* reference to a freed one (acquire, release).
CountsExact ==
  stack = <<>> => \A o \in Obj :
    /\ block[o].sc = Cardinality(Strong(o))
    /\ block[o].wc = Cardinality(Feeble(o))
    /\ block[o].allocated <=> Strong(o) \cup Feeble(o) # {}

\* Every access of release() and acquire() is to an allocated block, and its
\* assertions and the test before the exception hold, also when destructors run
\* in the middle: the destroyed object's own members may be the last references
\* to its block.
AccessSafe ==
  stack # <<>> =>
    /\ Here # NoObj
    /\ block[Here].allocated
    /\ Top.pc = "release" => IF Top.s \in Weak THEN block[Here].wc > 0
                             ELSE block[Here].sc > 0 /\ obj[Here] = "alive"
    /\ Top.pc = "take" => block[Here].sc > 0

\* Between two calls an object is alive if and only if a strong reference to it
\* is left, and otherwise destroyed completely: its members refer to nothing, so
\* that what it alone held is destroyed with it; a weak reference is never what
\* keeps it (release, is_null, ~ptr of the members).
AliveIffHeld ==
  stack = <<>> => \A o \in Obj :
    /\ obj[o] = "alive" <=> Strong(o) # {}
    /\ obj[o] # "alive" => obj[o] # "dying" /\ \A m \in Member[o] : slot[m] = NoObj
=============================================================================
