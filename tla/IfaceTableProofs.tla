-------------------------- MODULE IfaceTableProofs --------------------------
(***************************************************************************)
(* Theorems about the table of interfaces and the loop of poll_all, for    *)
(* every set of interfaces, every configuration and every order in which   *)
(* auto rules open interfaces.                                             *)
(***************************************************************************)
EXTENDS IfaceTable, WellFoundedInduction, TLAPS

\* The next key of the map, if there is one.
LEMMA AfterLeast ==
  ASSUME NEW S \in SUBSET Nat, NEW n \in Nat, \E m \in S : m > n
  PROVE  /\ after(S, n) \in S /\ after(S, n) > n
         /\ \A k \in S : k > n => after(S, n) <= k
<1> DEFINE T == {m \in S : m > n}
           R == OpToRel(<, Nat)
<1>1. T \subseteq Nat /\ T # {}
  BY Zenon
<1>2. IsWellFoundedOn(R, Nat)
  BY NatLessThanWellFounded, Zenon
<1>3. \A x, y \in Nat : <<y, x>> \in R <=> y < x
  BY DEF OpToRel
<1> HIDE DEF R
<1>4. PICK x \in T : \A y \in T : ~ (<<y, x>> \in R)
  <2> HIDE DEF T
  <2> QED BY <1>1, <1>2, WFMin, Zenon
<1>5. x \in S /\ x > n /\ \A k \in S : k > n => x <= k
  <2>1. x \in S /\ x > n /\ x \in Nat
    BY <1>4
  <2>2. ASSUME NEW k \in S, k > n
        PROVE  x <= k
    <3>1. ~ (<<k, x>> \in R) /\ k \in Nat
      BY <1>4, <2>2
    <3>2. ~ (k < x)
      BY <1>3, <2>1, <3>1
    <3> QED BY <2>1, <3>1, <3>2
  <2> QED BY <2>1, <2>2
<1>6. \E m \in S : m > n /\ \A k \in S : k > n => m <= k
  BY <1>5
<1> QED BY <1>6, Zenon DEF after

\* There is none.
LEMMA AfterEnd ==
  ASSUME NEW S \in SUBSET Nat, NEW n \in Nat, ~ \E m \in S : m > n
  PROVE  after(S, n) = End
  BY Zenon DEF after

-----------------------------------------------------------------------------
(***************************************************************************)
(* The inductive invariant.                                                *)
(***************************************************************************)
\* The flags of interface n are those before the start, or recorded.
Recorded(n) ==
  IF table[n].pfd
  THEN /\ \/ table[n].prev_allmulti = flags0[n].allmulti
          \/ table[n].prev_allmulti = -1 /\ flags[n].allmulti = flags0[n].allmulti
       /\ \/ table[n].prev_promiscuous = flags0[n].promisc
          \/ table[n].prev_promiscuous = -1 /\ flags[n].promisc = flags0[n].promisc
  ELSE flags[n] = flags0[n]

\* While the daemon runs: expired entries are announced by the dirty flag, a
\* clean poll array is exact, packet sockets belong to the configuration.
TableInv ==
  /\ Expired(table) # {} => dirty
  /\ ~dirty => pollfds = OpenFds(table)
  /\ \A n \in Name : table[n].pfd => n \in Configured_names /\ table[n].state = "live"
  /\ \A n \in Name : Recorded(n)

\* In the loop: the map only grows, and its iterator does not overtake the slots.
LoopInv ==
  /\ Expired(table) = {}
  /\ pollfds \subseteq OpenFds(table)
  /\ ready \subseteq pollfds
  /\ f_it[1] \in Polled
  /\ i_it \in keys(table)
  /\ i_it <= f_it[1]
  /\ f_it[2] = "ifd" /\ f_it[1] # after(Polled, End) => i_it < f_it[1]

\* The slots the loop has passed.
Done(d) == d[1] < f_it[1] \/ (d[1] = f_it[1] /\ d[2] = "ifd" /\ f_it[2] = "pfd")

\* As long as nothing was opened the iterator is at the interface of the slot.
TrackInv ==
  /\ Advance = f_it[1]
  /\ \A d \in ready : IF Done(d) THEN d \in got ELSE d \in queue

IInv ==
  /\ TypeOK
  /\ pc # "aborted"
  /\ pc # "exit" => TableInv
  /\ pc = "loop" => LoopInv
  /\ pc = "loop" /\ ~dirty => TrackInv
  /\ ReadUnlessOpened
  /\ FlagsRestored

\* A step that changes nothing keeps it.
LEMMA StutterIInv == IInv /\ UNCHANGED vars => IInv'
  BY DEF vars, IInv, TypeOK, TableInv, LoopInv, TrackInv, Recorded, Advance,
         Done, Polled, keys, Expired, OpenFds, ReadUnlessOpened, FlagsRestored

-----------------------------------------------------------------------------
\* Names are positive, End is no name.
LEMMA NameType == Name \subseteq Nat /\ End \in Nat /\ End \notin Name /\ \A n \in Name : n > End
  BY TableAssumption DEF End

\* after returns a key or End.
LEMMA AfterType ==
  ASSUME NEW S \in SUBSET Name, NEW n \in Name \cup {End}
  PROVE  after(S, n) \in S \cup {End}
<1>1. S \in SUBSET Nat /\ n \in Nat
  BY NameType
<1> QED BY <1>1, AfterLeast, AfterEnd

\* The first key.
LEMMA FirstKey ==
  ASSUME NEW S \in SUBSET Name, S # {}
  PROVE  after(S, End) \in S /\ \A k \in S : after(S, End) <= k
<1>1. S \in SUBSET Nat /\ End \in Nat /\ \A k \in S : k > End
  BY NameType
<1>2. \E m \in S : m > End
  BY <1>1, Zenon
<1> QED BY <1>1, <1>2, AfterLeast

\* Open descriptors belong to live entries, of which every one has an ifd.
LEMMA OpenType ==
  ASSUME NEW T
  PROVE  /\ OpenFds(T) \subseteq Name \X Kind
         /\ {d[1] : d \in OpenFds(T)} = {n \in Name : T[n].state = "live"}
<1>1. ASSUME NEW n \in Name, T[n].state = "live"
      PROVE  <<n, "ifd">> \in OpenFds(T)
  BY <1>1 DEF OpenFds, Kind
<1>2. \A d \in OpenFds(T) : d[1] \in Name /\ T[d[1]].state = "live"
  BY DEF OpenFds
<1>3. ASSUME NEW n \in Name, T[n].state = "live"
      PROVE  n \in {d[1] : d \in OpenFds(T)}
  <2> DEFINE e == <<n, "ifd">>
  <2>1. e \in OpenFds(T) /\ e[1] = n
    BY <1>1, <1>3
  <2> HIDE DEF e
  <2> QED BY <2>1
<1> QED BY <1>2, <1>3 DEF OpenFds

\* Without expired entries the keys are the live entries.
LEMMA LiveKeys ==
  ASSUME NEW T \in [Name -> Entry], Expired(T) = {}
  PROVE  keys(T) = {d[1] : d \in OpenFds(T)}
<1>1. \A n \in Name : T[n].state \in {"absent", "live", "expired"}
  BY DEF Entry
<1>2. keys(T) = {n \in Name : T[n].state = "live"}
  <2>1. ASSUME NEW n \in Name
        PROVE  T[n].state # "absent" <=> T[n].state = "live"
    BY <1>1 DEF Expired
  <2> QED BY <2>1, Zenon DEF keys
<1> QED BY <1>2, OpenType

\* An absent entry has its type.
LEMMA AbsentType == Absent \in Entry
  BY DEF Absent, Entry

-----------------------------------------------------------------------------
(***************************************************************************)
(* The configuration.                                                      *)
(***************************************************************************)
\* The invariant holds at the start.
LEMMA InitIInv == Init => IInv
<1> SUFFICES ASSUME Init PROVE IInv
  OBVIOUS
<1>1. TypeOK
  <2>1. table \in [Name -> Entry]
    BY AbsentType DEF Init
  <2>2. step \in Nat \ {0}
    BY DEF Init
  <2> QED BY <2>1, <2>2, TableAssumption, Zenon DEF Init, TypeOK, Kind, OpenFds
<1>2. /\ \A n \in Name : table[n].state = "absent" /\ ~table[n].pfd
      /\ pc = "config" /\ pollfds = {} /\ flags = flags0
  BY DEF Init, Absent
<1>3. OpenFds(table) = {} /\ Expired(table) = {}
  BY <1>2 DEF OpenFds, Expired
<1>4. TableInv
  BY <1>2, <1>3 DEF TableInv, Recorded
<1> QED BY <1>1, <1>2, <1>4 DEF IInv, ReadUnlessOpened, FlagsRestored

\* A call of open_pfd or open_ifd by configure().
LEMMA ConfigureStep ==
  ASSUME IInv, Configure
  PROVE  IInv'
<1> DEFINE c == Plan[step]
           n == c.name
<1>1. c \in Call /\ n \in Name /\ n \in Configured_names /\ c.op \in {"pfd", "ifd"}
  <2>1. step \in DOMAIN Plan
    BY TableAssumption DEF IInv, TypeOK, Configure
  <2>2. c \in Call
    BY <2>1, TableAssumption
  <2> QED BY <2>1, <2>2 DEF Call, Configured_names
<1>2. /\ pc = "config" /\ pc' = "config" /\ step' = step + 1
      /\ UNCHANGED <<pollfds, f_it, i_it, ready, queue, rhold, shold, got, flags0>>
      /\ TypeOK /\ TableInv
  BY DEF IInv, Configure
<1>3. table \in [Name -> Entry] /\ flags \in [Name -> Flags] /\ flags0 \in [Name -> Flags]
  BY <1>2, Zenon DEF TypeOK
<1>4. CASE UNCHANGED <<table, flags, dirty>>
  BY <1>2, <1>4 DEF IInv, TypeOK, TableInv, Recorded, Expired, OpenFds, ReadUnlessOpened, FlagsRestored
<1>5. ASSUME table[n].state = "absent", ~table[n].pfd,
             table' = [table EXCEPT ![n].state = "live"],
             dirty' = TRUE, UNCHANGED flags
      PROVE  IInv'
  <2>1. table' \in [Name -> Entry]
    BY <1>1, <1>3, <1>5 DEF Entry
  <2>2. \A m \in Name : table'[m].pfd = table[m].pfd
                        /\ table'[m].prev_allmulti = table[m].prev_allmulti
                        /\ table'[m].prev_promiscuous = table[m].prev_promiscuous
    BY <1>1, <1>3, <1>5 DEF Entry
  <2>3. \A m \in Name : table'[m].state = IF m = n THEN "live" ELSE table[m].state
    BY <1>1, <1>3, <1>5 DEF Entry
  <2>4. OpenFds(table) \subseteq OpenFds(table')
    BY <2>2, <2>3 DEF OpenFds
  <2>5. TypeOK'
    <3>1. step' \in Nat \ {0} /\ queue' \subseteq OpenFds(table')
      BY <1>2, <2>4, SMTT(30) DEF TypeOK
    <3> QED BY <1>2, <1>5, <2>1, <3>1, Zenon DEF TypeOK
  <2>6. TableInv'
    <3>1. \A m \in Name : Recorded(m)'
      BY <1>2, <1>5, <2>2 DEF TableInv, Recorded
    <3> QED BY <1>2, <1>5, <2>2, <2>3, <3>1 DEF TableInv
  <2> QED BY <1>2, <2>5, <2>6 DEF IInv, ReadUnlessOpened, FlagsRestored
<1>6. ASSUME ~table[n].pfd,
             NEW am \in Outcome(flags[n].allmulti), NEW pr,
             pr \in Outcome(flags[n].promisc) \/ pr = [prev |-> -1, now |-> flags[n].promisc],
             table' = [table EXCEPT ![n] = [state |-> "live", pfd |-> TRUE,
                          prev_allmulti |-> am.prev, prev_promiscuous |-> pr.prev]],
             flags' = [flags EXCEPT ![n] = [allmulti |-> am.now, promisc |-> pr.now]],
             dirty' = TRUE
      PROVE  IInv'
  <2>1. flags[n] = flags0[n] /\ flags0[n].allmulti \in 0 .. 1 /\ flags0[n].promisc \in 0 .. 1
    BY <1>1, <1>2, <1>3, <1>6, Zenon DEF TableInv, Recorded, Flags
  <2>2. /\ am.prev \in -1 .. 1 /\ am.now \in 0 .. 1
        /\ am.prev = flags0[n].allmulti \/ (am.prev = -1 /\ am.now = flags0[n].allmulti)
    BY <1>6, <2>1, SMTT(30) DEF Outcome
  <2>3. /\ pr.prev \in -1 .. 1 /\ pr.now \in 0 .. 1
        /\ pr.prev = flags0[n].promisc \/ (pr.prev = -1 /\ pr.now = flags0[n].promisc)
    BY <1>6, <2>1, SMTT(30) DEF Outcome
  <2>4. table' \in [Name -> Entry] /\ flags' \in [Name -> Flags]
    BY <1>1, <1>3, <1>6, <2>2, <2>3, Zenon DEF Entry, Flags
  <2>5. \A m \in Name : m # n => table'[m] = table[m] /\ flags'[m] = flags[m]
    BY <1>1, <1>3, <1>6, Zenon
  <2>6. /\ table'[n].state = "live" /\ table'[n].pfd = TRUE
        /\ table'[n].prev_allmulti = am.prev /\ table'[n].prev_promiscuous = pr.prev
        /\ flags'[n].allmulti = am.now /\ flags'[n].promisc = pr.now
    BY <1>1, <1>3, <1>6, Zenon
  <2>7. OpenFds(table) \subseteq OpenFds(table')
    BY <2>5, <2>6 DEF OpenFds
  <2>8. TypeOK'
    <3>1. step' \in Nat \ {0} /\ queue' \subseteq OpenFds(table')
      BY <1>2, <2>7, SMTT(30) DEF TypeOK
    <3> QED BY <1>2, <1>6, <2>4, <3>1, Zenon DEF TypeOK
  <2>9. \A m \in Name : Recorded(m)'
    <3> DEFINE amk == am.prev = flags0[n].allmulti \/ (am.prev = -1 /\ am.now = flags0[n].allmulti)
               prk == pr.prev = flags0[n].promisc \/ (pr.prev = -1 /\ pr.now = flags0[n].promisc)
    <3>1. flags0' = flags0
      BY <1>2, Zenon
    <3>2. amk /\ prk
      BY <2>2, <2>3, Zenon
    <3>3. ASSUME NEW m \in Name, m = n PROVE Recorded(m)'
      BY <2>6, <3>1, <3>2, <3>3, Zenon DEF Recorded
    <3>4. ASSUME NEW m \in Name, m # n PROVE Recorded(m)'
      <4>1. Recorded(m)
        BY <1>2, Zenon DEF TableInv
      <4>2. table'[m] = table[m] /\ flags'[m] = flags[m]
        BY <2>5, <3>4, Zenon
      <4> QED BY <3>1, <4>1, <4>2, Zenon DEF Recorded
    <3> QED BY <3>3, <3>4, Zenon
  <2>10. TableInv'
    BY <1>1, <1>2, <1>6, <2>5, <2>6, <2>9, ZenonT(30) DEF TableInv
  <2> QED BY <1>2, <2>8, <2>10, Zenon DEF IInv, ReadUnlessOpened, FlagsRestored
<1>7. CASE c.op = "pfd"
  BY <1>4, <1>6, <1>7, Zenon DEF Configure, open_pfd
<1>8. CASE c.op = "ifd"
  <2>1. table[n].state = "absent" => ~table[n].pfd
    BY <1>1, <1>2 DEF TableInv
  <2>2. dirty \in BOOLEAN
    BY <1>2 DEF TypeOK
  <2> QED BY <1>4, <1>5, <1>8, <2>1, <2>2, Zenon DEF Configure, open_ifd
<1> QED BY <1>1, <1>7, <1>8

\* The configuration is complete.
LEMMA ConfiguredStep ==
  ASSUME IInv, Configured
  PROVE  IInv'
  BY DEF IInv, Configured, TypeOK, TableInv, Recorded, Expired, OpenFds,
         ReadUnlessOpened, FlagsRestored

-----------------------------------------------------------------------------
(***************************************************************************)
(* The beginning of poll_all.                                              *)
(***************************************************************************)
\* cleanup erases the expired entries and nothing else.
LEMMA CleanupGood ==
  ASSUME NEW T \in [Name -> Entry]
  PROVE  /\ cleanup(T) \in [Name -> Entry]
         /\ Expired(cleanup(T)) = {}
         /\ OpenFds(cleanup(T)) = OpenFds(T)
         /\ \A n \in Name : T[n].state # "expired" => cleanup(T)[n] = T[n]
         /\ \A n \in Name : T[n].state = "expired" => cleanup(T)[n] = Absent
<1>1. cleanup(T) \in [Name -> Entry]
  BY AbsentType DEF cleanup
<1>2. \A n \in Name : cleanup(T)[n] = IF T[n].state = "expired" THEN Absent ELSE T[n]
  BY DEF cleanup
<1> HIDE DEF cleanup
<1>3. Absent.state = "absent"
  BY DEF Absent
<1>4. Expired(cleanup(T)) = {}
  BY <1>2, <1>3 DEF Expired
<1>5. ASSUME NEW d \in Name \X Kind
      PROVE  d \in OpenFds(cleanup(T)) <=> d \in OpenFds(T)
  BY <1>2, <1>3 DEF OpenFds
<1>6. OpenFds(cleanup(T)) = OpenFds(T)
  BY <1>5, OpenType
<1> QED BY <1>1, <1>2, <1>4, <1>6

\* cleanup, fixup_pollfds and poll.
LEMMA PollStep ==
  ASSUME IInv, Poll
  PROVE  IInv'
<1> DEFINE T == IF dirty THEN cleanup(table) ELSE table
           P == IF dirty THEN OpenFds(T) ELSE pollfds
           R == P \cap queue
<1>1. TypeOK /\ TableInv /\ table \in [Name -> Entry] /\ pc = "top"
  BY DEF IInv, Poll, TypeOK
<1>2. /\ T \in [Name -> Entry] /\ Expired(T) = {} /\ OpenFds(T) = OpenFds(table)
      /\ \A n \in Name : table[n].state # "expired" => T[n] = table[n]
      /\ \A n \in Name : table[n].state = "expired" => T[n] = Absent
  <2>1. CASE dirty
    BY <1>1, <2>1, CleanupGood
  <2>2. CASE ~dirty
    <3>1. Expired(table) = {}
      BY <1>1, <2>2 DEF TableInv
    <3> QED BY <1>1, <2>2, <3>1 DEF Expired
  <2> QED BY <2>1, <2>2
<1>3. P = OpenFds(T)
  BY <1>1, <1>2 DEF TableInv
<1>4. /\ table' = T /\ pollfds' = P /\ ready' = R
      /\ pc' = IF R = {} THEN "update" ELSE "loop"
      /\ f_it' = <<after({d[1] : d \in P}, End), "ifd">>
      /\ i_it' = after(keys(T), End)
      /\ dirty' = FALSE /\ got' = {}
      /\ UNCHANGED <<step, flags, queue, rhold, shold, flags0>>
  BY <1>2 DEF Poll
<1> HIDE DEF T, P
<1>5. keys(T) = {d[1] : d \in P} /\ keys(T) \in SUBSET Name
  BY <1>2, <1>3, LiveKeys DEF keys
<1>6. Polled' = keys(T) /\ keys(table)' = keys(T)
  BY <1>4, <1>5 DEF Polled
<1>7. P \subseteq Name \X Kind
  BY <1>3, OpenType
<1>8. f_it' = <<after(keys(T), End), "ifd">> /\ after(keys(T), End) \in Name \cup {End}
  BY <1>4, <1>5, AfterType
<1>9. TypeOK'
  <2>1. f_it' \in (Name \cup {End}) \X Kind /\ i_it' \in Name \cup {End}
    BY <1>4, <1>8 DEF Kind
  <2>2. queue' \subseteq OpenFds(table') /\ ready' \subseteq Name \X Kind
    BY <1>1, <1>2, <1>4, <1>7 DEF TypeOK
  <2>3. pc' \in {"loop", "update"} /\ dirty' \in BOOLEAN
    BY <1>4, Zenon
  <2> QED BY <1>1, <1>2, <1>4, <1>7, <2>1, <2>2, <2>3 DEF TypeOK
<1>10. TableInv'
  <2>1. \A n \in Name : T[n].pfd => table[n].pfd /\ T[n] = table[n]
    BY <1>2 DEF Absent
  <2>2. \A n \in Name : table[n].pfd => T[n] = table[n]
    BY <1>1, <1>2, Zenon DEF TableInv
  <2>3. \A n \in Name : Recorded(n)'
    BY <1>1, <1>4, <2>1, <2>2 DEF TableInv, Recorded
  <2> QED BY <1>1, <1>2, <1>3, <1>4, <2>1, <2>3 DEF TableInv
<1>11. ASSUME pc' = "loop"
       PROVE  LoopInv' /\ TrackInv'
  <2>1. PICK e \in P : e \in queue
    BY <1>4, <1>11
  <2>2. keys(T) # {}
    BY <1>5, <2>1
  <2> DEFINE k == after(keys(T), End)
  <2>3. k \in keys(T) /\ \A m \in keys(T) : k <= m
    BY <1>5, <2>2, FirstKey, Zenon
  <2>4. f_it'[1] = k /\ f_it'[2] = "ifd" /\ i_it' = k /\ after(Polled', End) = k
    BY <1>4, <1>6, <1>8
  <2> HIDE DEF k
  <2>5. k \in Nat
    BY <1>5, <2>3, NameType, Zenon
  <2>6. LoopInv'
    BY <1>2, <1>3, <1>4, <1>6, <2>3, <2>4, <2>5 DEF LoopInv
  <2>7. Advance' = f_it'[1]
    BY <2>4 DEF Advance
  <2>8. ASSUME NEW d \in ready'
        PROVE  ~Done(d)' /\ d \in queue'
    <3>1. d \in P /\ d \in queue /\ d[1] \in keys(T)
      BY <1>4, <1>5, <2>8
    <3>2. k <= d[1] /\ d[1] \in Nat
      BY <1>5, <2>3, <3>1, NameType, Zenon
    <3> QED BY <1>4, <2>4, <2>5, <3>1, <3>2 DEF Done
  <2> QED BY <2>6, <2>7, <2>8, Zenon DEF TrackInv
<1>12. pc' \notin {"aborted", "exit"} /\ ReadUnlessOpened' /\ FlagsRestored'
  BY <1>4 DEF ReadUnlessOpened, FlagsRestored
<1> QED BY <1>9, <1>10, <1>11, <1>12 DEF IInv

-----------------------------------------------------------------------------
\* One turn of the loop: the entry it dereferences exists and is live, and the
\* iterator stays at or before the slot.
LEMMA TurnGood ==
  ASSUME TypeOK, LoopInv
  PROVE  /\ Polled \subseteq keys(table) /\ keys(table) \subseteq Name
         /\ Advance \in keys(table) /\ Advance <= f_it[1]
         /\ ~BadEntry(Advance)
         /\ NextSlot \in (Name \cup {End}) \X Kind
         /\ NextSlot[1] # End => NextSlot[1] \in Polled
         /\ f_it[2] = "ifd" => NextSlot[1] = f_it[1] /\ NextSlot[2] = "pfd"
         /\ f_it[2] = "pfd" => /\ NextSlot[1] = after(Polled, f_it[1])
                               /\ NextSlot[2] = "ifd"
         /\ f_it[2] = "pfd" /\ NextSlot[1] # End =>
              NextSlot[1] > f_it[1] /\ NextSlot[1] # after(Polled, End)
<1>1. keys(table) \subseteq Name /\ table \in [Name -> Entry]
  BY DEF keys, TypeOK
<1>2. Polled \subseteq keys(table)
  <2>1. \A d \in OpenFds(table) : d[1] \in keys(table)
    BY DEF OpenFds, keys
  <2> QED BY <2>1 DEF LoopInv, Polled
<1>3. /\ f_it[1] \in Polled /\ i_it \in keys(table) /\ i_it <= f_it[1]
      /\ f_it[2] = "ifd" /\ f_it[1] # after(Polled, End) => i_it < f_it[1]
  BY DEF LoopInv
<1>4. f_it[1] \in Nat /\ f_it[1] \in Name /\ i_it \in Nat /\ f_it[2] \in Kind
  BY <1>1, <1>2, <1>3, NameType, Zenon DEF TypeOK
<1>5. keys(table) \in SUBSET Nat /\ Polled \in SUBSET Nat /\ Polled \in SUBSET Name
  BY <1>1, <1>2, NameType, Zenon
<1>6. Advance \in keys(table) /\ Advance <= f_it[1]
  <2>1. CASE f_it[2] = "ifd" /\ f_it[1] # after(Polled, End)
    <3>1. f_it[1] \in keys(table) /\ f_it[1] > i_it
      BY <1>2, <1>3, <1>4, <2>1
    <3>2. /\ after(keys(table), i_it) \in keys(table)
          /\ after(keys(table), i_it) <= f_it[1]
      BY <1>4, <1>5, <3>1, AfterLeast
    <3> QED BY <2>1, <3>2 DEF Advance
  <2>2. CASE ~(f_it[2] = "ifd" /\ f_it[1] # after(Polled, End))
    BY <1>3, <2>2 DEF Advance
  <2> QED BY <2>1, <2>2
<1>7. ~BadEntry(Advance)
  <2>1. Advance \in Name /\ Advance # End
    BY <1>1, <1>6, NameType
  <2>2. table[Advance].state # "expired"
    BY <2>1 DEF LoopInv, Expired
  <2> QED BY <2>1, <2>2 DEF BadEntry
<1>8. /\ f_it[2] = "ifd" => NextSlot = <<f_it[1], "pfd">>
      /\ f_it[2] = "pfd" => NextSlot = <<after(Polled, f_it[1]), "ifd">>
  BY DEF NextSlot
<1>9. after(Polled, f_it[1]) \in Polled \cup {End}
  BY <1>4, <1>5, AfterType
<1>10. NextSlot \in (Name \cup {End}) \X Kind /\ (NextSlot[1] # End => NextSlot[1] \in Polled)
  <2>1. CASE f_it[2] = "ifd"
    BY <1>3, <1>4, <1>8, <2>1 DEF Kind
  <2>2. CASE f_it[2] = "pfd"
    <3> DEFINE k == after(Polled, f_it[1])
    <3>1. k \in Polled \cup {End} /\ k \in Name \cup {End} /\ NextSlot = <<k, "ifd">>
      BY <1>5, <1>8, <1>9, <2>2
    <3> HIDE DEF k
    <3> QED BY <3>1 DEF Kind
  <2> QED BY <1>4, <2>1, <2>2 DEF Kind
<1>11. ASSUME f_it[2] = "pfd", NextSlot[1] # End
       PROVE  NextSlot[1] > f_it[1] /\ NextSlot[1] # after(Polled, End)
  <2>1. NextSlot[1] = after(Polled, f_it[1])
    BY <1>8, <1>11
  <2>2. after(Polled, f_it[1]) > f_it[1]
    BY <1>4, <1>5, <1>11, <2>1, AfterLeast, AfterEnd
  <2>3. after(Polled, End) <= f_it[1] /\ after(Polled, End) \in Nat
    BY <1>3, <1>5, FirstKey, Zenon
  <2>4. after(Polled, f_it[1]) \in Nat
    BY <1>5, <1>9, NameType, Zenon
  <2> QED BY <1>4, <2>1, <2>2, <2>3, <2>4
<1> QED BY <1>1, <1>2, <1>6, <1>7, <1>8, <1>10, <1>11

\* The loop goes on: its iterators are related as before, whatever was added to
\* the map.
LEMMA LoopStep ==
  ASSUME TypeOK, LoopInv, Step(FALSE), pc' = "loop",
         table' \in [Name -> Entry], Expired(table') = {},
         keys(table) \subseteq keys(table'), OpenFds(table) \subseteq OpenFds(table')
  PROVE  LoopInv'
<1>1. /\ i_it' = Advance /\ f_it' = NextSlot /\ NextSlot[1] # End
      /\ pollfds' = pollfds /\ ready' = ready
  BY DEF Step
<1>2. Polled' = Polled
  BY <1>1, SMTT(30) DEF Polled
<1>3. f_it'[1] \in Polled /\ i_it' \in keys(table')
  BY <1>1, TurnGood
<1>4. f_it[2] \in Kind /\ f_it[1] \in Nat /\ Advance \in Nat /\ NextSlot[1] \in Nat
  <2>1. f_it[2] \in Kind /\ f_it[1] \in Name \cup {End}
    BY DEF TypeOK
  <2> QED BY <1>1, <2>1, TurnGood, NameType, Zenon
<1>5. Advance <= f_it[1]
  BY TurnGood
<1>6. i_it' <= f_it'[1] /\ (f_it'[2] = "ifd" => i_it' < f_it'[1])
  <2>1. CASE f_it[2] = "ifd"
    <3>1. NextSlot[1] = f_it[1] /\ NextSlot[2] = "pfd"
      BY <2>1, TurnGood, Zenon
    <3> QED BY <1>1, <1>4, <1>5, <3>1, SMTT(30)
  <2>2. CASE f_it[2] = "pfd"
    <3>1. NextSlot[1] > f_it[1]
      BY <1>1, <2>2, TurnGood
    <3> QED BY <1>1, <1>4, <1>5, <3>1, SMTT(30)
  <2> QED BY <1>4, <2>1, <2>2, Zenon DEF Kind
<1> QED BY <1>1, <1>2, <1>3, <1>6 DEF LoopInv

\* As long as nothing is opened the iterators move in step, and a slot that was
\* ready has been read once the loop has passed it.
LEMMA TrackStep ==
  ASSUME TypeOK, LoopInv, TrackInv, Step(FALSE), table' = table,
         pollfds = OpenFds(table),
         got \subseteq got', queue \ {f_it} \subseteq queue',
         f_it \in ready => f_it \in got'
  PROVE  /\ pc' = "loop" => TrackInv'
         /\ pc' = "update" => ready' \subseteq got'
<1>1. /\ i_it' = Advance /\ f_it' = NextSlot
      /\ pc' = IF NextSlot[1] = End THEN "update" ELSE "loop"
      /\ pollfds' = pollfds /\ ready' = ready /\ Polled' = Polled
  BY DEF Step, Polled
<1>2. Polled = keys(table)
  <2>1. table \in [Name -> Entry] /\ Expired(table) = {}
    BY DEF TypeOK, LoopInv
  <2> QED BY <2>1, LiveKeys DEF Polled
<1>3. /\ f_it \in (Name \cup {End}) \X Kind /\ f_it[2] \in Kind
      /\ f_it[1] \in Nat /\ f_it[1] \in Name /\ Polled \in SUBSET Nat
      /\ ready \subseteq Name \X Kind
  <2>1. f_it[1] \in Polled
    BY DEF LoopInv
  <2> QED BY <2>1, TurnGood, NameType, Zenon DEF TypeOK
<1>4. Advance = f_it[1] /\ \A d \in ready : IF Done(d) THEN d \in got ELSE d \in queue
  BY DEF TrackInv
<1>5. ASSUME NEW d \in ready
      PROVE  /\ d[1] \in Nat /\ d[1] \in Polled /\ d[2] \in Kind
             /\ Done(d) \/ d = f_it => d \in got'
             /\ ~Done(d) /\ d # f_it => d \in queue'
  <2>1. d[1] \in Polled /\ d[2] \in Kind /\ d[1] \in Nat
    BY <1>3 DEF LoopInv, Polled
  <2> QED BY <1>4, <2>1
<1>6. ASSUME pc' = "loop"
      PROVE  TrackInv'
  <2>1. NextSlot[1] # End /\ NextSlot[1] \in Nat
    BY <1>1, <1>3, <1>6, TurnGood, Zenon
  <2>2. CASE f_it[2] = "ifd"
    <3>1. f_it'[1] = f_it[1] /\ f_it'[2] = "pfd"
      BY <1>1, <2>2, TurnGood
    <3>2. Advance' = f_it'[1]
      BY <1>1, <1>4, <3>1 DEF Advance
    <3>3. ASSUME NEW d \in ready
          PROVE  Done(d)' <=> Done(d) \/ d = f_it
      <4>1. d = f_it <=> d[1] = f_it[1] /\ d[2] = f_it[2]
        BY <1>3
      <4> QED BY <2>2, <3>1, <4>1 DEF Done
    <3> QED BY <1>1, <1>5, <3>2, <3>3 DEF TrackInv
  <2>3. CASE f_it[2] = "pfd"
    <3>1. /\ f_it'[1] = after(Polled, f_it[1]) /\ f_it'[2] = "ifd"
          /\ f_it'[1] > f_it[1] /\ f_it'[1] # after(Polled, End) /\ f_it'[1] \in Nat
      BY <1>1, <2>1, <2>3, TurnGood, Zenon
    <3>2. Advance' = f_it'[1]
      BY <1>1, <1>2, <1>4, <3>1 DEF Advance
    <3>3. ASSUME NEW d \in ready
          PROVE  Done(d)' <=> Done(d) \/ d = f_it
      <4>1. d = f_it <=> d[1] = f_it[1] /\ d[2] = f_it[2]
        BY <1>3
      <4>2. d[1] > f_it[1] => f_it'[1] <= d[1]
        BY <1>3, <1>5, <3>1, AfterLeast
      <4>3. Done(d)' <=> d[1] < f_it'[1]
        BY <3>1 DEF Done
      <4>4. d[1] < f_it'[1] <=> d[1] <= f_it[1]
        BY <1>3, <1>5, <3>1, <4>2
      <4>5. d[1] <= f_it[1] <=> Done(d) \/ d = f_it
        BY <1>3, <1>5, <2>3, <4>1 DEF Done, Kind
      <4> QED BY <4>3, <4>4, <4>5, Zenon
    <3> QED BY <1>1, <1>5, <3>2, <3>3 DEF TrackInv
  <2> QED BY <1>3, <2>2, <2>3 DEF Kind
<1>7. ASSUME pc' = "update", NEW d \in ready
      PROVE  d \in got'
  <2>1. NextSlot[1] = End /\ f_it[2] = "pfd"
    BY <1>1, <1>3, <1>7, TurnGood, NameType, Zenon DEF Kind
  <2>2. after(Polled, f_it[1]) = End
    BY <2>1, TurnGood
  <2>3. ~(d[1] > f_it[1])
    BY <1>3, <1>5, <2>2, AfterLeast DEF End
  <2>4. d = f_it <=> d[1] = f_it[1] /\ d[2] = f_it[2]
    BY <1>3
  <2>5. Done(d) \/ d = f_it
    BY <1>3, <1>5, <2>1, <2>3, <2>4, SMTT(30) DEF Done, Kind
  <2> QED BY <1>5, <2>5
<1> QED BY <1>1, <1>6, <1>7, Zenon

-----------------------------------------------------------------------------
\* What the three kinds of turn have in common: nothing is dereferenced that is
\* dead, and what does not concern the map keeps its type.
LEMMA TurnStep ==
  ASSUME IInv, pc = "loop", Step(FALSE),
         table' \in [Name -> Entry], Expired(table') = {},
         keys(table) \subseteq keys(table'), OpenFds(table) \subseteq OpenFds(table'),
         dirty' \in BOOLEAN, queue' \subseteq queue,
         rhold' \subseteq Name, shold' \in [Name -> Nat], got' \subseteq Name \X Kind,
         \A n \in Name : table'[n].pfd = table[n].pfd /\ (table[n].pfd => table'[n] = table[n]),
         ~dirty' => ~dirty /\ table' = table,
         got \subseteq got', queue \ {f_it} \subseteq queue' \/ dirty,
         f_it \in ready => f_it \in got' \/ dirty
  PROVE  IInv'
<1>1. TypeOK /\ LoopInv /\ TableInv
  BY Zenon DEF IInv
<1>2. /\ i_it' = Advance /\ f_it' = NextSlot
      /\ pc' = IF NextSlot[1] = End THEN "update" ELSE "loop"
      /\ UNCHANGED <<step, pollfds, flags, ready, flags0>>
  BY Zenon DEF Step
<1>3. f_it' \in (Name \cup {End}) \X Kind /\ i_it' \in Name \cup {End}
  BY <1>1, <1>2, TurnGood, Zenon
<1>4. pc' \in {"loop", "update"}
  BY <1>2
<1>5. TypeOK'
  <2>1. queue' \subseteq OpenFds(table')
    BY <1>1, Zenon DEF TypeOK
  <2> QED BY <1>1, <1>2, <1>3, <1>4, <2>1, Zenon DEF TypeOK
<1>6. TableInv'
  <2>1. \A n \in Name : Recorded(n)'
    BY <1>1, <1>2, Zenon DEF TableInv, Recorded
  <2>2. ~dirty' => pollfds' = OpenFds(table')
    BY <1>1, <1>2, Zenon DEF TableInv
  <2> QED BY <1>1, <2>1, <2>2, Zenon DEF TableInv
<1>7. pc' = "loop" => LoopInv'
  BY <1>1, LoopStep
<1>8. ASSUME ~dirty'
      PROVE  /\ pc' = "loop" => TrackInv'
             /\ pc' = "update" => ready' \subseteq got'
  <2>1. ~dirty /\ table' = table /\ TrackInv /\ pollfds = OpenFds(table)
    BY <1>1, <1>8 DEF IInv, TableInv
  <2> QED BY <1>1, <2>1, TrackStep, Zenon
<1> QED BY <1>4, <1>5, <1>6, <1>7, <1>8 DEF IInv, ReadUnlessOpened, FlagsRestored

\* A turn that reads nothing.
LEMMA PollSkipStep ==
  ASSUME IInv, PollSkip
  PROVE  IInv'
<1>1. TypeOK /\ LoopInv /\ pc = "loop"
  BY Zenon DEF IInv, PollSkip
<1>2. Step(FALSE)
  BY <1>1, TurnGood DEF PollSkip, Step
<1>3. UNCHANGED <<table, dirty, queue, rhold, shold, got>>
  BY DEF PollSkip
<1>4. f_it \in ready => dirty
  <2> SUFFICES ASSUME f_it \in ready, ~dirty PROVE FALSE
    BY <1>1 DEF TypeOK
  <2>1. TrackInv
    BY <1>1 DEF IInv
  <2>2. f_it \in (Name \cup {End}) \X Kind /\ f_it[1] \in Nat
    BY <1>1, NameType, Zenon DEF TypeOK
  <2>3. ~Done(f_it)
    BY <2>2 DEF Done
  <2>4. f_it \in queue /\ Advance = f_it[1]
    BY <2>1, <2>3 DEF TrackInv
  <2>5. f_it = <<Advance, f_it[2]>>
    BY <2>2, <2>4, SMTT(30)
  <2> QED BY <2>4, <2>5 DEF PollSkip, Reads
<1>5. table \in [Name -> Entry] /\ dirty \in BOOLEAN /\ Expired(table) = {}
      /\ rhold \subseteq Name /\ shold \in [Name -> Nat] /\ got \subseteq Name \X Kind
  BY <1>1 DEF TypeOK, LoopInv
<1> QED BY <1>1, <1>2, <1>3, <1>4, <1>5, TurnStep

\* The descriptor a turn reads is that of the slot, unless an interface was opened.
LEMMA ReadGood ==
  ASSUME IInv, pc = "loop", NEW d \in queue, Reads(d)
  PROVE  d \in Name \X Kind /\ f_it \in ready /\ (dirty \/ d = f_it)
<1>1. TypeOK /\ d \in Name \X Kind /\ f_it \in ready /\ d = <<Advance, f_it[2]>>
  BY OpenType DEF IInv, TypeOK, Reads
<1>2. ASSUME ~dirty
      PROVE  d = f_it
  <2>1. Advance = f_it[1]
    BY <1>2 DEF IInv, TrackInv
  <2>2. f_it \in (Name \cup {End}) \X Kind
    BY <1>1 DEF TypeOK
  <2> QED BY <1>1, <2>1, <2>2
<1> QED BY <1>1, <1>2

\* A turn that reads a message.
LEMMA PollReadStep ==
  ASSUME IInv, PollRead
  PROVE  IInv'
<1>1. TypeOK /\ LoopInv /\ pc = "loop"
  BY Zenon DEF IInv, PollRead
<1>2. Step(FALSE)
  BY <1>1, TurnGood DEF PollRead, Step
<1>3. UNCHANGED <<table, dirty, rhold, shold>>
  BY DEF PollRead
<1>4. PICK d \in queue : Reads(d) /\ queue' = queue \ {d} /\ got' = got \cup {d}
  BY DEF PollRead
<1>5. d \in Name \X Kind /\ (dirty \/ d = f_it)
  BY <1>1, <1>4, ReadGood, Zenon
<1>6. table \in [Name -> Entry] /\ dirty \in BOOLEAN /\ Expired(table) = {}
      /\ rhold \subseteq Name /\ shold \in [Name -> Nat] /\ got \subseteq Name \X Kind
  BY <1>1 DEF TypeOK, LoopInv
<1>7. /\ got' \subseteq Name \X Kind /\ got \subseteq got' /\ queue' \subseteq queue
      /\ queue \ {f_it} \subseteq queue' \/ dirty
      /\ f_it \in ready => f_it \in got' \/ dirty
  BY <1>4, <1>5, <1>6, ZenonT(30)
<1> QED BY <1>1, <1>2, <1>3, <1>6, <1>7, TurnStep

\* A turn in which an auto rule opens interface n.
LEMMA PollOpenStep ==
  ASSUME IInv, NEW n \in AutoName, PollOpen(n)
  PROVE  IInv'
<1>1. TypeOK /\ LoopInv /\ TableInv /\ pc = "loop" /\ n \in Name
  BY TableAssumption, Zenon DEF IInv, PollOpen
<1>2. table \in [Name -> Entry] /\ dirty \in BOOLEAN /\ Expired(table) = {}
      /\ rhold \subseteq Name /\ shold \in [Name -> Nat] /\ got \subseteq Name \X Kind
  BY <1>1 DEF TypeOK, LoopInv
<1>3. table[n].state # "expired"
  BY <1>1, <1>2 DEF Expired
<1>4. Step(FALSE)
  BY <1>1, <1>3, TurnGood DEF PollOpen, Step
<1>5. PICK d \in queue : Reads(d) /\ queue' = queue \ {d} /\ got' = got \cup {d}
  BY DEF PollOpen
<1>6. d \in Name \X Kind /\ (dirty \/ d = f_it)
  BY <1>1, <1>5, ReadGood
<1>7. /\ got' \subseteq Name \X Kind /\ got \subseteq got' /\ queue' \subseteq queue
      /\ queue \ {f_it} \subseteq queue' \/ dirty
      /\ f_it \in ready => f_it \in got' \/ dirty
  BY <1>2, <1>5, <1>6
<1>8. rhold' \subseteq Name /\ shold' \in [Name -> Nat]
  <2>1. PICK k \in {shold[n], shold[n] + 1} : shold' = [shold EXCEPT ![n] = k]
    BY Zenon DEF PollOpen
  <2>2. k \in Nat
    BY <1>1, <1>2, <2>1
  <2>3. rhold' = rhold \cup {n}
    BY DEF PollOpen
  <2> QED BY <1>1, <1>2, <2>1, <2>2, <2>3
<1>9. table' = open_ifd(table, n) /\ dirty' = (dirty \/ table[n].state = "absent")
  BY DEF PollOpen
<1>10. CASE table[n].state = "absent"
  <2>1. table' = [table EXCEPT ![n].state = "live"] /\ dirty' = TRUE
    BY <1>9, <1>10, Zenon DEF open_ifd
  <2>2. table' \in [Name -> Entry]
    BY <1>1, <1>2, <2>1, Zenon DEF Entry
  <2>3. /\ \A m \in Name : m # n => table'[m] = table[m]
        /\ table'[n].state = "live" /\ table'[n].pfd = table[n].pfd
    BY <1>1, <1>2, <2>1 DEF Entry
  <2>4. ~table[n].pfd
    BY <1>1, <1>10 DEF TableInv
  <2>5. Expired(table') = {} /\ keys(table) \subseteq keys(table')
    BY <1>2, <2>3 DEF Expired, keys
  <2>6. OpenFds(table) \subseteq OpenFds(table')
    BY <2>3 DEF OpenFds
  <2>7. \A m \in Name : table'[m].pfd = table[m].pfd /\ (table[m].pfd => table'[m] = table[m])
    BY <2>3, <2>4
  <2> QED BY <1>1, <1>4, <1>7, <1>8, <2>1, <2>2, <2>5, <2>6, <2>7, TurnStep, Zenon
<1>11. CASE table[n].state # "absent"
  <2>1. table' = table /\ dirty' = dirty
    BY <1>2, <1>9, <1>11 DEF open_ifd
  <2> QED BY <1>1, <1>2, <1>4, <1>7, <1>8, <2>1, TurnStep
<1> QED BY <1>10, <1>11, Zenon

-----------------------------------------------------------------------------
(***************************************************************************)
(* The end of a turn, the network and the exit.                            *)
(***************************************************************************)
\* Interfaces that nobody refers to are destroyed, which sets the dirty flag;
\* those of the configuration are none of them.
LEMMA UpdateStep ==
  ASSUME IInv, Update
  PROVE  IInv'
<1> DEFINE D == {n \in Name : /\ table[n].state = "live"
                              /\ n \notin Configured_names \cup rhold'
                              /\ shold'[n] = 0}
<1>1. TypeOK /\ TableInv /\ table \in [Name -> Entry] /\ dirty \in BOOLEAN
  BY Zenon DEF IInv, Update, TypeOK
<1>2. /\ table' = destroyed(D) /\ dirty' = dirtied(D)
      /\ queue' = {d \in queue : d[1] \notin D}
      /\ rhold' \in {rhold, {}} /\ shold' \in [Name -> 0 .. MaxHold]
      /\ pc' = "top" /\ f_it' = <<End, "ifd">> /\ i_it' = End
      /\ ready' = {} /\ got' = {}
      /\ UNCHANGED <<step, pollfds, flags, flags0>>
  BY DEF Update
<1>3. D \subseteq Name /\ \A n \in D : n \notin Configured_names
  OBVIOUS
<1> HIDE DEF D
<1>4. /\ table' \in [Name -> Entry]
      /\ \A n \in Name : n \notin D => table'[n] = table[n]
      /\ \A n \in D : table'[n].state = "expired" /\ table'[n].pfd = table[n].pfd
  BY <1>1, <1>2, <1>3, ZenonT(30) DEF destroyed, Entry
<1>5. \A n \in D : ~table[n].pfd
  BY <1>1, <1>3, Zenon DEF TableInv
<1>6. TypeOK'
  <2>1. shold' \in [Name -> Nat]
    BY <1>2, TableAssumption
  <2>2. f_it' \in (Name \cup {End}) \X Kind /\ i_it' \in Name \cup {End}
    BY <1>2 DEF Kind
  <2>3. queue' \subseteq OpenFds(table')
    <3>1. ASSUME NEW d \in OpenFds(table), d[1] \notin D
          PROVE  d \in OpenFds(table')
      BY <1>4, <3>1 DEF OpenFds
    <3> QED BY <1>1, <1>2, <3>1, Zenon DEF TypeOK
  <2>4. rhold' \subseteq Name /\ dirty' \in BOOLEAN
    BY <1>1, <1>2, Zenon DEF TypeOK, dirtied
  <2> QED BY <1>1, <1>2, <1>4, <2>1, <2>2, <2>3, <2>4 DEF TypeOK
<1>7. TableInv'
  <2>1. dirty' <=> dirty \/ D # {}
    BY <1>1, <1>2, Zenon DEF dirtied
  <2>2. Expired(table') # {} => dirty'
    BY <1>1, <1>4, <2>1 DEF TableInv, Expired
  <2>3. ~dirty' => table' = table
    BY <1>1, <1>4, <2>1
  <2>4. ~dirty' => pollfds' = OpenFds(table')
    BY <1>1, <1>2, <2>1, <2>3 DEF TableInv
  <2>5. \A n \in Name : table'[n].pfd => n \in Configured_names /\ table'[n].state = "live"
    BY <1>1, <1>4, <1>5 DEF TableInv
  <2>6. \A n \in Name : Recorded(n)'
    <3>1. ASSUME NEW n \in Name
          PROVE  Recorded(n)'
      <4>1. Recorded(n)
        BY <1>1, Zenon DEF TableInv
      <4>2. CASE n \in D
        BY <1>2, <1>4, <1>5, <4>1, <4>2, SMTT(30) DEF Recorded
      <4>3. CASE n \notin D
        BY <1>2, <1>4, <4>1, <4>3, Zenon DEF Recorded
      <4> QED BY <4>2, <4>3
    <3> QED BY <3>1
  <2> QED BY <2>2, <2>4, <2>5, <2>6 DEF TableInv
<1> QED BY <1>2, <1>6, <1>7, Zenon DEF IInv, ReadUnlessOpened, FlagsRestored

\* A message arrives.
LEMMA ArriveStep ==
  ASSUME IInv, Arrive
  PROVE  IInv'
<1>1. PICK d \in OpenFds(table) : queue' = queue \cup {d}
  BY DEF Arrive
<1>2. UNCHANGED <<pc, step, table, dirty, pollfds, flags, f_it, i_it, ready,
                  rhold, shold, got, flags0>>
  BY Zenon DEF Arrive
<1>3. TypeOK'
  BY <1>1, <1>2, Zenon DEF IInv, TypeOK, OpenFds
<1>4. pc # "exit" => TableInv'
  BY <1>2, Zenon DEF IInv, TableInv, Recorded, Expired, OpenFds
<1>5. pc = "loop" => LoopInv'
  BY <1>2, Zenon DEF IInv, LoopInv, Expired, OpenFds, Polled, keys
<1>6. pc = "loop" /\ ~dirty => TrackInv'
  BY <1>1, <1>2 DEF IInv, TrackInv, Advance, Done, Polled, keys
<1> QED BY <1>2, <1>3, <1>4, <1>5, <1>6 DEF IInv, ReadUnlessOpened, FlagsRestored

\* Every interface is destroyed and puts back what it recorded.
LEMMA ExitStep ==
  ASSUME IInv, Exit
  PROVE  IInv'
<1> DEFINE D == {n \in Name : table[n].state = "live"}
<1>1. /\ TypeOK /\ TableInv /\ table \in [Name -> Entry]
      /\ flags \in [Name -> Flags] /\ flags0 \in [Name -> Flags]
  BY ZenonT(30) DEF IInv, Exit, TypeOK
<1>2. /\ pc' = "exit" /\ table' = destroyed(D) /\ queue' = {} /\ rhold' = {}
      /\ flags' = [n \in Name |-> IF table[n].pfd THEN restored(n) ELSE flags[n]]
      /\ shold' = [n \in Name |-> 0]
      /\ UNCHANGED <<step, dirty, pollfds, f_it, i_it, ready, got, flags0>>
  BY Zenon DEF Exit
<1> HIDE DEF D
<1>3. table' \in [Name -> Entry]
  BY <1>1, <1>2, ZenonT(30) DEF destroyed, Entry
<1>4. ASSUME NEW n \in Name
      PROVE  (IF table[n].pfd THEN restored(n) ELSE flags[n]) = flags0[n]
  <2>1. Recorded(n)
    BY <1>1 DEF TableInv
  <2>2. /\ flags0[n] = [allmulti |-> flags0[n].allmulti, promisc |-> flags0[n].promisc]
        /\ flags0[n].allmulti \in 0 .. 1 /\ flags0[n].promisc \in 0 .. 1
    BY <1>1 DEF Flags
  <2>3. CASE table[n].pfd
    <3>1. /\ restored(n).allmulti = flags0[n].allmulti
          /\ restored(n).promisc = flags0[n].promisc
      BY <2>1, <2>2, <2>3, SMTT(30) DEF Recorded, restored
    <3>2. restored(n) = [allmulti |-> restored(n).allmulti, promisc |-> restored(n).promisc]
      BY DEF restored
    <3> QED BY <2>2, <2>3, <3>1, <3>2, Zenon
  <2>4. CASE ~table[n].pfd
    BY <2>1, <2>4 DEF Recorded
  <2> QED BY <2>3, <2>4
<1>5. flags' = flags0
  BY <1>1, <1>2, <1>4
<1>6. TypeOK'
  <2>1. shold' \in [Name -> Nat] /\ queue' \subseteq OpenFds(table')
    BY <1>2
  <2>2. flags' \in [Name -> Flags] /\ rhold' \subseteq Name
    BY <1>1, <1>2, <1>5
  <2> QED BY <1>1, <1>2, <1>3, <2>1, <2>2, Zenon DEF TypeOK
<1> QED BY <1>2, <1>5, <1>6, Zenon DEF IInv, ReadUnlessOpened, FlagsRestored

\* The invariant is inductive.
LEMMA NextIInv == IInv /\ [Next]_vars => IInv'
<1> SUFFICES ASSUME IInv, [Next]_vars PROVE IInv'
  BY ZenonT(30)
<1>1. CASE UNCHANGED vars
  BY <1>1, StutterIInv, Zenon
<1>2. CASE Next
  BY <1>2, ConfigureStep, ConfiguredStep, PollStep, PollSkipStep, PollReadStep,
     PollOpenStep, UpdateStep, ArriveStep, ExitStep DEF Next
<1> QED BY <1>1, <1>2

\* It holds in every reachable state.
LEMMA Invariant == Spec => []IInv
  BY InitIInv, NextIInv, PTL DEF Spec

-----------------------------------------------------------------------------
\* Every variable keeps its type, and no message waits at a closed descriptor.
THEOREM TableTypeCorrect == Spec => []TypeOK
<1>1. IInv => TypeOK
  BY DEF IInv
<1> QED BY <1>1, Invariant, PTL

\* open_ifd, fixup_pollfds and the loop of poll_all never dereference an expired
\* entry of _map or its end, although interfaces come and go.
THEOREM NoDeadEntry == Spec => []NeverDereferencesDead
<1>1. IInv => NeverDereferencesDead
  BY DEF IInv, NeverDereferencesDead
<1> QED BY <1>1, Invariant, PTL

\* _pollfds and _map agree whenever _map_dirty is clear, and the loop of poll_all
\* polls no closed descriptor.
THEOREM PollArrayExact == Spec => []PollsOpenSockets
<1>1. IInv => PollsOpenSockets
  <2> SUFFICES ASSUME IInv PROVE PollsOpenSockets
    OBVIOUS
  <2>1. ASSUME ~dirty, pc # "exit"
        PROVE  pollfds = OpenFds(table) /\ Polled = keys(table)
    <3>1. pollfds = OpenFds(table) /\ Expired(table) = {} /\ table \in [Name -> Entry]
      BY <2>1 DEF IInv, TableInv, TypeOK
    <3> QED BY <3>1, LiveKeys DEF Polled
  <2>2. pc = "loop" => pollfds \subseteq OpenFds(table)
    BY DEF IInv, LoopInv
  <2> QED BY <2>1, <2>2 DEF PollsOpenSockets
<1> QED BY <1>1, Invariant, PTL

\* poll_all reads every descriptor that poll reported, unless an interface was
\* opened in the same turn.
THEOREM ReadsWhatPollReports == Spec => []ReadUnlessOpened
<1>1. IInv => ReadUnlessOpened
  BY DEF IInv
<1> QED BY <1>1, Invariant, PTL

\* ~iface puts the flags of every interface back, wherever the daemon stops.
THEOREM FlagsPutBack == Spec => []FlagsRestored
<1>1. IInv => FlagsRestored
  BY DEF IInv
<1> QED BY <1>1, Invariant, PTL
=============================================================================
