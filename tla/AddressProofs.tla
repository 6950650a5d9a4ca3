--------------------------- MODULE AddressProofs ----------------------------
(***************************************************************************)
(* Theorems about addresses: about class address, for every size of an     *)
(* address, in particular the 16 bytes of IPv6, every prefix length and    *)
(* every set of hosts; and about the list of the host's own addresses that *)
(* nd-netlink.cc keeps, for every set of interfaces and of addresses,      *)
(* every size of the socket's buffer and any number of changes.            *)
(***************************************************************************)
EXTENDS Address, Netlink, TLAPS

(***************************************************************************)
(* Class address.                                                          *)
(***************************************************************************)

\* The width is at least one byte.
LEMMA WidthType == Width \in Nat /\ Width >= 8 /\ Width % 8 = 0
  BY AddressAssumption DEF Width

\* prefix(int): bytes of ones and a partial byte make up the first pf bits.
LEMMA MaskOf ==
  ASSUME NEW pf \in Nat
  PROVE  mask_of(pf) = 0 .. Clamp(pf) - 1 /\ Clamp(pf) \in 0 .. Width
<1>1. Clamp(pf) \in 0 .. Width
  BY WidthType DEF Clamp
<1>2. CASE pf >= Width
  BY <1>2, WidthType DEF mask_of, Clamp, Bit
<1>3. CASE pf <= 0
  BY <1>3, WidthType DEF mask_of, Clamp, Bit
<1>4. CASE 0 < pf /\ pf < Width
  <2>1. Clamp(pf) = pf
    BY <1>4, WidthType DEF Clamp
  <2>2. ASSUME NEW p \in Nat
        PROVE  p < pf <=> \/ p \div 8 < pf \div 8
                          \/ p \div 8 = pf \div 8 /\ p % 8 < pf % 8
    OBVIOUS
  <2>3. mask_of(pf) = {p \in Bit : p < pf}
    BY <1>4, <2>2, WidthType DEF mask_of, Bit
  <2> QED BY <1>4, <2>1, <2>3, WidthType DEF Bit
<1> QED BY <1>1, <1>2, <1>3, <1>4, WidthType

\* prefix(): the length of a mask that is an initial segment of the bits.
LEMMA PrefixOf ==
  ASSUME NEW x, NEW n \in 0 .. Width, x.mask = 0 .. n - 1
  PROVE  prefix(x) = n
<1>1. CASE n = 0
  BY <1>1 DEF prefix
<1>2. CASE n = Width
  <2>1. 0 \in x.mask
    BY <1>2, WidthType
  <2>2. Bit \subseteq x.mask
    BY <1>2 DEF Bit
  <2> QED BY <1>2, <2>1, <2>2, WidthType DEF prefix
<1>3. CASE 0 < n /\ n < Width
  <2>1. 0 \in x.mask /\ n \in Bit \ x.mask
    BY <1>3, WidthType DEF Bit
  <2>2. \A q \in 0 .. n - 1 : q \in x.mask
    OBVIOUS
  <2>3. \A p \in Bit \ x.mask : (\A q \in 0 .. p - 1 : q \in x.mask) => p = n
    BY <1>3, WidthType DEF Bit
  <2>4. (CHOOSE p \in Bit \ x.mask : \A q \in 0 .. p - 1 : q \in x.mask) = n
    BY <2>1, <2>2, <2>3
  <2> QED BY <2>1, <2>4, WidthType DEF prefix
<1> QED BY <1>1, <1>2, <1>3, WidthType

-----------------------------------------------------------------------------
(***************************************************************************)
(* The inductive invariant: the mask is the prefix that was asked for.     *)
(***************************************************************************)
AddressInv ==
  /\ obj \in [addr : Hosts, mask : SUBSET Bit]
  /\ ok \in BOOLEAN
  /\ len \in 0 .. Width
  /\ obj.mask = 0 .. len - 1
  /\ ~ok => len = Width

\* A host address.
LEMMA HostGood ==
  ASSUME NEW a \in Hosts
  PROVE  /\ Host(a) \in [addr : Hosts, mask : SUBSET Bit]
         /\ Host(a).mask = 0 .. Width - 1
  BY DEF Host, Bit

\* An address with a prefix length.
LEMMA MaskGood ==
  ASSUME NEW a \in Hosts, NEW pf \in Nat
  PROVE  /\ [addr |-> a, mask |-> mask_of(pf)] \in [addr : Hosts, mask : SUBSET Bit]
         /\ [addr |-> a, mask |-> mask_of(pf)].mask = 0 .. Clamp(pf) - 1
<1>1. mask_of(pf) \subseteq Bit
  BY Zenon DEF mask_of
<1> QED BY <1>1, MaskOf

\* Every constructor and parse_string keep the invariant.
LEMMA AddressStep ==
  ASSUME AddressInv, [AddressNext]_addressVars
  PROVE  AddressInv'
<1>0. Width \in 0 .. Width /\ {} \in Hosts /\ Suffixes \subseteq Nat
  BY WidthType, AddressAssumption
<1>1. ASSUME NEW a \in Hosts, Assign(a)
      PROVE  AddressInv'
  BY <1>0, <1>1, HostGood DEF Assign, AddressInv
<1>2. ASSUME NEW a \in Hosts, NEW pf \in Suffixes, Route(a, pf)
      PROVE  AddressInv'
  BY <1>0, <1>2, MaskGood, MaskOf DEF Route, AddressInv
<1>3. ASSUME NEW s \in Text, Parse(s)
      PROVE  AddressInv'
  <2>1. /\ s.addr \in Hosts /\ s.pf \in Nat
        /\ s.tail \in {"none", "number", "slash", "junk"}
    <3>1. CASE s \in [addr : Hosts, tail : {"none", "slash", "junk"}, pf : {0}]
      BY <3>1
    <3>2. CASE s \in [addr : Hosts, tail : {"number"}, pf : Suffixes]
      BY <1>0, <3>2, Zenon
    <3> QED BY <3>1, <3>2 DEF Text
  <2>2. CASE s.tail \in {"number", "slash"}
    <3>1. /\ obj' = [addr |-> s.addr, mask |-> mask_of(s.pf)]
          /\ ok' = TRUE /\ len' = Clamp(s.pf)
      BY <1>3, <2>2, Zenon DEF Parse, parse_string, Accepted
    <3> QED BY <2>1, <3>1, MaskGood, MaskOf, Zenon DEF AddressInv
  <2>3. CASE s.tail \in {"none", "junk"}
    <3>1. obj' = Host(s.addr) /\ ok' \in BOOLEAN /\ len' = Width
      BY <1>3, <2>3 DEF Parse, parse_string, Accepted
    <3> QED BY <1>0, <2>1, <3>1, HostGood DEF AddressInv
  <2> QED BY <2>1, <2>2, <2>3
<1>4. CASE ParseFails
  BY <1>0, <1>4, HostGood, Zenon DEF ParseFails, Empty, AddressInv
<1>5. CASE UNCHANGED addressVars
  BY <1>5 DEF addressVars, AddressInv
<1> QED BY <1>1, <1>2, <1>3, <1>4, <1>5 DEF AddressNext

\* The invariant holds in every reachable state.
THEOREM AddressCorrect == AddressSpec => []AddressInv
<1>1. AddressInit => AddressInv
  BY WidthType, AddressAssumption, HostGood DEF AddressInit, Empty, AddressInv
<1> QED BY <1>1, AddressStep, PTL DEF AddressSpec

\* Every mask is the initial segment that was asked for, and prefix() gives its
\* length back (address::prefix, both of them).
THEOREM MasksArePrefixes == AddressSpec => []MaskIsPrefix
<1>1. AddressInv => MaskIsPrefix
  BY PrefixOf DEF AddressInv, MaskIsPrefix
<1> QED BY <1>1, AddressCorrect, PTL

\* operator== compares exactly the bits of the prefix.
THEOREM ComparesPrefixes == AddressSpec => []MatchesPrefix
<1>1. ASSUME AddressInv
      PROVE  MatchesPrefix
  <2>1. ASSUME NEW p \in Bit
        PROVE  p \in obj.mask <=> p < len
    BY <1>1, WidthType DEF AddressInv, Bit
  <2>2. obj.mask \subseteq Bit
    BY <1>1 DEF AddressInv
  <2>3. ASSUME NEW h \in Hosts
        PROVE  Host(h).addr = h
    BY DEF Host
  <2> QED BY <2>1, <2>2, <2>3 DEF MatchesPrefix, Equal
<1> QED BY <1>1, AddressCorrect, PTL

\* A string that is rejected leaves a single host (the constructors ignore the
\* result of parse_string).
THEOREM RejectedAreHosts == AddressSpec => []RejectedIsHost
<1>1. AddressInv => RejectedIsHost
  BY DEF AddressInv, RejectedIsHost, Bit
<1> QED BY <1>1, AddressCorrect, PTL

\* What to_string prints is read back as the same address.
THEOREM StringsRoundTrip == AddressSpec => []RoundTrip
<1>1. ASSUME AddressInv
      PROVE  RoundTrip
  <2>1. prefix(obj) = len /\ len \in 0 .. Width
    BY <1>1, PrefixOf DEF AddressInv
  <2>2. obj = [addr |-> obj.addr, mask |-> obj.mask]
    BY <1>1 DEF AddressInv
  <2>3. CASE len < Width
    <3>1. to_string(obj) = [addr |-> obj.addr, tail |-> "number", pf |-> len]
      BY <2>1, <2>3 DEF to_string
    <3>2. Clamp(len) = len /\ len \in Nat
      BY <2>1, <2>3, WidthType DEF Clamp
    <3>3. mask_of(len) = obj.mask
      BY <1>1, <3>2, MaskOf DEF AddressInv
    <3> QED BY <2>2, <3>1, <3>3 DEF RoundTrip, Accepted, parse_string
  <2>4. CASE len = Width
    <3>1. to_string(obj) = [addr |-> obj.addr, tail |-> "none", pf |-> 0]
      BY <2>1, <2>4, WidthType DEF to_string
    <3>2. obj.mask = Bit
      BY <1>1, <2>4 DEF AddressInv, Bit
    <3> QED BY <2>2, <3>1, <3>2 DEF RoundTrip, Accepted, parse_string, Host
  <2> QED BY <2>1, <2>3, <2>4, WidthType
<1> QED BY <1>1, AddressCorrect, PTL

-----------------------------------------------------------------------------
(***************************************************************************)
(* The list of addresses.                                                  *)
(***************************************************************************)
(***************************************************************************)
(* The inductive invariant.                                                *)
(***************************************************************************)
Changes == [type : {"new", "del"}, ifa : Iface, addr : Addr \cup {Peer[a] : a \in Addr}]

TypeOK ==
  /\ kernel \subseteq Pair /\ dump \subseteq Pair
  /\ queue \in Seq(Changes)
  /\ cur \in Changes \cup {NoChange}
  /\ pc \in {"dump", "copy", "recv", "ended"}
  /\ joined \in BOOLEAN
  /\ main = "asking" => ask \in Watched \X Addr

\* What has reached the monitor in each of its phases.
Phase ==
  /\ pc = "dump" => /\ queue = <<>> /\ cur = NoChange /\ lost = {}
                    /\ \A i \in Watched : list[i] = {}
  /\ pc \in {"dump", "copy"} => ~joined /\ queue = <<>>
  /\ pc = "copy" /\ cur # NoChange => cur.type = "new"
  /\ pc = "recv" => dump = {}

IInv == TypeOK /\ Phase /\ ListTracksKernel

-----------------------------------------------------------------------------
(***************************************************************************)
(* The backlog: the change the thread is about to apply, then the queue.   *)
(***************************************************************************)
\* A change is about a on i.
Names(c, i, a) == c.ifa = i /\ c.addr = a

\* The queue has a change of a on i, and the last one is an assignment.
Queued(i, a) == \E n \in DOMAIN queue : Names(queue[n], i, a)
QueuedNew(i, a) ==
  \E n \in DOMAIN queue :
    /\ Names(queue[n], i, a) /\ queue[n].type = "new"
    /\ \A k \in DOMAIN queue : Names(queue[k], i, a) => k <= n

\* The backlog in terms of its two parts.
LEMMA BacklogParts ==
  ASSUME TypeOK
  PROVE  /\ Len(queue) \in Nat /\ DOMAIN queue = 1 .. Len(queue)
         /\ cur = NoChange => Backlog = queue
         /\ cur # NoChange =>
              /\ DOMAIN Backlog = 1 .. Len(queue) + 1
              /\ Backlog[1] = cur
              /\ \A n \in 1 .. Len(queue) : Backlog[n + 1] = queue[n]
<1>1. queue \in Seq(Changes)
  BY DEF TypeOK
<1>2. ASSUME cur = NoChange PROVE Backlog = queue
  BY <1>1, <1>2 DEF Backlog
<1>3. ASSUME cur # NoChange
      PROVE  /\ DOMAIN Backlog = 1 .. Len(queue) + 1
             /\ Backlog[1] = cur
             /\ \A n \in 1 .. Len(queue) : Backlog[n + 1] = queue[n]
  <2>1. cur \in Changes
    BY <1>3 DEF TypeOK
  <2>2. Backlog = <<cur>> \o queue
    BY <1>3 DEF Backlog
  <2>3. <<cur>> \in Seq(Changes) /\ Len(<<cur>>) = 1 /\ <<cur>>[1] = cur
    BY <2>1
  <2> QED BY <1>1, <2>2, <2>3
<1> QED BY <1>1, <1>2, <1>3

\* Where a on i is headed, in terms of the two parts.
Parts(i, a) ==
  \/ QueuedNew(i, a)
  \/ /\ ~Queued(i, a)
     /\ \/ cur # NoChange /\ Names(cur, i, a) /\ cur.type = "new"
        \/ /\ ~(cur # NoChange /\ Names(cur, i, a))
           /\ a \in list[i] \/ <<i, a>> \in dump

LEMMA HeadedIsParts ==
  ASSUME TypeOK, NEW i, NEW a
  PROVE  Headed(i, a) <=> Parts(i, a)
<1> USE DEF Parts
<1> DEFINE L == Len(queue)
           A == About(i, a)
<1>1. L \in Nat /\ DOMAIN queue = 1 .. L
  BY BacklogParts
<1>2. CASE cur = NoChange
  <2>1. Backlog = queue
    BY <1>2, BacklogParts
  <2> QED BY <1>2, <2>1 DEF Headed, About, Queued, QueuedNew, Names
<1>3. CASE cur # NoChange
  <2>1. /\ DOMAIN Backlog = 1 .. L + 1
        /\ Backlog[1] = cur
        /\ \A n \in 1 .. L : Backlog[n + 1] = queue[n]
    BY <1>3, BacklogParts
  <2> HIDE DEF L, A
  <2>2. 1 \in A <=> Names(cur, i, a)
    BY <1>1, <2>1 DEF A, About, Names
  <2>3. \A n \in 1 .. L : n + 1 \in A <=> Names(queue[n], i, a)
    BY <1>1, <2>1 DEF A, About, Names
  <2>4. \A m \in A : m \in Nat /\ (m = 1 \/ (m - 1 \in 1 .. L /\ m - 1 + 1 = m))
    BY <1>1, <2>1 DEF A, About
  <2>5. A = {} <=> ~Queued(i, a) /\ ~Names(cur, i, a)
    BY <1>1, <2>2, <2>3, <2>4 DEF Queued
  <2>6. (\E n \in A : n # 1 /\ Backlog[n].type = "new" /\ \A k \in A : k <= n)
        <=> QueuedNew(i, a)
    <3>1. ASSUME NEW n \in A, n # 1, Backlog[n].type = "new", \A k \in A : k <= n
          PROVE  QueuedNew(i, a)
      <4>1. n - 1 \in 1 .. L /\ n - 1 + 1 = n
        BY <2>4, <3>1
      <4>2. Names(queue[n - 1], i, a) /\ queue[n - 1].type = "new"
        BY <2>1, <2>3, <3>1, <4>1
      <4>3. \A k \in 1 .. L : Names(queue[k], i, a) => k <= n - 1
        BY <1>1, <2>3, <3>1, <4>1
      <4> QED BY <1>1, <4>1, <4>2, <4>3 DEF QueuedNew
    <3>2. ASSUME QueuedNew(i, a)
          PROVE  \E n \in A : n # 1 /\ Backlog[n].type = "new" /\ \A k \in A : k <= n
      <4>1. PICK n \in 1 .. L : /\ Names(queue[n], i, a) /\ queue[n].type = "new"
                                /\ \A k \in 1 .. L : Names(queue[k], i, a) => k <= n
        BY <1>1, <3>2 DEF QueuedNew
      <4>2. n + 1 \in A /\ n + 1 # 1 /\ Backlog[n + 1].type = "new"
        <5>1. n + 1 \in A
          BY <2>3, <4>1
        <5>2. Backlog[n + 1] = queue[n]
          BY <2>1, <4>1
        <5>3. n + 1 # 1
          BY <1>1, <4>1
        <5> QED BY <4>1, <5>1, <5>2, <5>3
      <4>3. ASSUME NEW k \in A
            PROVE  k <= n + 1
        <5>1. k \in Nat /\ n \in Nat
          BY <1>1, <2>4, <4>1
        <5>2. CASE k = 1
          BY <5>1, <5>2
        <5>3. CASE k - 1 \in 1 .. L /\ k - 1 + 1 = k
          <6>1. Names(queue[k - 1], i, a)
            BY <2>3, <5>3
          <6>2. k - 1 <= n
            BY <4>1, <5>3, <6>1
          <6> QED BY <5>1, <6>2
        <5> QED BY <2>4, <5>2, <5>3
      <4> QED BY <4>2, <4>3
    <3> QED BY <3>1, <3>2
  <2>7. (1 \in A /\ Backlog[1].type = "new" /\ \A k \in A : k <= 1)
        <=> Names(cur, i, a) /\ cur.type = "new" /\ ~Queued(i, a)
    BY <1>1, <2>1, <2>2, <2>3, <2>4 DEF Queued
  <2>8. Headed(i, a) <=> \/ \E n \in A : n # 1 /\ Backlog[n].type = "new" /\ \A k \in A : k <= n
                         \/ 1 \in A /\ Backlog[1].type = "new" /\ \A k \in A : k <= 1
                         \/ A = {} /\ (a \in list[i] \/ <<i, a>> \in dump)
    BY DEF Headed, A
  <2> QED BY <1>3, <2>5, <2>6, <2>7, <2>8
<1> QED BY <1>2, <1>3

LEMMA HeadedParts ==
  /\ TypeOK => \A i, a : Headed(i, a) <=> Parts(i, a)
  /\ TypeOK' => \A i, a : Headed(i, a)' <=> Parts(i, a)'
<1>1. TypeOK => \A i, a : Headed(i, a) <=> Parts(i, a)
  BY HeadedIsParts
<1>2. (TypeOK => \A i, a : Headed(i, a) <=> Parts(i, a))'
  BY <1>1, PTL
<1> QED BY <1>1, <1>2

-----------------------------------------------------------------------------
(***************************************************************************)
(* The steps preserve the invariant.                                       *)
(***************************************************************************)
\* Whether the list of i, with what is on its way, agrees with the kernel on a.
Tracks(i, a) == <<i, a>> \notin lost => (Headed(i, a) <=> <<i, a>> \in kernel)

\* A notification is about the address that changed and no other, as far as the
\* addresses without a peer are concerned.
LEMMA NotificationNames ==
  ASSUME NEW p \in Pair, NEW type \in {"new", "del"}
  PROVE  /\ p[1] \in Iface /\ p[2] \in Addr /\ p = <<p[1], p[2]>>
         /\ Change(type, p[1], Peer[p[2]]) \in Changes
         /\ Change(type, p[1], Peer[p[2]]).type = type
         /\ \A i \in Watched, a \in Plain :
              Names(Change(type, p[1], Peer[p[2]]), i, a) <=> p = <<i, a>>
<1>1. p[1] \in Iface /\ p[2] \in Addr /\ p = <<p[1], p[2]>>
  BY DEF Pair
<1>2. /\ Change(type, p[1], Peer[p[2]]) \in Changes
      /\ Change(type, p[1], Peer[p[2]]).type = type
  BY <1>1 DEF Change, Changes
<1>3. ASSUME NEW i \in Watched, NEW a \in Plain
      PROVE  Names(Change(type, p[1], Peer[p[2]]), i, a) <=> p = <<i, a>>
  <2>1. Names(Change(type, p[1], Peer[p[2]]), i, a) <=> p[1] = i /\ Peer[p[2]] = a
    BY DEF Names, Change
  <2>2. Peer[p[2]] = a <=> p[2] = a
    BY <1>1 DEF Plain
  <2> QED BY <1>1, <2>1, <2>2
<1> QED BY <1>1, <1>2, <1>3

\* A notification that the buffer takes.
LEMMA EnqueueTracks ==
  ASSUME TypeOK, NEW p \in Pair, NEW type \in {"new", "del"},
         queue' = Append(queue, Change(type, p[1], Peer[p[2]])),
         UNCHANGED <<cur, list, dump>>, TypeOK',
         lost' = lost \ {p},
         \A r \in Pair : r # p => (r \in kernel' <=> r \in kernel),
         p \in kernel' <=> type = "new",
         NEW i \in Watched, NEW a \in Plain, Tracks(i, a)
  PROVE  Tracks(i, a)'
<1> DEFINE c == Change(type, p[1], Peer[p[2]])
           L == Len(queue)
<1>1. /\ L \in Nat /\ DOMAIN queue = 1 .. L
      /\ DOMAIN queue' = 1 .. L + 1 /\ queue'[L + 1] = c
      /\ \A n \in 1 .. L : queue'[n] = queue[n]
  BY NotificationNames DEF TypeOK
<1>2. c.type = type /\ (Names(c, i, a) <=> p = <<i, a>>) /\ <<i, a>> \in Pair
  BY NotificationNames, NetlinkAssumption DEF Pair, Plain
<1> HIDE DEF c, L
<1>3. CASE p = <<i, a>>
  <2>1. Queued(i, a)'
    BY <1>1, <1>2, <1>3, SMTT(30) DEF Queued
  <2>2. QueuedNew(i, a)' <=> type = "new"
    <3>1. ASSUME type = "new" PROVE QueuedNew(i, a)'
      <4>1. L + 1 \in DOMAIN queue' /\ Names(queue'[L + 1], i, a)
        BY <1>1, <1>2, <1>3
      <4>2. queue'[L + 1].type = "new" /\ \A k \in DOMAIN queue' : k <= L + 1
        BY <1>1, <1>2, <3>1
      <4> QED BY <4>1, <4>2 DEF QueuedNew
    <3>2. ASSUME QueuedNew(i, a)' PROVE type = "new"
      BY <1>1, <1>2, <1>3, <3>2, SMTT(30) DEF QueuedNew
    <3> QED BY <3>1, <3>2
  <2> QED BY <1>3, <2>1, <2>2, HeadedParts DEF Parts, Tracks
<1>4. CASE p # <<i, a>>
  <2>1. Queued(i, a)' <=> Queued(i, a)
    BY <1>1, <1>2, <1>4 DEF Queued
  <2>2. QueuedNew(i, a)' <=> QueuedNew(i, a)
    <3>1. ASSUME QueuedNew(i, a) PROVE QueuedNew(i, a)'
      <4>1. PICK n \in 1 .. L : /\ Names(queue[n], i, a) /\ queue[n].type = "new"
                                /\ \A k \in 1 .. L : Names(queue[k], i, a) => k <= n
        BY <1>1, <3>1, Zenon DEF QueuedNew
      <4>2. n \in 1 .. L + 1 /\ \A k \in 1 .. L + 1 : Names(queue'[k], i, a) => k <= n
        BY <1>1, <1>2, <1>4, <4>1, SMTT(30)
      <4> QED BY <1>1, <4>1, <4>2 DEF QueuedNew
    <3>2. ASSUME QueuedNew(i, a)' PROVE QueuedNew(i, a)
      BY <1>1, <1>2, <1>4, <3>2, SMTT(30) DEF QueuedNew
    <3> QED BY <3>1, <3>2
  <2>3. Headed(i, a)' <=> Headed(i, a)
    BY <2>1, <2>2, HeadedParts, Zenon DEF Parts
  <2> QED BY <1>2, <1>4, <2>3 DEF Tracks
<1> QED BY <1>3, <1>4

\* The kernel's changes.
LEMMA KernelKeeps ==
  ASSUME IInv, Kernel
  PROVE  IInv'
<1>1. PICK p \in Pair : AddAddress(p) \/ DelAddress(p)
  BY DEF Kernel
<1>2. PICK type \in {"new", "del"} :
        /\ Announce(type, p)
        /\ kernel' \subseteq Pair
        /\ p \in kernel' <=> type = "new"
        /\ \A r \in Pair : r # p => (r \in kernel' <=> r \in kernel)
  <2>1. CASE AddAddress(p)
    BY <2>1 DEF AddAddress, IInv, TypeOK
  <2>2. CASE DelAddress(p)
    BY <2>2 DEF DelAddress, IInv, TypeOK
  <2> QED BY <1>1, <2>1, <2>2
<1>3. /\ joined' = joined /\ list' = list /\ dump' = dump /\ cur' = cur /\ pc' = pc
      /\ main' = main /\ ask' = ask
  BY <1>2 DEF Announce, monitor, client
<1>4. CASE joined /\ Len(queue) < QueueCap
  <2>1. /\ queue' = Append(queue, Change(type, p[1], Peer[p[2]]))
        /\ lost' = lost \ {p}
    BY <1>2, <1>4 DEF Announce
  <2>2. TypeOK'
    BY <1>2, <1>3, <2>1, NotificationNames DEF IInv, TypeOK
  <2>3. Phase'
    BY <1>3, <1>4 DEF IInv, Phase
  <2>4. ListTracksKernel'
    <3> SUFFICES ASSUME pc \in {"copy", "recv"}, NEW i \in Watched, NEW a \in Plain
                 PROVE  Tracks(i, a)'
      BY <1>3 DEF ListTracksKernel, Tracks
    <3>1. Tracks(i, a)
      BY DEF IInv, ListTracksKernel, Tracks
    <3> QED BY <1>2, <1>3, <2>1, <2>2, <3>1, EnqueueTracks DEF IInv
  <2> QED BY <2>2, <2>3, <2>4 DEF IInv
<1>5. CASE ~(joined /\ Len(queue) < QueueCap)
  <2>1. queue' = queue /\ lost' = IF pc = "dump" THEN lost ELSE lost \cup {p}
    BY <1>2, <1>5 DEF Announce
  <2>2. TypeOK'
    BY <1>2, <1>3, <2>1 DEF IInv, TypeOK
  <2>3. Phase'
    BY <1>3, <2>1 DEF IInv, Phase
  <2>4. ListTracksKernel'
    <3> SUFFICES ASSUME pc \in {"copy", "recv"}, NEW i \in Watched, NEW a \in Plain,
                        <<i, a>> \notin lost'
                 PROVE  Headed(i, a)' <=> <<i, a>> \in kernel'
      BY <1>3 DEF ListTracksKernel
    <3>1. <<i, a>> \notin lost /\ <<i, a>> # p /\ <<i, a>> \in Pair
      BY <2>1, NetlinkAssumption DEF Pair, Plain
    <3>2. Headed(i, a) <=> <<i, a>> \in kernel
      BY <3>1 DEF IInv, ListTracksKernel
    <3>3. Headed(i, a)' <=> Headed(i, a)
      BY <1>3, <2>1 DEF Headed, About, Backlog
    <3> QED BY <1>2, <3>1, <3>2, <3>3
  <2> QED BY <2>2, <2>3, <2>4 DEF IInv
<1> QED BY <1>4, <1>5

\* rtnl_addr_alloc_cache.
LEMMA AllocCacheKeeps ==
  ASSUME IInv, AllocCache
  PROVE  IInv'
<1>1. /\ pc = "dump" /\ pc' = "copy" /\ dump' = kernel
      /\ kernel' = kernel /\ lost' = lost /\ joined' = joined /\ queue' = queue
      /\ list' = list /\ cur' = cur /\ main' = main /\ ask' = ask
  BY DEF AllocCache, env, client
<1>2. TypeOK'
  BY <1>1 DEF IInv, TypeOK
<1>3. Phase'
  BY <1>1, Zenon DEF IInv, Phase
<1>4. ListTracksKernel'
  <2> SUFFICES ASSUME NEW i \in Watched, NEW a \in Plain
               PROVE  Headed(i, a)' <=> <<i, a>> \in kernel'
    BY DEF ListTracksKernel
  <2>1. queue' = <<>> /\ cur' = NoChange /\ a \notin list'[i]
    BY <1>1 DEF IInv, Phase
  <2>2. ~Queued(i, a)' /\ ~QueuedNew(i, a)'
    BY <2>1 DEF Queued, QueuedNew
  <2> QED BY <1>1, <1>2, <2>1, <2>2, HeadedParts DEF Parts
<1> QED BY <1>2, <1>3, <1>4 DEF IInv

\* new_addr for an entry of the cache.
LEMMA NewAddrKeeps ==
  ASSUME IInv, NEW p \in Pair, new_addr(p)
  PROVE  IInv'
<1>1. /\ pc = "copy" /\ pc' = "copy" /\ p \in dump /\ dump' = dump \ {p}
      /\ cur = NoChange /\ cur' = Change("new", p[1], p[2])
      /\ kernel' = kernel /\ lost' = lost /\ joined' = joined /\ queue' = queue
      /\ list' = list /\ main' = main /\ ask' = ask
  BY DEF new_addr, env, client
<1>2. /\ p[1] \in Iface /\ p[2] \in Addr /\ p = <<p[1], p[2]>>
      /\ cur' \in Changes /\ cur' # NoChange /\ cur'.type = "new"
      /\ \A i, a : Names(cur', i, a) <=> p = <<i, a>>
  BY <1>1 DEF Pair, Change, Changes, NoChange, Names
<1>3. TypeOK'
  BY <1>1, <1>2 DEF IInv, TypeOK
<1>4. Phase'
  BY <1>1, <1>2, Zenon DEF IInv, Phase
<1>5. ListTracksKernel'
  <2> SUFFICES ASSUME NEW i \in Watched, NEW a \in Plain, <<i, a>> \notin lost
               PROVE  Headed(i, a)' <=> <<i, a>> \in kernel
    BY <1>1 DEF ListTracksKernel
  <2>1. Headed(i, a) <=> <<i, a>> \in kernel
    BY <1>1, Zenon DEF IInv, ListTracksKernel
  <2>2. queue = <<>>
    BY <1>1 DEF IInv, Phase
  <2>3. ~Queued(i, a)' /\ ~QueuedNew(i, a)' /\ ~Queued(i, a) /\ ~QueuedNew(i, a)
    BY <1>1, <2>2, SMTT(30) DEF Queued, QueuedNew
  <2>4. Headed(i, a) <=> a \in list[i] \/ <<i, a>> \in dump
    BY <1>1, <2>3, HeadedParts, Zenon DEF Parts, IInv
  <2>5. Headed(i, a)' <=> p = <<i, a>> \/ a \in list[i] \/ <<i, a>> \in dump'
    BY <1>1, <1>2, <1>3, <2>3, HeadedParts DEF Parts
  <2> QED BY <1>1, <2>1, <2>4, <2>5
<1> QED BY <1>3, <1>4, <1>5 DEF IInv

\* The next notification: it moves from the front of the queue to cur.
LEMMA ReceiveKeeps ==
  ASSUME IInv, Receive
  PROVE  IInv'
<1>1. /\ pc = "recv" /\ pc' = pc /\ dump' = dump
      /\ cur = NoChange /\ queue # <<>> /\ cur' = Head(queue) /\ queue' = Tail(queue)
      /\ kernel' = kernel /\ lost' = lost /\ joined' = joined
      /\ list' = list /\ main' = main /\ ask' = ask
  BY DEF Receive, env, client
<1>2. queue \in Seq(Changes) /\ Len(queue) \in Nat /\ Len(queue) > 0
  BY <1>1 DEF IInv, TypeOK
<1>3. /\ cur' = queue[1] /\ cur' \in Changes /\ cur' # NoChange
      /\ queue' \in Seq(Changes) /\ Len(queue') = Len(queue) - 1
      /\ \A n \in 1 .. Len(queue) - 1 : queue'[n] = queue[n + 1]
  <2>1. cur' = queue[1] /\ queue[1] \in Changes
    BY <1>1, <1>2
  <2>2. cur' # NoChange
    BY <2>1 DEF Changes, NoChange, Change
  <2> QED BY <1>1, <1>2, <2>1, <2>2
<1>4. TypeOK'
  BY <1>1, <1>3 DEF IInv, TypeOK
<1>5. Phase'
  BY <1>1 DEF IInv, Phase
<1>6. Backlog' = Backlog
  <2>1. Backlog = queue
    BY <1>1, BacklogParts DEF IInv
  <2>2. Backlog' = <<queue[1]>> \o Tail(queue)
    BY <1>1, <1>3 DEF Backlog
  <2>3. <<queue[1]>> \o Tail(queue) = queue
    BY <1>2
  <2> QED BY <2>1, <2>2, <2>3
<1>7. \A i, a : Headed(i, a)' <=> Headed(i, a)
  BY <1>1, <1>6 DEF Headed, About
<1>8. ListTracksKernel'
  BY <1>1, <1>7, Zenon DEF IInv, ListTracksKernel
<1> QED BY <1>4, <1>5, <1>8 DEF IInv

\* if_addr_add and if_addr_del change the list as the change says.
LEMMA AppliedChange ==
  ASSUME NEW c \in Changes, NEW i \in Watched, NEW a
  PROVE  /\ ~Names(c, i, a) => (a \in Applied(c)[i] <=> a \in list[i])
         /\ Names(c, i, a) => (a \in Applied(c)[i] <=> c.type = "new")
<1>1. c.type \in {"new", "del"}
  BY DEF Changes
<1>2. CASE i # c.ifa
  BY <1>2 DEF Applied, Names
<1>3. CASE i = c.ifa /\ c.type = "new"
  BY <1>3 DEF Applied, Names
<1>4. CASE i = c.ifa /\ c.type = "del"
  BY <1>4 DEF Applied, Names
<1> QED BY <1>1, <1>2, <1>3, <1>4

\* if_addr_add, if_addr_del: the oldest change of the backlog reaches the list.
LEMMA ApplyKeeps ==
  ASSUME IInv, Apply
  PROVE  IInv'
<1>1. /\ pc' = pc /\ dump' = dump /\ pc # "ended"
      /\ cur # NoChange /\ cur' = NoChange /\ list' = Applied(cur) /\ queue' = queue
      /\ kernel' = kernel /\ lost' = lost /\ joined' = joined
      /\ main' = main /\ ask' = ask
  BY DEF Apply, env, client
<1>2. cur \in Changes /\ pc # "dump" /\ pc \in {"copy", "recv"}
  BY <1>1 DEF IInv, TypeOK, Phase
<1>3. TypeOK'
  BY <1>1 DEF IInv, TypeOK
<1>4. Phase'
  BY <1>1, <1>2 DEF IInv, Phase
<1>5. ASSUME NEW i \in Watched, NEW a \in Plain PROVE Headed(i, a)' <=> Headed(i, a)
  <2>1. /\ Queued(i, a)' <=> Queued(i, a)
        /\ QueuedNew(i, a)' <=> QueuedNew(i, a)
    BY <1>1 DEF Queued, QueuedNew
  <2>2. CASE ~Names(cur, i, a)
    <3>1. a \in list'[i] <=> a \in list[i]
      BY <1>1, <1>2, <2>2, AppliedChange, SMTT(30)
    <3> QED BY <1>1, <1>3, <2>1, <2>2, <3>1, HeadedParts, Zenon DEF Parts, IInv
  <2>3. CASE Names(cur, i, a)
    <3>1. a \in list'[i] <=> cur.type = "new"
      BY <1>1, <1>2, <2>3, AppliedChange, Zenon
    <3>2. cur.type # "new" => dump = {}
      BY <1>1, <1>2 DEF IInv, Phase
    <3>3. cur.type = "new" \/ <<i, a>> \notin dump
      BY <3>2
    <3> QED BY <1>1, <1>3, <2>1, <2>3, <3>1, <3>3, HeadedParts, ZenonT(30) DEF Parts, IInv
  <2> QED BY <2>2, <2>3, Zenon
<1>6. ListTracksKernel'
  BY <1>1, <1>5 DEF IInv, ListTracksKernel
<1> QED BY <1>3, <1>4, <1>6 DEF IInv

\* nl_socket_add_memberships.
LEMMA SubscribeKeeps ==
  ASSUME IInv, Subscribe
  PROVE  IInv'
<1>1. /\ pc = "copy" /\ pc' = "recv" /\ dump' = dump /\ dump = {} /\ joined' = TRUE
      /\ cur' = cur /\ queue' = queue /\ kernel' = kernel /\ lost' = lost
      /\ list' = list /\ main' = main /\ ask' = ask
  BY SMTT(30) DEF Subscribe, client
<1>2. \A i, a : Headed(i, a)' <=> Headed(i, a)
  <2>1. Backlog' = Backlog
    BY <1>1, Zenon DEF Backlog
  <2>2. \A i, a : About(i, a)' = About(i, a)
    BY <2>1, Zenon DEF About
  <2> QED BY <1>1, <2>1, <2>2, Zenon DEF Headed
<1>3. TypeOK' /\ Phase'
  BY <1>1 DEF IInv, TypeOK, Phase
<1>4. ListTracksKernel'
  BY <1>1, <1>2 DEF IInv, ListTracksKernel
<1> QED BY <1>3, <1>4 DEF IInv

\* A step that touches neither the list nor what is on its way to it.
LEMMA OtherKeeps ==
  ASSUME IInv, UNCHANGED <<kernel, lost, joined, queue, list, dump, cur>>,
         pc' = pc \/ pc' = "ended", main' = "asking" => ask' \in Watched \X Addr
  PROVE  IInv'
<1>1. \A i, a : Headed(i, a)' <=> Headed(i, a)
  <2>1. Backlog' = Backlog
    BY Zenon DEF Backlog
  <2>2. \A i, a : About(i, a)' = About(i, a)
    BY <2>1, Zenon DEF About
  <2> QED BY <2>1, <2>2, Zenon DEF Headed
<1>2. TypeOK' /\ Phase'
  BY DEF IInv, TypeOK, Phase
<1>3. ListTracksKernel'
  BY <1>1 DEF IInv, ListTracksKernel
<1> QED BY <1>2, <1>3 DEF IInv

-----------------------------------------------------------------------------
(***************************************************************************)
(* The theorems.                                                           *)
(***************************************************************************)
\* The daemon starts with an empty list.
LEMMA InitIInv == Init => IInv
<1> SUFFICES ASSUME Init PROVE IInv
  OBVIOUS
<1>1. queue = <<>> /\ <<>> \in Seq(Changes)
  BY DEF Init
<1>2. TypeOK
  BY <1>1, Zenon DEF Init, TypeOK
<1>3. Phase
  BY DEF Init, Phase
<1> QED BY <1>2, <1>3 DEF Init, IInv, ListTracksKernel

\* Every step keeps the invariant.
LEMMA NextIInv == IInv /\ [Next]_vars => IInv'
<1> SUFFICES ASSUME IInv, [Next]_vars PROVE IInv'
  OBVIOUS
<1>1. CASE Kernel
  BY <1>1, KernelKeeps
<1>2. CASE AllocCache
  BY <1>2, AllocCacheKeeps
<1>3. CASE Copies
  BY <1>3, NewAddrKeeps, Zenon DEF Copies
<1>4. CASE Subscribe
  BY <1>4, SubscribeKeeps
<1>5. CASE Receive
  BY <1>5, ReceiveKeeps
<1>6. CASE Apply
  BY <1>6, ApplyKeeps
<1>7. CASE Lock
  BY <1>7, OtherKeeps DEF Lock, env, client, IInv, TypeOK
<1>8. CASE Cancelled \/ AllocCacheFails
  BY <1>8, OtherKeeps DEF Cancelled, AllocCacheFails, env, client, IInv, TypeOK
<1>9. CASE \E i \in Watched, a \in Addr : Ask(i, a)
  BY <1>9, OtherKeeps DEF Ask, env, monitor
<1>10. CASE if_addr_find
  BY <1>10, OtherKeeps DEF if_addr_find, env, monitor
<1>11. CASE Join \/ netlink_teardown
  BY <1>11, OtherKeeps DEF Join, netlink_teardown, env, monitor
<1>12. CASE UNCHANGED vars
  BY <1>12, OtherKeeps DEF vars, env, monitor, client, IInv, TypeOK
<1> QED
  BY <1>1, <1>2, <1>3, <1>4, <1>5, <1>6, <1>7, <1>8, <1>9, <1>10, <1>11, <1>12
  DEF Next, Monitor, Main

\* The list and what is on its way to it are the kernel's table, but for changes
\* in the gap before the subscription and those a full buffer dropped, for any
\* buffer and any interleaving of kernel and threads (netlink_monitor).
THEOREM ListTracks == Spec => []ListTracksKernel
<1>1. IInv => ListTracksKernel
  BY DEF IInv
<1> QED BY <1>1, InitIInv, NextIInv, PTL DEF Spec

\* The main thread is told the truth about a target unless the last change of the
\* address is on its way or lost (if_addr_find in find_or_create_session).
THEOREM FindTellsTruth == Spec => FindsAssigned
<1> DEFINE Told == main = "asking" /\ main' = "loop" /\ pc = "recv" /\ ask[2] \in Plain =>
                     \/ found' <=> ask \in kernel
                     \/ ask \in lost
                     \/ About(ask[1], ask[2]) # {}
<1>1. IInv /\ [Next]_vars => [Told]_vars
  <2> SUFFICES ASSUME IInv, Next, main = "asking", main' = "loop", pc = "recv",
                      ask[2] \in Plain, ask \notin lost, About(ask[1], ask[2]) = {}
               PROVE  found' <=> ask \in kernel
    OBVIOUS
  <2>1. if_addr_find
    <3>1. ~Kernel /\ ~Monitor /\ ~AllocCacheFails
      BY Zenon DEF Kernel, AddAddress, DelAddress, Announce, Monitor, AllocCache, Copies, new_addr,
             Subscribe, Receive, Lock, Apply, Cancelled, AllocCacheFails, client
    <3>2. ~Join /\ ~netlink_teardown /\ ~\E i \in Watched, a \in Addr : Ask(i, a)
      BY DEF Join, netlink_teardown, Ask
    <3> QED BY <3>1, <3>2, SMTT(30) DEF Next, Main
  <2>2. ask[1] \in Watched /\ ask = <<ask[1], ask[2]>> /\ dump = {}
    BY DEF IInv, TypeOK, Phase
  <2>3. Headed(ask[1], ask[2]) <=> ask \in kernel
    BY <2>2 DEF IInv, ListTracksKernel
  <2>4. Headed(ask[1], ask[2]) <=> ask[2] \in list[ask[1]]
    BY <2>2 DEF Headed
  <2> QED BY <2>1, <2>3, <2>4, Zenon DEF if_addr_find
<1> QED BY <1>1, InitIInv, NextIInv, PTL DEF Spec, FindsAssigned
=============================================================================
