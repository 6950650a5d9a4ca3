----------------------------- MODULE IfaceTable -----------------------------
(***************************************************************************)
(* class iface's table of open interfaces (_map), the array that is given  *)
(* to poll (_pollfds) and the loop of poll_all that walks both in step,    *)
(* from the configuration of the daemon to its exit.                       *)
(*                                                                         *)
(* _map holds weak pointers: proxies and rules hold the interfaces of the  *)
(* configuration for ever, while one that an auto rule opened lives only   *)
(* as long as a cached route or a session refers to it.  A destroyed       *)
(* interface stays in _map as an expired pointer until the next cleanup.   *)
(* Dereferencing it throws, and nothing catches the exception.             *)
(*                                                                         *)
(* Every interface has two slots in _pollfds, in the order of _map: the    *)
(* ICMPv6 socket "ifd" for advertisements, then the packet socket "pfd"    *)
(* for solicitations, whose descriptor is -1 when no proxy listens there.  *)
(***************************************************************************)
EXTENDS Integers, Sequences

CONSTANTS
  Name,       \* interface names, numbered in the order of std::map
  Plan,       \* calls of open_pfd and open_ifd by configure(), in order
  AutoName,   \* interfaces that routes of auto rules lead to
  FirstFlags, \* possible flags of the interfaces before the daemon starts
  MaxHold     \* bound: sessions that refer to one interface

Flags == [allmulti : 0 .. 1, promisc : 0 .. 1]

\* A call by configure().
Call == [op : {"pfd", "ifd"}, name : Name, promiscuous : BOOLEAN]

ASSUME TableAssumption ==
  /\ Name \subseteq Nat \ {0}
  /\ Plan \in Seq(Call)
  /\ AutoName \subseteq Name
  /\ FirstFlags \subseteq [Name -> Flags]
  /\ MaxHold \in Nat

VARIABLES
  pc,         \* "config", "top" of poll_all, "loop", "update", "exit", "aborted"
  step,       \* the next call of Plan
  table,      \* _map
  dirty,      \* _map_dirty
  pollfds,    \* the descriptors of _pollfds other than -1
  flags,      \* ALLMULTI and PROMISC of the interfaces, in the kernel
  f_it,       \* the slot of _pollfds the loop is at
  i_it,       \* the key of _map the loop is at, End past the last one
  ready,      \* the slots for which poll reported POLLIN
  queue,      \* descriptors with a message to read
  rhold,      \* interfaces that cached routes refer to
  shold,      \* shold[n]: number of sessions that refer to n
  got,        \* descriptors read in this turn of the loop (history)
  flags0      \* flags before the daemon started (history)

vars == <<pc, step, table, dirty, pollfds, flags, f_it, i_it, ready, queue,
          rhold, shold, got, flags0>>

Kind == {"ifd", "pfd"}
End == 0

\* An entry of _map; prev_* are -1 when there is nothing to restore.
Entry == [state : {"absent", "live", "expired"}, pfd : BOOLEAN,
          prev_allmulti : -1 .. 1, prev_promiscuous : -1 .. 1]

Absent == [state |-> "absent", pfd |-> FALSE,
           prev_allmulti |-> -1, prev_promiscuous |-> -1]

keys(T) == {n \in Name : T[n].state # "absent"}
Expired(T) == {n \in Name : T[n].state = "expired"}
OpenFds(T) == {d \in Name \X Kind : /\ T[d[1]].state = "live"
                                    /\ d[2] = "pfd" => T[d[1]].pfd}

\* The key after n in the order of the map, begin() for n = End.
after(S, n) ==
  IF \E m \in S : m > n
  THEN CHOOSE m \in S : m > n /\ \A k \in S : k > n => m <= k
  ELSE End

Polled == {d[1] : d \in pollfds}

Init ==
  /\ pc = "config"
  /\ step = 1
  /\ table = [n \in Name |-> Absent]
  /\ dirty = FALSE
  /\ pollfds = {}
  /\ flags \in FirstFlags
  /\ f_it = <<End, "ifd">>
  /\ i_it = End
  /\ ready = {}
  /\ queue = {}
  /\ rhold = {}
  /\ shold = [n \in Name |-> 0]
  /\ got = {}
  /\ flags0 = flags

-----------------------------------------------------------------------------
\* open_ifd: an entry that exists is returned (_ifd is never 0), a new one is
\* put into the map.
open_ifd(T, n) ==
  IF T[n].state = "absent" THEN [T EXCEPT ![n].state = "live"] ELSE T

\* allmulti(1) and promiscuous(1) return the old flag, or -1 when the ioctl
\* fails; open_pfd does nothing for an interface that has a packet socket.
Outcome(old) == {[prev |-> old, now |-> 1], [prev |-> -1, now |-> old]}

open_pfd(c) ==
  IF table[c.name].pfd THEN UNCHANGED <<table, flags, dirty>>
  ELSE \E am \in Outcome(flags[c.name].allmulti),
          pr \in IF c.promiscuous THEN Outcome(flags[c.name].promisc)
                 ELSE {[prev |-> -1, now |-> flags[c.name].promisc]} :
         /\ table' = [table EXCEPT ![c.name] =
                        [state |-> "live", pfd |-> TRUE,
                         prev_allmulti |-> am.prev, prev_promiscuous |-> pr.prev]]
         /\ flags' = [flags EXCEPT ![c.name] =
                        [allmulti |-> am.now, promisc |-> pr.now]]
         /\ dirty' = TRUE

\* One call by configure() that succeeds.
Configure ==
  /\ pc = "config"
  /\ step <= Len(Plan)
  /\ LET c == Plan[step]
     IN  IF c.op = "pfd" THEN open_pfd(c)
         ELSE /\ table' = open_ifd(table, c.name)
              /\ dirty' = (dirty \/ table[c.name].state = "absent")
              /\ UNCHANGED flags
  /\ step' = step + 1
  /\ UNCHANGED <<pc, pollfds, f_it, i_it, ready, queue, rhold, shold, got, flags0>>

Configured ==
  /\ pc = "config"
  /\ step > Len(Plan)
  /\ pc' = "top"
  /\ UNCHANGED <<step, table, dirty, pollfds, flags, f_it, i_it, ready, queue,
                 rhold, shold, got, flags0>>

-----------------------------------------------------------------------------
\* Mutant: expired entries are not erased.
cleanup_none(T) == T

cleanup(T) ==
  [n \in Name |-> IF T[n].state = "expired" THEN Absent ELSE T[n]]

\* The beginning of poll_all: cleanup and fixup_pollfds, which dereferences
\* every entry, when the map changed; then poll, which finds the descriptors
\* that have something to read or times out.
Poll ==
  /\ pc = "top"
  /\ LET T == IF dirty THEN cleanup(table) ELSE table
         P == IF dirty THEN OpenFds(T) ELSE pollfds
         R == P \cap queue
     IN  /\ table' = T
         /\ pollfds' = P
         /\ ready' = R
         /\ pc' = IF dirty /\ Expired(T) # {} THEN "aborted"
                  ELSE IF R = {} THEN "update" ELSE "loop"
         /\ f_it' = <<after({d[1] : d \in P}, End), "ifd">>
         /\ i_it' = after(keys(T), End)
  /\ dirty' = FALSE
  /\ got' = {}
  /\ UNCHANGED <<step, flags, queue, rhold, shold, flags0>>

-----------------------------------------------------------------------------
(***************************************************************************)
(* One turn of the loop over _pollfds.  The iterator over _map moves at    *)
(* every second slot but the first, through whatever is in the map now     *)
(* (Advance_never is a mutant: it does not move).                          *)
(***************************************************************************)
Advance_never == i_it

Advance ==
  IF f_it[2] = "ifd" /\ f_it[1] # after(Polled, End)
  THEN after(keys(table), i_it) ELSE i_it

\* `ptr<iface> ifa = i_it->second` is undefined at the end of the map and
\* throws for an expired entry.
BadEntry(n) == n = End \/ table[n].state = "expired"

NextSlot ==
  IF f_it[2] = "ifd" THEN <<f_it[1], "pfd">> ELSE <<after(Polled, f_it[1]), "ifd">>

\* What every turn does besides handling a message.
Step(bad) ==
  /\ i_it' = Advance
  /\ f_it' = NextSlot
  /\ pc' = IF bad THEN "aborted" ELSE IF NextSlot[1] = End THEN "update" ELSE "loop"
  /\ UNCHANGED <<step, pollfds, flags, ready, flags0>>

\* The socket the turn reads: that of ifa, whichever slot was ready.
Reads(d) == f_it \in ready /\ d = <<Advance, f_it[2]>> /\ d \in queue

\* Nothing is ready, or the non-blocking read fails.
PollSkip ==
  /\ pc = "loop"
  /\ ~\E d \in queue : Reads(d)
  /\ Step(BadEntry(Advance))
  /\ UNCHANGED <<table, dirty, queue, rhold, shold, got>>

\* A message is read that opens no interface.
PollRead ==
  /\ pc = "loop"
  /\ \E d \in queue : /\ Reads(d)
                      /\ queue' = queue \ {d}
                      /\ got' = got \cup {d}
  /\ Step(BadEntry(Advance))
  /\ UNCHANGED <<table, dirty, rhold, shold>>

\* A solicitation is read for which an auto rule opens the interface n of a
\* route; the route, and perhaps a new session, now refer to it.
PollOpen(n) ==
  /\ pc = "loop"
  /\ f_it[2] = "pfd"
  /\ \E d \in queue : /\ Reads(d)
                      /\ queue' = queue \ {d}
                      /\ got' = got \cup {d}
  /\ Step(BadEntry(Advance) \/ table[n].state = "expired")
  /\ table' = open_ifd(table, n)
  /\ dirty' = (dirty \/ table[n].state = "absent")
  /\ rhold' = rhold \cup {n}
  /\ \E k \in {shold[n], shold[n] + 1} : k <= MaxHold /\ shold' = [shold EXCEPT ![n] = k]

-----------------------------------------------------------------------------
Configured_names == {Plan[j].name : j \in DOMAIN Plan}

\* ~iface for the interfaces D: the sockets are closed, the entry of the map
\* expires.
destroyed(D) ==
  [n \in Name |-> IF n \in D THEN [table[n] EXCEPT !.state = "expired"] ELSE table[n]]

\* Mutant: the destructor does not mark the map.
dirtied_not(D) == dirty

dirtied(D) == dirty \/ D # {}

\* Mutant: only ALLMULTI is put back.
restored_allmulti(n) ==
  [flags[n] EXCEPT !.allmulti = IF table[n].prev_allmulti >= 0
                                THEN table[n].prev_allmulti ELSE @]

\* ~iface puts the flags back that open_pfd changed.
restored(n) ==
  [allmulti |-> IF table[n].prev_allmulti >= 0 THEN table[n].prev_allmulti
                ELSE flags[n].allmulti,
   promisc |-> IF table[n].prev_promiscuous >= 0 THEN table[n].prev_promiscuous
               ELSE flags[n].promisc]

\* The end of a turn of the main loop: the routes may be reloaded, sessions may
\* end, and interfaces nobody refers to any more are destroyed.
Update ==
  /\ pc = "update"
  /\ rhold' \in {rhold, {}}
  /\ shold' \in [Name -> 0 .. MaxHold]
  /\ \A n \in Name : shold'[n] <= shold[n]
  /\ LET D == {n \in Name : /\ table[n].state = "live"
                            /\ n \notin Configured_names \cup rhold'
                            /\ shold'[n] = 0}
     IN  /\ table' = destroyed(D)
         /\ dirty' = dirtied(D)
         /\ queue' = {d \in queue : d[1] \notin D}
  /\ pc' = "top"
  /\ f_it' = <<End, "ifd">>
  /\ i_it' = End
  /\ ready' = {}
  /\ got' = {}
  /\ UNCHANGED <<step, pollfds, flags, flags0>>

\* A message arrives on an open descriptor.
Arrive ==
  /\ pc \notin {"exit", "aborted"}
  /\ \E d \in OpenFds(table) \ queue : queue' = queue \cup {d}
  /\ UNCHANGED <<pc, step, table, dirty, pollfds, flags, f_it, i_it, ready,
                 rhold, shold, got, flags0>>

\* configure() fails, poll fails or reports POLLERR, or a signal ends the loop:
\* main returns and everything is destroyed.
Exit ==
  /\ pc \in {"config", "top", "loop"}
  /\ pc' = "exit"
  /\ table' = destroyed({n \in Name : table[n].state = "live"})
  /\ flags' = [n \in Name |-> IF table[n].pfd THEN restored(n) ELSE flags[n]]
  /\ queue' = {}
  /\ rhold' = {}
  /\ shold' = [n \in Name |-> 0]
  /\ UNCHANGED <<step, dirty, pollfds, f_it, i_it, ready, got, flags0>>

Next ==
  \/ Configure \/ Configured
  \/ Poll
  \/ PollSkip \/ PollRead
  \/ \E n \in AutoName : PollOpen(n)
  \/ Update
  \/ Arrive
  \/ Exit

Spec == Init /\ [][Next]_vars

-----------------------------------------------------------------------------
\* Every variable keeps its type, and no message waits at a closed descriptor.
TypeOK ==
  /\ pc \in {"config", "top", "loop", "update", "exit", "aborted"}
  /\ step \in Nat \ {0}
  /\ table \in [Name -> Entry]
  /\ dirty \in BOOLEAN
  /\ pollfds \subseteq Name \X Kind
  /\ flags \in [Name -> Flags]
  /\ f_it \in (Name \cup {End}) \X Kind
  /\ i_it \in Name \cup {End}
  /\ ready \subseteq Name \X Kind
  /\ queue \subseteq OpenFds(table)
  /\ rhold \subseteq Name
  /\ shold \in [Name -> Nat]
  /\ got \subseteq Name \X Kind
  /\ flags0 \in [Name -> Flags]

\* No expired entry of _map and no iterator past its end is dereferenced by
\* open_ifd, fixup_pollfds or the loop of poll_all, although interfaces are
\* destroyed without being erased and opened while the loop walks the map.
NeverDereferencesDead == pc # "aborted"

\* What poll watches is what is open: exactly, as long as the map is clean (the
\* assert on the sizes of _pollfds and _map), and no closed descriptor while
\* the loop runs (~iface sets _map_dirty).
PollsOpenSockets ==
  /\ ~dirty /\ pc # "exit" => pollfds = OpenFds(table) /\ Polled = keys(table)
  /\ pc = "loop" => pollfds \subseteq OpenFds(table)

\* A message that poll reported is read in the same turn, unless an auto rule
\* opened an interface in it: then the iterator over _map lags behind _pollfds
\* and the rest waits for the next turn (poll_all).
ReadUnlessOpened == pc = "update" => dirty \/ ready \subseteq got

\* The daemon leaves the flags of the interfaces as it found them, also when
\* the configuration fails half-way (open_pfd, ~iface).
FlagsRestored == pc = "exit" => flags = flags0
=============================================================================
