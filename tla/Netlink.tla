------------------------------ MODULE Netlink ------------------------------
(***************************************************************************)
(* The netlink monitor (nd-netlink.cc, built with WITH_ND_NETLINK): a      *)
(* thread that copies the addresses of the watched interfaces into a list  *)
(* and then follows the kernel's notifications, while the main thread      *)
(* looks targets up in the list (proxy::find_or_create_session).           *)
(*                                                                         *)
(* Actors: the kernel, which changes addresses at any time and queues a    *)
(* notification in the socket's buffer when the thread has subscribed; the *)
(* monitor thread; the main thread.  cs_mutex guards the list.             *)
(***************************************************************************)
EXTENDS Integers, Sequences

CONSTANTS
  Iface,      \* interfaces, by index
  Watched,    \* those of iface rules, put into the list by rule::create
  Addr,       \* IPv6 addresses that may be assigned
  Peer,       \* Peer[a]: the IFA_ADDRESS of a, the other end on a point-to-point
              \* link and otherwise a itself
  QueueCap,   \* notifications that fit into the socket's buffer
  MaxChanges  \* bound: changes of addresses in a behaviour

VARIABLES
  kernel,     \* <<interface, address>> pairs that are assigned
  changes,    \* number of changes so far
  queue,      \* the socket's buffer
  joined,     \* the socket is a member of RTNLGRP_IPV6_IFADDR
  lost,       \* pairs whose last change was not queued (history)
  list,       \* list[i]: addresses of interfaces[i]
  pc,         \* the monitor thread
  dump,       \* the address cache that is still to be copied
  cur,        \* the change the thread is about to apply
  mutex,      \* TRUE while the monitor thread holds cs_mutex
  main,       \* the main thread: "loop", "asking", "joining", "done"
  ask,        \* the pair it is looking up
  found       \* the result of if_addr_find

monitor == <<pc, dump, cur, mutex>>
env == <<kernel, changes, lost, joined>>
client == <<main, ask, found>>
vars == <<env, queue, list, monitor, client>>

ASSUME NetlinkAssumption ==
  /\ Watched \subseteq Iface
  /\ Addr \subseteq DOMAIN Peer
  /\ QueueCap \in Nat /\ MaxChanges \in Nat

Pair == Iface \X Addr
Change(type, i, a) == [type |-> type, ifa |-> i, addr |-> a]
NoChange == Change("none", 0, 0)

Init ==
  /\ kernel \in SUBSET Pair
  /\ changes = 0
  /\ queue = <<>>
  /\ joined = FALSE
  /\ lost = {}
  /\ list = [i \in Watched |-> {}]
  /\ pc = "dump"
  /\ dump = {}
  /\ cur = NoChange
  /\ mutex = FALSE
  /\ main = "loop"
  /\ ask = <<>>
  /\ found = FALSE

-----------------------------------------------------------------------------
(***************************************************************************)
(* The kernel (external).  A change is announced to a member of the group  *)
(* if its buffer has room; otherwise the notification is dropped.  Changes *)
(* after the end of the monitor thread reach nobody and are left out.      *)
(***************************************************************************)
Announce(type, p) ==
  /\ changes < MaxChanges
  /\ pc # "ended"
  /\ changes' = changes + 1
  /\ IF joined /\ Len(queue) < QueueCap
     THEN /\ queue' = Append(queue, Change(type, p[1], Peer[p[2]]))
          /\ lost' = lost \ {p}
     ELSE /\ lost' = IF pc = "dump" THEN lost ELSE lost \cup {p}
          /\ UNCHANGED queue
  /\ UNCHANGED <<joined, list, monitor, client>>

AddAddress(p) == p \notin kernel /\ kernel' = kernel \cup {p} /\ Announce("new", p)
DelAddress(p) == p \in kernel /\ kernel' = kernel \ {p} /\ Announce("del", p)

-----------------------------------------------------------------------------
(***************************************************************************)
(* netlink_monitor.                                                        *)
(***************************************************************************)
\* rtnl_addr_alloc_cache: a copy of the kernel's table.
AllocCache ==
  /\ pc = "dump"
  /\ pc' = "copy"
  /\ dump' = kernel
  /\ UNCHANGED <<env, queue, list, cur, mutex, client>>

\* The call fails: the thread returns.
AllocCacheFails ==
  /\ pc = "dump"
  /\ pc' = "ended"
  /\ UNCHANGED <<env, queue, list, dump, cur, mutex, client>>

\* nl_cache_foreach calls new_addr for the next object of the cache.
new_addr(p) ==
  /\ pc = "copy" /\ cur = NoChange
  /\ p \in dump
  /\ dump' = dump \ {p}
  /\ cur' = Change("new", p[1], p[2])
  /\ UNCHANGED <<env, queue, list, pc, mutex, client>>

\* nl_socket_add_memberships, once the cache is copied.
Subscribe ==
  /\ pc = "copy" /\ cur = NoChange
  /\ dump = {}
  /\ joined' = TRUE
  /\ pc' = "recv"
  /\ UNCHANGED <<kernel, changes, lost, queue, list, dump, cur, mutex, client>>

\* nl_recvmsgs_default hands the next notification to nl_msg_handler.
Receive ==
  /\ pc = "recv" /\ cur = NoChange
  /\ queue # <<>>
  /\ cur' = Head(queue)
  /\ queue' = Tail(queue)
  /\ UNCHANGED <<env, list, pc, dump, mutex, client>>

\* if_addr_add and if_addr_del begin by locking the mutex ...
Lock ==
  /\ cur # NoChange
  /\ ~mutex
  /\ pc # "ended"
  /\ mutex' = TRUE
  /\ UNCHANGED <<env, queue, list, pc, dump, cur, client>>

\* Mutant: any interface matches.
Applied_all(c) ==
  [i \in Watched |-> IF c.type = "new" THEN list[i] \cup {c.addr} ELSE list[i] \ {c.addr}]

\* ... and change the entry of the interface, if there is one.
Applied(c) ==
  [i \in Watched |-> CASE i # c.ifa -> list[i]
                       [] i = c.ifa /\ c.type = "new" -> list[i] \cup {c.addr}
                       [] i = c.ifa /\ c.type = "del" -> list[i] \ {c.addr}]

\* Mutant: one path leaves the mutex locked.
Apply_locked ==
  /\ mutex /\ cur # NoChange
  /\ pc # "ended"
  /\ list' = Applied(cur)
  /\ cur' = NoChange
  /\ mutex' = (cur.type # "new")
  /\ UNCHANGED <<env, queue, pc, dump, client>>

Apply ==
  /\ mutex /\ cur # NoChange
  /\ pc # "ended"
  /\ list' = Applied(cur)
  /\ cur' = NoChange
  /\ mutex' = FALSE
  /\ UNCHANGED <<env, queue, pc, dump, client>>

\* Mutant: a cancellation point in front of the mutex only.
Cancelled_unlocked ==
  /\ main = "joining"
  /\ pc # "ended"
  /\ cur # NoChange /\ ~mutex
  /\ pc' = "ended"
  /\ UNCHANGED <<env, queue, list, dump, cur, mutex, client>>

\* pthread_cancel takes effect where the thread waits for the socket or writes to
\* the log: nl_msg_handler before it locks the mutex, if_addr_add and if_addr_del
\* with the mutex locked.
Cancelled ==
  /\ main = "joining"
  /\ pc # "ended"
  /\ cur = NoChange \/ mutex \/ pc = "recv"
  /\ pc' = "ended"
  /\ UNCHANGED <<env, queue, list, dump, cur, mutex, client>>

-----------------------------------------------------------------------------
(***************************************************************************)
(* The main thread.                                                        *)
(***************************************************************************)
\* find_or_create_session of an iface rule for a target on its daughter.
Ask(i, a) ==
  /\ main = "loop"
  /\ main' = "asking"
  /\ ask' = <<i, a>>
  /\ found' = FALSE
  /\ UNCHANGED <<env, queue, list, monitor>>

\* Mutant: every interface is searched.
if_addr_find_any ==
  /\ main = "asking"
  /\ ~mutex
  /\ found' = (list[ask[1]] # {})
  /\ main' = "loop"
  /\ ask' = <<>>
  /\ UNCHANGED <<env, queue, list, monitor>>

\* if_addr_find: waits for the mutex, searches and unlocks it.
if_addr_find ==
  /\ main = "asking"
  /\ ~mutex
  /\ found' = (ask[2] \in list[ask[1]])
  /\ main' = "loop"
  /\ ask' = <<>>
  /\ UNCHANGED <<env, queue, list, monitor>>

\* netlink_teardown: pthread_cancel and pthread_join.
netlink_teardown ==
  /\ main = "loop"
  /\ main' = "joining"
  /\ UNCHANGED <<env, queue, list, monitor, ask, found>>

Join ==
  /\ main = "joining"
  /\ pc = "ended"
  /\ main' = "done"
  /\ UNCHANGED <<env, queue, list, monitor, ask, found>>

Kernel == \E p \in Pair : AddAddress(p) \/ DelAddress(p)
Copies == \E p \in Pair : new_addr(p)
Monitor == AllocCache \/ Copies \/ Subscribe \/ Receive \/ Lock \/ Apply \/ Cancelled
Main == if_addr_find \/ Join

Next ==
  \/ Kernel
  \/ Monitor
  \/ AllocCacheFails
  \/ \E i \in Watched, a \in Addr : Ask(i, a)
  \/ Main
  \/ netlink_teardown

Spec == Init /\ [][Next]_vars

\* Each thread runs on while nothing blocks it.
FairSpec == Spec /\ WF_vars(Monitor) /\ WF_vars(Main)

-----------------------------------------------------------------------------
(***************************************************************************)
(* Properties.                                                             *)
(***************************************************************************)
\* Addresses that dump and notification name alike: all but those of
\* point-to-point links.
Plain == {a \in Addr : Peer[a] = a /\ \A b \in Addr : Peer[b] = a => b = a}

\* The changes that have reached the monitor but not the list, oldest first.
Backlog == (IF cur = NoChange THEN <<>> ELSE <<cur>>) \o queue

\* The places in it of the changes of a on i.
About(i, a) == {n \in DOMAIN Backlog : Backlog[n].ifa = i /\ Backlog[n].addr = a}

\* Whether a is in the list of i once the dump and the backlog are worked off.
Headed(i, a) ==
  \/ \E n \in About(i, a) : /\ Backlog[n].type = "new"
                            /\ \A k \in About(i, a) : k <= n
  \/ About(i, a) = {} /\ (a \in list[i] \/ <<i, a>> \in dump)

\* As long as the monitor works, the list together with what is on its way to it
\* is the kernel's table, for every address whose last change was neither in the
\* gap between the dump and the subscription nor dropped by a full buffer
\* (netlink_monitor, if_addr_add, if_addr_del).
ListTracksKernel ==
  pc \in {"copy", "recv"} => \A i \in Watched, a \in Plain :
    <<i, a>> \notin lost => (Headed(i, a) <=> <<i, a>> \in kernel)

\* What the main thread is told about a target, and so whether it answers for it
\* at once, is what the kernel's table says at that moment unless the last change
\* of the address is on its way or lost (if_addr_find in find_or_create_session).
FindsAssigned ==
  [][main = "asking" /\ main' = "loop" /\ pc = "recv" /\ ask[2] \in Plain =>
       \/ found' <=> ask \in kernel
       \/ ask \in lost
       \/ About(ask[1], ask[2]) # {}]_vars

\* The main thread gets the mutex whatever the monitor is doing (if_addr_find).
FindReturns == main = "asking" ~> main # "asking"

\* The daemon terminates: the monitor thread can always be cancelled and joined,
\* though it may die with the mutex locked (netlink_teardown).
TeardownReturns == main = "joining" ~> main = "done"

=============================================================================
