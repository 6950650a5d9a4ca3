------------------------------- MODULE Ndppd -------------------------------
(***************************************************************************)
(* The ndppd daemon: the main loop of ndppd.cc around iface::poll_all,     *)
(* which reads one solicitation or advertisement at a time and hands it to *)
(* the proxies, and the update of routes, addresses and sessions that ends *)
(* every turn of the loop.                                                 *)
(*                                                                         *)
(* The network is open: any solicitation of Solicits may arrive on an      *)
(* interface a proxy listens on and any advertisement of Adverts on an     *)
(* open interface, at any time and any number of times, so loss,           *)
(* duplication and reordering are all included.  A proxy changes its own   *)
(* sessions only, so a handler that calls several proxies is written       *)
(* pointwise, with the order of the calls (the order of the configuration  *)
(* file) where it shows.                                                   *)
(***************************************************************************)
EXTENDS ProxyRules

CONSTANTS
  Solicits,     \* <<interface, source, target>> of solicitations that may arrive
  Adverts,      \* the same for advertisements
  Clock,        \* <<elapsed, real>>: time one turn of the loop measures, takes
  MaxStep,      \* longest turn of a steady clock
  RouteTTL,     \* route-ttl
  AddrTTL,      \* address-ttl
  RouteTables,  \* possible contents of /proc/net/ipv6_route, in file order
  AddrTables,   \* possible contents of /proc/net/if_inet6
  Openable      \* the interfaces iface::open_ifd can open

VARIABLES
  run,          \* "up", "down" after a signal, "aborted" by an exception
  sessions,     \* sessions[p][t]: the session of proxy p for target t
  routes,       \* host routes the daemon put into the kernel's table
  rcache,       \* route::_routes
  rtimer,       \* route::_c_ttl
  laddrs,       \* address::_addresses
  atimer,       \* address::_c_ttl
  inp,          \* the message this step handled (history)
  out           \* the messages this step sent (history)

vars == <<run, sessions, routes, rcache, rtimer, laddrs, atimer, inp, out>>

\* A line of /proc/net/ipv6_route: the addresses it covers, its interface.
ProcRoute == [addr : SUBSET Addr, ifname : Iface]

ASSUME NdppdAssumption ==
  /\ Solicits \subseteq Iface \X Addr \X Addr
  /\ Adverts \subseteq Iface \X Addr \X Addr
  /\ Clock \subseteq Int \X Nat
  /\ MaxStep \in Nat
  /\ RouteTTL \in Int
  /\ AddrTTL \in Int
  /\ RouteTables \subseteq Seq(ProcRoute)
  /\ AddrTables \subseteq SUBSET (Addr \X Iface)
  /\ Openable \subseteq Iface

-----------------------------------------------------------------------------
NoRoute == [dev |-> NoIface, via |-> Unspec]
KernelRoute == [dev : Iface \cup {NoIface}, via : Addr]
CachedRoute == [addr : SUBSET Addr, ifname : Iface, open : BOOLEAN]

Input(type, i, s, t) == [type |-> type, ifa |-> i, saddr |-> s, taddr |-> t]
NoInput == Input("none", NoIface, Unspec, Unspec)

NoSessions == [p \in Proxy |-> [t \in Addr |-> NoSession]]

any_auto == \E p \in Proxy : \E r \in DOMAIN Rules[p] : Rules[p][r].aut
any_iface == \E p \in Proxy : \E r \in DOMAIN Rules[p] : HasDaughter(p, r)

serves(i) == {p \in Proxy : Ifa[p] = i}
parents(i) == {p \in Proxy : \E r \in DOMAIN Rules[p] : Rules[p][r].daughter = i}

\* Interfaces with an open socket: those of the configuration, and those that
\* auto rules opened and a cached route or a session still refers to.
OpenIfaces ==
  {i \in Iface : \/ serves(i) # {} \/ parents(i) # {}
                 \/ \E j \in DOMAIN rcache : rcache[j].open /\ rcache[j].ifname = i
                 \/ \E p \in Proxy, t \in Addr : i \in sessions[p][t].ifaces}

\* Both lists are loaded at the end of the first turn of the loop.
Init ==
  /\ run = "up"
  /\ sessions = NoSessions
  /\ routes = [d \in Addr |-> NoRoute]
  /\ rcache = <<>>
  /\ rtimer = 0
  /\ laddrs = {}
  /\ atimer = 0
  /\ inp = NoInput
  /\ out = {}

-----------------------------------------------------------------------------
is_local(a) == \E l \in laddrs : l[1] = a

\* handle_local answers for an address of this machine on a daughter interface.
handle_local(i, t) ==
  \E l \in laddrs, p \in serves(i) :
    l[1] = t /\ \E r \in DOMAIN Rules[p] : Rules[p][r].daughter = l[2]

(***************************************************************************)
(* handle_reverse_advert(s) on interface i.  Its loop reads the name of    *)
(* the daughter of every rule that matches s, and throws on a null one.    *)
(***************************************************************************)
Reads(p, s, r) == Matches(p, s, r) /\ ~HasDaughter(p, r)

ReverseThrows(i, s, p) ==
  s \in Unicast /\ p \in parents(i) /\ \E r \in DOMAIN Rules[p] : Reads(p, s, r)

ReverseCalls(i, s, p) ==
  /\ s \in Unicast
  /\ p \in parents(i)
  /\ \A q \in 1 .. p - 1 : ~ReverseThrows(i, s, q)
  /\ \E r \in DOMAIN Rules[p] :
       /\ Matches(p, s, r)
       /\ Rules[p][r].daughter = i
       /\ \A q \in 1 .. r - 1 : ~Reads(p, s, q)

\* The sessions after the reverse advertisement.  Its target is its source, so
\* that autovia never matters (WireVia).
Reversed(i, s) ==
  [p \in Proxy |-> [t \in Addr |->
     IF t = s /\ ReverseCalls(i, s, p)
     THEN handle_stateless_advert(p, s, sessions[p][s], FALSE)
     ELSE sessions[p][t]]]

-----------------------------------------------------------------------------
(***************************************************************************)
(* route::find and route::ifa for the auto rules.  ifa() returns the       *)
(* interface only to the call that opens it, and null afterwards.          *)
(***************************************************************************)
RouteMatches(t, j) ==
  t \in rcache[j].addr /\ \A k \in 1 .. j - 1 : t \notin rcache[k].addr
HasRoute(t) == \E j \in DOMAIN rcache : RouteMatches(t, j)

\* Proxy p, serving i, looks up a route for the solicited target t; S are the
\* sessions after the reverse advertisement.
LooksUp(S, i, t, p) == p \in serves(i) /\ ~Live(S[p][t]) /\ HitsAuto(p, t)

\* The cached route that this lookup opens, if any.
Opens(S, i, t, j) ==
  /\ RouteMatches(t, j)
  /\ rcache[j].ifname # i
  /\ rcache[j].ifname \in Openable
  /\ ~rcache[j].open
  /\ \E p \in Proxy : LooksUp(S, i, t, p)

\* The interface proxy p gets from it: the first proxy to ask takes it.
RouteIface(S, i, t, p) ==
  IF /\ LooksUp(S, i, t, p)
     /\ \A q \in 1 .. p - 1 : ~LooksUp(S, i, t, q)
     /\ \E j \in DOMAIN rcache : Opens(S, i, t, j)
  THEN rcache[CHOOSE j \in DOMAIN rcache : Opens(S, i, t, j)].ifname
  ELSE NoIface

ServeThrows(S, i, t, p) == LooksUp(S, i, t, p) /\ ~HasRoute(t)

\* proxy::handle_solicit runs for p unless an exception came first.
ServeCalls(S, i, s, t, p) ==
  /\ p \in serves(i)
  /\ \A q \in Proxy : ~ReverseThrows(i, s, q)
  /\ \A q \in 1 .. p : ~ServeThrows(S, i, t, q)

Throws(S, i, s, t) ==
  \E p \in Proxy : ReverseThrows(i, s, p) \/ ServeThrows(S, i, t, p)

-----------------------------------------------------------------------------
\* `ip -6 route replace s dev i` by the reverse advertisement.
ReverseWires(i, s, p) ==
  /\ ReverseCalls(i, s, p)
  /\ StatelessWires(p, s, sessions[p][s])
  /\ Live(sessions[p][s]) \/ ~HitsAuto(p, s) \/ HasRoute(s)

\* Mutant: the route leads back to the interface the parent listens on.
ReverseRoutes_back(i, s) ==
  [d \in Addr |-> IF d = s /\ \E p \in Proxy : ReverseWires(i, s, p)
                  THEN [dev |-> Ifa[CHOOSE p \in Proxy : ReverseWires(i, s, p)],
                        via |-> Unspec]
                  ELSE routes[d]]

ReverseRoutes(i, s) ==
  [d \in Addr |-> IF d = s /\ \E p \in Proxy : ReverseWires(i, s, p)
                  THEN [dev |-> i, via |-> Unspec] ELSE routes[d]]

\* handle_solicit of every proxy that serves i, and what they send.
Served(S, i, s, t) ==
  [p \in Proxy |-> [x \in Addr |->
     IF x = t /\ p \in serves(i)
     THEN handle_solicit(p, t, S[p][t], s, RouteIface(S, i, t, p))
     ELSE S[p][x]]]

ServeSends(S, i, s, t) ==
  UNION {SolicitSends(p, t, S[p][t], s, RouteIface(S, i, t, p)) :
           p \in {q \in Proxy : ServeCalls(S, i, s, t, q)}}

\* A solicitation from this machine is dropped by read_solicit.
IgnoreSolicit(i, s, t) ==
  /\ run = "up"
  /\ serves(i) # {}
  /\ is_local(s)
  /\ inp' = Input("NS", i, s, t)
  /\ out' = {}
  /\ UNCHANGED <<run, sessions, routes, rcache, rtimer, laddrs, atimer>>

Solicited(i, s) == run = "up" /\ serves(i) # {} /\ ~is_local(s)

\* The target is an address of this machine.
AnswerLocal(i, s, t) ==
  /\ Solicited(i, s)
  /\ handle_local(i, t)
  /\ inp' = Input("NS", i, s, t)
  /\ out' = {NA(i, s, t, FALSE)}
  /\ UNCHANGED <<run, sessions, routes, rcache, rtimer, laddrs, atimer>>

\* A solicitation for t from s on i: the reverse advertisement to the parents
\* of i, then handle_solicit of every proxy that serves i.
RecvSolicit(i, s, t) ==
  /\ Solicited(i, s)
  /\ ~handle_local(i, t)
  /\ LET S == Reversed(i, s)
     IN  /\ ~Throws(S, i, s, t)
         /\ sessions' = Served(S, i, s, t)
         /\ rcache' = [j \in DOMAIN rcache |->
                         [rcache[j] EXCEPT !.open = @ \/ Opens(S, i, t, j)]]
         /\ out' = ServeSends(S, i, s, t)
  /\ routes' = ReverseRoutes(i, s)
  /\ inp' = Input("NS", i, s, t)
  /\ UNCHANGED <<run, rtimer, laddrs, atimer>>

\* The same, when a null pointer is dereferenced on the way: nothing catches
\* the exception, the process is terminated and no destructor runs.
AbortSolicit(i, s, t) ==
  /\ Solicited(i, s)
  /\ ~handle_local(i, t)
  /\ LET S == Reversed(i, s)
     IN  Throws(S, i, s, t) /\ out' = ServeSends(S, i, s, t)
  /\ run' = "aborted"
  /\ sessions' = NoSessions
  /\ routes' = ReverseRoutes(i, s)
  /\ inp' = Input("NS", i, s, t)
  /\ UNCHANGED <<rcache, rtimer, laddrs, atimer>>

-----------------------------------------------------------------------------
\* Rule r makes an advertisement of t on i relevant to proxy p; its autovia
\* counts when it is the first such rule.
Relevant(i, t, p, r) == Matches(p, t, r) /\ Rules[p][r].daughter = i
AdvertCalls(i, t, p) == \E r \in DOMAIN Rules[p] : Relevant(i, t, p, r)
AutoVia(i, t, p) ==
  \E r \in DOMAIN Rules[p] : /\ Relevant(i, t, p, r)
                             /\ Rules[p][r].autovia
                             /\ \A q \in 1 .. r - 1 : ~Relevant(i, t, p, q)

Wires(i, s, t, p) == AdvertCalls(i, t, p) /\ AdvertWires(p, sessions[p][t], s)

\* The route commands of handle_auto_wire, of which the last proxy's stands.
AdvertRoute(i, s, t, d) ==
  LET wires(p) == Wires(i, s, t, p)
      last == CHOOSE p \in Proxy : wires(p) /\ \A q \in p + 1 .. NProxy : ~wires(q)
      gateway == \E p \in Proxy : wires(p) /\ WireVia(t, s, AutoVia(i, t, p)) = d
  IN  IF d = t /\ \E p \in Proxy : wires(p)
      THEN [dev |-> i, via |-> WireVia(t, s, AutoVia(i, t, last))]
      ELSE IF d # Unspec /\ gateway THEN [dev |-> i, via |-> Unspec]
      ELSE routes[d]

\* An advertisement from this machine is dropped by read_advert.
IgnoreAdvert(i, s, t) ==
  /\ run = "up"
  /\ i \in OpenIfaces
  /\ is_local(s)
  /\ inp' = Input("NA", i, s, t)
  /\ out' = {}
  /\ UNCHANGED <<run, sessions, routes, rcache, rtimer, laddrs, atimer>>

\* An advertisement of t from s on i, for every parent of i with such a rule.
RecvAdvert(i, s, t) ==
  /\ run = "up"
  /\ i \in OpenIfaces
  /\ ~is_local(s)
  /\ sessions' = [p \in Proxy |-> [x \in Addr |->
                    IF x = t /\ AdvertCalls(i, t, p)
                    THEN handle_advert_from(p, t, sessions[p][t], s, AutoVia(i, t, p))
                    ELSE sessions[p][x]]]
  /\ routes' = [d \in Addr |-> AdvertRoute(i, s, t, d)]
  /\ inp' = Input("NA", i, s, t)
  /\ out' = UNION {AdvertSends(p, t, sessions[p][t]) :
                     p \in {q \in Proxy : AdvertCalls(i, t, q)}}
  /\ UNCHANGED <<run, rcache, rtimer, laddrs, atimer>>

-----------------------------------------------------------------------------
\* route::update and address::update reload their list when their timer is up.
update_routes(elapsed) ==
  IF any_auto /\ rtimer - elapsed <= 0
  THEN /\ rtimer' = RouteTTL
       /\ \E R \in RouteTables :
            rcache' = [j \in DOMAIN R |-> [addr |-> R[j].addr,
                                           ifname |-> R[j].ifname, open |-> FALSE]]
  ELSE /\ rtimer' = IF any_auto THEN rtimer - elapsed ELSE rtimer
       /\ UNCHANGED rcache

update_addresses(elapsed) ==
  IF any_iface /\ atimer - elapsed <= 0
  THEN atimer' = AddrTTL /\ laddrs' \in AddrTables
  ELSE /\ atimer' = IF any_iface THEN atimer - elapsed ELSE atimer
       /\ UNCHANGED laddrs

\* The route table once the sessions named by the pairs in gone are destroyed.
Unwired(gone) ==
  [d \in Addr |->
     IF \E k \in gone : flushes(sessions[k[1]][k[2]], k[2], d, routes[d])
     THEN NoRoute ELSE routes[d]]

\* The end of a turn of the main loop.
UpdateAll(c) ==
  /\ run = "up"
  /\ update_routes(c[1])
  /\ update_addresses(c[1])
  /\ sessions' = [p \in Proxy |-> [t \in Addr |->
                    update(p, sessions[p][t], c[1], c[2])]]
  /\ routes' = Unwired({k \in Proxy \X Addr :
                         Removed(k[1], sessions[k[1]][k[2]], c[1])})
  /\ inp' = NoInput
  /\ out' = UNION {send_solicit(sessions[k[1]][k[2]], k[2]) :
                     k \in {k \in Proxy \X Addr :
                              Probes(k[1], sessions[k[1]][k[2]], c[1])}}
  /\ UNCHANGED run

\* exit_ndppd or an error of poll_all ends the loop; leaving main destroys the
\* proxies and with them their sessions.
Shutdown ==
  /\ run = "up"
  /\ run' = "down"
  /\ sessions' = NoSessions
  /\ routes' = Unwired(Proxy \X Addr)
  /\ inp' = NoInput
  /\ out' = {}
  /\ UNCHANGED <<rcache, rtimer, laddrs, atimer>>

\* The daemon is started again.  Its sessions ended with the process; what it
\* left in the kernel's table is still there.
Restart ==
  /\ run # "up"
  /\ run' = "up"
  /\ rcache' = <<>> /\ rtimer' = 0
  /\ laddrs' = {} /\ atimer' = 0
  /\ inp' = NoInput
  /\ out' = {}
  /\ UNCHANGED <<sessions, routes>>

Next ==
  \/ \E m \in Solicits : \/ IgnoreSolicit(m[1], m[2], m[3])
                         \/ AnswerLocal(m[1], m[2], m[3])
                         \/ RecvSolicit(m[1], m[2], m[3])
                         \/ AbortSolicit(m[1], m[2], m[3])
  \/ \E m \in Adverts : \/ IgnoreAdvert(m[1], m[2], m[3])
                        \/ RecvAdvert(m[1], m[2], m[3])
  \/ \E c \in Clock : UpdateAll(c)
  \/ Shutdown
  \/ Restart

Spec == Init /\ [][Next]_vars

\* poll waits at most 50 ms, so the end of the loop body is reached again and
\* again however the messages come in.
FairSpec == Spec /\ WF_vars(\E c \in Clock : UpdateAll(c))

-----------------------------------------------------------------------------
(***************************************************************************)
(* Properties.                                                             *)
(***************************************************************************)
Message == [type : {"NS"}, ifa : Iface, taddr : Addr] \cup
           [type : {"NA"}, ifa : Iface, daddr : Addr, taddr : Addr,
            router : BOOLEAN]

\* Every variable keeps its type; in particular no counter of a session that
\* update_all or touch() writes leaves its range.
TypeOK ==
  /\ run \in {"up", "down", "aborted"}
  /\ sessions \in [Proxy -> [Addr -> Session]]
  /\ routes \in [Addr -> KernelRoute]
  /\ rcache \in Seq(CachedRoute)
  /\ rtimer \in Int
  /\ laddrs \subseteq Addr \X Iface
  /\ atimer \in Int
  /\ inp \in [type : {"NS", "NA", "none"}, ifa : Iface \cup {NoIface},
              saddr : Addr, taddr : Addr]
  /\ out \subseteq Message

\* The clock of the main loop measures the time that passes, and no turn of the
\* loop takes longer than MaxStep.
SteadyClock == \A c \in Clock : c[1] = c[2] /\ c[2] <= MaxStep

\* fails never exceeds this; a negative number of retries counts as none.
MaxFails(p) == IF Opt[p].retries > 0 THEN Opt[p].retries ELSE 0

\* One period of a timer that is set to timeout may be overshot by a turn.
Period(p) == Opt[p].timeout + MaxStep

StaleBound(p) == Opt[p].ttl + (MaxFails(p) + 1) * Period(p)
LifeBound(p) == Opt[p].ttl + Opt[p].deadtime + (MaxFails(p) + 1) * Period(p)

\* The inductive invariant behind the bounds below, for one session of proxy p.
\* Held counts the solicitation of touch(), which is sent once between two
\* confirmations because touched stays set.
Held(se) == IF se.touched THEN 1 ELSE 0

Probing(p, se) ==
  /\ se.ttl >= 0
  /\ se.fails <= MaxFails(p)
  /\ se.status = "NONE" => se = NoSession
  /\ se.status = "WAITING" => se.tries = se.fails + Held(se)
  /\ se.status = "INVALID" => se.tries <= MaxFails(p) + Held(se)
  /\ se.status = "VALID" => se.tries = 0 /\ se.pending = {}
  /\ se.status = "RENEWING" => se.tries = se.fails + 1 /\ se.pending = {}

\* age + ttl is the age at which the timer of the session runs out.
AgeLimit(p, se) ==
  CASE se.status = "WAITING" ->
         Opt[p].ttl + se.fails * Period(p) + Held(se) * Opt[p].timeout
    [] se.status = "INVALID" ->
         Opt[p].ttl + Opt[p].deadtime + MaxFails(p) * Period(p) + MaxStep
                    + Held(se) * Opt[p].timeout
    [] se.status = "RENEWING" -> Opt[p].ttl + (se.fails + 1) * Period(p)
    [] OTHER -> Opt[p].ttl

\* Every session of the daemon satisfies it between two steps of the main loop;
\* the age is bounded when the clock is steady (session.cc, all of it).
SessionInv ==
  \A p \in Proxy, t \in Addr :
    LET se == sessions[p][t]
    IN  Probing(p, se) /\ (SteadyClock => se.age + se.ttl <= AgeLimit(p, se))

\* An advertisement the daemon sends is backed by something: the target is an
\* address of this machine (handle_local), or a proxy of the interface has a
\* static rule for it, or that proxy heard the target advertise itself at most
\* StaleBound ago (send_advert from handle_solicit and handle_advert).
AnswersBacked ==
  run = "up" => \A m \in out : m.type = "NA" =>
    \/ is_local(m.taddr)
    \/ \E p \in serves(m.ifa) :
         \/ HitsStatic(p, m.taddr)
         \/ /\ Answering(sessions[p][m.taddr])
            /\ sessions[p][m.taddr].age <= StaleBound(p)

\* A session whose target is not heard of for LifeBound is gone, whatever is
\* solicited meanwhile: touch() cannot keep it alive (update_all).
BoundedLife ==
  \A p \in Proxy, t \in Addr :
    Live(sessions[p][t]) => sessions[p][t].age <= LifeBound(p)

\* Between two confirmations a session solicits its target at most one time more
\* than retries says, however often it is itself solicited (touch, update_all).
ProbeBudget ==
  \A p \in Proxy, t \in Addr : sessions[p][t].tries <= MaxFails(p) + 1

\* No solicitor is left parked in a session that could answer it: handle_solicit
\* parks it only while the target is unresolved, handle_advert answers all.
NoneParkedWhileAnswering ==
  \A p \in Proxy, t \in Addr :
    Answering(sessions[p][t]) => sessions[p][t].pending = {}

\* A parked solicitor is dropped unanswered only when the deadtime of a target
\* found unreachable is over, or with the daemon.
ParkedAreAnswered ==
  [][\A p \in Proxy, t \in Addr :
       \A a \in sessions[p][t].pending \ sessions'[p][t].pending :
         \/ NA(Ifa[p], a, t, Opt[p].router) \in out'
         \/ sessions[p][t].status = "INVALID" /\ ~Live(sessions'[p][t])
         \/ run' # "up"]_vars

\* "An array of interfaces this session is monitoring for ND_NEIGHBOR_ADVERT on"
\* (session.h): an advertisement of the target that arrives on one of them
\* confirms the session (the dispatch of poll_all).
MonitoredAdvertsResolve ==
  run = "up" /\ inp.type = "NA" /\ ~is_local(inp.saddr) =>
    \A p \in Proxy :
      LET se == sessions[p][inp.taddr]
      IN  Live(se) /\ inp.ifa \in se.ifaces => se.status = "VALID"

\* A session that still exists put the route to d into the table, as its target
\* or as its gateway.
Owned(d) ==
  \E p \in Proxy, t \in Addr :
    /\ sessions[p][t].wired
    /\ \/ d = t /\ routes[d].dev \in sessions[p][t].ifaces
       \/ d # Unspec /\ d = sessions[p][t].via

\* As long as the daemon is not aborted every route that autowire added belongs
\* to a session; none is left once the daemon has stopped (handle_auto_wire,
\* handle_auto_unwire, ~session).
NoLeakedRoutes ==
  run # "aborted" => \A d \in Addr : routes[d] # NoRoute => Owned(d)

\* The routes of a daemon that was aborted stay, and no step of the next one adds
\* to them: only an abort leaves routes behind, and a route that nobody owns is
\* not touched before a session takes it over (~session, ptr.h).
LeaksOnlyOnAbort ==
  [][\A d \in Addr : routes'[d] # NoRoute /\ ~Owned(d)' =>
       (routes'[d] = routes[d] /\ ~Owned(d)) \/ run' = "aborted"]_vars

\* A session that considers itself wired has its route: what one session's end
\* flushes never hits the target of another (handle_auto_unwire).
WiredMeansRouted ==
  \A p \in Proxy, t \in Addr :
    sessions[p][t].wired => routes[t].dev \in sessions[p][t].ifaces

\* A session is wired once: while it lives, its gateway is never exchanged, so
\* that handle_auto_wire never has to undo a route it replaces.
WiredOnce ==
  [][\A p \in Proxy, t \in Addr :
       sessions[p][t].wired /\ sessions'[p][t].wired =>
         sessions'[p][t].via = sessions[p][t].via]_vars

\* A solicitation that reaches a proxy with a rule for its target is answered in
\* the same step or its source is parked; a static rule always answers
\* (proxy::handle_solicit).
AnsweredOrParked ==
  run = "up" /\ inp.type = "NS" /\ ~is_local(inp.saddr)
             /\ inp.saddr # inp.taddr /\ ~handle_local(inp.ifa, inp.taddr) =>
    \A p \in serves(inp.ifa) :
      HasRule(p, inp.taddr) =>
        \/ NA(inp.ifa, inp.saddr, inp.taddr, Opt[p].router) \in out
        \/ /\ ~HitsStatic(p, inp.taddr)
           /\ inp.saddr \in sessions[p][inp.taddr].pending

\* No solicitation makes the daemon dereference a null pointer
\* (handle_reverse_advert, find_or_create_session).
NeverAborts == run # "aborted"

\* A solicitor that is parked does not stay parked for ever: it is answered or
\* dropped, even if solicitations for the target keep coming (touch).
ParkedReleased ==
  \A p \in Proxy, t \in Addr, a \in Addr :
    a \in sessions[p][t].pending ~> a \notin sessions[p][t].pending
=============================================================================
