----------------------------- MODULE ProxyRules -----------------------------
(***************************************************************************)
(* class proxy and class rule (proxy.cc, rule.cc): how a proxy's rules     *)
(* decide which session a target gets, and what handle_solicit,            *)
(* handle_advert and handle_stateless_advert do to that session.           *)
(*                                                                         *)
(* A rule's address and mask are the set of host addresses that            *)
(* address::operator== matches.  An "iface" rule has a daughter interface, *)
(* an "auto" rule has aut = TRUE, a "static" rule has neither.             *)
(***************************************************************************)
EXTENDS Session, Sequences

CONSTANTS
  Ifa,        \* Ifa[p]: the interface proxy p listens on
  Rules       \* Rules[p]: the rules of proxy p, in file order

Rule == [addr : SUBSET Addr, aut : BOOLEAN,
         daughter : Iface \cup {NoIface}, autovia : BOOLEAN]

ASSUME RulesAssumption ==
  /\ Ifa \in [Proxy -> Iface]
  /\ Rules \in [Proxy -> Seq(Rule)]
  /\ \A p \in Proxy : \A r \in DOMAIN Rules[p] :
       Rules[p][r].aut => Rules[p][r].daughter = NoIface

Matches(p, t, r) == t \in Rules[p][r].addr
HasDaughter(p, r) == Rules[p][r].daughter # NoIface
IsStatic(p, r) == ~Rules[p][r].aut /\ ~HasDaughter(p, r)

\* The rules that find_or_create_session visits for target t: it returns at the
\* first static one.
Visits(p, t, r) ==
  /\ Matches(p, t, r)
  /\ \A q \in 1 .. r - 1 : ~(Matches(p, t, q) /\ IsStatic(p, q))

HasRule(p, t) == \E r \in DOMAIN Rules[p] : Matches(p, t, r)
HitsStatic(p, t) == \E r \in DOMAIN Rules[p] : Matches(p, t, r) /\ IsStatic(p, r)
HitsAuto(p, t) == \E r \in DOMAIN Rules[p] : Visits(p, t, r) /\ Rules[p][r].aut

-----------------------------------------------------------------------------
\* Rule r hands interface i to a new session for t.  rif is the interface that
\* route::ifa() returned to the proxy's auto rule, NoIface when it was null.
Hands(p, t, rif, r, i) ==
  /\ Visits(p, t, r)
  /\ i = IF Rules[p][r].aut THEN rif ELSE Rules[p][r].daughter

SessionIfaces(p, t, rif) ==
  {i \in Iface : \E r \in DOMAIN Rules[p] : Hands(p, t, rif, r, i)}

\* The interface that the first rule to hand one out adds to the list.
FirstIface(p, t, rif) ==
  LET first(i) == \E r \in DOMAIN Rules[p] :
                    /\ Hands(p, t, rif, r, i)
                    /\ \A q \in 1 .. r - 1, j \in Iface : ~Hands(p, t, rif, q, j)
  IN  IF \E i \in Iface : first(i) THEN CHOOSE i \in Iface : first(i) ELSE NoIface

\* find_or_create_session, given the session se that proxy p holds for t.  A
\* target that hits a static rule gets a confirmed session that is returned and
\* never stored: StoresSession tells the two apart.
StoresSession(p, t, se) == Live(se) \/ (HasRule(p, t) /\ ~HitsStatic(p, t))

find_or_create_session(p, t, se, rif) ==
  IF Live(se) THEN se
  ELSE create(p, SessionIfaces(p, t, rif), FirstIface(p, t, rif))

\* The session of a static rule.
StaticAnswers(p, t, se) == ~Live(se) /\ HitsStatic(p, t)

-----------------------------------------------------------------------------
\* Mutant: nobody is parked in an INVALID session.
handle_solicit_parks(p, t, se, s, rif) ==
  IF StoresSession(p, t, se)
  THEN LET probed == touch(p, find_or_create_session(p, t, se, rif))
       IN  IF s # t /\ probed.status = "WAITING" THEN add_pending(probed, s) ELSE probed
  ELSE se

\* handle_solicit for a solicitation from s: the session it leaves in the list,
\* and the messages it sends.
handle_solicit(p, t, se, s, rif) ==
  IF StoresSession(p, t, se)
  THEN LET probed == touch(p, find_or_create_session(p, t, se, rif))
       IN  IF s # t /\ Unresolved(probed) THEN add_pending(probed, s) ELSE probed
  ELSE se

\* Mutant: a new session answers at once.
SolicitSends_early(p, t, se, s, rif) ==
  IF s # t /\ HasRule(p, t) THEN {NA(Ifa[p], s, t, Opt[p].router)} ELSE {}

SolicitSends(p, t, se, s, rif) ==
  LET found == find_or_create_session(p, t, se, rif)
      stored == StoresSession(p, t, se)
  IN  (IF stored /\ TouchProbes(found) THEN send_solicit(found, t) ELSE {})
      \cup
      (IF s # t /\ (StaticAnswers(p, t, se) \/ (stored /\ Answering(found)))
       THEN {NA(Ifa[p], s, t, Opt[p].router)} ELSE {})

\* handle_stateless_advert(s, s, ...): the source of a solicitation becomes the
\* target of a session.
StatelessWires(p, s, se) ==
  LET found == find_or_create_session(p, s, se, NoIface)
  IN  /\ StoresSession(p, s, se)
      /\ Opt[p].autowire
      /\ found.status = "WAITING"
      /\ Rewires(found, s)

handle_stateless_advert(p, s, se, use_via) ==
  IF ~StoresSession(p, s, se) THEN se
  ELSE LET found == find_or_create_session(p, s, se, NoIface)
       IN  IF StatelessWires(p, s, se) THEN handle_auto_wire(found, s, s, use_via)
           ELSE found

\* Mutants: a confirmed session is wired again; a late answer is ignored; only
\* one of the parked solicitors is answered.
AdvertWires_again(p, se, s) == Opt[p].autowire /\ Live(se) /\ Rewires(se, s)

handle_advert_in_time(p, t, se, s, use_via) ==
  IF ~Live(se) \/ se.status = "INVALID" THEN se
  ELSE handle_advert(p, IF Opt[p].autowire /\ se.status = "WAITING"
                        THEN handle_auto_wire(se, t, s, use_via) ELSE se)

AdvertSends_one(p, t, se) ==
  IF se.pending = {} THEN {}
  ELSE {NA(Ifa[p], CHOOSE d \in se.pending : TRUE, t, Opt[p].router)}

\* handle_advert for an advertisement of t from s.
AdvertWires(p, se, s) ==
  Opt[p].autowire /\ se.status = "WAITING" /\ Rewires(se, s)

handle_advert_from(p, t, se, s, use_via) ==
  IF ~Live(se) THEN se
  ELSE handle_advert(p, IF AdvertWires(p, se, s)
                        THEN handle_auto_wire(se, t, s, use_via) ELSE se)

AdvertSends(p, t, se) == {NA(Ifa[p], d, t, Opt[p].router) : d \in se.pending}
=============================================================================
