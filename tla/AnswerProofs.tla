---------------------------- MODULE AnswerProofs ---------------------------
(***************************************************************************)
(* What the daemon answers, for every configuration, all messages and      *)
(* every clock: what it advertises, whom it answers, and that it is a      *)
(* neighbour cache.                                                        *)
(***************************************************************************)
EXTENDS NdppdProofs, NdppdCache

(***************************************************************************)
(* What is advertised is backed by a rule, an address or a recent answer.  *)
(***************************************************************************)
\* The property of one message.
Backed(m, S) ==
  \E p \in serves(m.ifa) :
    \/ HitsStatic(p, m.taddr)
    \/ Answering(S[p][m.taddr]) /\ S[p][m.taddr].age <= StaleBound(p)

\* touch() leaves the status and the history alone.
LEMMA TouchKeeps ==
  ASSUME NEW p \in Proxy, NEW se \in Session
  PROVE  /\ touch(p, se).status = se.status
         /\ touch(p, se).age = se.age
         /\ touch(p, se).pending = se.pending
  BY SMTT(30) DEF touch, Session

\* The advertisement that handle_solicit sends.
LEMMA SolicitBacked ==
  ASSUME SteadyClock, NEW p \in Proxy, NEW t \in Addr, NEW se, Good(p, se),
         NEW s \in Addr, NEW rif \in Iface \cup {NoIface},
         NEW m \in SolicitSends(p, t, se, s, rif), m.type = "NA"
  PROVE  /\ m.ifa = Ifa[p] /\ m.taddr = t
         /\ \/ HitsStatic(p, t)
            \/ /\ Answering(handle_solicit(p, t, se, s, rif))
               /\ handle_solicit(p, t, se, s, rif).age <= StaleBound(p)
<1> DEFINE found == find_or_create_session(p, t, se, rif)
<1>1. Good(p, found)
  BY FoundGood
<1> HIDE DEF found
<1>2. m \notin send_solicit(found, t)
  BY DEF send_solicit, NS
<1>3. /\ m = NA(Ifa[p], s, t, Opt[p].router)
      /\ StaticAnswers(p, t, se) \/ (StoresSession(p, t, se) /\ Answering(found))
  BY <1>2, Zenon DEF SolicitSends, found
<1>4. m.ifa = Ifa[p] /\ m.taddr = t
  BY <1>3 DEF NA
<1>5. CASE StaticAnswers(p, t, se)
  BY <1>4, <1>5 DEF StaticAnswers
<1>6. CASE StoresSession(p, t, se) /\ Answering(found)
  <2>1. touch(p, found).status = found.status /\ touch(p, found).age = found.age
    BY <1>1, TouchKeeps DEF Good
  <2>2. handle_solicit(p, t, se, s, rif) = touch(p, found)
    BY <1>6, <2>1 DEF handle_solicit, found, Answering, Unresolved
  <2>3. found.age <= StaleBound(p)
    BY <1>1, <1>6, AgeBound
  <2> QED BY <1>4, <1>6, <2>1, <2>2, <2>3 DEF Answering
<1> QED BY <1>3, <1>5, <1>6

\* The session that handle_advert leaves, if anybody was parked in it.
LEMMA AdvertBacked ==
  ASSUME SteadyClock, NEW p \in Proxy, NEW t \in Addr, NEW se, Good(p, se),
         NEW s \in Addr, NEW v \in BOOLEAN, se.pending # {}
  PROVE  /\ Answering(handle_advert_from(p, t, se, s, v))
         /\ handle_advert_from(p, t, se, s, v).age <= StaleBound(p)
<1> DEFINE new == handle_advert_from(p, t, se, s, v)
<1>1. se \in Session /\ handle_auto_wire(se, t, s, v) \in Session
  BY WireType DEF Good
<1>2. Live(se)
  BY DEF Good, Probing, Live, NoSession
<1>3. new.status = "VALID"
  BY <1>1, <1>2 DEF handle_advert_from, handle_advert, Session
<1>4. Good(p, new)
  BY AdvertFromGood
<1> HIDE DEF new
<1>5. Answering(new) /\ new.age <= StaleBound(p)
  BY <1>3, <1>4, AgeBound, Zenon DEF Answering
<1> QED BY <1>5 DEF new

\* A step with a steady clock keeps AnswersBacked, one case per action that sends.
LEMMA BackedStep ==
  ASSUME SteadyClock, TypeOK, AllGood(sessions), AnswersBacked, [Next]_vars
  PROVE  AnswersBacked'
<1>1. /\ \A m \in Solicits : m[1] \in Iface /\ m[2] \in Addr /\ m[3] \in Addr
      /\ \A m \in Adverts : m[1] \in Iface /\ m[2] \in Addr /\ m[3] \in Addr
  BY NdppdAssumption, SMTT(30)
<1>2. ASSUME NEW i \in Iface, NEW s \in Addr, NEW t \in Addr,
             IgnoreSolicit(i, s, t) \/ IgnoreAdvert(i, s, t)
      PROVE  AnswersBacked'
  BY <1>2, SMTT(30) DEF IgnoreSolicit, IgnoreAdvert, AnswersBacked
<1>3. ASSUME NEW i \in Iface, NEW s \in Addr, NEW t \in Addr, AnswerLocal(i, s, t)
      PROVE  AnswersBacked'
  <2>1. is_local(t)' /\ out' = {NA(i, s, t, FALSE)}
    BY <1>3 DEF AnswerLocal, handle_local, is_local
  <2>2. NA(i, s, t, FALSE).taddr = t
    BY DEF NA
  <2> QED BY <2>1, <2>2, Zenon DEF AnswersBacked
<1>4. ASSUME NEW i \in Iface, NEW s \in Addr, NEW t \in Addr, RecvSolicit(i, s, t)
      PROVE  AnswersBacked'
  <2> DEFINE S == Reversed(i, s)
  <2>1. AllGood(S)
    BY ReversedGood
  <2> HIDE DEF S
  <2>2. sessions' = Served(S, i, s, t) /\ out' = ServeSends(S, i, s, t)
    BY <1>4 DEF RecvSolicit, S
  <2>3. ASSUME NEW m \in out', m.type = "NA"
        PROVE  Backed(m, sessions')
    <3>1. PICK p \in Proxy :
            /\ ServeCalls(S, i, s, t, p)
            /\ m \in SolicitSends(p, t, S[p][t], s, RouteIface(S, i, t, p))
      BY <2>2, <2>3 DEF ServeSends
    <3>2. p \in serves(i) /\ Ifa[p] = i
      BY <3>1 DEF ServeCalls, serves
    <3>3. Good(p, S[p][t]) /\ RouteIface(S, i, t, p) \in Iface \cup {NoIface}
      BY <2>1, RouteIfaceType DEF AllGood
    <3>4. sessions'[p][t] = handle_solicit(p, t, S[p][t], s, RouteIface(S, i, t, p))
      BY <2>2, <3>2 DEF Served
    <3>5. /\ m.ifa = Ifa[p] /\ m.taddr = t
          /\ \/ HitsStatic(p, t)
             \/ /\ Answering(sessions'[p][t])
                /\ sessions'[p][t].age <= StaleBound(p)
      <4> DEFINE se == S[p][t]
                 rif == RouteIface(S, i, t, p)
      <4>1. Good(p, se) /\ rif \in Iface \cup {NoIface} /\ m \in SolicitSends(p, t, se, s, rif)
        BY <3>1, <3>3
      <4>2. sessions'[p][t] = handle_solicit(p, t, se, s, rif)
        BY <3>4, Zenon
      <4> HIDE DEF se, rif
      <4>3. /\ m.ifa = Ifa[p] /\ m.taddr = t
            /\ \/ HitsStatic(p, t)
               \/ /\ Answering(handle_solicit(p, t, se, s, rif))
                  /\ handle_solicit(p, t, se, s, rif).age <= StaleBound(p)
        BY <2>3, <4>1, SolicitBacked, Zenon
      <4> QED BY <4>2, <4>3, Zenon
    <3> QED BY <3>2, <3>5, Zenon DEF Backed
  <2> QED BY <2>3 DEF Backed, AnswersBacked
<1>5. ASSUME NEW i \in Iface, NEW s \in Addr, NEW t \in Addr, RecvAdvert(i, s, t)
      PROVE  AnswersBacked'
  <2>1. ASSUME NEW m \in out', m.type = "NA"
        PROVE  Backed(m, sessions')
    <3>1. PICK p \in Proxy : AdvertCalls(i, t, p) /\ m \in AdvertSends(p, t, sessions[p][t])
      BY <1>5, <2>1 DEF RecvAdvert
    <3>2. sessions[p][t].pending # {} /\ m.ifa = Ifa[p] /\ m.taddr = t
      BY <3>1 DEF AdvertSends, NA
    <3>3. sessions'[p][t] = handle_advert_from(p, t, sessions[p][t], s, AutoVia(i, t, p))
      BY <1>5, <3>1, SMTT(30) DEF RecvAdvert
    <3>4. Good(p, sessions[p][t]) /\ AutoVia(i, t, p) \in BOOLEAN
      BY DEF AllGood, AutoVia
    <3>5. p \in serves(m.ifa)
      BY <3>2, Zenon DEF serves
    <3> QED BY <3>2, <3>3, <3>4, <3>5, AdvertBacked DEF Backed
  <2> QED BY <2>1 DEF Backed, AnswersBacked
<1>6. ASSUME NEW c \in Clock, UpdateAll(c)
      PROVE  AnswersBacked'
  <2>1. ASSUME NEW m \in out'
        PROVE  m.type = "NS"
    <3>1. PICK k \in Proxy \X Addr : m \in send_solicit(sessions[k[1]][k[2]], k[2])
      BY <1>6, <2>1, Zenon DEF UpdateAll
    <3>2. PICK j \in sessions[k[1]][k[2]].ifaces : m = NS(j, k[2])
      BY <3>1, ZenonT(30) DEF send_solicit
    <3> QED BY <3>2 DEF NS
  <2> QED BY <2>1, Zenon DEF AnswersBacked
<1>7. ASSUME NEW i, NEW s, NEW t, AbortSolicit(i, s, t) \/ Shutdown \/ Restart
      PROVE  AnswersBacked'
  BY <1>7, ZenonT(30) DEF AbortSolicit, Shutdown, Restart, AnswersBacked
<1>8. ASSUME UNCHANGED vars
      PROVE  AnswersBacked'
  BY <1>8, Zenon DEF vars, AnswersBacked, is_local
<1> QED
  BY <1>1, <1>2, <1>3, <1>4, <1>5, <1>6, <1>7, <1>8 DEF Next

\* Every advertisement sent is for an address of this machine, for a target of a
\* static rule, or for one that was heard of at most StaleBound ago.
THEOREM AnswersAreBacked ==
  ASSUME SteadyClock
  PROVE  Spec => []AnswersBacked
<1>1. Init => AnswersBacked
  BY DEF Init, AnswersBacked
<1>2. TypeOK /\ AllGood(sessions) /\ AnswersBacked /\ [Next]_vars => AnswersBacked'
  BY BackedStep
<1> QED BY InitInv, NextInv, <1>1, <1>2, PTL DEF Spec

-----------------------------------------------------------------------------
(***************************************************************************)
(* Parked solicitors.                                                      *)
(***************************************************************************)
\* The handlers of a solicitation keep everybody who is parked.
LEMMA SolicitKeepsPending ==
  ASSUME NEW p \in Proxy, NEW t \in Addr, NEW se, Good(p, se), NEW s \in Addr,
         NEW rif \in Iface \cup {NoIface}
  PROVE  se.pending \subseteq handle_solicit(p, t, se, s, rif).pending
<1> DEFINE found == find_or_create_session(p, t, se, rif)
           probed == touch(p, found)
<1>1. se.pending \subseteq found.pending
  BY DEF Good, Probing, Live, NoSession, find_or_create_session
<1>2. Good(p, found) /\ Live(found)
  BY FoundGood
<1>3. probed.pending = found.pending /\ probed \in Session
  BY <1>2, TouchKeeps, TouchType DEF Good
<1>4. probed.pending \subseteq add_pending(probed, s).pending
  <2> HIDE DEF probed
  <2> QED BY <1>3 DEF add_pending, Session
<1> HIDE DEF found, probed
<1>5. \/ handle_solicit(p, t, se, s, rif) = se
      \/ handle_solicit(p, t, se, s, rif) = probed
      \/ handle_solicit(p, t, se, s, rif) = add_pending(probed, s)
  BY Zenon DEF handle_solicit, probed, found
<1> QED BY <1>1, <1>3, <1>4, <1>5, Zenon

\* handle_stateless_advert parks and releases nobody.
LEMMA StatelessKeepsPending ==
  ASSUME NEW p \in Proxy, NEW s \in Addr, NEW se, Good(p, se), NEW v \in BOOLEAN
  PROVE  se.pending \subseteq handle_stateless_advert(p, s, se, v).pending
<1> DEFINE found == find_or_create_session(p, s, se, NoIface)
<1>1. se.pending \subseteq found.pending
  BY DEF Good, Probing, Live, NoSession, find_or_create_session
<1>2. found \in Session
  BY FoundGood DEF Good
<1> HIDE DEF found
<1>3. handle_auto_wire(found, s, s, v).pending = found.pending
  BY <1>2 DEF handle_auto_wire, Session
<1>4. \/ handle_stateless_advert(p, s, se, v) = se
      \/ handle_stateless_advert(p, s, se, v) = found
      \/ handle_stateless_advert(p, s, se, v) = handle_auto_wire(found, s, s, v)
  BY ZenonT(30) DEF handle_stateless_advert, found
<1> QED BY <1>1, <1>3, <1>4, SMTT(30)

\* update_all drops parked solicitors with an INVALID session only.
LEMMA UpdateKeepsPending ==
  ASSUME NEW p \in Proxy, NEW se, Good(p, se), NEW e \in Int, NEW r \in Nat,
         NEW a \in se.pending, a \notin update(p, se, e, r).pending
  PROVE  se.status = "INVALID" /\ ~Live(update(p, se, e, r))
<1> DEFINE aged == [se EXCEPT !.age = @ + r]
<1>1. se \in Session
  BY DEF Good
<1>2. aged.pending = se.pending /\ aged.status = se.status /\ aged \in Session
  BY <1>1 DEF Session
<1>3. Live(se)
  BY DEF update
<1>4. CASE Removed(p, se, e)
  <2>1. ~Answering(se) /\ se.status # "WAITING"
    BY <1>4 DEF Good, Probing, Answering, Removed
  <2>2. update(p, se, e, r) = NoSession
    BY <1>3, <1>4 DEF update
  <2> QED BY <1>1, <1>3, <2>1, <2>2, SMTT(30) DEF Live, Answering, NoSession, Session, Status
<1>5. CASE ~Removed(p, se, e) /\ ~Expires(se, e)
  <2>1. update(p, se, e, r) = [aged EXCEPT !.ttl = @ - e]
    BY <1>3, <1>5 DEF update
  <2> HIDE DEF aged
  <2>2. [aged EXCEPT !.ttl = @ - e].pending = aged.pending
    BY <1>2, Zenon DEF Session
  <2> QED BY <1>2, <2>1, <2>2
<1>6. CASE ~Removed(p, se, e) /\ Expires(se, e)
  <2>1. update(p, se, e, r) = Expired(p, aged)
    BY <1>3, <1>6 DEF update
  <2>2. Retries(p, aged) \/ aged.status = "WAITING" \/ Renews(p, aged)
    <3>1. aged.fails = se.fails /\ aged.touched = se.touched
      BY <1>1 DEF Session
    <3> HIDE DEF aged
    <3> QED BY <1>2, <1>6, <3>1 DEF Removed, Retries, Renews
  <2> HIDE DEF aged
  <2>3. Expired(p, aged).pending = aged.pending
    BY <1>2, <2>2, Zenon DEF Expired, Session
  <2> QED BY <1>2, <2>1, <2>3
<1> QED BY <1>4, <1>5, <1>6

\* A step keeps every parked solicitor, answers it or ends its session.
LEMMA ParkedStep ==
  ASSUME TypeOK, AllGood(sessions), [Next]_vars,
         NEW p \in Proxy, NEW x \in Addr,
         NEW a \in sessions[p][x].pending \ sessions'[p][x].pending
  PROVE  \/ NA(Ifa[p], a, x, Opt[p].router) \in out'
         \/ sessions[p][x].status = "INVALID" /\ ~Live(sessions'[p][x])
         \/ run' # "up"
<1> DEFINE Goal == \/ NA(Ifa[p], a, x, Opt[p].router) \in out'
                   \/ sessions[p][x].status = "INVALID" /\ ~Live(sessions'[p][x])
                   \/ run' # "up"
<1>1. /\ \A m \in Solicits : m[1] \in Iface /\ m[2] \in Addr /\ m[3] \in Addr
      /\ \A m \in Adverts : m[1] \in Iface /\ m[2] \in Addr /\ m[3] \in Addr
  BY NdppdAssumption
<1>2. Good(p, sessions[p][x])
  BY DEF AllGood
<1>3. sessions' # sessions
  OBVIOUS
<1>4. ASSUME NEW i \in Iface, NEW s \in Addr, NEW t \in Addr, RecvSolicit(i, s, t)
      PROVE  Goal
  <2> DEFINE S == Reversed(i, s)
  <2>1. AllGood(S)
    BY ReversedGood
  <2>2. sessions[p][x].pending \subseteq S[p][x].pending
    BY <1>2, StatelessKeepsPending, Zenon DEF Reversed
  <2> HIDE DEF S
  <2>3. sessions' = Served(S, i, s, t)
    BY <1>4, Zenon DEF RecvSolicit, S
  <2>4. S[p][x].pending \subseteq sessions'[p][x].pending
    <3>1. Good(p, S[p][x]) /\ RouteIface(S, i, t, p) \in Iface \cup {NoIface}
      BY <2>1, RouteIfaceType, Zenon DEF AllGood
    <3> QED BY <2>3, <3>1, SolicitKeepsPending, Zenon DEF Served
  <2> QED BY <2>2, <2>4
<1>5. ASSUME NEW i \in Iface, NEW s \in Addr, NEW t \in Addr, RecvAdvert(i, s, t)
      PROVE  Goal
  <2>1. x = t /\ AdvertCalls(i, t, p)
    BY <1>5, Zenon DEF RecvAdvert
  <2>2. NA(Ifa[p], a, x, Opt[p].router) \in AdvertSends(p, t, sessions[p][t])
    BY <2>1, Zenon DEF AdvertSends
  <2> QED BY <1>5, <2>1, <2>2, SMTT(30) DEF RecvAdvert
<1>6. ASSUME NEW c \in Clock, UpdateAll(c)
      PROVE  Goal
  <2>1. sessions'[p][x] = update(p, sessions[p][x], c[1], c[2])
    BY <1>6, Zenon DEF UpdateAll
  <2>2. c[1] \in Int /\ c[2] \in Nat
    BY NdppdAssumption, SMTT(30)
  <2> QED BY <1>2, <2>1, <2>2, UpdateKeepsPending, ZenonT(30)
<1>7. ASSUME NEW i, NEW s, NEW t, AbortSolicit(i, s, t) \/ Shutdown
      PROVE  Goal
  BY <1>7, ZenonT(30) DEF AbortSolicit, Shutdown
<1>8. ASSUME NEW i, NEW s, NEW t,
             \/ IgnoreSolicit(i, s, t) \/ IgnoreAdvert(i, s, t)
             \/ AnswerLocal(i, s, t) \/ Restart
      PROVE  Goal
  BY <1>3, <1>8, ZenonT(30) DEF IgnoreSolicit, IgnoreAdvert, AnswerLocal, Restart
<1>9. ASSUME UNCHANGED vars
      PROVE  Goal
  BY <1>3, <1>9, ZenonT(30) DEF vars
<1> HIDE DEF Goal
<1>10. Goal
  BY <1>1, <1>4, <1>5, <1>6, <1>7, <1>8, <1>9, Zenon DEF Next
<1> QED BY <1>10 DEF Goal

\* A parked solicitor leaves the session with an advertisement, or with a session
\* whose target was found unreachable, or with the daemon.
THEOREM ParkedAnswered == Spec => ParkedAreAnswered
<1>1. TypeOK /\ AllGood(sessions) /\ [Next]_vars =>
        [\A p \in Proxy, t \in Addr :
           \A a \in sessions[p][t].pending \ sessions'[p][t].pending :
             \/ NA(Ifa[p], a, t, Opt[p].router) \in out'
             \/ sessions[p][t].status = "INVALID" /\ ~Live(sessions'[p][t])
             \/ run' # "up"]_vars
  BY ParkedStep, Zenon
<1> QED BY InitInv, NextInv, <1>1, PTL DEF Spec, ParkedAreAnswered


-----------------------------------------------------------------------------
(***************************************************************************)
(* The daemon implements the neighbour cache: its initial state maps to an *)
(* initial state of NeighborCache and each of its steps to a step of       *)
(* NeighborCache or to no step.  First one session and its entry.          *)
(***************************************************************************)
\* What the entry of a session tells.
LEMMA EntryTells ==
  ASSUME NEW se \in Session
  PROVE  /\ Entry(se.status) \in {"none", "probing", "reachable", "unreachable"}
         /\ Entry(se.status) = "none" <=> ~Live(se)
         /\ Entry(se.status) = "reachable" <=> Answering(se)
         /\ Entry(se.status) \in {"probing", "unreachable"} <=> Unresolved(se)
  BY Zenon DEF Entry, Session, Status, Live, Answering, Unresolved

\* Nobody waits for an entry that is not there.
LEMMA NoneWaits ==
  ASSUME NEW p \in Proxy, NEW se, Good(p, se), ~Live(se)
  PROVE  se = NoSession /\ se.pending = {}
  BY DEF Good, Probing, Live, NoSession

\* Proxy p keeps an entry for t and has none.
Begins(p, t, se) == ~Live(se) /\ HasRule(p, t) /\ ~HitsStatic(p, t)

\* find_or_create_session begins an entry, or finds one.
LEMMA FoundEntry ==
  ASSUME NEW p \in Proxy, NEW t \in Addr, NEW se, Good(p, se), NEW rif
  PROVE  LET found == find_or_create_session(p, t, se, rif)
         IN  /\ Begins(p, t, se) => found.status = "WAITING" /\ found.pending = {}
             /\ Live(se) => found = se
  BY DEF find_or_create_session, create, NoSession, Begins, Live

\* The entry after handle_stateless_advert.
LEMMA StatelessEntry ==
  ASSUME NEW p \in Proxy, NEW s \in Addr, NEW se, Good(p, se)
  PROVE  LET new == handle_stateless_advert(p, s, se, FALSE)
         IN  /\ new.status = IF Begins(p, s, se) THEN "WAITING" ELSE se.status
             /\ new.pending = se.pending
<1> DEFINE found == find_or_create_session(p, s, se, NoIface)
           new == handle_stateless_advert(p, s, se, FALSE)
<1>1. CASE ~StoresSession(p, s, se)
  BY <1>1 DEF handle_stateless_advert, StoresSession, Begins
<1>2. CASE StoresSession(p, s, se)
  <2>1. Good(p, found)
    BY FoundGood, SessionAssumption, Zenon
  <2>2. /\ found.status = IF Begins(p, s, se) THEN "WAITING" ELSE se.status
        /\ found.pending = se.pending
    BY <1>2, FoundEntry, NoneWaits, SMTT(30) DEF StoresSession, Begins
  <2>3. new = found \/ new = handle_auto_wire(found, s, s, FALSE)
    BY <1>2, Zenon DEF handle_stateless_advert
  <2> HIDE DEF found, new
  <2>4. /\ handle_auto_wire(found, s, s, FALSE).status = found.status
        /\ handle_auto_wire(found, s, s, FALSE).pending = found.pending
    BY <2>1 DEF handle_auto_wire, Good, Session
  <2>5. new.status = found.status /\ new.pending = found.pending
    BY <2>3, <2>4, Zenon
  <2> QED BY <2>2, <2>5, Zenon DEF new
<1> QED BY <1>1, <1>2, Zenon

\* What a solicitation of t from s makes of its entry.
AskedFor(p, t, s, old, new) ==
  /\ new.status = IF Begins(p, t, old) THEN "WAITING" ELSE old.status
  /\ new.pending = IF s # t /\ (Unresolved(old) \/ Begins(p, t, old))
                   THEN old.pending \cup {s} ELSE old.pending

\* The entry after handle_solicit.
LEMMA SolicitEntry ==
  ASSUME NEW p \in Proxy, NEW t \in Addr, NEW s \in Addr, NEW se, Good(p, se),
         NEW rif \in Iface \cup {NoIface}
  PROVE  AskedFor(p, t, s, se, handle_solicit(p, t, se, s, rif))
<1> DEFINE found == find_or_create_session(p, t, se, rif)
           probed == touch(p, found)
           new == handle_solicit(p, t, se, s, rif)
<1>1. CASE ~StoresSession(p, t, se)
  <2>1. new = se
    BY <1>1, Zenon DEF handle_solicit, StoresSession
  <2>2. ~Begins(p, t, se) /\ ~Unresolved(se)
    BY <1>1 DEF StoresSession, Begins, Unresolved, Live
  <2> QED BY <2>1, <2>2, Zenon DEF AskedFor
<1>2. CASE StoresSession(p, t, se)
  <2>1. Good(p, found)
    BY FoundGood, Zenon
  <2>2. /\ found.status = IF Begins(p, t, se) THEN "WAITING" ELSE se.status
        /\ found.pending = se.pending
    <3>1. CASE Live(se)
      BY <3>1, FoundEntry, SMTT(30) DEF Begins
    <3>2. CASE ~Live(se)
      <4>1. Begins(p, t, se) /\ se.pending = {}
        BY <1>2, <3>2, NoneWaits DEF StoresSession, Begins
      <4> QED BY <4>1, FoundEntry, SMTT(30)
    <3> QED BY <3>1, <3>2, Zenon
  <2>3. new = IF s # t /\ Unresolved(probed) THEN add_pending(probed, s) ELSE probed
    BY <1>2, SMTT(30) DEF handle_solicit
  <2> HIDE DEF found, new
  <2>4. probed.status = found.status /\ probed.pending = found.pending /\ probed \in Session
    BY <2>1, TouchType, Zenon DEF touch, Good, Session
  <2> HIDE DEF probed
  <2>5. add_pending(probed, s).status = probed.status
        /\ add_pending(probed, s).pending = probed.pending \cup {s}
    BY <2>4 DEF add_pending, Session
  <2>6. new.status = found.status
    BY <2>3, <2>4, <2>5
  <2>7. new.pending = IF s # t /\ Unresolved(found) THEN found.pending \cup {s}
                      ELSE found.pending
    BY <2>3, <2>4, <2>5, Zenon DEF Unresolved
  <2>8. Unresolved(found) <=> Unresolved(se) \/ Begins(p, t, se)
    BY <2>2, Zenon DEF Unresolved, Begins, Live
  <2>9. AskedFor(p, t, s, se, new)
    BY <2>2, <2>6, <2>7, <2>8, Zenon DEF AskedFor
  <2> QED BY <2>9, ZenonT(30) DEF new
<1> QED BY <1>1, <1>2, Zenon

\* The advertisement that handle_solicit sends.
LEMMA SolicitReply ==
  ASSUME NEW p \in Proxy, NEW t \in Addr, NEW s \in Addr, NEW se, Good(p, se), NEW rif
  PROVE  {m \in SolicitSends(p, t, se, s, rif) : m.type = "NA"} =
           IF s # t /\ (Answering(se) \/ (~Live(se) /\ HitsStatic(p, t)))
           THEN {NA(Ifa[p], s, t, Opt[p].router)} ELSE {}
<1> DEFINE found == find_or_create_session(p, t, se, rif)
           probes == IF StoresSession(p, t, se) /\ TouchProbes(found)
                     THEN send_solicit(found, t) ELSE {}
           replies == StaticAnswers(p, t, se)
                      \/ (StoresSession(p, t, se) /\ Answering(found))
<1>1. \A m \in probes : m.type # "NA"
  BY DEF send_solicit, NS
<1>2. NA(Ifa[p], s, t, Opt[p].router).type = "NA"
  BY Zenon DEF NA
<1>3. replies <=> Answering(se) \/ (~Live(se) /\ HitsStatic(p, t))
  BY FoundEntry, ZenonT(30) DEF StaticAnswers, StoresSession, Answering, Live, Begins
<1>4. SolicitSends(p, t, se, s, rif) =
        probes \cup (IF s # t /\ replies THEN {NA(Ifa[p], s, t, Opt[p].router)} ELSE {})
  BY SMTT(30) DEF SolicitSends
<1> HIDE DEF probes, replies
<1> QED BY <1>1, <1>2, <1>3, <1>4, Zenon

\* The entry after handle_advert.
LEMMA AdvertEntry ==
  ASSUME NEW p \in Proxy, NEW t \in Addr, NEW s \in Addr, NEW se, Good(p, se), Live(se), NEW v
  PROVE  /\ handle_advert_from(p, t, se, s, v).status = "VALID"
         /\ handle_advert_from(p, t, se, s, v).pending = {}
<1> DEFINE wired == IF AdvertWires(p, se, s) THEN handle_auto_wire(se, t, s, v) ELSE se
<1>1. handle_advert_from(p, t, se, s, v) = handle_advert(p, wired)
  BY Zenon DEF handle_advert_from
<1>2. "status" \in DOMAIN wired /\ "pending" \in DOMAIN wired
  BY DEF handle_auto_wire, Good, Session
<1> HIDE DEF wired
<1>3. handle_advert(p, wired).status = "VALID" /\ handle_advert(p, wired).pending = {}
  BY <1>2, SMTT(30) DEF handle_advert
<1> QED BY <1>1, <1>3, Zenon

\* The entry after update_all.
LEMMA UpdateEntry ==
  ASSUME NEW p \in Proxy, NEW se, Good(p, se), NEW e \in Int, NEW r \in Nat
  PROVE  /\ Entry(update(p, se, e, r).status) \in Cache!Ages(Entry(se.status))
         /\ update(p, se, e, r).pending =
              IF Entry(update(p, se, e, r).status) = "none" THEN {} ELSE se.pending
<1> DEFINE new == update(p, se, e, r)
           aged == [se EXCEPT !.age = @ + r]
<1>1. se \in Session
  BY DEF Good
<1>2. aged.status = se.status /\ aged.pending = se.pending /\ aged.touched = se.touched
      /\ aged.fails = se.fails /\ DOMAIN aged = DOMAIN se
  BY <1>1 DEF Session
<1>3. CASE ~Live(se)
  <2>1. new = se
    BY <1>3 DEF update
  <2>2. se.status = "NONE" /\ se.pending = {}
    BY <1>3, NoneWaits DEF Live
  <2> QED BY <2>1, <2>2 DEF Entry, Cache!Ages
<1>4. CASE Live(se) /\ Removed(p, se, e)
  <2>1. new = NoSession
    BY <1>4 DEF update
  <2>2. se.status \in {"VALID", "RENEWING", "INVALID"}
    BY <1>1, <1>4 DEF Removed, Live, Session, Status
  <2>3. NoSession.status = "NONE" /\ NoSession.pending = {}
    BY SMTT(30) DEF NoSession
  <2> QED BY <2>1, <2>2, <2>3 DEF Entry, Cache!Ages
<1>5. CASE Live(se) /\ ~Removed(p, se, e) /\ Expires(se, e)
  <2>1. new = Expired(p, aged)
    BY <1>5 DEF update
  <2>2. /\ Retries(p, aged) <=> Retries(p, se)
        /\ Renews(p, aged) <=> Renews(p, se)
    BY <1>2 DEF Retries, Renews
  <2>3. Retries(p, aged) \/ Renews(p, aged) \/ aged.status = "WAITING"
    BY <1>2, <1>5, <2>2, Zenon DEF Removed
  <2> HIDE DEF aged, new
  <2>4. /\ new.pending = aged.pending
        /\ \/ new.status = aged.status /\ aged.status \in {"WAITING", "RENEWING"}
           \/ new.status = "INVALID" /\ aged.status = "WAITING"
           \/ new.status = "RENEWING" /\ aged.status = "VALID"
    <3>1. "status" \in DOMAIN aged /\ "pending" \in DOMAIN aged
      BY <1>1, <1>2 DEF Session
    <3>2. /\ Retries(p, aged) => aged.status \in {"WAITING", "RENEWING"}
          /\ Renews(p, aged) => aged.status = "VALID"
      BY DEF Retries, Renews
    <3>3. CASE Retries(p, aged)
      BY <2>1, <3>1, <3>2, <3>3 DEF Expired
    <3>4. CASE ~Retries(p, aged) /\ aged.status = "WAITING"
      BY <2>1, <3>1, <3>2, <3>4 DEF Expired
    <3>5. CASE ~Retries(p, aged) /\ Renews(p, aged)
      BY <2>1, <3>1, <3>2, <3>5, Zenon DEF Expired
    <3> QED BY <2>3, <3>3, <3>4, <3>5, Zenon
  <2>5. Entry(new.status) # "none" /\ Entry(new.status) \in Cache!Ages(Entry(se.status))
    BY <1>2, <2>4, Zenon DEF Entry, Cache!Ages
  <2> QED BY <1>2, <2>4, <2>5 DEF new
<1>6. CASE Live(se) /\ ~Expires(se, e)
  <2>1. new = [aged EXCEPT !.ttl = @ - e]
    BY <1>6 DEF update, Removed
  <2> HIDE DEF aged, new
  <2>2. new.status = se.status /\ new.pending = se.pending
    BY <1>1, <1>2, <2>1 DEF Session
  <2>3. Entry(se.status) # "none" /\ Entry(se.status) \in Cache!Ages(Entry(se.status))
    BY <1>1, <1>6, EntryTells, Zenon DEF Cache!Ages
  <2> QED BY <2>2, <2>3 DEF new
<1> QED BY <1>3, <1>4, <1>5, <1>6, Zenon DEF Removed

-----------------------------------------------------------------------------
(***************************************************************************)
(* The steps.  Good(p, se) of all sessions is the inductive invariant of   *)
(* NdppdProofs.                                                            *)
(***************************************************************************)
\* The entry of a session, and who waits for it, before a step and after it.
LEMMA Mapped ==
  ASSUME NEW p \in Proxy, NEW t \in Addr
  PROVE  /\ entries[p][t] = Entry(sessions[p][t].status)
         /\ entries'[p][t] = Entry(sessions'[p][t].status)
         /\ parked[p][t] = sessions[p][t].pending
         /\ parked'[p][t] = sessions'[p][t].pending
  BY DEF entries, parked

LEMMA MappedFunctions ==
  /\ entries' = [p \in Proxy |-> [t \in Addr |-> entries'[p][t]]]
  /\ parked' = [p \in Proxy |-> [t \in Addr |-> parked'[p][t]]]
  BY DEF entries, parked

LEMMA AllGoodEntries ==
  ASSUME AllGood(sessions), NEW p \in Proxy, NEW t \in Addr
  PROVE  Good(p, sessions[p][t]) /\ sessions[p][t] \in Session
  BY DEF AllGood, Good

\* Time passes for every entry.
LEMMA PassFromEntries ==
  ASSUME \A p \in Proxy, t \in Addr :
           /\ entries'[p][t] \in {"none", "probing", "reachable", "unreachable"}
           /\ entries'[p][t] \in Cache!Ages(entries[p][t])
           /\ parked'[p][t] = IF entries'[p][t] = "none" THEN {} ELSE parked[p][t],
         \A m \in out' : m.type # "NA"
  PROVE  Cache!Pass
<1>1. answers' = {}
  BY DEF answers
<1>2. entries' \in [Proxy -> [Addr -> {"none", "probing", "reachable", "unreachable"}]]
  BY Zenon DEF entries
<1>3. parked' = [p \in Proxy |-> [t \in Addr |->
                   IF entries'[p][t] = "none" THEN {} ELSE parked[p][t]]]
  BY DEF parked
<1> QED BY <1>1, <1>2, <1>3, Zenon DEF Cache!Pass

\* A step that changes no session and sends no advertisement.
LEMMA QuietStep ==
  ASSUME TypeOK, AllGood(sessions), sessions' = sessions,
         \A m \in out' : m.type # "NA"
  PROVE  Cache!Pass
<1>1. ASSUME NEW p \in Proxy, NEW t \in Addr
      PROVE  /\ entries'[p][t] \in {"none", "probing", "reachable", "unreachable"}
             /\ entries'[p][t] \in Cache!Ages(entries[p][t])
             /\ parked'[p][t] = IF entries'[p][t] = "none" THEN {} ELSE parked[p][t]
  <2>1. Good(p, sessions[p][t]) /\ sessions[p][t] \in Session
    BY AllGoodEntries
  <2>2. entries'[p][t] = entries[p][t] /\ parked'[p][t] = parked[p][t]
    BY Mapped, Zenon
  <2>3. /\ entries[p][t] \in {"none", "probing", "reachable", "unreachable"}
        /\ entries[p][t] = "none" => parked[p][t] = {}
    BY <2>1, Mapped, EntryTells, NoneWaits
  <2>4. entries[p][t] \in Cache!Ages(entries[p][t])
    BY <2>3, Zenon DEF Cache!Ages
  <2> QED BY <2>2, <2>3, <2>4, Zenon
<1> QED BY <1>1, PassFromEntries

\* UpdateAll lets time pass.
LEMMA UpdateStep ==
  ASSUME TypeOK, AllGood(sessions), NEW c \in Clock, UpdateAll(c)
  PROVE  Cache!Pass
<1>1. c[1] \in Int /\ c[2] \in Nat
  BY NdppdAssumption, ZenonT(30)
<1>2. ASSUME NEW p \in Proxy, NEW t \in Addr
      PROVE  /\ entries'[p][t] \in {"none", "probing", "reachable", "unreachable"}
             /\ entries'[p][t] \in Cache!Ages(entries[p][t])
             /\ parked'[p][t] = IF entries'[p][t] = "none" THEN {} ELSE parked[p][t]
  <2>1. sessions'[p][t] = update(p, sessions[p][t], c[1], c[2])
    BY Zenon DEF UpdateAll
  <2>2. Good(p, sessions[p][t])
    BY AllGoodEntries
  <2>3. sessions'[p][t] \in Session
    BY <1>1, <2>1, <2>2, UpdateGood, Zenon DEF Good
  <2>4. /\ Entry(sessions'[p][t].status) \in Cache!Ages(Entry(sessions[p][t].status))
        /\ sessions'[p][t].pending =
             IF Entry(sessions'[p][t].status) = "none" THEN {} ELSE sessions[p][t].pending
    <3> DEFINE se == sessions[p][t]
               e == c[1]
               r == c[2]
    <3> HIDE DEF se, e, r
    <3>1. sessions'[p][t] = update(p, se, e, r) /\ Good(p, se) /\ e \in Int /\ r \in Nat
      BY <1>1, <2>1, <2>2, Zenon DEF se, e, r
    <3>2. /\ Entry(update(p, se, e, r).status) \in Cache!Ages(Entry(se.status))
          /\ update(p, se, e, r).pending =
               IF Entry(update(p, se, e, r).status) = "none" THEN {} ELSE se.pending
      BY <3>1, UpdateEntry, Zenon
    <3> QED BY <3>1, <3>2, Zenon DEF se
  <2>5. Entry(sessions'[p][t].status) \in {"none", "probing", "reachable", "unreachable"}
    BY <2>3, EntryTells, Zenon
  <2> QED BY <2>4, <2>5, Mapped, Zenon
<1>3. \A m \in out' : m.type # "NA"
  <2> SUFFICES ASSUME NEW m \in out' PROVE m.type # "NA"
    OBVIOUS
  <2>1. PICK k \in Proxy \X Addr : m \in send_solicit(sessions[k[1]][k[2]], k[2])
    BY Zenon DEF UpdateAll
  <2>2. PICK j \in sessions[k[1]][k[2]].ifaces : m = NS(j, k[2])
    BY <2>1, Zenon DEF send_solicit
  <2> QED BY <2>2 DEF NS
<1> QED BY <1>2, <1>3, PassFromEntries

\* RecvAdvert is heard by the proxies that have a session for its target.
LEMMA AdvertStep ==
  ASSUME TypeOK, AllGood(sessions), NEW i \in Iface, NEW s \in Addr, NEW t \in Addr,
         RecvAdvert(i, s, t)
  PROVE  Cache!Hear(t)
<1> DEFINE heard == {p \in Proxy : AdvertCalls(i, t, p) /\ Live(sessions[p][t])}
<1>1. \A p \in Proxy, x \in Addr : Good(p, sessions[p][x]) /\ sessions[p][x] \in Session
  BY AllGoodEntries, SMTT(30)
<1>2. heard \in SUBSET {p \in Proxy : entries[p][t] # "none"}
  <2> SUFFICES ASSUME NEW p \in Proxy, Live(sessions[p][t]) PROVE entries[p][t] # "none"
    BY Zenon
  <2> DEFINE se == sessions[p][t]
  <2>1. se \in Session /\ Live(se)
    BY <1>1, Zenon
  <2>2. entries[p][t] = Entry(se.status)
    BY Mapped, Zenon
  <2> HIDE DEF heard, se
  <2>3. Entry(se.status) # "none"
    BY <2>1, EntryTells, Zenon
  <2> QED BY <2>2, <2>3, Zenon
<1>3. ASSUME NEW p \in Proxy, NEW x \in Addr
      PROVE  /\ entries'[p][x] = IF x = t /\ p \in heard THEN "reachable" ELSE entries[p][x]
             /\ parked'[p][x] = IF x = t /\ p \in heard THEN {} ELSE parked[p][x]
  <2>0. /\ entries[p][x] = Entry(sessions[p][x].status)
        /\ entries'[p][x] = Entry(sessions'[p][x].status)
        /\ parked[p][x] = sessions[p][x].pending
        /\ parked'[p][x] = sessions'[p][x].pending
    BY Mapped, Zenon
  <2>1. CASE x = t /\ AdvertCalls(i, t, p)
    <3>1. sessions'[p][x] = handle_advert_from(p, t, sessions[p][t], s, AutoVia(i, t, p))
      BY <2>1 DEF RecvAdvert
    <3>2. Entry("VALID") = "reachable"
      BY Zenon DEF Entry
    <3> DEFINE se == sessions[p][t]
               v == AutoVia(i, t, p)
    <3>3. Good(p, se) /\ sessions'[p][x] = handle_advert_from(p, t, se, s, v)
      BY <1>1, <3>1, ZenonT(30)
    <3>4. p \in heard <=> Live(se)
      BY <2>1, Zenon
    <3>5. CASE Live(se)
      <4> HIDE DEF heard, se, v
      <4>1. /\ handle_advert_from(p, t, se, s, v).status = "VALID"
            /\ handle_advert_from(p, t, se, s, v).pending = {}
        BY <3>3, <3>5, AdvertEntry, Zenon
      <4>2. entries'[p][x] = "reachable" /\ parked'[p][x] = {}
        BY <2>0, <3>2, <3>3, <4>1, Zenon
      <4> QED BY <2>1, <3>4, <3>5, <4>2, Zenon
    <3>6. CASE ~Live(se)
      <4>1. sessions'[p][x] = sessions[p][x]
        <5> HIDE DEF heard, se, v
        <5>1. handle_advert_from(p, t, se, s, v) = se
          BY <3>6, ZenonT(30) DEF handle_advert_from
        <5>2. sessions'[p][x] = se
          BY <3>3, <5>1, Zenon
        <5> QED BY <2>1, <5>2, Zenon DEF se
      <4>2. entries'[p][x] = entries[p][x] /\ parked'[p][x] = parked[p][x]
        BY <2>0, <4>1, Zenon
      <4> HIDE DEF heard, se, v
      <4> QED BY <3>4, <3>6, <4>2, Zenon
    <3> QED BY <3>5, <3>6, Zenon
  <2>2. CASE ~(x = t /\ AdvertCalls(i, t, p))
    <3>1. sessions'[p][x] = sessions[p][x]
      BY <2>2, Zenon DEF RecvAdvert
    <3>2. ~(x = t /\ p \in heard)
      BY <2>2, Zenon
    <3> HIDE DEF heard
    <3> QED BY <2>0, <3>1, <3>2, Zenon
  <2> QED BY <2>1, <2>2, Zenon
<1>4. entries' = [p \in Proxy |-> [x \in Addr |->
                    IF x = t /\ p \in heard THEN "reachable" ELSE entries[p][x]]]
  BY <1>3, MappedFunctions
<1>5. parked' = [p \in Proxy |-> [x \in Addr |->
                   IF x = t /\ p \in heard THEN {} ELSE parked[p][x]]]
  BY <1>3, MappedFunctions
<1>6. answers' = UNION {{Cache!Reply(Ifa[p], d, t, router[p]) : d \in parked[p][t]} :
                          p \in heard}
  <2>1. \A p \in Proxy : \A d : /\ NA(Ifa[p], d, t, Opt[p].router).type = "NA"
                                /\ NA(Ifa[p], d, t, Opt[p].router) =
                                   Cache!Reply(Ifa[p], d, t, router[p])
    BY DEF NA, Cache!Reply, router
  <2>2. \A p \in Proxy : ~Live(sessions[p][t]) => sessions[p][t].pending = {}
    BY <1>1, NoneWaits, SMTT(30)
  <2>3. \A m : m \in out' <=>
          \E p \in Proxy : AdvertCalls(i, t, p) /\
            \E d \in sessions[p][t].pending : m = NA(Ifa[p], d, t, Opt[p].router)
    BY DEF RecvAdvert, AdvertSends
  <2>4. \A p \in Proxy : parked[p][t] = sessions[p][t].pending
    BY Mapped, ZenonT(30)
  <2>5. \A m : m \in answers' <=>
          \E p \in heard : \E d \in parked[p][t] : m = Cache!Reply(Ifa[p], d, t, router[p])
    <3>1. \A m : m \in answers' <=> m \in out' /\ m.type = "NA"
      BY Zenon DEF answers
    <3>2. \A p \in Proxy : p \in heard <=> AdvertCalls(i, t, p) /\ Live(sessions[p][t])
      BY Zenon
    <3>3. heard \subseteq Proxy
      BY Zenon
    <3> HIDE DEF heard
    <3>4. ASSUME NEW m \in answers'
          PROVE  \E p \in heard : \E d \in parked[p][t] : m = Cache!Reply(Ifa[p], d, t, router[p])
      <4>1. PICK p \in Proxy : AdvertCalls(i, t, p) /\
              \E d \in sessions[p][t].pending : m = NA(Ifa[p], d, t, Opt[p].router)
        BY <2>3, <3>1, <3>4, Zenon
      <4>2. PICK d \in sessions[p][t].pending : m = NA(Ifa[p], d, t, Opt[p].router)
        BY <4>1, Zenon
      <4>3. p \in heard
        BY <2>2, <3>2, <4>1, <4>2, Zenon
      <4>4. d \in parked[p][t] /\ m = Cache!Reply(Ifa[p], d, t, router[p])
        BY <2>1, <2>4, <4>2, Zenon
      <4> QED BY <4>3, <4>4, Zenon
    <3>5. ASSUME NEW p \in heard, NEW d \in parked[p][t]
          PROVE  Cache!Reply(Ifa[p], d, t, router[p]) \in answers'
      <4>1. p \in Proxy /\ AdvertCalls(i, t, p) /\ d \in sessions[p][t].pending
        BY <2>4, <3>2, <3>3, Zenon
      <4>2. /\ NA(Ifa[p], d, t, Opt[p].router) = Cache!Reply(Ifa[p], d, t, router[p])
            /\ NA(Ifa[p], d, t, Opt[p].router).type = "NA"
        BY <2>1, <4>1, Zenon
      <4>3. NA(Ifa[p], d, t, Opt[p].router) \in out'
        BY <2>3, <4>1, Zenon
      <4> QED BY <3>1, <4>2, <4>3, Zenon
    <3> QED BY <3>4, <3>5, Zenon
  <2> QED BY <2>5
<1> HIDE DEF heard
<1> QED BY <1>2, <1>4, <1>5, <1>6, Zenon DEF Cache!Hear

\* A solicitation for t from s on i begins an entry for x: its target is asked for,
\* or its source is learned ...
BeginsNow(i, s, t, p, x) ==
  /\ (x = t /\ Ifa[p] = i) \/ (x = s /\ ReverseCalls(i, s, p))
  /\ Begins(p, x, sessions[p][x])

\* ... or s has to wait for it.
Waits(i, s, t, p, x) ==
  /\ x = t /\ Ifa[p] = i /\ s # t
  /\ Unresolved(sessions[p][x]) \/ Begins(p, x, sessions[p][x])

\* What the solicitation makes of the entry for x.
Asked(i, s, t, p, x) ==
  /\ sessions'[p][x].status =
       IF BeginsNow(i, s, t, p, x) THEN "WAITING" ELSE sessions[p][x].status
  /\ sessions'[p][x].pending =
       IF Waits(i, s, t, p, x) THEN sessions[p][x].pending \cup {s}
       ELSE sessions[p][x].pending

\* The sessions after the reverse advertisement and then handle_solicit.
LEMMA AskedEntries ==
  ASSUME TypeOK, AllGood(sessions), NEW i \in Iface, NEW s \in Addr, NEW t \in Addr,
         RecvSolicit(i, s, t), NEW p \in Proxy, NEW x \in Addr
  PROVE  Asked(i, s, t, p, x)
<1> DEFINE S == Reversed(i, s)
           se == sessions[p][x]
           learned == x = s /\ ReverseCalls(i, s, p)
           asked == x = t /\ Ifa[p] = i
<1>1. Good(p, se) /\ Good(p, S[p][x])
  BY ReversedGood, Zenon DEF AllGood
<1>2. /\ S[p][x].status = IF learned /\ Begins(p, x, se) THEN "WAITING" ELSE se.status
      /\ S[p][x].pending = se.pending
      /\ ~learned => S[p][x] = se
  <2>1. CASE learned
    <3>1. S[p][x] = handle_stateless_advert(p, s, sessions[p][s], FALSE)
      BY <2>1, SMTT(30) DEF Reversed
    <3>2. x = s /\ Good(p, sessions[p][s])
      BY <1>1, <2>1
    <3>3. /\ S[p][x].status =
               IF Begins(p, s, sessions[p][s]) THEN "WAITING" ELSE sessions[p][s].status
          /\ S[p][x].pending = sessions[p][s].pending
      <4> DEFINE old == sessions[p][s]
                 new == handle_stateless_advert(p, s, old, FALSE)
      <4> HIDE DEF old
      <4>1. /\ new.status = IF Begins(p, s, old) THEN "WAITING" ELSE old.status
            /\ new.pending = old.pending
        BY <3>2, StatelessEntry, ZenonT(30) DEF old
      <4> QED BY <3>1, <4>1, Zenon DEF old
    <3> HIDE DEF S, learned
    <3> QED BY <2>1, <3>2, <3>3, Zenon
  <2>2. CASE ~learned
    <3>1. S[p][x] = se
      BY <2>2, Zenon DEF Reversed
    <3> QED BY <2>2, <3>1, Zenon
  <2> QED BY <2>1, <2>2, Zenon
<1>3. sessions' = Served(S, i, s, t)
  BY DEF RecvSolicit
<1>4. p \in serves(i) <=> Ifa[p] = i
  BY DEF serves
<1>5. RouteIface(S, i, t, p) \in Iface \cup {NoIface}
  BY RouteIfaceType, Zenon
<1> HIDE DEF S, se, learned, asked
<1>6. CASE asked
  <2>1. sessions'[p][x] = handle_solicit(p, t, S[p][t], s, RouteIface(S, i, t, p)) /\ x = t
    BY <1>3, <1>4, <1>6, ZenonT(30) DEF Served, asked
  <2>2. /\ sessions'[p][x].status =
             IF Begins(p, t, S[p][t]) THEN "WAITING" ELSE S[p][t].status
        /\ sessions'[p][x].pending =
             IF s # t /\ (Unresolved(S[p][t]) \/ Begins(p, t, S[p][t]))
             THEN S[p][t].pending \cup {s} ELSE S[p][t].pending
    <3> DEFINE cur == S[p][t]
               rif == RouteIface(S, i, t, p)
               new == handle_solicit(p, t, cur, s, rif)
    <3>1. Good(p, cur) /\ rif \in Iface \cup {NoIface} /\ sessions'[p][x] = new
      BY <1>1, <1>5, <2>1, Zenon
    <3> HIDE DEF cur, rif
    <3>2. AskedFor(p, t, s, cur, new)
      BY <3>1, SolicitEntry, Zenon
    <3> HIDE DEF new
    <3>3. AskedFor(p, t, s, cur, sessions'[p][x])
      BY <3>1, <3>2, Zenon
    <3> QED BY <3>3, Zenon DEF AskedFor, cur
  <2>3. s # t => S[p][t] = se
    BY <1>2, <2>1, Zenon DEF learned
  <2>4. /\ Begins(p, t, S[p][t]) \/ (learned /\ Begins(p, t, se)) <=> Begins(p, t, se)
        /\ Begins(p, t, S[p][t]) => S[p][t].status = se.status
    BY <1>2, <2>1, Zenon DEF Begins, Live
  <2>5. sessions'[p][x].status = IF Begins(p, x, se) THEN "WAITING" ELSE se.status
    BY <1>2, <2>1, <2>2, <2>4, Zenon
  <2>6. sessions'[p][x].pending =
          IF s # t /\ (Unresolved(se) \/ Begins(p, x, se)) THEN se.pending \cup {s}
          ELSE se.pending
    BY <1>2, <2>1, <2>2, <2>3, Zenon
  <2> QED BY <1>6, <2>5, <2>6, Zenon DEF se, asked, Asked, BeginsNow, Waits
<1>7. CASE ~asked
  <2>1. sessions'[p][x] = S[p][x]
    BY <1>3, <1>4, <1>7, Zenon DEF Served, asked
  <2> QED BY <1>2, <1>7, <2>1, Zenon DEF se, asked, learned, Asked, BeginsNow, Waits
<1> QED BY <1>6, <1>7

\* The advertisements sent for a solicitation, by the proxies that are called.
LEMMA AskedAnswers ==
  ASSUME TypeOK, AllGood(sessions), NEW i \in Iface, NEW s \in Addr, NEW t \in Addr,
         NEW m
  PROVE  m \in ServeSends(Reversed(i, s), i, s, t) /\ m.type = "NA" <=>
           \E p \in Proxy : /\ ServeCalls(Reversed(i, s), i, s, t, p)
                            /\ s # t /\ Cache!Knows(p, t)
                            /\ m = Cache!Reply(i, s, t, router[p])
<1> DEFINE S == Reversed(i, s)
<1>1. AllGood(S)
  BY ReversedGood, Zenon
<1>2. ASSUME NEW p \in Proxy, ServeCalls(S, i, s, t, p)
      PROVE  m \in SolicitSends(p, t, S[p][t], s, RouteIface(S, i, t, p)) /\ m.type = "NA"
               <=> s # t /\ Cache!Knows(p, t) /\ m = Cache!Reply(i, s, t, router[p])
  <2>1. Good(p, S[p][t]) /\ Good(p, sessions[p][t]) /\ sessions[p][t] \in Session
    BY <1>1, AllGoodEntries DEF AllGood
  <2>2. Ifa[p] = i
    BY <1>2 DEF ServeCalls, serves
  <2>3. s # t => S[p][t] = sessions[p][t]
    BY Zenon DEF Reversed
  <2>4. NA(Ifa[p], s, t, Opt[p].router) = Cache!Reply(i, s, t, router[p])
    BY <2>2 DEF NA, Cache!Reply, router
  <2>5. Cache!Knows(p, t) <=>
          Answering(sessions[p][t]) \/ (~Live(sessions[p][t]) /\ HitsStatic(p, t))
    <3>1. <<p, t>> \in static <=> HitsStatic(p, t)
      BY Zenon DEF static
    <3>2. /\ entries[p][t] = "none" <=> ~Live(sessions[p][t])
          /\ entries[p][t] = "reachable" <=> Answering(sessions[p][t])
      BY <2>1, Mapped, EntryTells, ZenonT(30)
    <3> QED BY <3>1, <3>2, Zenon DEF Cache!Knows
  <2> DEFINE sent == SolicitSends(p, t, S[p][t], s, RouteIface(S, i, t, p))
  <2>6. {x \in sent : x.type = "NA"} =
          IF s # t /\ (Answering(S[p][t]) \/ (~Live(S[p][t]) /\ HitsStatic(p, t)))
          THEN {NA(Ifa[p], s, t, Opt[p].router)} ELSE {}
    BY <2>1, SolicitReply, Zenon
  <2> HIDE DEF sent, S
  <2>7. m \in sent /\ m.type = "NA" <=> m \in {x \in sent : x.type = "NA"}
    OBVIOUS
  <2>8. m \in sent /\ m.type = "NA" <=>
          /\ s # t /\ (Answering(S[p][t]) \/ (~Live(S[p][t]) /\ HitsStatic(p, t)))
          /\ m = NA(Ifa[p], s, t, Opt[p].router)
    <3> DEFINE cond == s # t /\ (Answering(S[p][t]) \/ (~Live(S[p][t]) /\ HitsStatic(p, t)))
               na == NA(Ifa[p], s, t, Opt[p].router)
               nas == {x \in sent : x.type = "NA"}
    <3>1. nas = (IF cond THEN {na} ELSE {}) /\ (m \in sent /\ m.type = "NA" <=> m \in nas)
      BY <2>6, <2>7
    <3> HIDE DEF cond, na, nas
    <3>2. m \in nas <=> cond /\ m = na
      BY <3>1
    <3> QED BY <3>1, <3>2, Zenon DEF cond, na
  <2>9. m \in sent /\ m.type = "NA" <=>
          s # t /\ Cache!Knows(p, t) /\ m = Cache!Reply(i, s, t, router[p])
    BY <2>3, <2>4, <2>5, <2>8, Zenon
  <2> QED BY <2>9 DEF sent
<1>3. m \in ServeSends(S, i, s, t) <=>
        \E p \in Proxy : /\ ServeCalls(S, i, s, t, p)
                         /\ m \in SolicitSends(p, t, S[p][t], s, RouteIface(S, i, t, p))
  BY ZenonT(30) DEF ServeSends
<1> HIDE DEF S
<1>4. m \in ServeSends(S, i, s, t) /\ m.type = "NA" <=>
        \E p \in Proxy : /\ ServeCalls(S, i, s, t, p)
                         /\ s # t /\ Cache!Knows(p, t)
                         /\ m = Cache!Reply(i, s, t, router[p])
  BY <1>2, <1>3, Zenon
<1> QED BY <1>4 DEF S

\* RecvSolicit asks every proxy of the interface; the parents of the interface
\* may begin an entry for the source.
LEMMA SolicitStep ==
  ASSUME TypeOK, AllGood(sessions), NEW i \in Iface, NEW s \in Addr, NEW t \in Addr,
         RecvSolicit(i, s, t)
  PROVE  Cache!Ask(i, s, t)
<1> DEFINE learn == {p \in Proxy : ReverseCalls(i, s, p) /\ Cache!New(p, s)}
<1>1. ASSUME NEW p \in Proxy, NEW x \in Addr
      PROVE  /\ Cache!New(p, x) <=> Begins(p, x, sessions[p][x])
             /\ entries[p][x] \in {"probing", "unreachable"} <=> Unresolved(sessions[p][x])
  <2>1. sessions[p][x] \in Session
    BY AllGoodEntries
  <2>2. <<p, x>> \in stored <=> HasRule(p, x) /\ ~HitsStatic(p, x)
    BY Zenon DEF stored
  <2>3. /\ entries[p][x] = "none" <=> ~Live(sessions[p][x])
        /\ entries[p][x] \in {"probing", "unreachable"} <=> Unresolved(sessions[p][x])
    BY <2>1, Mapped, EntryTells
  <2> QED BY <2>2, <2>3, Zenon DEF Cache!New, Begins
<1>2. learn \in SUBSET {p \in Proxy : Cache!New(p, s)}
  OBVIOUS
<1>3. ASSUME NEW p \in Proxy, NEW x \in Addr
      PROVE  /\ entries'[p][x] =
                  IF \/ x = t /\ Ifa[p] = i /\ Cache!New(p, t)
                     \/ x = s /\ p \in learn
                  THEN "probing" ELSE entries[p][x]
             /\ parked'[p][x] =
                  IF /\ x = t /\ s # t /\ Ifa[p] = i
                     /\ entries[p][t] \in {"probing", "unreachable"} \/ Cache!New(p, t)
                  THEN parked[p][x] \cup {s} ELSE parked[p][x]
  <2> DEFINE se == sessions[p][x]
             begins == BeginsNow(i, s, t, p, x)
             waits == Waits(i, s, t, p, x)
  <2>1. /\ sessions'[p][x].status = IF begins THEN "WAITING" ELSE se.status
        /\ sessions'[p][x].pending = IF waits THEN se.pending \cup {s} ELSE se.pending
    <3>1. Asked(i, s, t, p, x)
      <4> HIDE DEF learn, se, begins, waits
      <4> QED BY AskedEntries
    <3> QED BY <3>1 DEF Asked
  <2>2. /\ begins <=> \/ x = t /\ Ifa[p] = i /\ Cache!New(p, t)
                      \/ x = s /\ p \in learn
        /\ waits <=> /\ x = t /\ s # t /\ Ifa[p] = i
                     /\ entries[p][t] \in {"probing", "unreachable"} \/ Cache!New(p, t)
    BY <1>1, Zenon DEF BeginsNow, Waits
  <2>3. Entry("WAITING") = "probing"
    BY Zenon DEF Entry
  <2>4. /\ entries[p][x] = Entry(se.status) /\ entries'[p][x] = Entry(sessions'[p][x].status)
        /\ parked[p][x] = se.pending /\ parked'[p][x] = sessions'[p][x].pending
    BY Mapped, Zenon
  <2> HIDE DEF se, begins, waits, learn
  <2>5. entries'[p][x] = IF begins THEN "probing" ELSE entries[p][x]
    BY <2>1, <2>3, <2>4, Zenon
  <2>6. parked'[p][x] = IF waits THEN parked[p][x] \cup {s} ELSE parked[p][x]
    BY <2>1, <2>4
  <2> QED BY <2>2, <2>5, <2>6, ZenonT(30)
<1> HIDE DEF learn
<1>4. entries' = [p \in Proxy |-> [x \in Addr |->
                    IF \/ x = t /\ Ifa[p] = i /\ Cache!New(p, t)
                       \/ x = s /\ p \in learn
                    THEN "probing" ELSE entries[p][x]]]
  BY <1>3, MappedFunctions, ZenonT(30)
<1>5. parked' = [p \in Proxy |-> [x \in Addr |->
                   IF /\ x = t /\ s # t /\ Ifa[p] = i
                      /\ entries[p][t] \in {"probing", "unreachable"} \/ Cache!New(p, t)
                   THEN parked[p][x] \cup {s} ELSE parked[p][x]]]
  BY <1>3, MappedFunctions, ZenonT(30)
<1>6. answers' = Cache!Answers(i, s, t)
  <2>1. \A p \in Proxy : ServeCalls(Reversed(i, s), i, s, t, p) <=> Ifa[p] = i
    BY SessionAssumption DEF RecvSolicit, Throws, ServeCalls, serves, Proxy
  <2>2. out' = ServeSends(Reversed(i, s), i, s, t)
    BY Zenon DEF RecvSolicit
  <2>3. \A m : m \in answers' <=>
          \E p \in Proxy : /\ Ifa[p] = i /\ s # t /\ Cache!Knows(p, t)
                           /\ m = Cache!Reply(i, s, t, router[p])
    BY <2>1, <2>2, AskedAnswers DEF answers
  <2>4. \A m : m \in Cache!Answers(i, s, t) <=>
          \E p \in Proxy : /\ Ifa[p] = i /\ s # t /\ Cache!Knows(p, t)
                           /\ m = Cache!Reply(i, s, t, router[p])
    BY Zenon DEF Cache!Answers
  <2> QED BY <2>3, <2>4
<1> QED BY <1>2, <1>4, <1>5, <1>6, Zenon DEF Cache!Ask

\* The entries of a daemon without sessions.
LEMMA NoEntries ==
  /\ sessions = NoSessions =>
       /\ entries = [p \in Proxy |-> [t \in Addr |-> "none"]]
       /\ parked = [p \in Proxy |-> [t \in Addr |-> {}]]
  /\ sessions' = NoSessions =>
       /\ entries' = [p \in Proxy |-> [t \in Addr |-> "none"]]
       /\ parked' = [p \in Proxy |-> [t \in Addr |-> {}]]
<1>1. \A p \in Proxy, t \in Addr :
        Entry(NoSessions[p][t].status) = "none" /\ NoSessions[p][t].pending = {}
  BY DEF NoSessions, NoSession, Entry
<1> QED BY <1>1 DEF entries, parked

\* AbortSolicit and Shutdown end the daemon.
LEMMA EndStep ==
  ASSUME TypeOK, AllGood(sessions), NEW i \in Iface, NEW s \in Addr, NEW t \in Addr,
         AbortSolicit(i, s, t) \/ Shutdown
  PROVE  Cache!End
<1>1. sessions' = NoSessions
  BY DEF AbortSolicit, Shutdown
<1>2. CASE Shutdown
  <2>1. answers' = {}
    BY <1>2 DEF Shutdown, answers
  <2> QED BY <1>1, <2>1, NoEntries DEF Cache!End
<1>3. CASE AbortSolicit(i, s, t)
  <2>1. out' = ServeSends(Reversed(i, s), i, s, t)
    BY <1>3 DEF AbortSolicit
  <2>2. ASSUME NEW m \in answers'
        PROVE  m \in Cache!Answers(i, s, t)
    <3>1. PICK p \in Proxy : /\ ServeCalls(Reversed(i, s), i, s, t, p)
                             /\ s # t /\ Cache!Knows(p, t)
                             /\ m = Cache!Reply(i, s, t, router[p])
      BY <2>1, <2>2, AskedAnswers, SMTT(30) DEF answers
    <3>2. Ifa[p] = i
      BY <3>1 DEF ServeCalls, serves
    <3> QED BY <3>1, <3>2, Zenon DEF Cache!Answers
  <2>3. answers' \subseteq Cache!Answers(i, s, t)
    BY <2>2, Zenon
  <2> QED BY <1>1, <2>3, NoEntries, Zenon DEF Cache!End
<1> QED BY <1>2, <1>3

\* Every step of the daemon is one of the cache, or changes nothing of it.
LEMMA CacheStep ==
  ASSUME TypeOK, AllGood(sessions), [Next]_vars
  PROVE  [Cache!Next]_(Cache!cacheVars)
<1>1. /\ \A m \in Solicits : m[1] \in Iface /\ m[2] \in Addr /\ m[3] \in Addr
      /\ \A m \in Adverts : m[1] \in Iface /\ m[2] \in Addr /\ m[3] \in Addr
  BY NdppdAssumption, Zenon
<1>2. ASSUME NEW i \in Iface, NEW s \in Addr, NEW t \in Addr,
             IgnoreSolicit(i, s, t) \/ IgnoreAdvert(i, s, t) \/ Restart
      PROVE  Cache!Next
  BY <1>2, QuietStep DEF IgnoreSolicit, IgnoreAdvert, Restart, Cache!Next
<1>3. ASSUME NEW i \in Iface, NEW s \in Addr, NEW t \in Addr, AnswerLocal(i, s, t)
      PROVE  Cache!Next
  <2>1. answers' = {Cache!Reply(i, s, t, FALSE)}
    BY <1>3 DEF AnswerLocal, answers, NA, Cache!Reply
  <2>2. entries' = entries /\ parked' = parked
    BY <1>3 DEF AnswerLocal, entries, parked
  <2> QED BY <2>1, <2>2, Zenon DEF Cache!Next, Cache!AnswerOwn
<1>4. ASSUME NEW i \in Iface, NEW s \in Addr, NEW t \in Addr, RecvSolicit(i, s, t)
      PROVE  Cache!Next
  BY <1>4, SolicitStep, Zenon DEF Cache!Next
<1>5. ASSUME NEW i \in Iface, NEW s \in Addr, NEW t \in Addr, RecvAdvert(i, s, t)
      PROVE  Cache!Next
  BY <1>5, AdvertStep, Zenon DEF Cache!Next
<1>6. ASSUME NEW c \in Clock, UpdateAll(c)
      PROVE  Cache!Next
  BY <1>6, UpdateStep, Zenon DEF Cache!Next
<1>7. ASSUME NEW i \in Iface, NEW s \in Addr, NEW t \in Addr, AbortSolicit(i, s, t)
      PROVE  Cache!Next
  BY <1>7, EndStep, Zenon DEF Cache!Next
<1>8. ASSUME Shutdown
      PROVE  Cache!Next
  <2>1. answers' = {}
    BY <1>8 DEF Shutdown, answers
  <2>2. Cache!End
    BY <1>8, <2>1, NoEntries DEF Shutdown, Cache!End
  <2> QED BY <2>2, Zenon DEF Cache!Next
<1>9. ASSUME Restart
      PROVE  Cache!Next
  BY <1>9, QuietStep DEF Restart, Cache!Next
<1>10. ASSUME UNCHANGED vars
       PROVE  UNCHANGED Cache!cacheVars
  BY <1>10 DEF vars, Cache!cacheVars, entries, parked, answers
<1> QED
  BY <1>1, <1>2, <1>3, <1>4, <1>5, <1>6, <1>7, <1>8, <1>9, <1>10, Zenon DEF Next

\* The daemon implements the neighbour cache, for every configuration, whatever
\* arrives and however time is measured (session.cc, proxy.cc, iface.cc).
THEOREM DaemonIsCache == Spec => ImplementsCache
<1>1. Init => Cache!Init
  <2> SUFFICES ASSUME Init PROVE Cache!Init
    OBVIOUS
  <2>1. answers = {}
    BY DEF Init, answers
  <2> QED BY <2>1, NoEntries DEF Init, Cache!Init
<1>2. TypeOK /\ AllGood(sessions) /\ [Next]_vars => [Cache!Next]_(Cache!cacheVars)
  BY CacheStep, Zenon
<1> QED BY InitInv, NextInv, <1>1, <1>2, PTL DEF Spec, ImplementsCache, Cache!Spec

-----------------------------------------------------------------------------
(***************************************************************************)
(* Every solicitation is answered or its source is parked.  That no static *)
(* rule hides a session is a property of the neighbour cache, which the    *)
(* daemon inherits from it.                                                *)
(***************************************************************************)
EntriesManaged ==
  \A p \in Proxy, t \in Addr : entries[p][t] # "none" => <<p, t>> \in stored

\* A step of the neighbour cache keeps it: only Ask begins an entry, for New ones.
LEMMA CacheManages ==
  ASSUME EntriesManaged, [Cache!Next]_(Cache!cacheVars)
  PROVE  EntriesManaged'
<1> SUFFICES ASSUME NEW p \in Proxy, NEW x \in Addr, entries'[p][x] # "none"
             PROVE  <<p, x>> \in stored
  BY Zenon DEF EntriesManaged, stored
<1>1. SUFFICES entries[p][x] # "none" \/ <<p, x>> \in stored
  BY Zenon DEF EntriesManaged
<1>2. CASE Cache!Pass
  BY <1>2, ZenonT(30) DEF Cache!Pass, Cache!Ages
<1>3. ASSUME NEW t \in Addr, Cache!Hear(t)
      PROVE  entries[p][x] # "none"
  BY <1>3, SMTT(30) DEF Cache!Hear
<1>4. ASSUME NEW i \in Iface, NEW s \in Addr, NEW t \in Addr, Cache!Ask(i, s, t)
      PROVE  entries[p][x] # "none" \/ <<p, x>> \in stored
  BY <1>4 DEF Cache!Ask, Cache!New
<1>5. ASSUME entries' = entries
      PROVE  entries[p][x] # "none"
  BY <1>5, Zenon
<1>6. CASE Cache!End
  BY <1>6, ZenonT(30) DEF Cache!End
<1> QED BY <1>2, <1>3, <1>4, <1>5, <1>6, Zenon DEF Cache!Next, Cache!AnswerOwn, Cache!cacheVars

\* Proxy p answers s for t on i, or s waits: the sessions se and the messages sent.
Attended(p, i, s, t, se, sent) ==
  \/ NA(i, s, t, Opt[p].router) \in sent
  \/ ~HitsStatic(p, t) /\ s \in se.pending

\* After handle_solicit, in every proxy of the interface with a rule for the target.
LEMMA SolicitAttended ==
  ASSUME TypeOK, AllGood(sessions), EntriesManaged,
         NEW i \in Iface, NEW s \in Addr, NEW t \in Addr, RecvSolicit(i, s, t), s # t,
         NEW p \in serves(i), HasRule(p, t)
  PROVE  Attended(p, i, s, t, sessions'[p][t], out')
<1> DEFINE se == sessions[p][t]
<1>1. p \in Proxy /\ Ifa[p] = i
  BY DEF serves
<1>2. se \in Session /\ Good(p, se)
  BY <1>1, AllGoodEntries, Zenon
<1>3. Live(se) => ~HitsStatic(p, t)
  <2>1. Live(se) => entries[p][t] # "none"
    BY <1>1, <1>2, Mapped, EntryTells, Zenon
  <2>2. <<p, t>> \in stored => ~HitsStatic(p, t)
    BY <1>1 DEF stored
  <2> QED BY <1>1, <2>1, <2>2, Zenon DEF EntriesManaged
<1>4. ~Live(se) \/ Unresolved(se) \/ Answering(se)
  BY <1>2, Zenon DEF Session, Status, Live, Unresolved, Answering
<1>5. CASE ~HitsStatic(p, t) /\ ~Answering(se)
  <2>1. Asked(i, s, t, p, t)
    BY <1>1, AskedEntries, Zenon
  <2>2. Waits(i, s, t, p, t)
    BY <1>1, <1>4, <1>5, Zenon DEF Waits, Begins
  <2>3. sessions'[p][t].pending = sessions[p][t].pending \cup {s}
    BY <2>1, <2>2, Zenon DEF Asked
  <2> QED BY <1>5, <2>3 DEF Attended
<1>6. CASE HitsStatic(p, t) \/ Answering(se)
  <2>1. Cache!Knows(p, t)
    <3>1. <<p, t>> \in static <=> HitsStatic(p, t)
      BY <1>1, SMTT(30) DEF static
    <3>2. /\ entries[p][t] = "none" <=> ~Live(se)
          /\ entries[p][t] = "reachable" <=> Answering(se)
      BY <1>1, <1>2, Mapped, EntryTells, Zenon
    <3> QED BY <1>3, <1>6, <3>1, <3>2, Zenon DEF Cache!Knows
  <2>2. ServeCalls(Reversed(i, s), i, s, t, p)
    BY <1>1, SessionAssumption, SMTT(30) DEF RecvSolicit, Throws, ServeCalls, Proxy
  <2>3. NA(i, s, t, Opt[p].router) = Cache!Reply(i, s, t, router[p])
    BY <1>1 DEF NA, Cache!Reply, router
  <2>4. NA(i, s, t, Opt[p].router) \in ServeSends(Reversed(i, s), i, s, t)
    <3>1. \E q \in Proxy : /\ ServeCalls(Reversed(i, s), i, s, t, q)
                           /\ s # t /\ Cache!Knows(q, t)
                           /\ Cache!Reply(i, s, t, router[p]) = Cache!Reply(i, s, t, router[q])
      BY <1>1, <2>1, <2>2, Zenon
    <3>2. Cache!Reply(i, s, t, router[p]) \in ServeSends(Reversed(i, s), i, s, t)
      BY <3>1, AskedAnswers, Zenon
    <3> QED BY <2>3, <3>2, Zenon
  <2>5. out' = ServeSends(Reversed(i, s), i, s, t)
    BY Zenon DEF RecvSolicit
  <2> QED BY <2>4, <2>5 DEF Attended
<1> QED BY <1>5, <1>6, Zenon

\* Every step leaves the property true.
LEMMA AttendedStep ==
  TypeOK /\ AllGood(sessions) /\ EntriesManaged /\ AnsweredOrParked /\ [Next]_vars
    => AnsweredOrParked'
<1> SUFFICES ASSUME TypeOK, AllGood(sessions), EntriesManaged, AnsweredOrParked,
                    [Next]_vars
             PROVE  AnsweredOrParked'
  OBVIOUS
<1>1. /\ Solicits \subseteq Iface \X Addr \X Addr
      /\ Adverts \subseteq Iface \X Addr \X Addr
  BY NdppdAssumption, ZenonT(30)
<1>2. ASSUME NEW i \in Iface, NEW s \in Addr, NEW t \in Addr, RecvSolicit(i, s, t)
      PROVE  AnsweredOrParked'
  <2>1. inp' = [type |-> "NS", ifa |-> i, saddr |-> s, taddr |-> t]
    BY <1>2 DEF RecvSolicit, Input
  <2>2. s # t => \A p \in serves(i) :
          HasRule(p, t) => Attended(p, i, s, t, sessions'[p][t], out')
    BY <1>2, SolicitAttended
  <2> QED BY <2>1, <2>2, Zenon DEF AnsweredOrParked, Attended
<1>3. ASSUME NEW i \in Iface, NEW s \in Addr, NEW t \in Addr,
             IgnoreSolicit(i, s, t) \/ AnswerLocal(i, s, t)
      PROVE  AnsweredOrParked'
  <2>1. inp' = [type |-> "NS", ifa |-> i, saddr |-> s, taddr |-> t] /\ laddrs' = laddrs
    BY <1>3, Zenon DEF IgnoreSolicit, AnswerLocal, Input
  <2>2. is_local(s) \/ handle_local(i, t)
    BY <1>3, ZenonT(30) DEF IgnoreSolicit, AnswerLocal
  <2>3. is_local(s)' \/ handle_local(i, t)'
    BY <2>1, <2>2, Zenon DEF is_local, handle_local
  <2>4. inp'.saddr = s /\ inp'.ifa = i /\ inp'.taddr = t
    BY <2>1, Zenon
  <2>5. is_local(inp.saddr)' \/ handle_local(inp.ifa, inp.taddr)'
    BY <2>3, <2>4 DEF is_local, handle_local
  <2> QED BY <2>5, Zenon DEF AnsweredOrParked
<1>4. ASSUME run' # "up" \/ inp'.type # "NS"
      PROVE  AnsweredOrParked'
  BY <1>4, Zenon DEF AnsweredOrParked
<1>5. ASSUME NEW i \in Iface, NEW s \in Addr, NEW t \in Addr,
             \/ AbortSolicit(i, s, t) \/ IgnoreAdvert(i, s, t) \/ RecvAdvert(i, s, t)
      PROVE  AnsweredOrParked'
  <2>1. run' = "aborted" \/ inp' = Input("NA", i, s, t)
    BY <1>5, Zenon DEF AbortSolicit, IgnoreAdvert, RecvAdvert
  <2>2. Input("NA", i, s, t).type # "NS"
    BY DEF Input
  <2>3. run' # "up" \/ inp'.type # "NS"
    BY <2>1, <2>2
  <2> QED BY <1>4, <2>3
<1>6. ASSUME inp' = NoInput
      PROVE  AnsweredOrParked'
  <2>1. inp'.type # "NS"
    BY <1>6 DEF NoInput, Input
  <2> QED BY <1>4, <2>1, Zenon
<1>7. ASSUME (\E c \in Clock : UpdateAll(c)) \/ Shutdown \/ Restart
      PROVE  inp' = NoInput
  BY <1>7, ZenonT(30) DEF UpdateAll, Shutdown, Restart
<1>8. CASE UNCHANGED vars
  BY <1>8, Zenon DEF vars, AnsweredOrParked, is_local, handle_local
<1> QED BY <1>1, <1>2, <1>3, <1>5, <1>6, <1>7, <1>8, Zenon DEF Next

\* Whatever the configuration, a solicitation that reaches a proxy with a rule for its
\* target is answered at once or its source is parked (proxy::handle_solicit).
THEOREM Attends == Spec => []AnsweredOrParked
<1>1. Init => AnsweredOrParked
  <2>1. Init => inp = NoInput
    BY Zenon DEF Init
  <2>2. NoInput.type # "NS"
    BY DEF NoInput, Input
  <2> QED BY <2>1, <2>2, Zenon DEF AnsweredOrParked
<1>2. Init => EntriesManaged
  <2>1. Init => \A p \in Proxy, t \in Addr : entries[p][t] = "none"
    BY NoEntries DEF Init
  <2> QED BY <2>1, Zenon DEF EntriesManaged
<1>3. TypeOK /\ AllGood(sessions) /\ EntriesManaged /\ [Next]_vars => EntriesManaged'
  BY CacheStep, CacheManages, Zenon
<1> QED BY InitInv, NextInv, AttendedStep, <1>1, <1>2, <1>3, PTL DEF Spec
=============================================================================
