---------------------------- MODULE RouteProofs ----------------------------
(***************************************************************************)
(* The interfaces a session monitors and the routes that autowire puts     *)
(* into the kernel's table, for every configuration, all messages and      *)
(* every clock.                                                            *)
(***************************************************************************)
EXTENDS NdppdProofs, WellFoundedInduction

\* The interfaces of the iface rules for t.
Daughters(p, t) ==
  {i \in Iface : \E r \in DOMAIN Rules[p] : Relevant(i, t, p, r)}

\* No rule asks for routes over gateways.
NoAutovia == \A p \in Proxy : \A r \in DOMAIN Rules[p] : ~Rules[p][r].autovia

\* A rule that does is the first of its proxy for every address it matches.  Its
\* interface is then the first one of a session, and the only one for which
\* handle_auto_unwire knows the gateway.
AutoviaFirst ==
  \A p \in Proxy, t \in Addr : \A r \in DOMAIN Rules[p] :
    Matches(p, t, r) /\ Rules[p][r].autovia => \A q \in 1 .. r - 1 : ~Matches(p, t, q)

\* A session of proxy p for t, seen beside the rules: it monitors all daughters,
\* no others without auto rules, and a gateway is behind the first.
Fits(p, t, se) ==
  /\ HasRule(p, t) /\ ~HitsStatic(p, t)
  /\ Daughters(p, t) \subseteq se.ifaces
  /\ ~any_auto => se.ifaces \subseteq Daughters(p, t)
  /\ AutoviaFirst => \A i \in Iface : AutoVia(i, t, p) => se.front = i

\* The invariant of a session: it fits the rules, it is wired only with autowire,
\* and has a gateway only once it was confirmed, and only with autovia.
Wiring(p, t, se) ==
  /\ Live(se) => Fits(p, t, se)
  /\ se.wired => Opt[p].autowire
  /\ se.wired /\ se.status = "WAITING" => se.via = Unspec
  /\ NoAutovia => se.via = Unspec

AllWiring(S) == \A p \in Proxy, t \in Addr : Wiring(p, t, S[p][t])

\* A session that lives on keeps its interfaces, and once wired its gateway.
LivesOn(old, new) ==
  Live(old) => /\ Live(new) /\ new.ifaces = old.ifaces /\ new.front = old.front
               /\ old.wired => new.wired /\ new.via = old.via

\* Two operations in a row.
LEMMA LivesOnTwice ==
  ASSUME NEW a, NEW b, NEW c, LivesOn(a, b), LivesOn(b, c)
  PROVE  LivesOn(a, c)
  BY DEF LivesOn

\* An absent session.
LEMMA NoSessionWiring ==
  ASSUME NEW p \in Proxy, NEW t \in Addr
  PROVE  Wiring(p, t, NoSession)
  BY DEF Wiring, NoSession, Live

\* Nothing but the fields of the wiring matters.
LEMMA SameWiring ==
  ASSUME NEW p \in Proxy, NEW t \in Addr, NEW old, NEW new, Wiring(p, t, old), Live(old),
         Live(new), new.ifaces = old.ifaces, new.front = old.front,
         new.wired = old.wired, new.via = old.via,
         new.status = "WAITING" => old.status = "WAITING"
  PROVE  Wiring(p, t, new) /\ LivesOn(old, new)
  BY Zenon DEF Wiring, LivesOn, Fits

\* A wired session lives.
LEMMA WiredLives ==
  ASSUME NEW p, NEW se, Good(p, se), se.wired
  PROVE  Live(se)
  BY DEF Good, Probing, Live, NoSession

-----------------------------------------------------------------------------
\* The rules in front of a rule are rules.
LEMMA RulesBefore ==
  ASSUME NEW p \in Proxy, NEW r \in DOMAIN Rules[p]
  PROVE  1 .. r - 1 \subseteq DOMAIN Rules[p] /\ r \in Nat
<1>1. DOMAIN Rules[p] = 1 .. Len(Rules[p]) /\ Len(Rules[p]) \in Nat
  BY RulesAssumption
<1> QED BY <1>1

\* A rule with a daughter hands it to a new session if no static rule matches.
LEMMA DaughterHanded ==
  ASSUME NEW p \in Proxy, NEW t \in Addr, ~HitsStatic(p, t), NEW rif, NEW i \in Iface,
         NEW r \in DOMAIN Rules[p], Relevant(i, t, p, r)
  PROVE  Hands(p, t, rif, r, i)
<1>1. 1 .. r - 1 \subseteq DOMAIN Rules[p]
  BY RulesBefore
<1>2. Visits(p, t, r)
  BY <1>1 DEF Visits, HitsStatic, Relevant
<1>3. ~Rules[p][r].aut
  BY RulesAssumption, SessionAssumption DEF Relevant
<1> QED BY <1>2, <1>3 DEF Hands, Relevant

\* Without auto rules nothing else is handed out.
LEMMA OnlyDaughters ==
  ASSUME NEW p \in Proxy, NEW t \in Addr, NEW rif, ~any_auto
  PROVE  SessionIfaces(p, t, rif) \subseteq Daughters(p, t)
  BY Zenon DEF any_auto, SessionIfaces, Hands, Daughters, Relevant, Visits

\* The interface of a rule with autovia is the first one.
LEMMA AutoviaFront ==
  ASSUME NEW p \in Proxy, NEW t \in Addr, ~HitsStatic(p, t), NEW rif, AutoviaFirst,
         NEW i \in Iface, AutoVia(i, t, p)
  PROVE  FirstIface(p, t, rif) = i
<1>1. PICK r \in DOMAIN Rules[p] : Relevant(i, t, p, r) /\ Rules[p][r].autovia
  BY DEF AutoVia
<1>2. Hands(p, t, rif, r, i)
  BY <1>1, DaughterHanded, Zenon
<1>3. \A q \in 1 .. r - 1 : ~Matches(p, t, q)
  BY <1>1, Zenon DEF AutoviaFirst, Relevant
<1>4. \A q \in 1 .. r - 1 : \A j \in Iface : ~Hands(p, t, rif, q, j)
  BY <1>3, Zenon DEF Hands, Visits
<1> DEFINE first(k) == \E q \in DOMAIN Rules[p] :
                         /\ Hands(p, t, rif, q, k)
                         /\ \A s \in 1 .. q - 1, j \in Iface : ~Hands(p, t, rif, s, j)
<1>5. first(i)
  BY <1>2, <1>4, Zenon
<1>6. ASSUME NEW k \in Iface, first(k)
      PROVE  k = i
  <2>1. PICK q \in DOMAIN Rules[p] :
          /\ Hands(p, t, rif, q, k)
          /\ \A s \in 1 .. q - 1, j \in Iface : ~Hands(p, t, rif, s, j)
    BY <1>6
  <2>2. r \in Nat /\ q \in Nat /\ r >= 1 /\ q >= 1
    BY RulesAssumption
  <2>3. ~(r \in 1 .. q - 1) /\ ~(q \in 1 .. r - 1)
    BY <1>2, <1>4, <2>1, Zenon
  <2>4. q = r
    BY <2>2, <2>3
  <2> QED BY <1>2, <2>1, <2>4, Zenon DEF Hands
<1> HIDE DEF first
<1>7. (CHOOSE k \in Iface : first(k)) = i
  BY <1>5, <1>6
<1> QED BY <1>5, <1>7, Zenon DEF FirstIface, first
-----------------------------------------------------------------------------
\* find_or_create_session: a new session fits the rules and is not wired.
LEMMA FoundWiring ==
  ASSUME NEW p \in Proxy, NEW t \in Addr, NEW se, Good(p, se), Wiring(p, t, se),
         StoresSession(p, t, se), NEW rif \in Iface \cup {NoIface}
  PROVE  LET found == find_or_create_session(p, t, se, rif)
         IN  /\ Wiring(p, t, found) /\ LivesOn(se, found) /\ Live(found)
             /\ found.wired => se.wired
<1> DEFINE is == SessionIfaces(p, t, rif)
           first == FirstIface(p, t, rif)
           new == create(p, is, first)
<1>1. CASE Live(se)
  BY <1>1, Zenon DEF find_or_create_session, LivesOn
<1>2. CASE ~Live(se)
  <2>1. HasRule(p, t) /\ ~HitsStatic(p, t)
    BY <1>2, Zenon DEF StoresSession
  <2>2. Daughters(p, t) \subseteq is
    BY <2>1, DaughterHanded, Zenon DEF Daughters, SessionIfaces
  <2>3. /\ new.status = "WAITING" /\ new.ifaces = is /\ new.front = first
        /\ new.wired = FALSE /\ new.via = Unspec
    BY DEF create, NoSession
  <2>4. find_or_create_session(p, t, se, rif) = new
    BY <1>2, Zenon DEF find_or_create_session
  <2>5. ~any_auto => is \subseteq Daughters(p, t)
    BY OnlyDaughters, Zenon
  <2>6. AutoviaFirst => \A i \in Iface : AutoVia(i, t, p) => first = i
    BY <2>1, AutoviaFront, Zenon
  <2> HIDE DEF new, is, first
  <2>7. Fits(p, t, new)
    BY <2>1, <2>2, <2>3, <2>5, <2>6, Zenon DEF Fits
  <2> QED BY <1>2, <2>3, <2>4, <2>7 DEF Wiring, LivesOn, Live
<1> QED BY <1>1, <1>2, Zenon

\* handle_auto_wire, of an unconfirmed session for a gateway that autovia allows.
LEMMA WireWiring ==
  ASSUME NEW p \in Proxy, NEW t \in Addr, NEW se, Good(p, se), Wiring(p, t, se),
         Live(se), se.status = "WAITING", NEW s \in Addr, NEW v, Rewires(se, s)
  PROVE  LET new == handle_auto_wire(se, t, s, v)
         IN  /\ Live(new) /\ new.ifaces = se.ifaces /\ new.front = se.front
             /\ new.status = se.status /\ new.wired /\ new.via = WireVia(t, s, v)
             /\ ~se.wired
<1>1. se \in Session
  BY DEF Good
<1>2. ~se.wired
  BY DEF Wiring, Rewires
<1> QED BY <1>1, <1>2 DEF handle_auto_wire, Session, Live

\* proxy::handle_stateless_advert.
LEMMA StatelessWiring ==
  ASSUME NEW p \in Proxy, NEW s \in Addr, NEW se, Good(p, se), Wiring(p, s, se)
  PROVE  LET new == handle_stateless_advert(p, s, se, FALSE)
         IN  /\ Wiring(p, s, new) /\ LivesOn(se, new)
             /\ StatelessWires(p, s, se) => Live(new) /\ new.wired /\ new.via = Unspec
             /\ new.wired => se.wired \/ StatelessWires(p, s, se)
<1> DEFINE found == find_or_create_session(p, s, se, NoIface)
           wired == handle_auto_wire(found, s, s, FALSE)
           new == handle_stateless_advert(p, s, se, FALSE)
<1>1. CASE ~StoresSession(p, s, se)
  BY <1>1, Zenon DEF handle_stateless_advert, LivesOn, StatelessWires
<1>2. CASE StoresSession(p, s, se)
  <2>1. /\ Good(p, found) /\ Wiring(p, s, found) /\ LivesOn(se, found) /\ Live(found)
        /\ found.wired => se.wired
    BY <1>2, FoundGood, FoundWiring
  <2>2. new = IF StatelessWires(p, s, se) THEN wired ELSE found
    BY <1>2, Zenon DEF handle_stateless_advert
  <2>3. CASE StatelessWires(p, s, se)
    <3>1. found.status = "WAITING" /\ Rewires(found, s) /\ Opt[p].autowire
      BY <2>3, Zenon DEF StatelessWires
    <3>2. WireVia(s, s, FALSE) = Unspec
      BY Zenon DEF WireVia
    <3> HIDE DEF found
    <3>3. /\ Live(wired) /\ wired.ifaces = found.ifaces /\ wired.front = found.front
          /\ wired.status = found.status
          /\ wired.wired /\ wired.via = WireVia(s, s, FALSE) /\ ~found.wired
      <4>1. Good(p, found) /\ Wiring(p, s, found) /\ Live(found)
        BY <2>1, Zenon
      <4>2. found.status = "WAITING" /\ Rewires(found, s)
        BY <3>1, Zenon
      <4>3. ASSUME NEW v, NEW after, after = handle_auto_wire(found, s, s, v)
            PROVE  /\ Live(after) /\ after.ifaces = found.ifaces /\ after.front = found.front
                   /\ after.status = found.status
                   /\ after.wired /\ after.via = WireVia(s, s, v) /\ ~found.wired
        BY <4>1, <4>2, <4>3, WireWiring, SMTT(30)
      <4> QED BY <4>3, Zenon
    <3> HIDE DEF wired, new
    <3>4. Wiring(p, s, wired) /\ LivesOn(found, wired)
      BY <2>1, <3>1, <3>2, <3>3, Zenon DEF Wiring, LivesOn, Fits
    <3>5. LivesOn(se, wired)
      BY <2>1, <3>4, LivesOnTwice, Zenon
    <3> QED BY <2>2, <2>3, <3>2, <3>3, <3>4, <3>5, Zenon DEF new
  <2>4. CASE ~StatelessWires(p, s, se)
    BY <2>1, <2>2, <2>4, Zenon
  <2> QED BY <2>3, <2>4, Zenon
<1> QED BY <1>1, <1>2, Zenon

\* proxy::handle_solicit.
LEMMA SolicitWiring ==
  ASSUME NEW p \in Proxy, NEW t \in Addr, NEW s \in Addr, NEW se, Good(p, se),
         Wiring(p, t, se), NEW rif \in Iface \cup {NoIface}
  PROVE  LET new == handle_solicit(p, t, se, s, rif)
         IN  Wiring(p, t, new) /\ LivesOn(se, new) /\ (new.wired => se.wired)
<1> DEFINE found == find_or_create_session(p, t, se, rif)
           probed == touch(p, found)
           added == add_pending(probed, s)
           new == handle_solicit(p, t, se, s, rif)
<1>1. CASE ~StoresSession(p, t, se)
  BY <1>1, Zenon DEF handle_solicit, LivesOn
<1>2. CASE StoresSession(p, t, se)
  <2>1. /\ Good(p, found) /\ Wiring(p, t, found) /\ LivesOn(se, found) /\ Live(found)
        /\ found.wired => se.wired
    BY <1>2, FoundGood, FoundWiring
  <2>2. new = IF s # t /\ Unresolved(probed) THEN added ELSE probed
    BY <1>2, Zenon DEF handle_solicit
  <2> HIDE DEF found, new
  <2>3. found \in Session
    BY <2>1 DEF Good
  <2>4. probed \in Session
    BY <2>3, TouchType
  <2>5. /\ probed.status = found.status /\ probed.ifaces = found.ifaces
        /\ probed.front = found.front
        /\ probed.wired = found.wired /\ probed.via = found.via
    BY <2>3 DEF touch, Session
  <2> HIDE DEF probed
  <2>6. /\ added.status = found.status /\ added.ifaces = found.ifaces
        /\ added.front = found.front
        /\ added.wired = found.wired /\ added.via = found.via
    BY <2>4, <2>5 DEF add_pending, Session
  <2> HIDE DEF added
  <2>7. Live(probed) /\ Live(added)
    BY <2>1, <2>5, <2>6, Zenon DEF Live
  <2>8. /\ Wiring(p, t, probed) /\ LivesOn(found, probed)
        /\ Wiring(p, t, added) /\ LivesOn(found, added)
    BY <2>1, <2>5, <2>6, <2>7, SameWiring, Zenon
  <2>9. LivesOn(se, probed) /\ LivesOn(se, added)
    BY <2>1, <2>8, LivesOnTwice, Zenon
  <2> QED BY <2>1, <2>2, <2>5, <2>6, <2>8, <2>9, Zenon DEF new
<1> QED BY <1>1, <1>2, Zenon
\* proxy::handle_advert, with the autovia of the rule.
LEMMA AdvertWiring ==
  ASSUME NEW p \in Proxy, NEW t \in Addr, NEW s \in Addr, NEW se, Good(p, se),
         Wiring(p, t, se), NEW v \in BOOLEAN, NoAutovia => ~v
  PROVE  LET new == handle_advert_from(p, t, se, s, v)
         IN  /\ Wiring(p, t, new) /\ LivesOn(se, new)
             /\ AdvertWires(p, se, s) =>
                  Live(new) /\ new.wired /\ new.via = WireVia(t, s, v)
             /\ new.wired => se.wired \/ AdvertWires(p, se, s)
             /\ Live(new) => new.status = "VALID" /\ Live(se)
<1> DEFINE wired == handle_auto_wire(se, t, s, v)
           kept == IF AdvertWires(p, se, s) THEN wired ELSE se
           new == handle_advert_from(p, t, se, s, v)
<1>1. CASE ~Live(se)
  BY <1>1, Zenon DEF handle_advert_from, LivesOn, AdvertWires, Live
<1>2. CASE Live(se)
  <2>1. new = handle_advert(p, kept)
    BY <1>2, Zenon DEF handle_advert_from
  <2>2. se \in Session /\ wired \in Session
    BY WireType DEF Good
  <2>3. se.status = "WAITING" /\ Rewires(se, s) =>
          /\ wired.ifaces = se.ifaces /\ wired.front = se.front /\ wired.wired
          /\ wired.via = WireVia(t, s, v) /\ ~se.wired
    <3> HAVE se.status = "WAITING" /\ Rewires(se, s)
    <3> QED BY <1>2, WireWiring
  <2> HIDE DEF new, wired
  <2>4. /\ new.status = "VALID" /\ new.ifaces = kept.ifaces /\ new.front = kept.front
        /\ new.wired = kept.wired /\ new.via = kept.via
    BY <2>1, <2>2 DEF handle_advert, Session
  <2>5. Live(new)
    BY <2>4 DEF Live
  <2>6. CASE ~AdvertWires(p, se, s)
    <3>1. kept = se
      BY <2>6
    <3>2. Wiring(p, t, new) /\ LivesOn(se, new)
      BY <1>2, <2>4, <2>5, <3>1, SameWiring, Zenon
    <3> QED BY <1>2, <2>4, <2>6, <3>1, <3>2, Zenon DEF new
  <2>7. CASE AdvertWires(p, se, s)
    <3>1. se.status = "WAITING" /\ Rewires(se, s) /\ Opt[p].autowire /\ kept = wired
      BY <2>7, Zenon DEF AdvertWires
    <3>2. /\ wired.ifaces = se.ifaces /\ wired.front = se.front /\ wired.wired
          /\ wired.via = WireVia(t, s, v) /\ ~se.wired
      BY <2>3, <3>1, Zenon
    <3>3. NoAutovia => WireVia(t, s, v) = Unspec
      BY Zenon DEF WireVia
    <3>4. /\ new.ifaces = se.ifaces /\ new.front = se.front /\ new.wired
          /\ new.via = WireVia(t, s, v)
      BY <2>4, <3>1, <3>2, Zenon
    <3>5. LivesOn(se, new)
      BY <2>5, <3>2, <3>4, Zenon DEF LivesOn
    <3>6. Fits(p, t, new)
      BY <1>2, <3>4, Zenon DEF Wiring, Fits
    <3>7. new.status # "WAITING"
      BY <2>4
    <3>8. Wiring(p, t, new)
      BY <3>1, <3>3, <3>4, <3>6, <3>7, Zenon DEF Wiring
    <3> QED BY <1>2, <2>4, <2>5, <2>7, <3>4, <3>5, <3>8, Zenon DEF new
  <2> QED BY <2>6, <2>7, Zenon
<1> QED BY <1>1, <1>2, Zenon

\* One session in update_all: it is removed, or lives on.
LEMMA UpdateWiring ==
  ASSUME NEW p \in Proxy, NEW t \in Addr, NEW se, Good(p, se), Wiring(p, t, se),
         NEW e \in Int, NEW r \in Nat
  PROVE  LET new == update(p, se, e, r)
         IN  /\ Wiring(p, t, new)
             /\ IF Removed(p, se, e) THEN new = NoSession ELSE LivesOn(se, new)
             /\ new.wired => se.wired
<1> DEFINE new == update(p, se, e, r)
           aged == [se EXCEPT !.age = @ + r]
<1>1. se \in Session
  BY DEF Good
<1>2. CASE ~Live(se)
  BY <1>2, Zenon DEF update, LivesOn, Removed, Expires
<1>3. CASE Live(se) /\ Removed(p, se, e)
  <2>1. new = NoSession /\ ~NoSession.wired
    BY <1>3 DEF update, NoSession
  <2> QED BY <1>3, <2>1, NoSessionWiring, Zenon
<1>4. CASE Live(se) /\ ~Removed(p, se, e)
  <2>1. /\ aged.status = se.status /\ aged.touched = se.touched /\ aged.fails = se.fails
        /\ aged.ifaces = se.ifaces /\ aged.front = se.front
        /\ aged.wired = se.wired /\ aged.via = se.via
        /\ DOMAIN aged = DOMAIN se
    BY <1>1 DEF Session
  <2>2. new = IF Expires(se, e) THEN Expired(p, aged) ELSE [aged EXCEPT !.ttl = @ - e]
    BY <1>4, Zenon DEF update
  <2> HIDE DEF aged, new
  <2>3. /\ new.ifaces = se.ifaces /\ new.front = se.front
        /\ new.wired = se.wired /\ new.via = se.via
        /\ new.status \in {se.status, "INVALID", "RENEWING"}
    <3>1. CASE ~Expires(se, e)
      BY <1>1, <2>1, <2>2, <3>1, SMTT(30) DEF Session
    <3>2. CASE Expires(se, e)
      <4>1. /\ Retries(p, aged) <=> Retries(p, se)
            /\ Renews(p, aged) <=> Renews(p, se)
        BY <2>1 DEF Retries, Renews
      <4>2. Retries(p, se) \/ se.status = "WAITING" \/ Renews(p, se)
        BY <1>4, <3>2, Zenon DEF Removed
      <4>3. new = Expired(p, aged)
        BY <2>2, <3>2, Zenon
      <4>4. CASE Retries(p, aged)
        BY <1>1, <2>1, <4>3, <4>4, Zenon DEF Expired, Session
      <4>5. CASE ~Retries(p, aged) /\ se.status = "WAITING"
        BY <1>1, <2>1, <4>3, <4>5, Zenon DEF Expired, Session
      <4>6. CASE ~Retries(p, aged) /\ se.status # "WAITING" /\ Renews(p, aged)
        BY <1>1, <2>1, <4>3, <4>6, Zenon DEF Expired, Session
      <4> QED BY <4>1, <4>2, <4>4, <4>5, <4>6, ZenonT(30)
    <3> QED BY <3>1, <3>2, Zenon
  <2>4. Live(new) /\ (new.status = "WAITING" => se.status = "WAITING")
    BY <1>4, <2>3, Zenon DEF Live
  <2> QED BY <1>4, <2>3, <2>4, SameWiring, Zenon DEF new
<1> QED BY <1>2, <1>3, <1>4, Zenon
-----------------------------------------------------------------------------
\* A solicitation that throws nothing: no rule without a daughter matches its
\* source in a parent, so the lookup of the reverse advertisement needs no route.
LEMMA ReverseSafe ==
  ASSUME NEW i \in Iface, NEW s \in Addr, NEW t \in Addr, RecvSolicit(i, s, t),
         NEW p \in Proxy, ReverseCalls(i, s, p), StatelessWires(p, s, sessions[p][s])
  PROVE  ReverseWires(i, s, p)
<1>1. ~ReverseThrows(i, s, p)
  BY Zenon DEF RecvSolicit, Throws
<1>2. \A r \in DOMAIN Rules[p] : ~Reads(p, s, r)
  BY <1>1, Zenon DEF ReverseThrows, ReverseCalls
<1>3. \A r \in DOMAIN Rules[p] : Rules[p][r].aut => ~HasDaughter(p, r)
  BY RulesAssumption, Zenon DEF HasDaughter
<1>4. ~HitsAuto(p, s)
  BY <1>2, <1>3, Zenon DEF HitsAuto, Visits, Reads
<1> QED BY <1>4, Zenon DEF ReverseWires

\* A solicitation: the reverse advertisement, then handle_solicit.
LEMMA SolicitRoutes ==
  ASSUME TypeOK, AllGood(sessions), AllWiring(sessions),
         NEW i \in Iface, NEW s \in Addr, NEW t \in Addr, RecvSolicit(i, s, t),
         NEW p \in Proxy, NEW x \in Addr
  PROVE  /\ Wiring(p, x, sessions'[p][x]) /\ LivesOn(sessions[p][x], sessions'[p][x])
         /\ x = s /\ ReverseWires(i, s, p) =>
              /\ Live(sessions'[p][x]) /\ sessions'[p][x].wired
              /\ sessions'[p][x].via = Unspec
         /\ sessions'[p][x].wired =>
              sessions[p][x].wired \/ (x = s /\ ReverseWires(i, s, p))
<1> DEFINE S == Reversed(i, s)
           old == sessions[p][x]
           new == sessions'[p][x]
           wires == x = s /\ ReverseWires(i, s, p)
<1>1. Good(p, old) /\ Wiring(p, x, old)
  BY Zenon DEF AllGood, AllWiring
<1>2. Good(p, S[p][x])
  BY ReversedGood, ZenonT(30) DEF AllGood
<1>3. /\ Wiring(p, x, S[p][x]) /\ LivesOn(old, S[p][x])
      /\ wires => Live(S[p][x]) /\ S[p][x].wired /\ S[p][x].via = Unspec
      /\ S[p][x].wired => old.wired \/ wires
  <2>1. CASE x = s /\ ReverseCalls(i, s, p)
    <3>1. S[p][x] = handle_stateless_advert(p, s, old, FALSE)
      BY <2>1 DEF Reversed
    <3>2. wires <=> StatelessWires(p, s, old)
      BY <2>1, ReverseSafe, Zenon DEF ReverseWires
    <3> HIDE DEF S, old, wires
    <3> QED BY <1>1, <2>1, <3>1, <3>2, StatelessWiring, Zenon
  <2>2. CASE ~(x = s /\ ReverseCalls(i, s, p))
    BY <1>1, <2>2, Zenon DEF Reversed, LivesOn, ReverseWires
  <2> QED BY <2>1, <2>2, Zenon
<1>4. Wiring(p, x, new) /\ LivesOn(S[p][x], new) /\ (new.wired => S[p][x].wired)
  <2>1. CASE x = t /\ p \in serves(i)
    <3>1. new = handle_solicit(p, t, S[p][t], s, RouteIface(S, i, t, p))
      BY <2>1 DEF RecvSolicit, Served
    <3>2. RouteIface(S, i, t, p) \in Iface \cup {NoIface}
      BY RouteIfaceType, Zenon
    <3> HIDE DEF S, new
    <3> QED BY <1>2, <1>3, <2>1, <3>1, <3>2, SolicitWiring, Zenon
  <2>2. CASE ~(x = t /\ p \in serves(i))
    <3>1. new = S[p][x]
      BY <2>2 DEF RecvSolicit, Served
    <3> QED BY <1>3, <3>1, Zenon DEF LivesOn
  <2> QED BY <2>1, <2>2, Zenon
<1> HIDE DEF S, old, new, wires
<1>5. LivesOn(old, new)
  BY <1>3, <1>4, LivesOnTwice, Zenon
<1>6. wires => Live(new) /\ new.wired /\ new.via = Unspec
  BY <1>3, <1>4, Zenon DEF LivesOn
<1> QED BY <1>3, <1>4, <1>5, <1>6, Zenon DEF old, new, wires

\* An advertisement.
LEMMA AdvertRoutes ==
  ASSUME TypeOK, AllGood(sessions), AllWiring(sessions),
         NEW i \in Iface, NEW s \in Addr, NEW t \in Addr, RecvAdvert(i, s, t),
         NEW p \in Proxy, NEW x \in Addr
  PROVE  /\ Wiring(p, x, sessions'[p][x]) /\ LivesOn(sessions[p][x], sessions'[p][x])
         /\ x = t /\ Wires(i, s, t, p) =>
              /\ Live(sessions'[p][x]) /\ sessions'[p][x].wired
              /\ sessions'[p][x].via = WireVia(t, s, AutoVia(i, t, p))
         /\ sessions'[p][x].wired =>
              sessions[p][x].wired \/ (x = t /\ Wires(i, s, t, p))
         /\ x = t /\ AdvertCalls(i, t, p) /\ Live(sessions'[p][x]) =>
              sessions'[p][x].status = "VALID"
<1> DEFINE old == sessions[p][x]
           new == sessions'[p][x]
           v == AutoVia(i, t, p)
           wires == x = t /\ Wires(i, s, t, p)
<1>1. Good(p, old) /\ Wiring(p, x, old)
  BY Zenon DEF AllGood, AllWiring
<1>2. CASE x = t /\ AdvertCalls(i, t, p)
  <2>1. new = handle_advert_from(p, t, old, s, v)
    BY <1>2, Zenon DEF RecvAdvert
  <2>2. v \in BOOLEAN /\ (NoAutovia => ~v)
    BY DEF AutoVia, NoAutovia
  <2>3. wires <=> AdvertWires(p, old, s)
    BY <1>2, Zenon DEF Wires
  <2> HIDE DEF old, new, v, wires
  <2>4. /\ Wiring(p, x, new) /\ LivesOn(old, new)
        /\ wires => Live(new) /\ new.wired /\ new.via = WireVia(t, s, v)
        /\ new.wired => old.wired \/ wires
        /\ Live(new) => new.status = "VALID"
    <3>1. Good(p, old) /\ Wiring(p, t, old)
      BY <1>1, <1>2, Zenon
    <3> DEFINE told == handle_advert_from(p, t, old, s, v)
    <3>2. /\ Wiring(p, t, told) /\ LivesOn(old, told)
          /\ AdvertWires(p, old, s) =>
               Live(told) /\ told.wired /\ told.via = WireVia(t, s, v)
          /\ told.wired => old.wired \/ AdvertWires(p, old, s)
          /\ Live(told) => told.status = "VALID"
      BY <2>2, <3>1, AdvertWiring
    <3> HIDE DEF told
    <3>3. new = told
      BY <2>1 DEF told
    <3> QED BY <1>2, <2>3, <3>2, <3>3, Zenon
  <2> QED BY <2>4, Zenon DEF old, new, v, wires
<1>3. CASE ~(x = t /\ AdvertCalls(i, t, p))
  <2>1. new = old
    BY <1>3, Zenon DEF RecvAdvert
  <2> HIDE DEF old, new
  <2>2. Wiring(p, x, new) /\ LivesOn(old, new) /\ (new.wired => old.wired)
    BY <1>1, <2>1, Zenon DEF LivesOn
  <2> QED BY <1>3, <2>2, Zenon DEF Wires, old, new
<1> QED BY <1>2, <1>3, Zenon

\* update_all.
LEMMA UpdateRoutes ==
  ASSUME TypeOK, AllGood(sessions), AllWiring(sessions), NEW c \in Clock, UpdateAll(c),
         NEW p \in Proxy, NEW x \in Addr
  PROVE  /\ Wiring(p, x, sessions'[p][x])
         /\ IF Removed(p, sessions[p][x], c[1]) THEN sessions'[p][x] = NoSession
            ELSE LivesOn(sessions[p][x], sessions'[p][x])
         /\ sessions'[p][x].wired => sessions[p][x].wired
<1>1. c[1] \in Int /\ c[2] \in Nat
  BY NdppdAssumption
<1>2. Good(p, sessions[p][x]) /\ Wiring(p, x, sessions[p][x])
  BY Zenon DEF AllGood, AllWiring
<1>3. sessions'[p][x] = update(p, sessions[p][x], c[1], c[2])
  BY Zenon DEF UpdateAll
<1> QED BY <1>1, <1>2, <1>3, UpdateWiring, ZenonT(30)

\* No session at all.
LEMMA NoSessionsWiring == AllWiring(NoSessions)
  BY NoSessionWiring, ZenonT(30) DEF AllWiring, NoSessions
\* The steps that change sessions, other than by ending the daemon.
LEMMA SessionSteps ==
  ASSUME [Next]_vars
  PROVE  \/ sessions' = sessions \/ sessions' = NoSessions
         \/ \E m \in Solicits : RecvSolicit(m[1], m[2], m[3])
         \/ \E m \in Adverts : RecvAdvert(m[1], m[2], m[3])
         \/ \E c \in Clock : UpdateAll(c)
  BY Zenon DEF Next, vars, IgnoreSolicit, AnswerLocal, AbortSolicit, IgnoreAdvert, Shutdown,
         Restart

\* Every step keeps the invariant.
LEMMA WiringStep ==
  ASSUME TypeOK, AllGood(sessions), AllWiring(sessions), [Next]_vars
  PROVE  AllWiring(sessions')
<1>1. /\ \A m \in Solicits : m[1] \in Iface /\ m[2] \in Addr /\ m[3] \in Addr
      /\ \A m \in Adverts : m[1] \in Iface /\ m[2] \in Addr /\ m[3] \in Addr
  BY NdppdAssumption, Zenon
<1>2. ASSUME NEW m \in Solicits, RecvSolicit(m[1], m[2], m[3])
      PROVE  AllWiring(sessions')
  BY <1>1, <1>2, SolicitRoutes, Zenon DEF AllWiring
<1>3. ASSUME NEW m \in Adverts, RecvAdvert(m[1], m[2], m[3])
      PROVE  AllWiring(sessions')
  BY <1>1, <1>3, AdvertRoutes, ZenonT(30) DEF AllWiring
<1>4. ASSUME NEW c \in Clock, UpdateAll(c)
      PROVE  AllWiring(sessions')
  BY <1>4, UpdateRoutes, Zenon DEF AllWiring
<1>5. ASSUME sessions' = NoSessions
      PROVE  AllWiring(sessions')
  BY <1>5, NoSessionsWiring
<1>6. ASSUME sessions' = sessions
      PROVE  AllWiring(sessions')
  BY <1>6
<1> QED BY <1>2, <1>3, <1>4, <1>5, <1>6, SessionSteps, Zenon

\* The inductive invariant, in every reachable state.
LEMMA WiringCorrect == Spec => [](TypeOK /\ AllGood(sessions) /\ AllWiring(sessions))
<1>1. Init => AllWiring(sessions)
  BY NoSessionsWiring DEF Init
<1>2. AllWiring(sessions)' <=> AllWiring(sessions')
  BY DEF AllWiring
<1>3. TypeOK /\ AllGood(sessions) /\ AllWiring(sessions) /\ [Next]_vars
        => AllWiring(sessions)'
  BY <1>2, WiringStep
<1> QED BY InitInv, NextInv, <1>1, <1>3, PTL DEF Spec

\* A step that leaves a session wired leaves its gateway alone.
LEMMA GatewayStep ==
  ASSUME TypeOK, AllGood(sessions), AllWiring(sessions), [Next]_vars,
         NEW p \in Proxy, NEW t \in Addr, sessions[p][t].wired, sessions'[p][t].wired
  PROVE  sessions'[p][t].via = sessions[p][t].via
<1>1. /\ \A m \in Solicits : m[1] \in Iface /\ m[2] \in Addr /\ m[3] \in Addr
      /\ \A m \in Adverts : m[1] \in Iface /\ m[2] \in Addr /\ m[3] \in Addr
  BY NdppdAssumption, Zenon
<1>2. Live(sessions[p][t])
  BY DEF AllGood, Good, Probing, Live, NoSession
<1>3. ASSUME LivesOn(sessions[p][t], sessions'[p][t])
      PROVE  sessions'[p][t].via = sessions[p][t].via
  BY <1>2, <1>3, Zenon DEF LivesOn
<1>4. ASSUME NEW m \in Solicits, RecvSolicit(m[1], m[2], m[3])
      PROVE  LivesOn(sessions[p][t], sessions'[p][t])
  BY <1>1, <1>4, SolicitRoutes, Zenon
<1>5. ASSUME NEW m \in Adverts, RecvAdvert(m[1], m[2], m[3])
      PROVE  LivesOn(sessions[p][t], sessions'[p][t])
  BY <1>1, <1>5, AdvertRoutes, Zenon
<1>6. ASSUME NEW c \in Clock, UpdateAll(c)
      PROVE  LivesOn(sessions[p][t], sessions'[p][t])
  <2>1. sessions'[p][t] # NoSession
    BY DEF NoSession
  <2> QED BY <1>6, <2>1, UpdateRoutes, ZenonT(30)
<1>7. sessions' # NoSessions
  BY DEF NoSessions, NoSession
<1> QED BY <1>3, <1>4, <1>5, <1>6, <1>7, SessionSteps, Zenon

\* handle_auto_wire never replaces the gateway of a session, for every
\* configuration and every order of messages.
THEOREM GatewayKept == Spec => WiredOnce
<1> DEFINE Kept == \A p \in Proxy, t \in Addr :
                     sessions[p][t].wired /\ sessions'[p][t].wired =>
                       sessions'[p][t].via = sessions[p][t].via
<1>1. TypeOK /\ AllGood(sessions) /\ AllWiring(sessions) /\ [Next]_vars => Kept
  BY GatewayStep, Zenon
<1> QED BY WiringCorrect, <1>1, PTL DEF Spec, WiredOnce
-----------------------------------------------------------------------------
(***************************************************************************)
(* Routes and their owners.  Owned(d) says that a session put a route to d *)
(* into the table, which is not enough for an induction: its destructor    *)
(* has to flush the route that is there now.                               *)
(***************************************************************************)
Removable(d) ==
  \E p \in Proxy, t \in Addr : flushes(sessions[p][t], t, d, routes[d])

OwnersFlush == \A d \in Addr : routes[d] # NoRoute /\ Owned(d) => Removable(d)

\* What one step may do to the route to d: take it away, or give it to a session
\* that will flush it; and as long as the route stays, a session that will flush
\* it stays and the only new owners are such sessions.
Accounted(d) ==
  /\ routes'[d] = routes[d] \/ routes'[d] = NoRoute \/ Removable(d)'
  /\ routes'[d] = routes[d] /\ Owned(d)' => Owned(d) \/ Removable(d)'
  /\ routes'[d] = routes[d] /\ routes[d] # NoRoute /\ Removable(d) => Removable(d)'

\* What one step does to a route that has no owner afterwards.
Abandoned(d) ==
  routes'[d] # NoRoute /\ ~Owned(d)' =>
    (routes'[d] = routes[d] /\ ~Owned(d)) \/ run' = "aborted"

\* A session that will flush a route owns it.
LEMMA RemovableOwned ==
  ASSUME NEW d \in Addr
  PROVE  Removable(d) => Owned(d)
  BY Zenon DEF Removable, Owned, flushes

\* The same, after a step.
LEMMA RemovableOwnedNext ==
  ASSUME NEW d \in Addr
  PROVE  Removable(d)' => Owned(d)'
  BY Zenon DEF Removable, Owned, flushes

\* The induction step for one route.
LEMMA AccountedKeeps ==
  ASSUME NEW d \in Addr, Accounted(d), OwnersFlush
  PROVE  /\ routes'[d] # NoRoute /\ Owned(d)' => Removable(d)'
         /\ Abandoned(d)
<1>1. Removable(d)' => Owned(d)'
  BY RemovableOwnedNext
<1>2. routes[d] # NoRoute /\ Owned(d) => Removable(d)
  BY DEF OwnersFlush
<1> QED BY <1>1, <1>2, Zenon DEF Accounted, Abandoned

\* A session that lives on still flushes what it would have flushed.
LEMMA FlusherStays ==
  ASSUME AllGood(sessions), NEW d \in Addr, NEW p \in Proxy, NEW t \in Addr,
         flushes(sessions[p][t], t, d, routes[d]), routes'[d] = routes[d],
         LivesOn(sessions[p][t], sessions'[p][t])
  PROVE  Removable(d)'
<1>1. Good(p, sessions[p][t]) /\ sessions[p][t].wired
  BY Zenon DEF AllGood, flushes
<1>2. Live(sessions[p][t])
  BY <1>1, WiredLives
<1>3. flushes(sessions'[p][t], t, d, routes'[d])
  BY <1>1, <1>2, Zenon DEF LivesOn, flushes
<1> QED BY <1>3, Zenon DEF Removable

\* The session (p, t) owns a route to d.
Owns(p, t, d) ==
  /\ sessions[p][t].wired
  /\ \/ d = t /\ routes[d].dev \in sessions[p][t].ifaces
     \/ d # Unspec /\ d = sessions[p][t].via

\* An owner that was wired before the step was an owner before it.
LEMMA OwnerBefore ==
  ASSUME AllGood(sessions), NEW d \in Addr, NEW p \in Proxy, NEW t \in Addr,
         Owns(p, t, d)', routes'[d] = routes[d], sessions[p][t].wired,
         LivesOn(sessions[p][t], sessions'[p][t])
  PROVE  Owned(d)
<1>1. Good(p, sessions[p][t])
  BY DEF AllGood
<1>2. Live(sessions[p][t])
  BY <1>1, WiredLives
<1>3. Owns(p, t, d)
  BY <1>2, Zenon DEF LivesOn, Owns
<1> QED BY <1>3, Zenon DEF Owned, Owns
-----------------------------------------------------------------------------
\* The route of a reverse advertisement is one that the session it wires flushes.
LEMMA ReverseFlusher ==
  ASSUME TypeOK, AllGood(sessions), AllWiring(sessions),
         NEW i \in Iface, NEW s \in Addr, NEW t \in Addr, RecvSolicit(i, s, t),
         NEW p \in Proxy, ReverseWires(i, s, p)
  PROVE  Removable(s)'
<1>1. /\ Wiring(p, s, sessions'[p][s]) /\ Live(sessions'[p][s])
      /\ sessions'[p][s].wired /\ sessions'[p][s].via = Unspec
  BY SolicitRoutes, Zenon
<1>2. i \in Daughters(p, s)
  BY Zenon DEF ReverseWires, ReverseCalls, Daughters, Relevant
<1>3. i \in sessions'[p][s].ifaces
  BY <1>1, <1>2 DEF Wiring, Fits
<1>4. routes'[s] = [dev |-> i, via |-> Unspec]
  BY DEF RecvSolicit, ReverseRoutes
<1>5. routes'[s].dev = i
  BY <1>4
<1>6. flushes(sessions'[p][s], s, s, routes'[s])
  BY <1>1, <1>3, <1>5, Zenon DEF flushes
<1> QED BY <1>6, Zenon DEF Removable

\* A solicitation.
LEMMA SolicitAccounted ==
  ASSUME TypeOK, AllGood(sessions), AllWiring(sessions),
         NEW i \in Iface, NEW s \in Addr, NEW t \in Addr, RecvSolicit(i, s, t),
         NEW d \in Addr
  PROVE  Accounted(d)
<1>1. routes'[d] = routes[d] \/ Removable(d)'
  <2>1. CASE d = s /\ \E p \in Proxy : ReverseWires(i, s, p)
    BY <2>1, ReverseFlusher, Zenon
  <2>2. CASE ~(d = s /\ \E p \in Proxy : ReverseWires(i, s, p))
    BY <2>2, Zenon DEF RecvSolicit, ReverseRoutes
  <2> QED BY <2>1, <2>2, Zenon
<1>2. ASSUME routes'[d] = routes[d], Owned(d)'
      PROVE  Owned(d) \/ Removable(d)'
  <2>1. PICK p \in Proxy, x \in Addr : Owns(p, x, d)'
    BY <1>2, Zenon DEF Owned, Owns
  <2>2. /\ LivesOn(sessions[p][x], sessions'[p][x])
        /\ sessions'[p][x].wired =>
             sessions[p][x].wired \/ (x = s /\ ReverseWires(i, s, p))
        /\ x = s /\ ReverseWires(i, s, p) => sessions'[p][x].via = Unspec
    BY SolicitRoutes, Zenon
  <2>3. CASE sessions[p][x].wired
    BY <1>2, <2>1, <2>2, <2>3, OwnerBefore, Zenon
  <2>4. CASE ~sessions[p][x].wired
    <3>1. x = s /\ ReverseWires(i, s, p) /\ d = x
      BY <2>1, <2>2, <2>4, Zenon DEF Owns
    <3> QED BY <3>1, ReverseFlusher, Zenon
  <2> QED BY <2>3, <2>4, Zenon
<1>3. ASSUME routes'[d] = routes[d], Removable(d)
      PROVE  Removable(d)'
  <2>1. PICK p \in Proxy, x \in Addr : flushes(sessions[p][x], x, d, routes[d])
    BY <1>3, Zenon DEF Removable
  <2>2. LivesOn(sessions[p][x], sessions'[p][x])
    BY SolicitRoutes, Zenon
  <2> QED BY <1>3, <2>1, <2>2, FlusherStays, Zenon
<1> QED BY <1>1, <1>2, <1>3, Zenon DEF Accounted

-----------------------------------------------------------------------------
\* Every nonempty set of numbers has a least element.
LEMMA LeastNat ==
  ASSUME NEW S \in SUBSET Nat, S # {}
  PROVE  \E m \in S : \A k \in S : m <= k
<1>1. IsWellFoundedOn(OpToRel(<, Nat), Nat)
  BY NatLessThanWellFounded, Zenon
<1>2. PICK m \in S : \A k \in S : ~(<<k, m>> \in OpToRel(<, Nat))
  BY <1>1, WFMin, Zenon
<1>3. \A k \in S : ~(k < m)
  BY <1>2, Zenon DEF OpToRel
<1> QED BY <1>3

\* Of the proxies that wire a target one is the last.
LEMMA LastWires ==
  ASSUME NEW i \in Iface, NEW s \in Addr, NEW t \in Addr,
         \E p \in Proxy : Wires(i, s, t, p)
  PROVE  \E p \in Proxy : /\ Wires(i, s, t, p)
                          /\ \A q \in p + 1 .. NProxy : ~Wires(i, s, t, q)
<1> DEFINE S == {n \in Nat : \E p \in Proxy : n = NProxy - p /\ Wires(i, s, t, p)}
<1>1. NProxy \in Nat
  BY SessionAssumption
<1>2. S # {}
  <2>1. PICK p \in Proxy : Wires(i, s, t, p)
    OBVIOUS
  <2>2. NProxy - p \in Nat
    BY <1>1 DEF Proxy
  <2> QED BY <2>1, <2>2, Zenon
<1>3. PICK m \in S : \A k \in S : m <= k
  BY <1>2, LeastNat, Zenon
<1>4. PICK p \in Proxy : m = NProxy - p /\ Wires(i, s, t, p)
  BY <1>3, Zenon
<1>5. ASSUME NEW q \in p + 1 .. NProxy, Wires(i, s, t, q)
      PROVE  FALSE
  <2>1. q \in Proxy /\ NProxy - q \in Nat
    BY <1>1 DEF Proxy
  <2>2. NProxy - q \in S
    BY <1>5, <2>1, Zenon
  <2>3. m <= NProxy - q
    BY <1>3, <2>2, Zenon
  <2>4. q \in Int /\ p \in Int /\ q > p
    BY <1>1 DEF Proxy
  <2> HIDE DEF S
  <2> QED BY <1>1, <1>4, <2>3, <2>4, SMTT(30)
<1> QED BY <1>4, <1>5, Zenon
\* The route to an address after an advertisement.
LEMMA AdvertTable ==
  ASSUME NEW i \in Iface, NEW s \in Addr, NEW t \in Addr, RecvAdvert(i, s, t),
         NEW d \in Addr
  PROVE  routes'[d] = AdvertRoute(i, s, t, d)
  BY Zenon DEF RecvAdvert

\* The route to the target is one that the last session to be wired flushes.
LEMMA TargetFlusher ==
  ASSUME TypeOK, AllGood(sessions), AllWiring(sessions),
         NEW i \in Iface, NEW s \in Addr, NEW t \in Addr, RecvAdvert(i, s, t),
         \E p \in Proxy : Wires(i, s, t, p)
  PROVE  Removable(t)'
<1> DEFINE wires(p) == Wires(i, s, t, p)
           last == CHOOSE p \in Proxy : wires(p) /\ \A q \in p + 1 .. NProxy : ~wires(q)
           v == WireVia(t, s, AutoVia(i, t, last))
<1>1. last \in Proxy /\ Wires(i, s, t, last)
  <2>1. \E p \in Proxy : wires(p) /\ \A q \in p + 1 .. NProxy : ~wires(q)
    BY LastWires, Zenon
  <2> QED BY <2>1, Zenon
<1>2. routes'[t] = [dev |-> i, via |-> v]
  <2>1. AdvertRoute(i, s, t, t) = [dev |-> i, via |-> v]
    BY DEF AdvertRoute
  <2> QED BY <2>1, AdvertTable, Zenon
<1> HIDE DEF last, v
<1>3. routes'[t].dev = i /\ routes'[t].via = v
  BY <1>2, SMTT(30)
<1>4. /\ Wiring(last, t, sessions'[last][t]) /\ Live(sessions'[last][t])
      /\ sessions'[last][t].wired /\ sessions'[last][t].via = v
  BY <1>1, AdvertRoutes DEF v
<1>5. i \in Daughters(last, t)
  BY <1>1, Zenon DEF Wires, AdvertCalls, Daughters
<1>6. i \in sessions'[last][t].ifaces
  BY <1>4, <1>5 DEF Wiring, Fits
<1>7. flushes(sessions'[last][t], t, t, routes'[t])
  BY <1>3, <1>4, <1>6, Zenon DEF flushes
<1> QED BY <1>1, <1>7, Zenon DEF Removable

\* So is the route to the gateway of a session that is wired, if the rule with
\* autovia is the first one.
LEMMA GatewayFlusher ==
  ASSUME AutoviaFirst, TypeOK, AllGood(sessions), AllWiring(sessions),
         NEW i \in Iface, NEW s \in Addr, NEW t \in Addr, RecvAdvert(i, s, t),
         NEW d \in Addr, d # t, d # Unspec,
         NEW p \in Proxy, Wires(i, s, t, p), WireVia(t, s, AutoVia(i, t, p)) = d
  PROVE  Removable(d)'
<1>1. AutoVia(i, t, p)
  BY Zenon DEF WireVia
<1>2. routes'[d] = [dev |-> i, via |-> Unspec]
  <2>1. AdvertRoute(i, s, t, d) = [dev |-> i, via |-> Unspec]
    BY DEF AdvertRoute
  <2> QED BY <2>1, AdvertTable, ZenonT(30)
<1>3. routes'[d].dev = i
  BY <1>2, SMTT(30)
<1>4. /\ Wiring(p, t, sessions'[p][t]) /\ Live(sessions'[p][t])
      /\ sessions'[p][t].wired /\ sessions'[p][t].via = d
  BY AdvertRoutes
<1>5. sessions'[p][t].front = i
  BY <1>1, <1>4, Zenon DEF Wiring, Fits
<1>6. flushes(sessions'[p][t], t, d, routes'[d])
  BY <1>3, <1>4, <1>5, Zenon DEF flushes
<1> QED BY <1>6, Zenon DEF Removable

\* An advertisement.
LEMMA AdvertAccounted ==
  ASSUME AutoviaFirst, TypeOK, AllGood(sessions), AllWiring(sessions),
         NEW i \in Iface, NEW s \in Addr, NEW t \in Addr, RecvAdvert(i, s, t),
         NEW d \in Addr
  PROVE  Accounted(d)
<1> DEFINE gateway(p) == Wires(i, s, t, p) /\ WireVia(t, s, AutoVia(i, t, p)) = d
<1>1. ASSUME \/ d = t /\ \E p \in Proxy : Wires(i, s, t, p)
             \/ d # Unspec /\ \E p \in Proxy : gateway(p)
      PROVE  Removable(d)'
  <2>1. CASE d = t
    <3>1. \E p \in Proxy : Wires(i, s, t, p)
      BY <1>1, Zenon
    <3> QED BY <2>1, <3>1, TargetFlusher, Zenon
  <2>2. CASE d # t
    <3>1. d # Unspec /\ \E p \in Proxy : gateway(p)
      BY <1>1, <2>2, Zenon
    <3> QED BY <2>2, <3>1, GatewayFlusher, Zenon
  <2> QED BY <2>1, <2>2, Zenon
<1>2. routes'[d] = routes[d] \/ Removable(d)'
  <2>1. CASE \/ d = t /\ \E p \in Proxy : Wires(i, s, t, p)
             \/ d # Unspec /\ \E p \in Proxy : gateway(p)
    BY <1>1, <2>1
  <2>2. CASE ~(\/ d = t /\ \E p \in Proxy : Wires(i, s, t, p)
               \/ d # Unspec /\ \E p \in Proxy : gateway(p))
    <3>1. AdvertRoute(i, s, t, d) = routes[d]
      BY <2>2 DEF AdvertRoute
    <3> QED BY <3>1, AdvertTable, Zenon
  <2> QED BY <2>1, <2>2, Zenon
<1>3. ASSUME routes'[d] = routes[d], Owned(d)'
      PROVE  Owned(d) \/ Removable(d)'
  <2>1. PICK p \in Proxy, x \in Addr : Owns(p, x, d)'
    BY <1>3, ZenonT(30) DEF Owned, Owns
  <2>2. /\ LivesOn(sessions[p][x], sessions'[p][x])
        /\ sessions'[p][x].wired =>
             sessions[p][x].wired \/ (x = t /\ Wires(i, s, t, p))
        /\ x = t /\ Wires(i, s, t, p) =>
             sessions'[p][x].via = WireVia(t, s, AutoVia(i, t, p))
    BY AdvertRoutes
  <2>3. CASE sessions[p][x].wired
    BY <1>3, <2>1, <2>2, <2>3, OwnerBefore, Zenon
  <2>4. CASE ~sessions[p][x].wired
    <3>1. x = t /\ Wires(i, s, t, p) /\ (d = t \/ (d # Unspec /\ gateway(p)))
      BY <2>1, <2>2, <2>4, Zenon DEF Owns
    <3> QED BY <1>1, <3>1, Zenon
  <2> QED BY <2>3, <2>4, Zenon
<1>4. ASSUME routes'[d] = routes[d], Removable(d)
      PROVE  Removable(d)'
  <2>1. PICK p \in Proxy, x \in Addr : flushes(sessions[p][x], x, d, routes[d])
    BY <1>4, Zenon DEF Removable
  <2>2. LivesOn(sessions[p][x], sessions'[p][x])
    BY AdvertRoutes, Zenon
  <2> QED BY <1>4, <2>1, <2>2, FlusherStays, Zenon
<1> QED BY <1>2, <1>3, <1>4, Zenon DEF Accounted
-----------------------------------------------------------------------------
\* What the destructor of a session flushes is gone.
LEMMA Flushed ==
  ASSUME NEW gone, NEW d \in Addr, NEW p \in Proxy, NEW t \in Addr, <<p, t>> \in gone,
         flushes(sessions[p][t], t, d, routes[d])
  PROVE  Unwired(gone)[d] = NoRoute
<1>1. <<p, t>>[1] = p /\ <<p, t>>[2] = t
  OBVIOUS
<1>2. \E k \in gone : flushes(sessions[k[1]][k[2]], k[2], d, routes[d])
  BY <1>1, Zenon
<1> QED BY <1>2, Zenon DEF Unwired

\* update_all flushes what the sessions it removes would leave behind.
LEMMA UpdateAccounted ==
  ASSUME TypeOK, AllGood(sessions), AllWiring(sessions),
         NEW c \in Clock, UpdateAll(c), NEW d \in Addr
  PROVE  Accounted(d)
<1> DEFINE gone == {k \in Proxy \X Addr : Removed(k[1], sessions[k[1]][k[2]], c[1])}
<1>1. routes' = Unwired(gone)
  BY Zenon DEF UpdateAll
<1>2. routes'[d] = routes[d] \/ routes'[d] = NoRoute
  BY <1>1, Zenon DEF Unwired
<1>3. ASSUME routes'[d] = routes[d], Owned(d)'
      PROVE  Owned(d)
  <2>1. PICK p \in Proxy, x \in Addr : Owns(p, x, d)'
    BY <1>3, Zenon DEF Owned, Owns
  <2>2. sessions'[p][x].wired /\ sessions[p][x].wired
    BY <2>1, UpdateRoutes, Zenon DEF Owns
  <2>3. sessions'[p][x] # NoSession
    BY <2>2 DEF NoSession
  <2>4. LivesOn(sessions[p][x], sessions'[p][x])
    BY <2>3, UpdateRoutes, Zenon
  <2> QED BY <1>3, <2>1, <2>2, <2>4, OwnerBefore, Zenon
<1>4. ASSUME routes'[d] = routes[d], routes[d] # NoRoute, Removable(d)
      PROVE  Removable(d)'
  <2>1. PICK p \in Proxy, x \in Addr : flushes(sessions[p][x], x, d, routes[d])
    BY <1>4, Zenon DEF Removable
  <2>2. <<p, x>> \notin gone
    BY <1>1, <1>4, <2>1, Flushed, Zenon
  <2>3. ~Removed(p, sessions[p][x], c[1])
    BY <2>2
  <2>4. LivesOn(sessions[p][x], sessions'[p][x])
    BY <2>3, UpdateRoutes, Zenon
  <2> QED BY <1>4, <2>1, <2>4, FlusherStays, Zenon
<1> QED BY <1>2, <1>3, <1>4, Zenon DEF Accounted

\* Without sessions nothing is owned.
LEMMA NobodyOwns ==
  ASSUME NEW d \in Addr, sessions' = NoSessions
  PROVE  ~Owned(d)'
<1>1. ~NoSession.wired
  BY DEF NoSession
<1>2. \A p \in Proxy, t \in Addr : sessions'[p][t] = NoSession
  BY Zenon DEF NoSessions
<1> QED BY <1>1, <1>2, Zenon DEF Owned

\* The end of main flushes what all sessions would leave behind.
LEMMA ShutdownAccounted ==
  ASSUME Shutdown, NEW d \in Addr
  PROVE  Accounted(d)
<1>1. routes' = Unwired(Proxy \X Addr)
  BY DEF Shutdown
<1>2. routes'[d] = routes[d] \/ routes'[d] = NoRoute
  BY <1>1, Zenon DEF Unwired
<1>3. ~Owned(d)'
  BY NobodyOwns, Zenon DEF Shutdown
<1>4. Removable(d) => routes'[d] = NoRoute
  <2>1. \A p \in Proxy, t \in Addr : <<p, t>> \in Proxy \X Addr
    OBVIOUS
  <2> QED BY <1>1, <2>1, Flushed, Zenon DEF Removable
<1> QED BY <1>2, <1>3, <1>4, Zenon DEF Accounted

\* Every step keeps OwnersFlush, and abandons no route unless it aborts.
LEMMA LeakStep ==
  ASSUME AutoviaFirst, TypeOK, AllGood(sessions), AllWiring(sessions), OwnersFlush,
         [Next]_vars, NEW d \in Addr
  PROVE  /\ routes'[d] # NoRoute /\ Owned(d)' => Removable(d)'
         /\ Abandoned(d)
<1>1. /\ \A m \in Solicits : m[1] \in Iface /\ m[2] \in Addr /\ m[3] \in Addr
      /\ \A m \in Adverts : m[1] \in Iface /\ m[2] \in Addr /\ m[3] \in Addr
  BY NdppdAssumption
<1>2. ASSUME NEW m \in Solicits, RecvSolicit(m[1], m[2], m[3]) PROVE Accounted(d)
  BY <1>1, <1>2, SolicitAccounted, Zenon
<1>3. ASSUME NEW m \in Adverts, RecvAdvert(m[1], m[2], m[3]) PROVE Accounted(d)
  BY <1>1, <1>3, AdvertAccounted, Zenon
<1>4. ASSUME NEW c \in Clock, UpdateAll(c) PROVE Accounted(d)
  BY <1>4, UpdateAccounted, Zenon
<1>5. ASSUME Shutdown PROVE Accounted(d)
  BY <1>5, ShutdownAccounted, Zenon
<1>6. ASSUME sessions' = sessions, routes' = routes PROVE Accounted(d)
  <2>1. Owned(d)' <=> Owned(d)
    BY <1>6, Zenon DEF Owned
  <2>2. Removable(d)' <=> Removable(d)
    BY <1>6, Zenon DEF Removable
  <2> QED BY <1>6, <2>1, <2>2, Zenon DEF Accounted
<1>7. ASSUME NEW m \in Solicits, AbortSolicit(m[1], m[2], m[3])
      PROVE  ~Owned(d)' /\ run' = "aborted"
  BY <1>7, NobodyOwns, Zenon DEF AbortSolicit
<1>8. \/ sessions' = sessions /\ routes' = routes
      \/ \E m \in Solicits : AbortSolicit(m[1], m[2], m[3])
      \/ Shutdown
      \/ \E m \in Solicits : RecvSolicit(m[1], m[2], m[3])
      \/ \E m \in Adverts : RecvAdvert(m[1], m[2], m[3])
      \/ \E c \in Clock : UpdateAll(c)
  BY Zenon DEF Next, vars, IgnoreSolicit, AnswerLocal, IgnoreAdvert, Restart
<1>9. Accounted(d) \/ (~Owned(d)' /\ run' = "aborted")
  BY <1>2, <1>3, <1>4, <1>5, <1>6, <1>7, <1>8, Zenon
<1> QED BY <1>9, AccountedKeeps, Zenon DEF Abandoned

\* The inductive invariant about the owners, in every reachable state.
LEMMA OwnersCorrect ==
  ASSUME AutoviaFirst
  PROVE  Spec => []OwnersFlush
<1>1. Init => OwnersFlush
  BY Zenon DEF Init, OwnersFlush
<1>2. TypeOK /\ AllGood(sessions) /\ AllWiring(sessions) /\ OwnersFlush /\ [Next]_vars
        => OwnersFlush'
  BY LeakStep, Zenon DEF OwnersFlush
<1> QED BY WiringCorrect, <1>1, <1>2, PTL DEF Spec

\* If a rule with autovia is the first of its proxy for the addresses it matches,
\* only a daemon that is aborted leaves routes behind, for every number of
\* proxies, rules and targets, and over any number of restarts.
THEOREM OnlyAbortsLeak ==
  ASSUME AutoviaFirst
  PROVE  Spec => LeaksOnlyOnAbort
<1> DEFINE Leaks == \A d \in Addr : routes'[d] # NoRoute /\ ~Owned(d)' =>
                      (routes'[d] = routes[d] /\ ~Owned(d)) \/ run' = "aborted"
<1>1. TypeOK /\ AllGood(sessions) /\ AllWiring(sessions) /\ OwnersFlush /\ [Next]_vars
        => Leaks
  BY LeakStep, Zenon DEF Abandoned
<1> QED BY WiringCorrect, OwnersCorrect, <1>1, PTL DEF Spec, LeaksOnlyOnAbort

\* Such a daemon that is never aborted leaves nothing behind: every route in the
\* kernel's table belongs to a session (~session, update_all).
THEOREM NothingLeaks ==
  ASSUME AutoviaFirst
  PROVE  Spec /\ []NeverAborts => []NoLeakedRoutes
<1>1. Init => NoLeakedRoutes
  BY Zenon DEF Init, NoLeakedRoutes
<1>2. TypeOK /\ AllGood(sessions) /\ AllWiring(sessions) /\ OwnersFlush /\ NoLeakedRoutes
        /\ NeverAborts /\ NeverAborts' /\ [Next]_vars => NoLeakedRoutes'
  BY LeakStep, Zenon DEF Abandoned, NoLeakedRoutes, NeverAborts
<1> QED BY WiringCorrect, OwnersCorrect, <1>1, <1>2, PTL DEF Spec
-----------------------------------------------------------------------------
\* Every rule has a daughter interface, or no rule of its proxy has one: the
\* configurations without auto rules in which static and iface rules do not meet.
Unmixed ==
  \A p \in Proxy : \A r \in DOMAIN Rules[p] :
    /\ ~Rules[p][r].aut
    /\ (\E q \in DOMAIN Rules[p] : HasDaughter(p, q)) => HasDaughter(p, r)

\* The pointers that handle_reverse_advert and find_or_create_session follow are
\* then never null.
LEMMA UnmixedNeverThrows ==
  ASSUME Unmixed, NEW S, NEW i \in Iface, NEW s \in Addr, NEW t \in Addr
  PROVE  ~Throws(S, i, s, t)
<1>1. ASSUME NEW p \in Proxy PROVE ~ReverseThrows(i, s, p)
  <2>1. SUFFICES ASSUME p \in parents(i) PROVE \A r \in DOMAIN Rules[p] : HasDaughter(p, r)
    BY Zenon DEF ReverseThrows, Reads
  <2>2. \E q \in DOMAIN Rules[p] : HasDaughter(p, q)
    BY <2>1, SessionAssumption, Zenon DEF parents, HasDaughter
  <2> QED BY <2>2, Zenon DEF Unmixed
<1>2. ASSUME NEW p \in Proxy PROVE ~ServeThrows(S, i, t, p)
  BY Zenon DEF Unmixed, ServeThrows, LooksUp, HitsAuto
<1> QED BY <1>1, <1>2, Zenon DEF Throws

\* A daemon with such rules is never aborted, whatever arrives and whatever the
\* route table holds (handle_reverse_advert, find_or_create_session, ptr.h).
THEOREM UnmixedNeverAborts ==
  ASSUME Unmixed
  PROVE  Spec => []NeverAborts
<1>1. Init => NeverAborts
  BY DEF Init, NeverAborts
<1>2. ASSUME NEW m \in Solicits PROVE ~AbortSolicit(m[1], m[2], m[3])
  <2>1. m[1] \in Iface /\ m[2] \in Addr /\ m[3] \in Addr
    BY NdppdAssumption
  <2> QED BY <2>1, UnmixedNeverThrows, Zenon DEF AbortSolicit
<1>3. NeverAborts /\ [Next]_vars => NeverAborts'
  BY <1>2, Zenon DEF NeverAborts, Next, vars, IgnoreSolicit, AnswerLocal, RecvSolicit,
         IgnoreAdvert, RecvAdvert, UpdateAll, Shutdown, Restart
<1> QED BY <1>1, <1>3, PTL DEF Spec

\* Its table is then clean in every reachable state: each route belongs to a
\* session that exists, with gateways and without.
THEOREM UnmixedNothingLeaks ==
  ASSUME Unmixed, AutoviaFirst
  PROVE  Spec => []NoLeakedRoutes
  BY UnmixedNeverAborts, NothingLeaks, PTL

-----------------------------------------------------------------------------
\* Every step leaves an advertisement on a monitored interface resolved.
LEMMA MonitoredStep ==
  ASSUME ~any_auto, TypeOK, AllGood(sessions), AllWiring(sessions),
         MonitoredAdvertsResolve, [Next]_vars
  PROVE  MonitoredAdvertsResolve'
<1>1. ASSUME NEW m \in Adverts, RecvAdvert(m[1], m[2], m[3])
      PROVE  MonitoredAdvertsResolve'
  <2> DEFINE i == m[1]
             s == m[2]
             t == m[3]
  <2>1. i \in Iface /\ s \in Addr /\ t \in Addr
    BY NdppdAssumption, Zenon
  <2>2. inp'.ifa = i /\ inp'.taddr = t
    BY <1>1 DEF RecvAdvert, Input
  <2> HIDE DEF i, s, t
  <2>3. RecvAdvert(i, s, t)
    BY <1>1, Zenon DEF i, s, t
  <2>4. ASSUME NEW p \in Proxy, Live(sessions'[p][t]), i \in sessions'[p][t].ifaces
        PROVE  sessions'[p][t].status = "VALID"
    <3>1. Wiring(p, t, sessions'[p][t])
      BY <2>1, <2>3, AdvertRoutes, Zenon
    <3>2. i \in Daughters(p, t)
      BY <2>4, <3>1 DEF Wiring, Fits
    <3>3. AdvertCalls(i, t, p)
      BY <3>2, Zenon DEF Daughters, AdvertCalls
    <3> QED BY <2>1, <2>3, <2>4, <3>3, AdvertRoutes, SMTT(30)
  <2> QED BY <2>2, <2>4, Zenon DEF MonitoredAdvertsResolve
<1>2. ASSUME NEW m \in Adverts, IgnoreAdvert(m[1], m[2], m[3])
      PROVE  MonitoredAdvertsResolve'
  <2>1. inp'.saddr = m[2]
    BY <1>2 DEF IgnoreAdvert, Input
  <2> QED BY <1>2, <2>1, Zenon DEF IgnoreAdvert, is_local, MonitoredAdvertsResolve
<1>3. ASSUME inp'.type # "NA"
      PROVE  MonitoredAdvertsResolve'
  BY <1>3, Zenon DEF MonitoredAdvertsResolve
<1>4. ASSUME UNCHANGED vars
      PROVE  MonitoredAdvertsResolve'
  BY <1>4, Zenon DEF MonitoredAdvertsResolve, vars, is_local
<1>5. \/ \E m \in Adverts : RecvAdvert(m[1], m[2], m[3]) \/ IgnoreAdvert(m[1], m[2], m[3])
      \/ inp'.type # "NA"
      \/ UNCHANGED vars
  <2>1. \A k, i, s, t : Input(k, i, s, t).type = k
    BY DEF Input
  <2>2. NoInput.type = "none"
    BY <2>1, Zenon DEF NoInput
  <2>3. "NS" # "NA" /\ "none" # "NA"
    OBVIOUS
  <2>4. ASSUME NEW m \in Solicits,
               \/ IgnoreSolicit(m[1], m[2], m[3]) \/ AnswerLocal(m[1], m[2], m[3])
               \/ RecvSolicit(m[1], m[2], m[3]) \/ AbortSolicit(m[1], m[2], m[3])
        PROVE  inp'.type # "NA"
    <3>1. inp' = Input("NS", m[1], m[2], m[3])
      BY <2>4, Zenon DEF IgnoreSolicit, AnswerLocal, RecvSolicit, AbortSolicit
    <3> QED BY <2>1, <2>3, <3>1, Zenon
  <2>5. ASSUME (\E c \in Clock : UpdateAll(c)) \/ Shutdown \/ Restart
        PROVE  inp'.type # "NA"
    BY <2>2, <2>3, <2>5, Zenon DEF UpdateAll, Shutdown, Restart
  <2> QED BY <2>4, <2>5, Zenon DEF Next
<1> QED BY <1>1, <1>2, <1>3, <1>4, <1>5, Zenon

\* Without auto rules a session hears the answer of its target on every interface
\* it monitors, whatever proxies and rules there are: the interfaces it was given
\* are those for which poll_all dispatches advertisements to its proxy.
THEOREM MonitoredCorrect ==
  ASSUME ~any_auto
  PROVE  Spec => []MonitoredAdvertsResolve
<1>1. Init => MonitoredAdvertsResolve
  BY DEF Init, NoInput, Input, MonitoredAdvertsResolve
<1>2. TypeOK /\ AllGood(sessions) /\ AllWiring(sessions) /\ MonitoredAdvertsResolve
        /\ [Next]_vars => MonitoredAdvertsResolve'
  BY MonitoredStep, Zenon
<1> QED BY WiringCorrect, <1>1, <1>2, PTL DEF Spec
-----------------------------------------------------------------------------
\* No target has rules of two proxies with autowire.
Unshared ==
  \A p \in Proxy, q \in Proxy, t \in Addr :
    Opt[p].autowire /\ Opt[q].autowire /\ HasRule(p, t) /\ HasRule(q, t) => p = q

\* Then only one session of a target is wired, and it monitors its daughters.
LEMMA OneWired ==
  ASSUME Unshared, NEW S, AllGood(S), AllWiring(S), NEW p \in Proxy, NEW q \in Proxy,
         NEW t \in Addr, S[p][t].wired, S[q][t].wired
  PROVE  p = q /\ Daughters(p, t) \subseteq S[p][t].ifaces
<1>1. Live(S[p][t]) /\ Live(S[q][t])
  BY WiredLives, Zenon DEF AllGood
<1>2. /\ Opt[p].autowire /\ HasRule(p, t) /\ Daughters(p, t) \subseteq S[p][t].ifaces
      /\ Opt[q].autowire /\ HasRule(q, t)
  BY <1>1, Zenon DEF AllWiring, Wiring, Fits
<1> QED BY <1>2, Zenon DEF Unshared

\* A session that is wired through a step at which its route stays.
LEMMA RouteStays ==
  ASSUME AllGood(sessions), WiredMeansRouted, NEW p \in Proxy, NEW t \in Addr,
         sessions[p][t].wired, LivesOn(sessions[p][t], sessions'[p][t]),
         routes'[t] = routes[t]
  PROVE  routes'[t].dev \in sessions'[p][t].ifaces
<1>1. Live(sessions[p][t])
  BY WiredLives, Zenon DEF AllGood
<1> QED BY <1>1, Zenon DEF WiredMeansRouted, LivesOn

\* A solicitation.
LEMMA SolicitRouted ==
  ASSUME Unshared, TypeOK, AllGood(sessions), AllWiring(sessions), WiredMeansRouted,
         AllGood(sessions'), AllWiring(sessions'),
         NEW i \in Iface, NEW s \in Addr, NEW x \in Addr, RecvSolicit(i, s, x),
         NEW p \in Proxy, NEW t \in Addr, sessions'[p][t].wired
  PROVE  routes'[t].dev \in sessions'[p][t].ifaces
<1>1. /\ LivesOn(sessions[p][t], sessions'[p][t])
      /\ sessions[p][t].wired \/ (t = s /\ ReverseWires(i, s, p))
  BY SolicitRoutes, Zenon
<1>2. CASE t = s /\ \E q \in Proxy : ReverseWires(i, s, q)
  <2>1. PICK q \in Proxy : ReverseWires(i, s, q)
    BY <1>2
  <2>2. sessions'[q][t].wired
    BY <1>2, <2>1, SolicitRoutes, Zenon
  <2>3. p = q /\ Daughters(p, t) \subseteq sessions'[p][t].ifaces
    BY <2>2, OneWired
  <2>4. i \in Daughters(q, t)
    BY <1>2, <2>1, Zenon DEF ReverseWires, ReverseCalls, Daughters, Relevant
  <2>5. routes'[t] = [dev |-> i, via |-> Unspec]
    BY <1>2, Zenon DEF RecvSolicit, ReverseRoutes
  <2>6. routes'[t].dev = i
    BY <2>5
  <2> QED BY <2>3, <2>4, <2>6
<1>3. CASE ~(t = s /\ \E q \in Proxy : ReverseWires(i, s, q))
  <2>1. routes'[t] = routes[t]
    BY <1>3, Zenon DEF RecvSolicit, ReverseRoutes
  <2> QED BY <1>1, <1>3, <2>1, RouteStays, Zenon
<1> QED BY <1>2, <1>3, Zenon

\* An advertisement.
LEMMA AdvertRouted ==
  ASSUME NoAutovia, Unshared, TypeOK, AllGood(sessions), AllWiring(sessions),
         WiredMeansRouted, AllGood(sessions'), AllWiring(sessions'),
         NEW i \in Iface, NEW s \in Addr, NEW x \in Addr, RecvAdvert(i, s, x),
         NEW p \in Proxy, NEW t \in Addr, sessions'[p][t].wired
  PROVE  routes'[t].dev \in sessions'[p][t].ifaces
<1>1. /\ LivesOn(sessions[p][t], sessions'[p][t])
      /\ sessions[p][t].wired \/ (t = x /\ Wires(i, s, x, p))
  BY AdvertRoutes, Zenon
<1>2. \A q \in Proxy : WireVia(x, s, AutoVia(i, x, q)) = Unspec
  BY Zenon DEF NoAutovia, AutoVia, WireVia
<1>3. routes'[t] = AdvertRoute(i, s, x, t)
  BY AdvertTable, Zenon
<1>4. CASE t = x /\ \E q \in Proxy : Wires(i, s, x, q)
  <2>1. PICK q \in Proxy : Wires(i, s, x, q)
    BY <1>4, Zenon
  <2>2. sessions'[q][t].wired
    BY <1>4, <2>1, AdvertRoutes, Zenon
  <2>3. p = q /\ Daughters(p, t) \subseteq sessions'[p][t].ifaces
    BY <2>2, OneWired
  <2>4. i \in Daughters(q, t)
    BY <1>4, <2>1, Zenon DEF Wires, AdvertCalls, Daughters
  <2>5. routes'[t].dev = i
    BY <1>3, <1>4 DEF AdvertRoute
  <2> QED BY <2>3, <2>4, <2>5, SMTT(30)
<1>5. CASE ~(t = x /\ \E q \in Proxy : Wires(i, s, x, q))
  <2>1. routes'[t] = routes[t]
    <3>1. ~(t # Unspec /\ \E q \in Proxy : /\ Wires(i, s, x, q)
                                            /\ WireVia(x, s, AutoVia(i, x, q)) = t)
      BY <1>2, Zenon
    <3>2. AdvertRoute(i, s, x, t) = routes[t]
      BY <1>5, <3>1 DEF AdvertRoute
    <3> QED BY <1>3, <3>2, Zenon
  <2> QED BY <1>1, <1>5, <2>1, RouteStays, Zenon
<1> QED BY <1>4, <1>5, ZenonT(30)

\* update_all: a session that goes flushes its own route only.
LEMMA UpdateRouted ==
  ASSUME NoAutovia, Unshared, TypeOK, AllGood(sessions), AllWiring(sessions),
         WiredMeansRouted, NEW c \in Clock, UpdateAll(c),
         NEW p \in Proxy, NEW t \in Addr, sessions'[p][t].wired
  PROVE  routes'[t].dev \in sessions'[p][t].ifaces
<1> DEFINE gone == {k \in Proxy \X Addr : Removed(k[1], sessions[k[1]][k[2]], c[1])}
<1>1. sessions[p][t].wired
  BY UpdateRoutes, Zenon
<1>2. sessions'[p][t] # NoSession
  BY DEF NoSession
<1>3. LivesOn(sessions[p][t], sessions'[p][t]) /\ ~Removed(p, sessions[p][t], c[1])
  BY <1>2, UpdateRoutes, Zenon
<1>4. ASSUME NEW k \in gone, flushes(sessions[k[1]][k[2]], k[2], t, routes[t])
      PROVE  FALSE
  <2>1. k[1] \in Proxy /\ k[2] \in Addr /\ Removed(k[1], sessions[k[1]][k[2]], c[1])
    OBVIOUS
  <2>2. k[2] = t /\ sessions[k[1]][k[2]].wired
    BY <1>4, <2>1, ZenonT(30) DEF flushes, AllWiring, Wiring
  <2>3. k[1] = p
    <3>1. sessions[k[1]][t].wired
      BY <2>2, Zenon
    <3> QED BY <1>1, <2>1, <3>1, OneWired
  <2> QED BY <1>3, <2>1, <2>2, <2>3, Zenon
<1>5. routes'[t] = routes[t]
  BY <1>4, Zenon DEF UpdateAll, Unwired
<1> QED BY <1>1, <1>3, <1>5, RouteStays, Zenon

\* Every step keeps the routes of the wired sessions.
LEMMA RoutedStep ==
  ASSUME NoAutovia, Unshared, TypeOK, AllGood(sessions), AllWiring(sessions),
         WiredMeansRouted, AllGood(sessions'), AllWiring(sessions'), [Next]_vars,
         NEW p \in Proxy, NEW t \in Addr, sessions'[p][t].wired
  PROVE  routes'[t].dev \in sessions'[p][t].ifaces
<1>1. /\ \A m \in Solicits : m[1] \in Iface /\ m[2] \in Addr /\ m[3] \in Addr
      /\ \A m \in Adverts : m[1] \in Iface /\ m[2] \in Addr /\ m[3] \in Addr
  BY NdppdAssumption
<1>2. ASSUME NEW m \in Solicits, RecvSolicit(m[1], m[2], m[3])
      PROVE  routes'[t].dev \in sessions'[p][t].ifaces
  BY <1>1, <1>2, SolicitRouted, Zenon
<1>3. ASSUME NEW m \in Adverts, RecvAdvert(m[1], m[2], m[3])
      PROVE  routes'[t].dev \in sessions'[p][t].ifaces
  BY <1>1, <1>3, AdvertRouted, SMTT(30)
<1>4. ASSUME NEW c \in Clock, UpdateAll(c)
      PROVE  routes'[t].dev \in sessions'[p][t].ifaces
  BY <1>4, UpdateRouted, Zenon
<1>5. ASSUME sessions' = NoSessions
      PROVE  FALSE
  BY <1>5 DEF NoSessions, NoSession
<1>6. ASSUME sessions' = sessions, routes' = routes
      PROVE  routes'[t].dev \in sessions'[p][t].ifaces
  BY <1>6, Zenon DEF WiredMeansRouted
<1>7. \/ sessions' = sessions /\ routes' = routes
      \/ sessions' = NoSessions
      \/ \E m \in Solicits : RecvSolicit(m[1], m[2], m[3])
      \/ \E m \in Adverts : RecvAdvert(m[1], m[2], m[3])
      \/ \E c \in Clock : UpdateAll(c)
  BY Zenon DEF Next, vars, IgnoreSolicit, AnswerLocal, AbortSolicit, IgnoreAdvert, Shutdown,
         Restart
<1> QED BY <1>2, <1>3, <1>4, <1>5, <1>6, <1>7, ZenonT(30)

\* Without gateways, and if no target is wired by two proxies, a session that
\* considers itself wired has its route over one of its interfaces: what the end
\* of another session flushes never hits it (handle_auto_unwire, update_all).
THEOREM RoutedCorrect ==
  ASSUME NoAutovia, Unshared
  PROVE  Spec => []WiredMeansRouted
<1> DEFINE I == TypeOK /\ AllGood(sessions) /\ AllWiring(sessions)
<1>1. Init => WiredMeansRouted
  BY DEF Init, NoSessions, NoSession, WiredMeansRouted
<1>2. AllGood(sessions)' <=> AllGood(sessions')
  BY DEF AllGood
<1>3. AllWiring(sessions)' <=> AllWiring(sessions')
  BY DEF AllWiring
<1>4. I /\ I' /\ WiredMeansRouted /\ [Next]_vars => WiredMeansRouted'
  BY <1>2, <1>3, RoutedStep, Zenon DEF WiredMeansRouted
<1> QED BY WiringCorrect, <1>1, <1>4, PTL DEF Spec
=============================================================================
