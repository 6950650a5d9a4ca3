---------------------------- MODULE NdppdProofs -----------------------------
(***************************************************************************)
(* Theorems about the ndppd daemon, for every number of proxies, every     *)
(* configuration, every set of messages and every clock: the inductive     *)
(* invariant, how old the knowledge behind an answer is, and how long a    *)
(* session can live.                                                       *)
(***************************************************************************)
EXTENDS Ndppd, TLAPS

(***************************************************************************)
(* The operations on one session return a session.  The new values of the  *)
(* fields are hidden behind names where arithmetic would be in the way of  *)
(* the record.                                                             *)
(***************************************************************************)
\* The options of a proxy have the types that the setters of proxy.cc ensure.
LEMMA OptType ==
  ASSUME NEW p \in Proxy
  PROVE  /\ Opt[p].ttl \in Nat /\ Opt[p].deadtime \in Nat
         /\ Opt[p].timeout \in Nat /\ Opt[p].retries \in Int
         /\ Opt[p].keepalive \in BOOLEAN /\ Opt[p].autowire \in BOOLEAN
         /\ Opt[p].router \in BOOLEAN
  BY SessionAssumption DEF Options

\* An absent session is one (NoSession stands for "not in the list").
LEMMA NoSessionType == NoSession \in Session
  BY SessionAssumption DEF NoSession, Session, Status

\* session::create.
LEMMA CreateType ==
  ASSUME NEW p \in Proxy, NEW is \in SUBSET Iface, NEW f \in Iface \cup {NoIface}
  PROVE  create(p, is, f) \in Session
<1> DEFINE x == Opt[p].ttl
<1>1. x \in Int
  BY OptType
<1> HIDE DEF x
<1>2. [NoSession EXCEPT !.status = "WAITING", !.ttl = x, !.ifaces = is,
                        !.front = f] \in Session
  BY <1>1, NoSessionType, Zenon DEF Session, Status
<1> QED BY <1>2 DEF create, x

\* session::touch.
LEMMA TouchType ==
  ASSUME NEW p \in Proxy, NEW se \in Session
  PROVE  touch(p, se) \in Session
<1> DEFINE x == Opt[p].timeout
           n == se.tries + 1
<1>1. x \in Int /\ n \in Nat
  BY OptType DEF Session
<1> HIDE DEF x, n
<1>2. [se EXCEPT !.touched = TRUE, !.ttl = x, !.tries = n] \in Session
  BY <1>1, Zenon DEF Session
<1>3. [se EXCEPT !.touched = TRUE] \in Session
  BY Zenon DEF Session
<1> QED BY <1>2, <1>3 DEF touch, x, n

\* session::add_pending.
LEMMA PendingType ==
  ASSUME NEW se \in Session, NEW s \in Addr
  PROVE  add_pending(se, s) \in Session
  BY DEF add_pending, Session

\* session::handle_advert().
LEMMA AdvertType ==
  ASSUME NEW p \in Proxy, NEW se \in Session
  PROVE  handle_advert(p, se) \in Session
<1> DEFINE x == Opt[p].ttl
           z == 0
           none == {}
<1>1. x \in Int /\ z \in Nat /\ none \in SUBSET Addr
  BY OptType
<1> HIDE DEF x, z, none
<1>2. [se EXCEPT !.status = "VALID", !.ttl = x, !.fails = z, !.pending = none,
                 !.age = z, !.tries = z] \in Session
  BY <1>1, Zenon DEF Session, Status
<1> QED BY <1>2 DEF handle_advert, x, z, none

\* session::handle_auto_wire.
LEMMA WireType ==
  ASSUME NEW se \in Session, NEW t \in Addr, NEW s \in Addr, NEW v \in BOOLEAN
  PROVE  handle_auto_wire(se, t, s, v) \in Session
  BY SessionAssumption, Zenon DEF handle_auto_wire, WireVia, Session

\* An expired session that stays in the list (update_all).
LEMMA ExpiredType ==
  ASSUME NEW p \in Proxy, NEW se \in Session
  PROVE  Expired(p, se) \in Session
<1> DEFINE x == Opt[p].timeout
           y == Opt[p].deadtime
           m == se.fails + 1
           n == se.tries + 1
           z == 0
<1>1. x \in Int /\ y \in Int /\ m \in Nat /\ n \in Nat /\ z \in Nat
  BY OptType DEF Session
<1> HIDE DEF x, y, m, n, z
<1>2. CASE Retries(p, se)
  <2>1. [se EXCEPT !.ttl = x, !.fails = m, !.tries = n] \in Session
    BY <1>1, Zenon DEF Session
  <2> QED BY <2>1, <1>2 DEF Expired, Retries, Renews, x, m, n
<1>3. CASE se.status = "WAITING" /\ ~Retries(p, se)
  <2>1. [se EXCEPT !.status = "INVALID", !.ttl = y] \in Session
    BY <1>1, Zenon DEF Session, Status
  <2> QED BY <2>1, <1>3 DEF Expired, Renews, y
<1>4. CASE Renews(p, se)
  <2>1. [se EXCEPT !.status = "RENEWING", !.ttl = x, !.fails = z,
                   !.touched = FALSE, !.tries = n] \in Session
    BY <1>1, Zenon DEF Session, Status
  <2> QED BY <2>1, <1>4 DEF Expired, Retries, Renews, x, n, z
<1>5. CASE ~Retries(p, se) /\ se.status # "WAITING" /\ ~Renews(p, se)
  BY <1>5, NoSessionType DEF Expired
<1> QED BY <1>2, <1>3, <1>4, <1>5

\* The loop body of session::update_all.
LEMMA UpdateType ==
  ASSUME NEW p \in Proxy, NEW se \in Session, NEW e \in Int, NEW r \in Nat
  PROVE  update(p, se, e, r) \in Session
<1> DEFINE aged == [se EXCEPT !.age = @ + r]
<1>1. aged \in Session
  BY DEF Session
<1>2. Expired(p, aged) \in Session
  BY <1>1, ExpiredType
<1>3. [aged EXCEPT !.ttl = @ - e] \in Session
  <2> HIDE DEF aged
  <2> DEFINE x == aged.ttl - e
  <2>1. x \in Int
    BY <1>1 DEF Session
  <2> HIDE DEF x
  <2>2. [aged EXCEPT !.ttl = x] \in Session
    BY <1>1, <2>1, Zenon DEF Session
  <2> QED BY <2>2 DEF x
<1> QED
  BY <1>2, <1>3, NoSessionType DEF update

-----------------------------------------------------------------------------
(***************************************************************************)
(* The operations on one session preserve the invariant of a session.      *)
(***************************************************************************)
Good(p, se) ==
  /\ se \in Session
  /\ Probing(p, se)
  /\ SteadyClock => se.age + se.ttl <= AgeLimit(p, se)

\* The limits are natural numbers.
LEMMA LimitType ==
  ASSUME NEW p \in Proxy
  PROVE  MaxFails(p) \in Nat /\ Period(p) \in Nat /\ MaxStep \in Nat
  BY OptType, NdppdAssumption DEF MaxFails, Period

\* Multiples of a period.
LEMMA NextMultiple ==
  ASSUME NEW f \in Nat, NEW c \in Nat
  PROVE  f * c \in Nat /\ (f + 1) * c = f * c + c
  OBVIOUS

\* Fewer periods take no longer.
LEMMA SmallerMultiple ==
  ASSUME NEW f \in Nat, NEW g \in Nat, NEW c \in Nat, f <= g
  PROVE  f * c <= g * c
  OBVIOUS

\* An absent session.
LEMMA NoSessionGood ==
  ASSUME NEW p \in Proxy
  PROVE  Good(p, NoSession)
<1>1. Probing(p, NoSession)
  BY LimitType DEF Probing, NoSession
<1>2. NoSession.age + NoSession.ttl <= AgeLimit(p, NoSession)
  BY OptType DEF AgeLimit, NoSession
<1> QED BY <1>1, <1>2, NoSessionType DEF Good

\* session::create.
LEMMA CreateGood ==
  ASSUME NEW p \in Proxy, NEW is \in SUBSET Iface, NEW f \in Iface \cup {NoIface}
  PROVE  Good(p, create(p, is, f))
<1> DEFINE se == create(p, is, f)
<1>1. se \in Session
  BY CreateType
<1>2. /\ se.status = "WAITING" /\ se.ttl = Opt[p].ttl /\ se.fails = 0
      /\ se.tries = 0 /\ se.touched = FALSE /\ se.age = 0
  BY DEF create, NoSession
<1> HIDE DEF se
<1>3. Probing(p, se)
  BY <1>2, LimitType, OptType DEF Probing, Held
<1>4. se.age + se.ttl <= AgeLimit(p, se)
  <2>1. AgeLimit(p, se) = Opt[p].ttl + 0 * Period(p) + 0 * Opt[p].timeout
    BY <1>2 DEF AgeLimit, Held
  <2> QED BY <1>2, <2>1, LimitType, OptType
<1>5. Good(p, se)
  BY <1>1, <1>3, <1>4 DEF Good
<1> QED BY <1>5 DEF se

\* session::touch.
LEMMA TouchGood ==
  ASSUME NEW p \in Proxy, NEW se, Good(p, se), Live(se)
  PROVE  Good(p, touch(p, se))
<1> DEFINE new == touch(p, se)
<1>1. se \in Session /\ new \in Session
  BY TouchType DEF Good
<1>2. /\ new.status = se.status /\ new.fails = se.fails /\ new.age = se.age
      /\ new.pending = se.pending /\ new.touched = TRUE
      /\ new.ttl = IF TouchProbes(se) THEN Opt[p].timeout ELSE se.ttl
      /\ new.tries = IF TouchProbes(se) THEN se.tries + 1 ELSE se.tries
  BY <1>1 DEF touch, Session
<1> HIDE DEF new
<1>3. Probing(p, new)
  BY <1>1, <1>2, OptType, LimitType
     DEF Good, Probing, TouchProbes, Unresolved, Held, Live, Session, Status
<1>4. ASSUME SteadyClock
      PROVE  new.age + new.ttl <= AgeLimit(p, new)
  <2>1. se.age + se.ttl <= AgeLimit(p, se) /\ se.ttl >= 0
    BY <1>4 DEF Good, Probing
  <2>2. CASE TouchProbes(se)
    <3>1. AgeLimit(p, new) = AgeLimit(p, se) + Opt[p].timeout
      <4> DEFINE x == se.fails * Period(p)
                 y == MaxFails(p) * Period(p)
      <4>1. x \in Nat /\ y \in Nat
        BY <1>1, LimitType, NextMultiple DEF Session
      <4>2. Held(se) = 0 /\ Held(new) = 1
        BY <1>2, <2>2 DEF Held, TouchProbes
      <4>3. CASE se.status = "WAITING"
        <5>1. AgeLimit(p, new) = Opt[p].ttl + x + 1 * Opt[p].timeout
          BY <1>2, <4>2, <4>3 DEF AgeLimit
        <5>2. AgeLimit(p, se) = Opt[p].ttl + x + 0 * Opt[p].timeout
          BY <4>2, <4>3 DEF AgeLimit
        <5> QED BY <5>1, <5>2, <4>1, OptType
      <4>4. CASE se.status = "INVALID"
        <5>1. AgeLimit(p, new) = Opt[p].ttl + Opt[p].deadtime + y + MaxStep + 1 * Opt[p].timeout
          BY <1>2, <4>2, <4>4 DEF AgeLimit
        <5>2. AgeLimit(p, se) = Opt[p].ttl + Opt[p].deadtime + y + MaxStep + 0 * Opt[p].timeout
          BY <4>2, <4>4 DEF AgeLimit
        <5> QED BY <5>1, <5>2, <4>1, OptType, LimitType
      <4> QED BY <2>2, <4>3, <4>4 DEF TouchProbes, Unresolved
    <3>2. AgeLimit(p, se) \in Int
      BY <1>1, LimitType, NextMultiple, OptType DEF AgeLimit, Held, Session
    <3> QED BY <1>1, <1>2, <2>1, <2>2, <3>1, <3>2, OptType DEF Session
  <2>3. CASE ~TouchProbes(se)
    <3>1. AgeLimit(p, se) <= AgeLimit(p, new)
      BY <1>1, <1>2, <2>3, LimitType, NextMultiple, OptType
         DEF AgeLimit, Held, TouchProbes, Unresolved, Session
    <3>2. AgeLimit(p, se) \in Int /\ AgeLimit(p, new) \in Int
      BY <1>1, LimitType, NextMultiple, OptType DEF AgeLimit, Held, Session
    <3> QED BY <1>1, <1>2, <2>1, <2>3, <3>1, <3>2 DEF Session
  <2> QED BY <2>2, <2>3
<1>5. Good(p, new)
  BY <1>1, <1>3, <1>4 DEF Good
<1> QED BY <1>5 DEF new

\* The age limit of a session is an integer.
LEMMA AgeLimitType ==
  ASSUME NEW p \in Proxy, NEW se \in Session
  PROVE  AgeLimit(p, se) \in Int
  BY LimitType, NextMultiple, OptType DEF AgeLimit, Held, Session

\* session::add_pending, which handle_solicit calls for an unresolved target.
LEMMA PendingGood ==
  ASSUME NEW p \in Proxy, NEW se, NEW s \in Addr, Good(p, se), Unresolved(se)
  PROVE  Good(p, add_pending(se, s))
<1> DEFINE new == add_pending(se, s)
<1>1. se \in Session /\ new \in Session
  BY PendingType DEF Good
<1>2. /\ new.status = se.status /\ new.fails = se.fails /\ new.age = se.age
      /\ new.ttl = se.ttl /\ new.touched = se.touched /\ new.tries = se.tries
  BY <1>1 DEF add_pending, Session
<1> HIDE DEF new
<1>3. Probing(p, new)
  BY <1>2 DEF Good, Probing, Unresolved, Held
<1>4. AgeLimit(p, new) = AgeLimit(p, se)
  BY <1>2 DEF AgeLimit, Held
<1>5. Good(p, new)
  BY <1>1, <1>2, <1>3, <1>4 DEF Good
<1> QED BY <1>5 DEF new

\* session::handle_advert().
LEMMA AdvertGood ==
  ASSUME NEW p \in Proxy, NEW se \in Session
  PROVE  Good(p, handle_advert(p, se))
<1> DEFINE new == handle_advert(p, se)
<1>1. new \in Session
  BY AdvertType
<1>2. /\ new.status = "VALID" /\ new.fails = 0 /\ new.age = 0 /\ new.tries = 0
      /\ new.ttl = Opt[p].ttl /\ new.pending = {}
  BY DEF handle_advert, Session
<1> HIDE DEF new
<1>3. Probing(p, new)
  BY <1>2, OptType, LimitType DEF Probing
<1>4. new.age + new.ttl <= AgeLimit(p, new)
  BY <1>2, OptType DEF AgeLimit
<1>5. Good(p, new)
  BY <1>1, <1>3, <1>4 DEF Good
<1> QED BY <1>5 DEF new

\* session::handle_auto_wire.
LEMMA WireGood ==
  ASSUME NEW p \in Proxy, NEW se, NEW t \in Addr, NEW s \in Addr, NEW v \in BOOLEAN,
         Good(p, se), Live(se)
  PROVE  Good(p, handle_auto_wire(se, t, s, v))
<1> DEFINE new == handle_auto_wire(se, t, s, v)
<1>1. se \in Session /\ new \in Session
  BY WireType DEF Good
<1>2. /\ new.status = se.status /\ new.fails = se.fails /\ new.age = se.age
      /\ new.ttl = se.ttl /\ new.touched = se.touched /\ new.tries = se.tries
      /\ new.pending = se.pending
  BY <1>1 DEF handle_auto_wire, Session
<1> HIDE DEF new
<1>3. Probing(p, new)
  BY <1>2 DEF Good, Probing, Live, Held
<1>4. AgeLimit(p, new) = AgeLimit(p, se)
  BY <1>2 DEF AgeLimit, Held
<1>5. Good(p, new)
  BY <1>1, <1>2, <1>3, <1>4 DEF Good
<1> QED BY <1>5 DEF new

\* The three ways in which an expired session goes on: one more solicitation,
\* INVALID, RENEWING.
LEMMA RetryGood ==
  ASSUME NEW p \in Proxy, NEW se, Good(p, se), NEW r \in Nat,
         NEW new \in Session, Retries(p, se),
         new.status = se.status, new.touched = se.touched,
         new.pending = se.pending, new.fails = se.fails + 1,
         new.tries = se.tries + 1, new.ttl = Opt[p].timeout,
         new.age = se.age + r, SteadyClock => r <= MaxStep
  PROVE  Good(p, new)
<1>1. se \in Session
  BY Zenon DEF Good
<1>2. Probing(p, new)
  BY <1>1, OptType, LimitType, SMTT(30) DEF Good, Probing, Retries, Held, MaxFails, Session
<1>3. ASSUME SteadyClock
      PROVE  new.age + new.ttl <= AgeLimit(p, new)
  <2> DEFINE x == se.fails * Period(p)
             h == Held(se) * Opt[p].timeout
  <2>1. /\ x \in Nat /\ (se.fails + 1) * Period(p) = x + Period(p)
        /\ (se.fails + 1 + 1) * Period(p) = x + Period(p) + Period(p)
    BY <1>1, LimitType, NextMultiple, SMTT(30) DEF Session
  <2>2. h \in Nat /\ Held(new) = Held(se)
    BY OptType DEF Held
  <2>3. se.age + se.ttl <= AgeLimit(p, se) /\ se.ttl >= 0
    BY <1>3 DEF Good, Probing
  <2>4. AgeLimit(p, new) = AgeLimit(p, se) + Period(p)
    <3>1. CASE se.status = "WAITING"
      <4>1. AgeLimit(p, se) = Opt[p].ttl + x + h
        BY <3>1 DEF AgeLimit
      <4>2. AgeLimit(p, new) = Opt[p].ttl + (se.fails + 1) * Period(p) + h
        BY <3>1, <2>2 DEF AgeLimit
      <4> QED BY <4>1, <4>2, <2>1, <2>2, OptType, LimitType
    <3>2. CASE se.status = "RENEWING"
      <4>1. AgeLimit(p, se) = Opt[p].ttl + (se.fails + 1) * Period(p)
        BY <3>2 DEF AgeLimit
      <4>2. AgeLimit(p, new) = Opt[p].ttl + (se.fails + 1 + 1) * Period(p)
        BY <3>2 DEF AgeLimit
      <4> QED BY <4>1, <4>2, <2>1, OptType, LimitType
    <3> QED BY <3>1, <3>2, Zenon DEF Retries
  <2> QED
    BY <1>1, <1>3, <2>3, <2>4, AgeLimitType, OptType, LimitType, SMTT(30) DEF Period, Session
<1> QED BY <1>2, <1>3 DEF Good

\* update_all on a WAITING session whose retries are used up.
LEMMA InvalidGood ==
  ASSUME NEW p \in Proxy, NEW se, Good(p, se), NEW r \in Nat,
         NEW new \in Session, se.status = "WAITING",
         new.status = "INVALID", new.touched = se.touched,
         new.fails = se.fails, new.tries = se.tries,
         new.ttl = Opt[p].deadtime, new.age = se.age + r,
         SteadyClock => r <= MaxStep
  PROVE  Good(p, new)
<1>1. se \in Session
  BY DEF Good
<1>2. Probing(p, new)
  BY <1>1, OptType, LimitType, SMTT(30) DEF Good, Probing, Held, Session
<1>3. ASSUME SteadyClock
      PROVE  new.age + new.ttl <= AgeLimit(p, new)
  <2> DEFINE x == se.fails * Period(p)
             y == MaxFails(p) * Period(p)
             h == Held(se) * Opt[p].timeout
  <2>1. se.fails <= MaxFails(p)
    BY DEF Good, Probing
  <2>2. x \in Nat /\ y \in Nat /\ x <= y
    BY <1>1, <2>1, LimitType, NextMultiple, SmallerMultiple, Zenon DEF Session
  <2>3. h \in Nat /\ Held(new) = Held(se)
    BY OptType DEF Held
  <2>4. se.age + se.ttl <= Opt[p].ttl + x + h /\ se.ttl >= 0
    BY <1>3 DEF Good, Probing, AgeLimit
  <2>5. AgeLimit(p, new) = Opt[p].ttl + Opt[p].deadtime + y + MaxStep + h
    BY <2>3, Zenon DEF AgeLimit
  <2> HIDE DEF x, y, h
  <2> QED
    BY <1>1, <1>3, <2>2, <2>3, <2>4, <2>5, OptType, LimitType, SMTT(30) DEF Session
<1> QED BY <1>2, <1>3 DEF Good

\* update_all on a VALID session that is renewed.
LEMMA RenewGood ==
  ASSUME NEW p \in Proxy, NEW se, Good(p, se), NEW r \in Nat,
         NEW new \in Session, se.status = "VALID",
         new.status = "RENEWING", new.pending = se.pending,
         new.fails = 0, new.tries = se.tries + 1, new.ttl = Opt[p].timeout,
         new.age = se.age + r, SteadyClock => r <= MaxStep
  PROVE  Good(p, new)
<1>1. se \in Session
  BY DEF Good
<1>2. Probing(p, new)
  BY <1>1, OptType, LimitType DEF Good, Probing, Session
<1>3. ASSUME SteadyClock
      PROVE  new.age + new.ttl <= AgeLimit(p, new)
  <2>1. se.age + se.ttl <= Opt[p].ttl /\ se.ttl >= 0
    BY <1>3 DEF Good, Probing, AgeLimit
  <2>2. AgeLimit(p, new) = Opt[p].ttl + (0 + 1) * Period(p)
    BY DEF AgeLimit
  <2> QED BY <1>1, <1>3, <2>1, <2>2, OptType, LimitType DEF Period, Session
<1> QED BY <1>2, <1>3 DEF Good

\* The loop body of session::update_all, for a turn c of the main loop.
LEMMA UpdateGood ==
  ASSUME NEW p \in Proxy, NEW se, Good(p, se), NEW c \in Clock
  PROVE  Good(p, update(p, se, c[1], c[2]))
<1> DEFINE e == c[1]
           r == c[2]
           aged == [se EXCEPT !.age = @ + r]
           new == update(p, se, e, r)
<1>1. /\ e \in Int /\ r \in Nat
      /\ SteadyClock => e = r /\ r <= MaxStep
  BY NdppdAssumption DEF SteadyClock
<1>2. se \in Session /\ new \in Session /\ aged \in Session
  <2>1. se \in Session
    BY DEF Good
  <2>2. new \in Session
    BY <1>1, <2>1, UpdateType
  <2>3. aged \in Session
    BY <1>1, <2>1 DEF Session
  <2> QED BY <2>1, <2>2, <2>3
<1>3. /\ aged.status = se.status /\ aged.ttl = se.ttl /\ aged.fails = se.fails
      /\ aged.touched = se.touched /\ aged.pending = se.pending
      /\ aged.tries = se.tries /\ aged.age = se.age + r
  BY <1>2 DEF Session
<1> HIDE DEF e, r
<1>4. CASE ~Live(se) \/ Removed(p, se, e)
  BY <1>4, NoSessionGood DEF update, e, r
<1>5. CASE Live(se) /\ ~Expires(se, e)
  <2>1. new = [aged EXCEPT !.ttl = @ - e]
    BY <1>5 DEF update, Removed
  <2>2. /\ new.status = se.status /\ new.fails = se.fails
        /\ new.touched = se.touched /\ new.pending = se.pending
        /\ new.tries = se.tries /\ new.age = se.age + r /\ new.ttl = se.ttl - e
    <3> HIDE DEF aged, new
    <3> QED BY <1>2, <1>3, <2>1, Zenon DEF Session
  <2> HIDE DEF aged, new
  <2>3. Probing(p, new)
    BY <1>1, <1>2, <1>5, <2>2 DEF Good, Probing, Live, Held, Expires, Session
  <2>4. AgeLimit(p, new) = AgeLimit(p, se)
    BY <2>2 DEF AgeLimit, Held
  <2>5. SteadyClock => new.age + new.ttl <= AgeLimit(p, new)
    BY <1>1, <1>2, <2>2, <2>4, AgeLimitType DEF Good, Session
  <2>6. Good(p, new)
    BY <1>2, <2>3, <2>5 DEF Good
  <2> QED BY <2>6 DEF new, e, r
<1>6. CASE Live(se) /\ Expires(se, e) /\ ~Removed(p, se, e)
  <2>1. new = Expired(p, aged)
    BY <1>6 DEF update
  <2>2. CASE Retries(p, se)
    <3>1. new = [aged EXCEPT !.ttl = Opt[p].timeout, !.fails = @ + 1, !.tries = @ + 1]
      BY <1>3, <2>1, <2>2 DEF Expired, Retries, Renews
    <3> HIDE DEF aged, new
    <3>2. /\ new.status = se.status /\ new.fails = se.fails + 1
          /\ new.touched = se.touched /\ new.pending = se.pending
          /\ new.tries = se.tries + 1 /\ new.age = se.age + r
          /\ new.ttl = Opt[p].timeout
      BY <1>2, <1>3, <3>1, Zenon DEF Session
    <3>3. Good(p, new)
      BY <1>1, <1>2, <2>2, <3>2, RetryGood
    <3> QED BY <3>3 DEF new, e, r
  <2>3. CASE se.status = "WAITING" /\ ~Retries(p, se)
    <3>1. new = [aged EXCEPT !.status = "INVALID", !.ttl = Opt[p].deadtime]
      BY <1>3, <2>1, <2>3 DEF Expired, Retries, Renews
    <3> HIDE DEF aged, new
    <3>2. /\ new.status = "INVALID" /\ new.fails = se.fails
          /\ new.touched = se.touched /\ new.tries = se.tries
          /\ new.age = se.age + r /\ new.ttl = Opt[p].deadtime
      BY <1>2, <1>3, <3>1 DEF Session
    <3>3. Good(p, new)
      BY <1>1, <1>2, <2>3, <3>2, InvalidGood
    <3> QED BY <3>3 DEF new, e, r
  <2>4. CASE Renews(p, se)
    <3>1. new = [aged EXCEPT !.status = "RENEWING", !.ttl = Opt[p].timeout,
                             !.fails = 0, !.touched = FALSE, !.tries = @ + 1]
      BY <1>3, <2>1, <2>4 DEF Expired, Retries, Renews
    <3> HIDE DEF aged, new
    <3>2. /\ new.status = "RENEWING" /\ new.fails = 0
          /\ new.pending = se.pending /\ new.tries = se.tries + 1
          /\ new.age = se.age + r /\ new.ttl = Opt[p].timeout
      BY <1>2, <1>3, <3>1 DEF Session
    <3>3. Good(p, new)
      BY <1>1, <1>2, <2>4, <3>2, RenewGood DEF Renews
    <3> QED BY <3>3 DEF new, e, r
  <2> QED BY <1>6, <2>2, <2>3, <2>4 DEF Removed
<1> QED BY <1>4, <1>5, <1>6 DEF Removed

-----------------------------------------------------------------------------
(***************************************************************************)
(* The handlers of class proxy preserve the invariant of a session.        *)
(***************************************************************************)
\* The interfaces of a new session.
LEMMA FirstIfaceType ==
  ASSUME NEW p \in Proxy, NEW t \in Addr, NEW rif \in Iface \cup {NoIface}
  PROVE  FirstIface(p, t, rif) \in Iface \cup {NoIface}
  BY DEF FirstIface

\* proxy::find_or_create_session.
LEMMA FoundGood ==
  ASSUME NEW p \in Proxy, NEW t \in Addr, NEW se, Good(p, se),
         NEW rif \in Iface \cup {NoIface}
  PROVE  /\ Good(p, find_or_create_session(p, t, se, rif))
         /\ Live(find_or_create_session(p, t, se, rif))
<1>1. SessionIfaces(p, t, rif) \in SUBSET Iface
  BY DEF SessionIfaces
<1>2. Good(p, create(p, SessionIfaces(p, t, rif), FirstIface(p, t, rif)))
  BY <1>1, FirstIfaceType, CreateGood
<1>3. Live(create(p, SessionIfaces(p, t, rif), FirstIface(p, t, rif)))
  BY DEF Live, create, NoSession
<1> QED BY <1>2, <1>3 DEF find_or_create_session

\* proxy::handle_solicit.
LEMMA SolicitGood ==
  ASSUME NEW p \in Proxy, NEW t \in Addr, NEW se, Good(p, se), NEW s \in Addr,
         NEW rif \in Iface \cup {NoIface}
  PROVE  Good(p, handle_solicit(p, t, se, s, rif))
<1> DEFINE found == find_or_create_session(p, t, se, rif)
           probed == touch(p, found)
<1>1. Good(p, found) /\ Live(found)
  BY FoundGood
<1>2. Good(p, probed)
  BY <1>1, TouchGood
<1>3. Unresolved(probed) => Good(p, add_pending(probed, s))
  BY <1>2, PendingGood
<1> QED BY <1>2, <1>3 DEF handle_solicit

\* proxy::handle_stateless_advert.
LEMMA StatelessGood ==
  ASSUME NEW p \in Proxy, NEW s \in Addr, NEW se, Good(p, se), NEW v \in BOOLEAN
  PROVE  Good(p, handle_stateless_advert(p, s, se, v))
<1> DEFINE found == find_or_create_session(p, s, se, NoIface)
<1>1. Good(p, found) /\ Live(found)
  BY FoundGood
<1>2. Good(p, handle_auto_wire(found, s, s, v))
  BY <1>1, WireGood
<1> QED BY <1>1, <1>2 DEF handle_stateless_advert

\* proxy::handle_advert.
LEMMA AdvertFromGood ==
  ASSUME NEW p \in Proxy, NEW t \in Addr, NEW se, Good(p, se), NEW s \in Addr,
         NEW v \in BOOLEAN
  PROVE  Good(p, handle_advert_from(p, t, se, s, v))
<1>1. se \in Session
  BY DEF Good
<1>2. handle_auto_wire(se, t, s, v) \in Session
  BY <1>1, WireType, Zenon
<1> QED BY <1>1, <1>2, AdvertGood DEF handle_advert_from

-----------------------------------------------------------------------------
(***************************************************************************)
(* Messages and routes have their types.                                   *)
(***************************************************************************)
LEMMA MessageType ==
  ASSUME NEW i \in Iface, NEW d \in Addr, NEW t \in Addr, NEW r \in BOOLEAN
  PROVE  NS(i, t) \in Message /\ NA(i, d, t, r) \in Message
  BY DEF NS, NA, Message

\* What a session sends to the interfaces it monitors.
LEMMA SolicitationType ==
  ASSUME NEW se \in Session, NEW t \in Addr
  PROVE  send_solicit(se, t) \subseteq Message
  BY MessageType, SMTT(30) DEF send_solicit, Session

\* What proxy::handle_solicit sends.
LEMMA SolicitSendsType ==
  ASSUME NEW p \in Proxy, NEW t \in Addr, NEW se, Good(p, se), NEW s \in Addr,
         NEW rif \in Iface \cup {NoIface}
  PROVE  SolicitSends(p, t, se, s, rif) \subseteq Message
<1>1. find_or_create_session(p, t, se, rif) \in Session
  BY FoundGood DEF Good
<1>2. send_solicit(find_or_create_session(p, t, se, rif), t) \subseteq Message
  BY <1>1, SolicitationType, Zenon
<1>3. NA(Ifa[p], s, t, Opt[p].router) \in Message
  BY MessageType, RulesAssumption, OptType, Zenon
<1> QED BY <1>2, <1>3, Zenon DEF SolicitSends

\* What session::handle_advert sends.
LEMMA AdvertSendsType ==
  ASSUME NEW p \in Proxy, NEW t \in Addr, NEW se \in Session
  PROVE  AdvertSends(p, t, se) \subseteq Message
<1>1. \A d \in se.pending : NA(Ifa[p], d, t, Opt[p].router) \in Message
  BY MessageType, RulesAssumption, OptType DEF Session
<1> QED BY <1>1, Zenon DEF AdvertSends

\* What route::ifa() hands to a proxy.
LEMMA RouteIfaceType ==
  ASSUME TypeOK, NEW S, NEW i, NEW t, NEW p
  PROVE  RouteIface(S, i, t, p) \in Iface \cup {NoIface}
<1>1. ASSUME \E j \in DOMAIN rcache : Opens(S, i, t, j)
      PROVE  rcache[CHOOSE j \in DOMAIN rcache : Opens(S, i, t, j)].ifname \in Iface
  <2> DEFINE k == CHOOSE j \in DOMAIN rcache : Opens(S, i, t, j)
  <2>1. k \in DOMAIN rcache
    BY <1>1
  <2> HIDE DEF k
  <2>2. rcache[k] \in CachedRoute
    BY <2>1 DEF TypeOK
  <2>3. rcache[k].ifname \in Iface
    BY <2>2, Zenon DEF CachedRoute
  <2> QED BY <2>3 DEF k
<1> QED BY <1>1 DEF RouteIface

-----------------------------------------------------------------------------
(***************************************************************************)
(* The inductive invariant: TypeOK and SessionInv.                         *)
(***************************************************************************)
AllGood(S) ==
  /\ S \in [Proxy -> [Addr -> Session]]
  /\ \A p \in Proxy, t \in Addr : Good(p, S[p][t])

\* SessionInv is the invariant of all sessions.
LEMMA InvIsGood ==
  TypeOK /\ SessionInv <=> TypeOK /\ AllGood(sessions)
  BY DEF TypeOK, SessionInv, AllGood, Good

\* No session at all.
LEMMA NoSessionsGood == AllGood(NoSessions)
  BY NoSessionGood, NoSessionType DEF AllGood, NoSessions

\* The sessions after handle_reverse_advert.
LEMMA ReversedGood ==
  ASSUME AllGood(sessions), NEW i \in Iface, NEW s \in Addr
  PROVE  AllGood(Reversed(i, s))
<1>1. ASSUME NEW p \in Proxy, NEW t \in Addr
      PROVE  Good(p, Reversed(i, s)[p][t]) /\ Reversed(i, s)[p][t] \in Session
  <2>1. Good(p, sessions[p][s]) /\ Good(p, sessions[p][t])
    BY DEF AllGood
  <2>2. Good(p, handle_stateless_advert(p, s, sessions[p][s], FALSE))
    BY <2>1, StatelessGood, Zenon
  <2> QED BY <2>1, <2>2, Zenon DEF Reversed, Good
<1> QED BY <1>1, Zenon DEF AllGood, Reversed

\* The sessions after proxy::handle_solicit of the proxies that serve i.
LEMMA ServedGood ==
  ASSUME TypeOK, NEW S, AllGood(S), NEW i \in Iface, NEW s \in Addr, NEW t \in Addr
  PROVE  AllGood(Served(S, i, s, t))
<1>1. ASSUME NEW p \in Proxy, NEW x \in Addr
      PROVE  Good(p, Served(S, i, s, t)[p][x]) /\ Served(S, i, s, t)[p][x] \in Session
  <2>1. Good(p, S[p][t]) /\ Good(p, S[p][x])
    BY DEF AllGood
  <2>2. Good(p, handle_solicit(p, t, S[p][t], s, RouteIface(S, i, t, p)))
    BY <2>1, RouteIfaceType, SolicitGood, ZenonT(30)
  <2> QED BY <2>1, <2>2, Zenon DEF Served, Good
<1> QED BY <1>1, ZenonT(30) DEF AllGood, Served

\* What they send.
LEMMA ServeSendsType ==
  ASSUME TypeOK, NEW S, AllGood(S), NEW i \in Iface, NEW s \in Addr, NEW t \in Addr
  PROVE  ServeSends(S, i, s, t) \subseteq Message
<1>1. ASSUME NEW p \in Proxy
      PROVE  SolicitSends(p, t, S[p][t], s, RouteIface(S, i, t, p)) \subseteq Message
  <2>1. Good(p, S[p][t])
    BY DEF AllGood
  <2> QED BY <2>1, RouteIfaceType, SolicitSendsType
<1> QED BY <1>1, Zenon DEF ServeSends

\* Kernel routes.
LEMMA RouteTypes ==
  ASSUME TypeOK
  PROVE  /\ \A i \in Iface, s \in Addr : ReverseRoutes(i, s) \in [Addr -> KernelRoute]
         /\ \A gone : Unwired(gone) \in [Addr -> KernelRoute]
         /\ \A i \in Iface, s \in Addr, t \in Addr, d \in Addr :
              AdvertRoute(i, s, t, d) \in KernelRoute
<1>1. ASSUME NEW i \in Iface, NEW s \in Addr
      PROVE  ReverseRoutes(i, s) \in [Addr -> KernelRoute]
  BY SessionAssumption DEF ReverseRoutes, KernelRoute, TypeOK
<1>2. ASSUME NEW gone
      PROVE  Unwired(gone) \in [Addr -> KernelRoute]
  BY SessionAssumption DEF Unwired, KernelRoute, NoRoute, TypeOK
<1>3. ASSUME NEW i \in Iface, NEW s \in Addr, NEW t \in Addr, NEW d \in Addr
      PROVE  AdvertRoute(i, s, t, d) \in KernelRoute
  <2>1. \A v : WireVia(t, s, v) \in Addr
    BY SessionAssumption DEF WireVia
  <2>2. \A v : [dev |-> i, via |-> WireVia(t, s, v)] \in KernelRoute
    BY <2>1 DEF KernelRoute
  <2>3. [dev |-> i, via |-> Unspec] \in KernelRoute
    BY SessionAssumption DEF KernelRoute
  <2>4. routes[d] \in KernelRoute
    BY DEF TypeOK
  <2> QED BY <2>2, <2>3, <2>4, Zenon DEF AdvertRoute
<1> QED BY <1>1, <1>2, <1>3

\* The daemon starts in the invariant.
LEMMA InitInv == Init => TypeOK /\ AllGood(sessions)
<1> SUFFICES ASSUME Init PROVE TypeOK /\ AllGood(sessions)
  OBVIOUS
<1>1. AllGood(sessions)
  BY NoSessionsGood DEF Init
<1>2. routes \in [Addr -> KernelRoute]
  BY SessionAssumption DEF Init, KernelRoute, NoRoute
<1>3. rcache \in Seq(CachedRoute)
  BY DEF Init
<1>4. inp \in [type : {"NS", "NA", "none"}, ifa : Iface \cup {NoIface},
               saddr : Addr, taddr : Addr]
  BY SessionAssumption DEF Init, NoInput, Input
<1>5. run = "up" /\ rtimer = 0 /\ atimer = 0 /\ laddrs = {} /\ out = {}
  BY ZenonT(30) DEF Init
<1> QED BY <1>1, <1>2, <1>3, <1>4, <1>5 DEF TypeOK, AllGood

\* Every step keeps it.
LEMMA NextInv ==
  TypeOK /\ AllGood(sessions) /\ [Next]_vars => TypeOK' /\ AllGood(sessions)'
<1> SUFFICES ASSUME TypeOK, AllGood(sessions), [Next]_vars
             PROVE  TypeOK' /\ AllGood(sessions)'
  OBVIOUS
<1> DEFINE Inputs == [type : {"NS", "NA", "none"}, ifa : Iface \cup {NoIface},
                      saddr : Addr, taddr : Addr]
<1>1. /\ \A m \in Solicits : m[1] \in Iface /\ m[2] \in Addr /\ m[3] \in Addr
      /\ \A m \in Adverts : m[1] \in Iface /\ m[2] \in Addr /\ m[3] \in Addr
      /\ \A i \in Iface, s \in Addr, t \in Addr :
           Input("NS", i, s, t) \in Inputs /\ Input("NA", i, s, t) \in Inputs
      /\ NoInput \in Inputs
  BY NdppdAssumption, SessionAssumption DEF NoInput, Input
<1>2. ASSUME NEW i \in Iface, NEW s \in Addr, NEW t \in Addr,
             IgnoreSolicit(i, s, t) \/ IgnoreAdvert(i, s, t)
      PROVE  TypeOK' /\ AllGood(sessions)'
  <2>1. inp' \in Inputs /\ out' = {}
    BY <1>1, <1>2 DEF IgnoreSolicit, IgnoreAdvert
  <2>2. UNCHANGED <<run, sessions, routes, rcache, rtimer, laddrs, atimer>>
    BY <1>2 DEF IgnoreSolicit, IgnoreAdvert
  <2> QED BY <2>1, <2>2, Zenon DEF TypeOK, AllGood
<1>3. ASSUME NEW i \in Iface, NEW s \in Addr, NEW t \in Addr, AnswerLocal(i, s, t)
      PROVE  TypeOK' /\ AllGood(sessions)'
  <2>1. NA(i, s, t, FALSE) \in Message
    BY MessageType, Zenon
  <2>2. inp' \in Inputs /\ out' \subseteq Message
    BY <1>1, <1>3, <2>1, Zenon DEF AnswerLocal
  <2>3. UNCHANGED <<run, sessions, routes, rcache, rtimer, laddrs, atimer>>
    BY <1>3 DEF AnswerLocal
  <2> QED BY <2>2, <2>3 DEF TypeOK, AllGood
<1>4. ASSUME NEW i \in Iface, NEW s \in Addr, NEW t \in Addr, RecvSolicit(i, s, t)
      PROVE  TypeOK' /\ AllGood(sessions)'
  <2> DEFINE S == Reversed(i, s)
  <2>1. AllGood(S)
    BY ReversedGood
  <2> HIDE DEF S
  <2>2. AllGood(sessions')
    BY <2>1, <1>4, ServedGood DEF RecvSolicit, S
  <2>3. out' \subseteq Message
    BY <2>1, <1>4, ServeSendsType DEF RecvSolicit, S
  <2>4. rcache' \in Seq(CachedRoute)
    <3>1. rcache' = [j \in DOMAIN rcache |->
                       [rcache[j] EXCEPT !.open = @ \/ Opens(S, i, t, j)]]
      BY <1>4 DEF RecvSolicit, S
    <3>2. \A j \in DOMAIN rcache :
            [rcache[j] EXCEPT !.open = @ \/ Opens(S, i, t, j)] \in CachedRoute
      <4> SUFFICES ASSUME NEW j \in DOMAIN rcache
                   PROVE  [rcache[j] EXCEPT !.open = @ \/ Opens(S, i, t, j)] \in CachedRoute
        OBVIOUS
      <4>1. rcache[j] \in CachedRoute
        BY DEF TypeOK
      <4>2. (rcache[j].open \/ Opens(S, i, t, j)) \in BOOLEAN
        OBVIOUS
      <4> QED BY <4>1, <4>2, Zenon DEF CachedRoute
    <3>3. PICK n \in Nat : DOMAIN rcache = 1 .. n
      BY DEF TypeOK
    <3> QED BY <3>1, <3>2, <3>3
  <2>5. routes' \in [Addr -> KernelRoute]
    BY <1>4, RouteTypes DEF RecvSolicit
  <2>6. inp' \in Inputs
    BY <1>1, <1>4 DEF RecvSolicit
  <2>7. UNCHANGED <<run, rtimer, laddrs, atimer>>
    BY <1>4, Zenon DEF RecvSolicit
  <2> QED BY <2>2, <2>3, <2>4, <2>5, <2>6, <2>7 DEF TypeOK, AllGood
<1>5. ASSUME NEW i \in Iface, NEW s \in Addr, NEW t \in Addr, AbortSolicit(i, s, t)
      PROVE  TypeOK' /\ AllGood(sessions)'
  <2>1. AllGood(Reversed(i, s))
    BY ReversedGood
  <2>2. out' \subseteq Message
    BY <2>1, <1>5, ServeSendsType DEF AbortSolicit
  <2>3. AllGood(sessions')
    BY <1>5, NoSessionsGood DEF AbortSolicit
  <2>4. routes' \in [Addr -> KernelRoute]
    BY <1>5, RouteTypes, ZenonT(30) DEF AbortSolicit
  <2>5. inp' \in Inputs
    BY <1>1, <1>5, Zenon DEF AbortSolicit
  <2>6. run' = "aborted" /\ UNCHANGED <<rcache, rtimer, laddrs, atimer>>
    BY <1>5, Zenon DEF AbortSolicit
  <2> QED BY <2>2, <2>3, <2>4, <2>5, <2>6 DEF TypeOK, AllGood
<1>6. ASSUME NEW i \in Iface, NEW s \in Addr, NEW t \in Addr, RecvAdvert(i, s, t)
      PROVE  TypeOK' /\ AllGood(sessions)'
  <2>1. AllGood(sessions')
    <3>1. sessions' = [p \in Proxy |-> [x \in Addr |->
                         IF x = t /\ AdvertCalls(i, t, p)
                         THEN handle_advert_from(p, t, sessions[p][t], s, AutoVia(i, t, p))
                         ELSE sessions[p][x]]]
      BY <1>6, ZenonT(30) DEF RecvAdvert
    <3>2. ASSUME NEW p \in Proxy, NEW x \in Addr
          PROVE  Good(p, sessions'[p][x]) /\ sessions'[p][x] \in Session
      <4>1. Good(p, sessions[p][t]) /\ Good(p, sessions[p][x])
        BY DEF AllGood
      <4>2. AutoVia(i, t, p) \in BOOLEAN
        BY DEF AutoVia
      <4>3. Good(p, handle_advert_from(p, t, sessions[p][t], s, AutoVia(i, t, p)))
        BY <4>1, <4>2, AdvertFromGood, ZenonT(30)
      <4> QED BY <3>1, <4>1, <4>3, Zenon DEF Good
    <3> QED BY <3>1, <3>2 DEF AllGood
  <2>2. out' \subseteq Message
    <3>1. \A p \in Proxy : AdvertSends(p, t, sessions[p][t]) \subseteq Message
      BY AdvertSendsType DEF TypeOK
    <3> QED BY <3>1, <1>6, Zenon DEF RecvAdvert
  <2>3. routes' \in [Addr -> KernelRoute]
    BY <1>6, RouteTypes, ZenonT(30) DEF RecvAdvert
  <2>4. inp' \in Inputs
    BY <1>1, <1>6, Zenon DEF RecvAdvert
  <2>5. UNCHANGED <<run, rcache, rtimer, laddrs, atimer>>
    BY <1>6, Zenon DEF RecvAdvert
  <2> QED BY <2>1, <2>2, <2>3, <2>4, <2>5 DEF TypeOK, AllGood
<1>7. ASSUME NEW c \in Clock, UpdateAll(c)
      PROVE  TypeOK' /\ AllGood(sessions)'
  <2>1. c[1] \in Int
    BY NdppdAssumption
  <2>2. AllGood(sessions')
    <3>1. sessions' = [p \in Proxy |-> [t \in Addr |->
                         update(p, sessions[p][t], c[1], c[2])]]
      BY <1>7, Zenon DEF UpdateAll
    <3>2. ASSUME NEW p \in Proxy, NEW t \in Addr
          PROVE  Good(p, sessions'[p][t]) /\ sessions'[p][t] \in Session
      BY <3>1, UpdateGood, Zenon DEF AllGood, Good
    <3> QED BY <3>1, <3>2, ZenonT(30) DEF AllGood
  <2>3. rtimer' \in Int /\ rcache' \in Seq(CachedRoute)
    <3>1. update_routes(c[1])
      BY <1>7, Zenon DEF UpdateAll
    <3>2. rtimer' \in Int
      BY <2>1, <3>1, NdppdAssumption DEF update_routes, TypeOK
    <3>3. ASSUME NEW R \in RouteTables,
                 rcache' = [j \in DOMAIN R |-> [addr |-> R[j].addr,
                              ifname |-> R[j].ifname, open |-> FALSE]]
          PROVE  rcache' \in Seq(CachedRoute)
      <4>1. R \in Seq(ProcRoute)
        BY NdppdAssumption
      <4>2. PICK n \in Nat : DOMAIN R = 1 .. n
        BY <4>1
      <4>3. \A j \in DOMAIN R : R[j] \in ProcRoute
        BY <4>1, SMTT(30)
      <4> QED BY <3>3, <4>2, <4>3 DEF CachedRoute, ProcRoute
    <3> QED BY <3>1, <3>2, <3>3, SMTT(30) DEF update_routes, TypeOK
  <2>4. atimer' \in Int /\ laddrs' \subseteq Addr \X Iface
    BY <1>7, <2>1, NdppdAssumption, SMTT(30) DEF UpdateAll, update_addresses, TypeOK
  <2>5. out' \subseteq Message
    <3>1. \A p \in Proxy, t \in Addr : send_solicit(sessions[p][t], t) \subseteq Message
      BY SolicitationType DEF TypeOK
    <3>2. \A m \in out' : \E k \in Proxy \X Addr : m \in send_solicit(sessions[k[1]][k[2]], k[2])
      BY <1>7, Zenon DEF UpdateAll
    <3>3. \A k \in Proxy \X Addr : k[1] \in Proxy /\ k[2] \in Addr
      OBVIOUS
    <3> QED BY <3>1, <3>2, <3>3, Zenon
  <2>6. routes' \in [Addr -> KernelRoute]
    BY <1>7, RouteTypes, ZenonT(30) DEF UpdateAll
  <2>7. inp' \in Inputs /\ run' = run
    BY <1>1, <1>7, Zenon DEF UpdateAll
  <2> QED BY <2>2, <2>3, <2>4, <2>5, <2>6, <2>7 DEF TypeOK, AllGood
<1>8. ASSUME Shutdown
      PROVE  TypeOK' /\ AllGood(sessions)'
  <2>1. AllGood(sessions')
    BY <1>8, NoSessionsGood DEF Shutdown
  <2>2. routes' \in [Addr -> KernelRoute]
    BY <1>8, RouteTypes, Zenon DEF Shutdown
  <2>3. inp' \in Inputs
    BY <1>1, <1>8 DEF Shutdown
  <2>4. run' = "down" /\ out' = {} /\ UNCHANGED <<rcache, rtimer, laddrs, atimer>>
    BY <1>8, Zenon DEF Shutdown
  <2> QED BY <2>1, <2>2, <2>3, <2>4 DEF TypeOK, AllGood
<1>9. ASSUME Restart
      PROVE  TypeOK' /\ AllGood(sessions)'
  <2>1. inp' \in Inputs /\ rcache' \in Seq(CachedRoute)
    <3>1. <<>> \in Seq(CachedRoute)
      OBVIOUS
    <3> QED BY <1>1, <1>9, <3>1, Zenon DEF Restart
  <2>2. run' = "up" /\ rtimer' = 0 /\ laddrs' = {} /\ atimer' = 0 /\ out' = {}
    BY <1>9 DEF Restart
  <2>3. UNCHANGED <<sessions, routes>>
    BY <1>9, Zenon DEF Restart
  <2> QED BY <2>1, <2>2, <2>3, SMTT(30) DEF TypeOK, AllGood
<1>10. ASSUME UNCHANGED vars
       PROVE  TypeOK' /\ AllGood(sessions)'
  BY <1>10 DEF vars, TypeOK, AllGood
<1> QED
  BY <1>1, <1>2, <1>3, <1>4, <1>5, <1>6, <1>7, <1>8, <1>9, <1>10, Zenon DEF Next

\* Every variable of the daemon keeps its type: main, poll_all, update_all.
THEOREM TypeCorrect == Spec => []TypeOK
<1>1. TypeOK /\ AllGood(sessions) => TypeOK
  OBVIOUS
<1> QED BY InitInv, NextInv, <1>1, PTL DEF Spec

\* The invariant of the sessions, for every number of proxies, targets and
\* interfaces, all options and all clocks.
THEOREM SessionCorrect == Spec => []SessionInv
<1>1. TypeOK /\ AllGood(sessions) => SessionInv
  BY InvIsGood
<1> QED BY InitInv, NextInv, <1>1, PTL DEF Spec

\* touch() and update_all together send at most one solicitation more than the
\* retries between two confirmations, whatever is received.
THEOREM ProbesBounded == Spec => []ProbeBudget
<1>1. TypeOK /\ AllGood(sessions) => ProbeBudget
  <2> SUFFICES ASSUME TypeOK, AllGood(sessions), NEW p \in Proxy, NEW t \in Addr
               PROVE  sessions[p][t].tries <= MaxFails(p) + 1
    BY DEF ProbeBudget
  <2> DEFINE se == sessions[p][t]
  <2>1. se \in Session /\ Probing(p, se)
    BY DEF AllGood, Good
  <2> HIDE DEF se
  <2>2. se.tries <= MaxFails(p) + 1
    <3>1. CASE se.status = "NONE"
      BY <2>1, <3>1, LimitType, SMTT(30) DEF Probing, NoSession
    <3>2. CASE se.status # "NONE"
      BY <2>1, <3>2, LimitType, SMTT(30) DEF Probing, Held, Session, Status
    <3> QED BY <3>1, <3>2, Zenon
  <2> QED BY <2>2 DEF se
<1> QED BY InitInv, NextInv, <1>1, PTL DEF Spec

\* A session that can answer has nobody parked.
THEOREM NoneParked == Spec => []NoneParkedWhileAnswering
<1>1. TypeOK /\ AllGood(sessions) => NoneParkedWhileAnswering
  BY ZenonT(30) DEF AllGood, Good, Probing, NoneParkedWhileAnswering, Answering
<1> QED BY InitInv, NextInv, <1>1, PTL DEF Spec

(***************************************************************************)
(* Bounds on the age of a session, when the clock is steady.               *)
(***************************************************************************)
\* The age of a session that answers, and of any session.
LEMMA AgeBound ==
  ASSUME SteadyClock, NEW p \in Proxy, NEW se, Good(p, se)
  PROVE  /\ Answering(se) => se.age <= StaleBound(p)
         /\ Live(se) => se.age <= LifeBound(p)
<1> DEFINE x == se.fails * Period(p)
           y == MaxFails(p) * Period(p)
           h == Held(se) * Opt[p].timeout
<1>1. /\ se \in Session /\ se.ttl >= 0 /\ se.fails <= MaxFails(p)
      /\ se.age + se.ttl <= AgeLimit(p, se)
  BY DEF Good, Probing
<1>a. se.age \in Int /\ se.ttl \in Int /\ se.fails \in Nat
  BY <1>1 DEF Session
<1>b. /\ Opt[p].ttl \in Nat /\ Opt[p].deadtime \in Nat /\ Opt[p].timeout \in Nat
      /\ MaxFails(p) \in Nat /\ Period(p) \in Nat /\ MaxStep \in Nat
  BY LimitType, OptType, Zenon
<1>c. Period(p) = Opt[p].timeout + MaxStep
  BY Zenon DEF Period
<1>2. x \in Nat /\ y \in Nat /\ x <= y
  BY <1>1, <1>a, <1>b, NextMultiple, SmallerMultiple, Zenon
<1>3. /\ (se.fails + 1) * Period(p) = x + Period(p)
      /\ (MaxFails(p) + 1) * Period(p) = y + Period(p)
  BY <1>a, <1>b, NextMultiple, Zenon
<1>4. h \in Nat /\ h <= Opt[p].timeout
  BY <1>b, SMTT(30) DEF Held
<1>5. StaleBound(p) = Opt[p].ttl + (y + Period(p))
  BY <1>3, Zenon DEF StaleBound
<1>6. LifeBound(p) = Opt[p].ttl + Opt[p].deadtime + (y + Period(p))
  BY <1>3, Zenon DEF LifeBound
<1>7. CASE se.status = "WAITING"
  <2>1. AgeLimit(p, se) = Opt[p].ttl + x + h
    BY <1>7, ZenonT(30) DEF AgeLimit
  <2> HIDE DEF x, y, h
  <2>2. se.age <= LifeBound(p)
    BY <1>1, <1>a, <1>b, <1>c, <1>2, <1>4, <1>6, <2>1, SMTT(30)
  <2> QED BY <1>7, <2>2 DEF Answering
<1>8. CASE se.status = "INVALID"
  <2>1. AgeLimit(p, se) = Opt[p].ttl + Opt[p].deadtime + y + MaxStep + h
    BY <1>8, ZenonT(30) DEF AgeLimit
  <2> HIDE DEF x, y, h
  <2>2. se.age <= LifeBound(p)
    BY <1>1, <1>a, <1>b, <1>c, <1>2, <1>4, <1>6, <2>1, SMTT(30)
  <2> QED BY <1>8, <2>2 DEF Answering
<1>9. CASE se.status = "RENEWING"
  <2>1. AgeLimit(p, se) = Opt[p].ttl + (se.fails + 1) * Period(p)
    BY <1>9, ZenonT(30) DEF AgeLimit
  <2>2. AgeLimit(p, se) = Opt[p].ttl + (x + Period(p))
    BY <1>3, <2>1, ZenonT(30)
  <2> HIDE DEF x, y, h
  <2> QED BY <1>1, <1>a, <1>b, <1>2, <1>5, <1>6, <2>2, SMTT(30)
<1>10. CASE se.status = "VALID"
  <2>1. AgeLimit(p, se) = Opt[p].ttl
    BY <1>10 DEF AgeLimit
  <2> HIDE DEF x, y, h
  <2> QED BY <1>1, <1>a, <1>b, <1>2, <1>5, <1>6, <2>1, SMTT(30)
<1> QED BY <1>1, <1>7, <1>8, <1>9, <1>10, Zenon DEF Live, Answering, Session, Status

\* However often a target is solicited, its session ends when the target stays
\* silent for LifeBound.
THEOREM LifeBounded ==
  ASSUME SteadyClock
  PROVE  Spec => []BoundedLife
<1>1. TypeOK /\ AllGood(sessions) => BoundedLife
  BY AgeBound DEF AllGood, BoundedLife
<1> QED BY InitInv, NextInv, <1>1, PTL DEF Spec
=============================================================================
