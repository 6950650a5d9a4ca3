------------------------------ MODULE MCNdppd ------------------------------
(***************************************************************************)
(* Instances of Ndppd for TLC: addresses, interfaces, options and the      *)
(* configurations that the runs check.                                     *)
(***************************************************************************)
EXTENDS NdppdCache

CONSTANTS unspec, a, b, t1, t2, local, noif, eth0, eth1, eth2

Iface2 == {eth0, eth1}
Iface3 == {eth0, eth1, eth2}
IfaceRule(as, i) == [addr |-> as, aut |-> FALSE, daughter |-> i, autovia |-> FALSE]
ViaRule(as, i) == [addr |-> as, aut |-> FALSE, daughter |-> i, autovia |-> TRUE]
AutoRule(as) == [addr |-> as, aut |-> TRUE, daughter |-> noif, autovia |-> FALSE]
StaticRule(as) == [addr |-> as, aut |-> FALSE, daughter |-> noif, autovia |-> FALSE]
Options1(ttl, dead, timeout, retries, keepalive, autowire) ==
  [ttl |-> ttl, deadtime |-> dead, timeout |-> timeout, retries |-> retries,
   keepalive |-> keepalive, autowire |-> autowire, router |-> TRUE]

\* One proxy on eth0 that forwards t1 to eth1.
AddrOne == {unspec, a, b, t1}
UnicastOne == {a, b, t1}
OptIdle == <<Options1(3, 2, 2, 2, FALSE, FALSE)>>
IfaOne == <<eth0>>
RulesOne == <<<<IfaceRule({t1}, eth1)>>>>
SolicitsOne == {eth0} \X {a, b, t1} \X {t1}
AdvertsOne == {<<eth0, a, t1>>, <<eth1, t1, t1>>}

\* Turns of the loop that take one or two units, measured exactly.
Steady == {<<1, 1>>, <<2, 2>>}
NoRoutes == {<<>>}
NoAddrs == {{}}

\* Two proxies, eth0 to eth1 and eth1 to eth0 (full duplex), with autowire; t1
\* may also be behind eth2, and this machine may have an address on eth1.
AddrDuplex == {unspec, a, t1, local}
UnicastDuplex == {a, t1, local}
OptDuplex == <<Options1(1, 1, 1, 0, TRUE, TRUE), Options1(1, 0, 1, 1, FALSE, TRUE)>>
IfaDuplex == <<eth0, eth1>>
RulesDuplex == <<<<IfaceRule({t1}, eth1), IfaceRule({t1}, eth2)>>,
                 <<IfaceRule({a}, eth0)>>>>
SolicitsDuplex == {<<eth0, a, t1>>, <<eth1, t1, a>>, <<eth1, local, t1>>, <<eth0, a, local>>}
AdvertsDuplex == {<<eth1, t1, t1>>, <<eth2, t1, t1>>, <<eth0, a, a>>, <<eth1, local, t1>>}
SomeAddrs == {{}, {<<local, eth1>>}}
UnitSteps == {<<1, 1>>}

\* A proxy on eth0 with an iface, a static and an auto rule, and one on eth1 with
\* an auto rule.  The route table may or may not have a route to b.
AddrMixed == {unspec, a, b, t1, t2}
UnicastMixed == {a, b, t1, t2}
OptMixed == <<Options1(1, 1, 1, 0, FALSE, TRUE), Options1(1, 1, 1, 0, TRUE, FALSE)>>
RulesMixed == <<<<IfaceRule({t1}, eth1), StaticRule({t2}), AutoRule({b})>>,
                <<AutoRule({b})>>>>
SolicitsMixed == {<<eth0, a, t1>>, <<eth0, a, t2>>, <<eth0, a, b>>,
                  <<eth1, a, b>>, <<eth1, t2, b>>, <<eth1, t1, b>>}
AdvertsMixed == {<<eth1, t1, t1>>, <<eth2, b, b>>}
BothTables == {<<>>, <<[addr |-> {a}, ifname |-> eth0], [addr |-> {b, t1}, ifname |-> eth2]>>}
OneTable == {<<[addr |-> {a, b, t1, t2}, ifname |-> eth2]>>}

\* One proxy with two targets that may be behind a gateway: t1 behind a or b,
\* t2 directly reachable or behind b.
AddrVia == {unspec, a, b, t1, t2}
UnicastVia == {a, b, t1, t2}
OptVia == <<Options1(1, 1, 1, 1, FALSE, TRUE)>>
RulesVia == <<<<ViaRule({t1, t2}, eth1)>>>>
SolicitsVia == {<<eth0, a, t1>>, <<eth0, a, t2>>}
AdvertsVia == {<<eth1, b, t1>>, <<eth1, a, t1>>, <<eth1, t1, t1>>,
               <<eth1, t2, t2>>, <<eth1, b, t2>>}
RulesAuto == <<<<AutoRule({t1, t2})>>>>
AdvertsAuto == {<<eth2, t1, t1>>}

\* Full duplex as above, where the proxy on eth0 also has a static rule.
RulesOverlap == <<<<IfaceRule({t1, t2}, eth1), StaticRule({t2})>>,
                  <<IfaceRule({a}, eth0)>>>>
SolicitsOverlap == {<<eth0, a, t1>>, <<eth1, t1, a>>, <<eth1, t2, a>>}
=============================================================================
