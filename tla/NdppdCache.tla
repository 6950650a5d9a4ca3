----------------------------- MODULE NdppdCache -----------------------------
(***************************************************************************)
(* The daemon as a neighbour cache: an entry is a session seen through its *)
(* status, who waits is who is parked, the answers are the advertisements  *)
(* sent.                                                                   *)
(***************************************************************************)
EXTENDS Ndppd

Entry(status) ==
  CASE status = "WAITING" -> "probing"
    [] status \in {"VALID", "RENEWING"} -> "reachable"
    [] status = "INVALID" -> "unreachable"
    [] OTHER -> "none"

entries == [p \in Proxy |-> [t \in Addr |-> Entry(sessions[p][t].status)]]
parked == [p \in Proxy |-> [t \in Addr |-> sessions[p][t].pending]]
answers == {m \in out : m.type = "NA"}

router == [p \in Proxy |-> Opt[p].router]
static == {k \in Proxy \X Addr : HitsStatic(k[1], k[2])}
stored == {k \in Proxy \X Addr : HasRule(k[1], k[2]) /\ ~HitsStatic(k[1], k[2])}

Cache ==
  INSTANCE NeighborCache WITH
    Link <- Ifa, Router <- router, Fixed <- static, Managed <- stored,
    cache <- entries, waiting <- parked, replies <- answers

\* Every behaviour of the daemon is one of the neighbour cache: a target becomes
\* reachable only by an advertisement, everyone parked is answered by it, and
\* nothing is answered for any other target (session.cc, proxy.cc).
ImplementsCache == Cache!Spec
=============================================================================
