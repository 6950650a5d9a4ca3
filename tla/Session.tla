------------------------------ MODULE Session ------------------------------
(***************************************************************************)
(* class session (session.cc): what one session object does when it is     *)
(* created, touched, confirmed, wired into the kernel's routing table,     *)
(* aged by update_all and destroyed.  Every operation is an operator from  *)
(* the object before the call to the object after it; the daemon           *)
(* (module Ndppd) applies them to the sessions the proxies hold.           *)
(*                                                                         *)
(* A proxy holds at most one session per target address (the lookup of     *)
(* find_or_create_session), so a session is named by its proxy p and its   *)
(* target t and NoSession stands for "not in the proxy's list".            *)
(*                                                                         *)
(* Two fields are history, read by properties only:                        *)
(*   age    real time since the target was last confirmed, or since the    *)
(*          session was created when it never was;                         *)
(*   tries  calls of send_solicit since then.                              *)
(***************************************************************************)
EXTENDS Integers

CONSTANTS
  Addr,       \* IPv6 host addresses
  Unspec,     \* the unspecified address ::
  Unicast,    \* the addresses for which address::is_unicast holds
  Iface,      \* network interfaces
  NoIface,    \* a null ptr<iface>
  NProxy,     \* number of proxy sections; proxies are numbered in file order
  Opt         \* Opt[p]: the options of proxy p

Proxy == 1 .. NProxy

\* The option values proxy.cc accepts: its setters replace a negative ttl,
\* deadtime or timeout by the default, and take any number of retries.
Options == [ttl : Nat, deadtime : Nat, timeout : Nat, retries : Int,
            keepalive : BOOLEAN, autowire : BOOLEAN, router : BOOLEAN]

ASSUME SessionAssumption ==
  /\ NProxy \in Nat
  /\ Unspec \in Addr
  /\ Unicast \subseteq Addr \ {Unspec}
  /\ NoIface \notin Iface
  /\ Opt \in [Proxy -> Options]

Status == {"WAITING", "RENEWING", "VALID", "INVALID"}

\* ifaces is the contents of the list _ifaces and front its first element, the
\* only place where the order of the list shows (see flushes).
Session == [status : Status \cup {"NONE"}, ttl : Int, fails : Nat,
            touched : BOOLEAN, pending : SUBSET Addr,
            ifaces : SUBSET Iface, front : Iface \cup {NoIface},
            wired : BOOLEAN, via : Addr,
            age : Nat, tries : Nat]

NoSession == [status |-> "NONE", ttl |-> 0, fails |-> 0, touched |-> FALSE,
              pending |-> {}, ifaces |-> {}, front |-> NoIface,
              wired |-> FALSE, via |-> Unspec, age |-> 0, tries |-> 0]

Live(se) == se.status # "NONE"
Unresolved(se) == se.status \in {"WAITING", "INVALID"}
Answering(se) == se.status \in {"VALID", "RENEWING"}

-----------------------------------------------------------------------------
(***************************************************************************)
(* Messages on the wire: a solicitation the daemon sends out of interface  *)
(* ifa, an advertisement it sends out of ifa to daddr.                     *)
(***************************************************************************)
NS(i, t) == [type |-> "NS", ifa |-> i, taddr |-> t]
NA(i, d, t, router) ==
  [type |-> "NA", ifa |-> i, daddr |-> d, taddr |-> t, router |-> router]

-----------------------------------------------------------------------------
\* session::create with the interfaces find_or_create_session then adds.  The
\* members it does not assign (_status, _fails) are zero: new session() value-
\* initialises an object whose class has no constructor of its own.
create(p, is, first) ==
  [NoSession EXCEPT !.status = "WAITING", !.ttl = Opt[p].ttl,
                    !.ifaces = is, !.front = first]

\* send_solicit writes one solicitation per monitored interface.
send_solicit(se, t) == {NS(i, t) : i \in se.ifaces}

\* Whether touch() sends a solicitation.
TouchProbes(se) == ~se.touched /\ Unresolved(se)

\* Mutant: every solicitation restarts the timer of an unresolved session.
touch_always(p, se) ==
  IF Unresolved(se)
  THEN [se EXCEPT !.touched = TRUE, !.ttl = Opt[p].timeout]
  ELSE [se EXCEPT !.touched = TRUE]

touch(p, se) ==
  IF TouchProbes(se)
  THEN [se EXCEPT !.touched = TRUE, !.ttl = Opt[p].timeout, !.tries = @ + 1]
  ELSE [se EXCEPT !.touched = TRUE]

add_pending(se, s) == [se EXCEPT !.pending = @ \cup {s}]

\* handle_advert() without arguments: the target is confirmed.  The parked
\* solicitors are answered (by the caller, see Ndppd) and forgotten.
handle_advert(p, se) ==
  [se EXCEPT !.status = "VALID", !.ttl = Opt[p].ttl, !.fails = 0,
             !.pending = {}, !.age = 0, !.tries = 0]

-----------------------------------------------------------------------------
\* Whether handle_auto_wire runs past its early return for a source s.
Rewires(se, s) == ~(se.wired /\ (se.via = Unspec \/ se.via = s))

\* The gateway the new route uses, Unspec for none.
WireVia(t, s, use_via) == IF use_via /\ t # s /\ s \in Unicast THEN s ELSE Unspec

handle_auto_wire(se, t, s, use_via) ==
  IF Rewires(se, s)
  THEN [se EXCEPT !.wired = TRUE, !.via = WireVia(t, s, use_via)]
  ELSE se

\* Mutants: only the first interface is cleaned up; the gateway is forgotten.
flushes_front(se, t, d, rt) ==
  se.wired /\ d = t /\ rt.dev = se.front
flushes_target(se, t, d, rt) ==
  se.wired /\ d = t /\ rt.dev \in se.ifaces

\* Whether the destructor of a session for t flushes route rt to destination d.
\* handle_auto_unwire runs for every interface of the session but clears
\* _wired_via after the first, so that only the first flush names the gateway.
flushes(se, t, d, rt) ==
  /\ se.wired
  /\ \/ /\ d = t
        /\ rt.dev \in se.ifaces
        /\ (rt.dev = se.front /\ se.via # Unspec) => rt.via = se.via
     \/ /\ se.via # Unspec
        /\ d = se.via
        /\ rt.dev = se.front

-----------------------------------------------------------------------------
(***************************************************************************)
(* The loop body of update_all.  elapsed is the time the main loop         *)
(* measured, real the time that really passed.                             *)
(***************************************************************************)
Expires(se, elapsed) == Live(se) /\ se.ttl - elapsed < 0

\* Mutant: one retry too many.
Retries_more(p, se) ==
  se.status \in {"WAITING", "RENEWING"} /\ se.fails <= Opt[p].retries

\* An expired session that sends one more solicitation...
Retries(p, se) ==
  se.status \in {"WAITING", "RENEWING"} /\ se.fails < Opt[p].retries
Renews(p, se) ==
  se.status = "VALID" /\ (se.touched \/ Opt[p].keepalive)
Probes(p, se, elapsed) ==
  Expires(se, elapsed) /\ (Retries(p, se) \/ Renews(p, se))

\* ... or is dropped by remove_session and then destroyed.
Removed(p, se, elapsed) ==
  /\ Expires(se, elapsed)
  /\ ~Retries(p, se) /\ ~Renews(p, se) /\ se.status # "WAITING"

\* Mutant: the failures are counted down.
Expired_down(p, se) ==
  IF Retries(p, se)
  THEN [se EXCEPT !.ttl = Opt[p].timeout, !.fails = @ - 1, !.tries = @ + 1]
  ELSE [se EXCEPT !.status = "INVALID", !.ttl = Opt[p].deadtime]

Expired(p, se) ==
  CASE Retries(p, se) ->
         [se EXCEPT !.ttl = Opt[p].timeout, !.fails = @ + 1, !.tries = @ + 1]
    [] se.status = "WAITING" /\ ~Retries(p, se) ->
         [se EXCEPT !.status = "INVALID", !.ttl = Opt[p].deadtime]
    [] Renews(p, se) ->
         [se EXCEPT !.status = "RENEWING", !.ttl = Opt[p].timeout, !.fails = 0,
                    !.touched = FALSE, !.tries = @ + 1]
    [] OTHER -> NoSession

\* Mutant: the loop skips the sessions of unreachable targets.
update_skips(p, se, elapsed, real) ==
  IF ~Live(se) \/ se.status = "INVALID" THEN se
  ELSE IF Removed(p, se, elapsed) THEN NoSession
  ELSE IF Expires(se, elapsed) THEN Expired(p, se)
  ELSE [se EXCEPT !.ttl = @ - elapsed]

update(p, se, elapsed, real) ==
  IF ~Live(se) THEN se
  ELSE IF Removed(p, se, elapsed) THEN NoSession
  ELSE LET aged == [se EXCEPT !.age = @ + real]
       IN  IF Expires(se, elapsed) THEN Expired(p, aged)
           ELSE [aged EXCEPT !.ttl = @ - elapsed]
=============================================================================
