------------------------------ MODULE Startup ------------------------------
(***************************************************************************)
(* From the configuration file to the proxies: load_config and configure   *)
(* of ndppd.cc, the option setters of proxy.cc and the factories of        *)
(* rule.cc.  load_config checks the whole tree before anything is done;    *)
(* configure walks it again and opens one interface after the other, any   *)
(* of which may fail.                                                      *)
(*                                                                         *)
(* opened is what configure has built: the proxies in the order of         *)
(* proxy::_list, each with its interface, options and rules.               *)
(***************************************************************************)
EXTENDS ConfParser, Integers, FiniteSets

CONSTANTS
  Number,     \* Number[v]: atoi of the values that are numbers
  Truths,     \* the values for which as_bool holds
  Missing     \* interfaces that cannot be opened

VARIABLES
  stage,      \* "file", "loaded", "configure", "ready", "failed"
  opened,     \* the proxies so far
  any_auto, any_iface   \* rule::_any_aut, rule::_any_iface

startupVars == <<stage, opened, any_auto, any_iface>>

ASSUME StartupAssumption ==
  /\ \A v \in DOMAIN Number : Number[v] \in Int
  /\ Truths \cap DOMAIN Number = {}

-----------------------------------------------------------------------------
(***************************************************************************)
(* Reading the tree (conf.cc).                                             *)
(***************************************************************************)
\* The entries of c with the key k, in order: the n-th has n - 1 in front of it.
Places(c, k) == {n \in DOMAIN c.map : c.map[n].key = <<k>>}
Place(P, n) == CHOOSE m \in P : Cardinality({j \in P : j < m}) = n - 1
find_all(c, k) ==
  [n \in 1 .. Cardinality(Places(c, k)) |-> c.map[Place(Places(c, k), n)]]

found(c, k) == find_all(c, k) # <<>>
find(c, k) == Head(find_all(c, k))
as_int(v) == IF v \in DOMAIN Number THEN Number[v] ELSE 0
as_bool(v) == v \in Truths

IntOr(c, k, default) == IF found(c, k) THEN as_int(find(c, k).value) ELSE default
BoolOr(c, k, default) == IF found(c, k) THEN as_bool(find(c, k).value) ELSE default

\* The tree of the parser.
conf == blocks[1]
proxies == find_all(conf, "proxy")
rules(n) == find_all(proxies[n], "rule")

-----------------------------------------------------------------------------
(***************************************************************************)
(* load_config.                                                            *)
(***************************************************************************)
\* Mutant: iface may be combined with the other methods.
ValidRule_any(ru) ==
  /\ ru.value # <<>>
  /\ found(ru, "iface") \/ found(ru, "static") \/ found(ru, "auto")

\* A rule has an address and exactly one method; iface names an interface.
ValidRule(ru) ==
  /\ ru.value # <<>>
  /\ IF found(ru, "iface")
     THEN /\ ~found(ru, "static") /\ ~found(ru, "auto")
          /\ find(ru, "iface").value # <<>>
     ELSE found(ru, "static") # found(ru, "auto")

Valid ==
  \A n \in DOMAIN proxies :
    /\ proxies[n].value # <<>>
    /\ \A r \in DOMAIN rules(n) : ValidRule(rules(n)[r])

\* The tree is all that is left of the file.
Forget ==
  /\ style' = CHOOSE s \in Styles : TRUE
  /\ entries' = 0
  /\ meant' = <<Nil>>
  /\ pc' = "read"
  /\ UNCHANGED <<text, pos, blocks>>

load_config ==
  /\ stage = "file"
  /\ pc \in {"accepted", "rejected", "unreadable"}
  /\ stage' = IF pc = "accepted" /\ Valid THEN "loaded" ELSE "failed"
  /\ Forget
  /\ UNCHANGED <<opened, any_auto, any_iface>>

-----------------------------------------------------------------------------
(***************************************************************************)
(* configure.                                                              *)
(***************************************************************************)
\* The setters of proxy.cc replace a negative time.
Clamp(n, default) == IF n >= 0 THEN n ELSE default

Options(c) ==
  LET ttl == Clamp(IntOr(c, "ttl", 30000), 30000)
  IN  [ttl |-> ttl,
       deadtime |-> Clamp(IntOr(c, "deadtime", ttl), 30000),
       timeout |-> Clamp(IntOr(c, "timeout", 500), 500),
       retries |-> IntOr(c, "retries", 3),
       router |-> BoolOr(c, "router", TRUE),
       autowire |-> BoolOr(c, "autowire", FALSE),
       keepalive |-> BoolOr(c, "keepalive", TRUE)]

\* rule::create: the two kinds.  The autovia of a rule without an interface is
\* never read.
IfaceRule(c) ==
  [addr |-> c.value, aut |-> FALSE, daughter |-> find(c, "iface").value,
   autovia |-> BoolOr(c, "autovia", FALSE)]
OtherRule(c) ==
  [addr |-> c.value, aut |-> found(c, "auto"), daughter |-> <<>>, autovia |-> FALSE]

Configuring == stage \in {"loaded", "configure"}

\* All rules of the sections that are opened are made.
Complete == opened # <<>> => Len(opened[Len(opened)].rules) = Len(rules(Len(opened)))

Fail ==
  /\ stage' = "failed"
  /\ UNCHANGED <<opened, any_auto, any_iface, parserVars>>

\* proxy::open of the next section, and its options.
open_proxy ==
  /\ Configuring /\ Complete
  /\ Len(opened) < Len(proxies)
  /\ LET c == proxies[Len(opened) + 1]
     IN  IF c.value = <<>> \/ c.value \in Missing THEN Fail
         ELSE /\ stage' = "configure"
              /\ opened' = Append(opened, [ifa |-> c.value, opt |-> Options(c), rules |-> <<>>])
              /\ UNCHANGED <<any_auto, any_iface, parserVars>>

\* Mutant: a static rule sets the flag too.
add_rule_static ==
  /\ stage = "configure" /\ ~Complete
  /\ LET n == Len(opened)
         c == rules(n)[Len(opened[n].rules) + 1]
         Add(ru) == opened' = [opened EXCEPT ![n].rules = Append(@, ru)]
     IN  IF found(c, "iface")
         THEN IF find(c, "iface").value \in Missing THEN Fail
              ELSE /\ Add(IfaceRule(c))
                   /\ any_iface' = TRUE
                   /\ UNCHANGED <<stage, any_auto, parserVars>>
         ELSE /\ Add(OtherRule(c))
              /\ any_auto' = TRUE
              /\ UNCHANGED <<stage, any_iface, parserVars>>

\* add_rule for the next rule of the section, after iface::open_ifd for one with
\* an interface.
add_rule ==
  /\ stage = "configure" /\ ~Complete
  /\ LET n == Len(opened)
         c == rules(n)[Len(opened[n].rules) + 1]
         Add(ru) == opened' = [opened EXCEPT ![n].rules = Append(@, ru)]
     IN  IF found(c, "iface")
         THEN IF find(c, "iface").value \in Missing THEN Fail
              ELSE /\ Add(IfaceRule(c))
                   /\ any_iface' = TRUE
                   /\ UNCHANGED <<stage, any_auto, parserVars>>
         ELSE /\ Add(OtherRule(c))
              /\ any_auto' = (any_auto \/ found(c, "auto"))
              /\ UNCHANGED <<stage, any_iface, parserVars>>

configured ==
  /\ Configuring /\ Complete
  /\ Len(opened) = Len(proxies)
  /\ stage' = "ready"
  /\ UNCHANGED <<opened, any_auto, any_iface, parserVars>>

configure == open_proxy \/ add_rule \/ configured

StartupInit ==
  /\ stage = "file"
  /\ opened = <<>>
  /\ any_auto = FALSE /\ any_iface = FALSE

-----------------------------------------------------------------------------
(***************************************************************************)
(* Properties.                                                             *)
(***************************************************************************)
Method(ru) ==
  IF ru.daughter # <<>> THEN {"iface"} ELSE IF ru.aut THEN {"auto"} ELSE {"static"}

\* What the daemon runs with is what the file says: a proxy for every section and
\* a rule for every one of its rules, in their order, each with the one method it
\* was written with (configure).
RunsWhatIsWritten ==
  stage = "ready" =>
    /\ Len(opened) = Len(proxies)
    /\ \A n \in DOMAIN opened :
         /\ opened[n].ifa = proxies[n].value
         /\ Len(opened[n].rules) = Len(rules(n))
         /\ \A r \in DOMAIN opened[n].rules :
              LET ru == opened[n].rules[r]
              IN  /\ ru.addr = rules(n)[r].value
                  /\ \A m \in {"iface", "auto", "static"} :
                       found(rules(n)[r], m) <=> m \in Method(ru)

\* The options, rules and flags are those that the rest of the daemon relies on,
\* also in a half-made configuration: no negative times, never an auto rule with
\* an interface (the assumptions of Session and ProxyRules), and flags that keep
\* the lists of routes and addresses current if and only if some rule needs them
\* (rule::any_auto, rule::any_iface in the loop of main).
DaemonCanRely ==
  /\ \A n \in DOMAIN opened :
       /\ opened[n].opt.ttl \in Nat /\ opened[n].opt.deadtime \in Nat
       /\ opened[n].opt.timeout \in Nat
       /\ opened[n].ifa # <<>>
       /\ \A r \in DOMAIN opened[n].rules :
            LET ru == opened[n].rules[r]
            IN  ru.addr # <<>> /\ (ru.aut => ru.daughter = <<>>)
  /\ any_auto <=> \E n \in DOMAIN opened : \E r \in DOMAIN opened[n].rules :
                    opened[n].rules[r].aut
  /\ any_iface <=> \E n \in DOMAIN opened : \E r \in DOMAIN opened[n].rules :
                     opened[n].rules[r].daughter # <<>>
=============================================================================
