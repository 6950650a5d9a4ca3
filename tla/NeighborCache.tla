--------------------------- MODULE NeighborCache ---------------------------
(***************************************************************************)
(* What the daemon promises to the hosts on its links: every proxy is a    *)
(* neighbour cache that answers for what it has heard of.  There are no    *)
(* timers, retries, rules, routes or sockets here.                         *)
(*                                                                         *)
(* An entry is "probing" from the first question for its target, becomes   *)
(* "reachable" by an advertisement and only by one, and "unreachable" when *)
(* none comes.  Whoever asks meanwhile waits; an advertisement answers all *)
(* who wait.  An entry that waits for an advertisement is not dropped      *)
(* before it was given up as unreachable.                                  *)
(***************************************************************************)
CONSTANTS
  Proxy,      \* the caches
  Addr,       \* hosts and targets
  Iface,      \* links
  Link,       \* Link[p]: the link on which p answers
  Router,     \* Router[p]: the router flag of its answers
  Fixed,      \* <<p, t>>: p answers for t without asking
  Managed     \* <<p, t>>: p keeps an entry for t

VARIABLES
  cache,      \* cache[p][t]: "none", "probing", "reachable", "unreachable"
  waiting,    \* waiting[p][t]: who waits for an answer
  replies     \* the answers of this step

cacheVars == <<cache, waiting, replies>>

Reply(i, d, t, router) ==
  [type |-> "NA", ifa |-> i, daddr |-> d, taddr |-> t, router |-> router]

Init ==
  /\ cache = [p \in Proxy |-> [t \in Addr |-> "none"]]
  /\ waiting = [p \in Proxy |-> [t \in Addr |-> {}]]
  /\ replies = {}

\* What a question for t from s on link i is answered with.
Knows(p, t) ==
  cache[p][t] = "reachable" \/ (cache[p][t] = "none" /\ <<p, t>> \in Fixed)
Answers(i, s, t) ==
  {Reply(i, s, t, Router[p]) : p \in {q \in Proxy : Link[q] = i /\ s # t /\ Knows(q, t)}}

New(p, t) == cache[p][t] = "none" /\ <<p, t>> \in Managed

\* Host s asks for t on link i.  The caches of the other links may use the
\* occasion to begin an entry for s.
Ask(i, s, t) ==
  /\ replies' = Answers(i, s, t)
  /\ \E learn \in SUBSET {p \in Proxy : New(p, s)} :
       cache' = [p \in Proxy |-> [x \in Addr |->
                   IF \/ x = t /\ Link[p] = i /\ New(p, t)
                      \/ x = s /\ p \in learn
                   THEN "probing" ELSE cache[p][x]]]
  /\ waiting' = [p \in Proxy |-> [x \in Addr |->
                   IF /\ x = t /\ s # t /\ Link[p] = i
                      /\ cache[p][t] \in {"probing", "unreachable"} \/ New(p, t)
                   THEN waiting[p][x] \cup {s} ELSE waiting[p][x]]]

\* An advertisement of t is heard; it confirms entries of the caches in heard.
Hear(t) ==
  \E heard \in SUBSET {p \in Proxy : cache[p][t] # "none"} :
    /\ cache' = [p \in Proxy |-> [x \in Addr |->
                   IF x = t /\ p \in heard THEN "reachable" ELSE cache[p][x]]]
    /\ waiting' = [p \in Proxy |-> [x \in Addr |->
                     IF x = t /\ p \in heard THEN {} ELSE waiting[p][x]]]
    /\ replies' = UNION {{Reply(Link[p], d, t, Router[p]) : d \in waiting[p][t]} :
                           p \in heard}

\* The question is for an address of the machine itself.
AnswerOwn(i, s, t) ==
  /\ replies' = {Reply(i, s, t, FALSE)}
  /\ UNCHANGED <<cache, waiting>>

\* Time passes: what an entry may turn into.
Ages(c) ==
  CASE c = "probing" -> {"probing", "unreachable"}
    [] c \in {"reachable", "unreachable"} -> {c, "none"}
    [] OTHER -> {c}

Pass ==
  /\ cache' \in [Proxy -> [Addr -> {"none", "probing", "reachable", "unreachable"}]]
  /\ \A p \in Proxy, t \in Addr : cache'[p][t] \in Ages(cache[p][t])
  /\ waiting' = [p \in Proxy |-> [t \in Addr |->
                   IF cache'[p][t] = "none" THEN {} ELSE waiting[p][t]]]
  /\ replies' = {}

\* The daemon ends, maybe while it handles a question.
End ==
  /\ cache' = [p \in Proxy |-> [t \in Addr |-> "none"]]
  /\ waiting' = [p \in Proxy |-> [t \in Addr |-> {}]]
  /\ \/ replies' = {}
     \/ \E i \in Iface, s \in Addr, t \in Addr : replies' \subseteq Answers(i, s, t)

Next ==
  \/ Pass
  \/ \E t \in Addr : Hear(t)
  \/ \E i \in Iface, s \in Addr, t \in Addr : Ask(i, s, t) \/ AnswerOwn(i, s, t)
  \/ End

Spec == Init /\ [][Next]_cacheVars
=============================================================================
