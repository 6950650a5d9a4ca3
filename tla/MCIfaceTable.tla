---------------------------- MODULE MCIfaceTable ----------------------------
(***************************************************************************)
(* Instance of IfaceTable: two proxies listen on 1, one of them in         *)
(* promiscuous mode, one on 3, which is also the daughter of a rule, and   *)
(* the routes of auto rules lead to 2, between them, and to 3.             *)
(***************************************************************************)
EXTENDS IfaceTable

Names == 1 .. 3
Pfd(n, promiscuous) == [op |-> "pfd", name |-> n, promiscuous |-> promiscuous]
Ifd(n) == [op |-> "ifd", name |-> n, promiscuous |-> FALSE]
PlanTwo == <<Pfd(1, TRUE), Ifd(3), Pfd(1, FALSE), Pfd(3, FALSE)>>
AutoNames == {2, 3}
FlagSets == {[n \in Names |-> [allmulti |-> i, promisc |-> 0]] : i \in 0 .. 1}
=============================================================================
