----------------------------- MODULE MCNetlink -----------------------------
(***************************************************************************)
(* An instance of Netlink for TLC: a watched and another interface, two     *)
(* ordinary addresses and one of a point-to-point link whose peer is 9.     *)
(***************************************************************************)
EXTENDS Netlink, TLC

TwoIfaces == {1, 2}
OneWatched == {1}
TwoAddrs == {1, 2}
Peers == (1 :> 1) @@ (2 :> 9)
=============================================================================
