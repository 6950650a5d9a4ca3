------------------------------- MODULE MCMain -------------------------------
(***************************************************************************)
(* An instance of Main for TLC.  Files have proxy sections on an interface *)
(* that exists, one that does not, or without a name; in them times, valid *)
(* and negative, and rules; in these the three methods.  A millisecond has *)
(* three microseconds and a second two milliseconds.                       *)
(***************************************************************************)
EXTENDS Main, ConfMeaning, TLC

Net == <<"net">>
KeysByDepth ==
  <<{<<"proxy", <<"eth0">>>>, <<"proxy", <<>>>>},
    {<<"ttl", <<"-7">>>>, <<"deadtime", <<"9">>>>, <<"rule", Net>>, <<"rule", <<>>>>},
    {<<"iface", <<"eth1">>>>, <<"iface", <<"gone">>>>, <<"iface", <<>>>>,
     <<"auto", <<>>>>, <<"static", <<>>>>}>>
BlockKeys == {"proxy", "rule"}
Words == {"proxy", "rule", "ttl", "deadtime", "iface", "auto", "static",
          "eth0", "eth1", "gone", "-7", "9", "note"}
Numbers == (<<"-7">> :> -7) @@ (<<"9">> :> 9)
Yes == {<<"yes">>}
Gone == {<<"gone">>}

ShortWaits == {1, 5, 7}
Settings == {-9, 17}
Boot == {5}
=============================================================================
