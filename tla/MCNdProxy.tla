----------------------------- MODULE MCNdProxy -----------------------------
(***************************************************************************)
(* Instances of NdProxy: three interfaces, messages with no option, with a *)
(* "source link-layer address" option first, or with an MTU option.        *)
(***************************************************************************)
EXTENDS NdProxy, TLC

CONSTANTS e1, e2, e3, gone

Names == {e1, e2, e3, gone}
Present == {e1, e2, e3}
I(n, words) == [opt |-> "i", name |-> n, colon |-> TRUE, words |-> words]
Plain(n) == [opt |-> "i", name |-> n, colon |-> FALSE, words |-> <<>>]
Opt(c) == [opt |-> c]
Lines ==
  {<<I(e3, <<"NA">>), Opt("b"), I(e2, <<"RA", "NS">>), Plain(e1)>>,
   <<Opt("b"), Opt("d"), I(e1, <<"RS">>), Plain(gone)>>,
   <<Plain(e1), I(e1, <<"RA">>), I(e2, <<>>)>>,
   <<Plain(e1), I(e2, <<"RS", "unknown">>)>>,
   <<Plain(e1)>>,
   <<Plain(e1), Opt("h")>>}
Macs == {<<2, 0, 255, 255, 0, 1>>, <<2, 255, 0, 0, 255, 254>>, <<254, 255, 255, 255, 255, 255>>}
HwaddrMC == (e1 :> <<2, 0, 255, 255, 0, 1>>) @@ (e2 :> <<2, 255, 0, 0, 255, 254>>)
            @@ (e3 :> <<0, 0, 0, 0, 0, 0>>) @@ (gone :> <<0, 0, 0, 0, 0, 0>>)

SllaOpt(mac) == <<1, 1>> \o mac
MtuOpt == <<5, 1, 0, 0, 0, 0, 5, 220>>

\* A message with a valid checksum.
Valid(m) == [m EXCEPT !.cksum = Not16(Carry(Carry(m.rest + WordSum(m.opts))))]
M(type, opts, rest, sm, dm, d33) ==
  Valid([type |-> type, src_multicast |-> sm, dst_multicast |-> dm, dhost33 |-> d33,
         shost |-> <<0, 0, 0, 0, 0, 9>>, opts |-> opts, cksum |-> 0, rest |-> rest])

SllaFirst == {<<>>, MtuOpt} \cup {SllaOpt(x) : x \in Macs}
             \cup {SllaOpt(x) \o MtuOpt : x \in Macs}
Multicast == <<TRUE, TRUE>>
InputsFirst ==
  {M(type, opts, rest, FALSE, TRUE, Multicast) :
     type \in {"RS", "RA", "NS"}, opts \in SllaFirst, rest \in {1, 254, 65278, 65535}}
  \cup {M("RS", <<>>, 1, sm, dm, <<d, d>>) : sm, dm, d \in BOOLEAN}
=============================================================================
