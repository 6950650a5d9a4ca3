--------------------------- MODULE NdProxyProofs ---------------------------
(***************************************************************************)
(* Theorems about nd-proxy, for every command line, every set of           *)
(* interfaces and every message.                                           *)
(***************************************************************************)
EXTENDS NdProxy, FiniteSetTheorems, WellFoundedInduction, TLAPS

(***************************************************************************)
(* Sequences.                                                              *)
(***************************************************************************)
IsSequence(s) == \E S : s \in Seq(S)

LEMMA SequenceType ==
  ASSUME NEW s, IsSequence(s)
  PROVE  Len(s) \in Nat /\ DOMAIN s = 1 .. Len(s)
  BY DEF IsSequence

\* The call of sendto is recorded.
LEMMA AppendType ==
  ASSUME NEW s, IsSequence(s), NEW e
  PROVE  /\ IsSequence(Append(s, e))
         /\ DOMAIN Append(s, e) = 1 .. Len(s) + 1
         /\ Append(s, e)[Len(s) + 1] = e
         /\ \A n \in 1 .. Len(s) : Append(s, e)[n] = s[n]
<1>1. PICK S : s \in Seq(S)
  BY DEF IsSequence
<1>2. s \in Seq(S \cup {e})
  BY <1>1
<1>3. Append(s, e) \in Seq(S \cup {e})
  BY <1>2
<1>4. IsSequence(Append(s, e))
  BY <1>3 DEF IsSequence
<1> QED BY <1>2, <1>4

\* The list of interfaces grows at its front.
LEMMA PrependType ==
  ASSUME NEW s, IsSequence(s), NEW e
  PROVE  /\ IsSequence(<<e>> \o s)
         /\ Len(<<e>> \o s) = Len(s) + 1
         /\ \A n \in 1 .. Len(s) + 1 :
              (<<e>> \o s)[n] = IF n = 1 THEN e ELSE s[n - 1]
<1>1. PICK S : s \in Seq(S)
  BY DEF IsSequence
<1>2. s \in Seq(S \cup {e}) /\ <<e>> \in Seq(S \cup {e})
  BY <1>1
<1>3. <<e>> \o s \in Seq(S \cup {e})
  BY <1>2
<1>4. IsSequence(<<e>> \o s)
  BY <1>3 DEF IsSequence
<1>5. \A n \in 1 .. Len(s) + 1 : (<<e>> \o s)[n] = IF n = 1 THEN e ELSE s[n - 1]
  BY <1>2
<1> QED BY <1>2, <1>4, <1>5

-----------------------------------------------------------------------------
(***************************************************************************)
(* The inductive invariant.                                                *)
(***************************************************************************)
\* The -i arguments among the first n.
Given(n) == {k \in 1 .. n : argv[k].opt = "i"}

\* The list has an entry for each -i argument so far, made from one of them.
Listed ==
  /\ argv \in Seq(Arg) /\ optind \in 1 .. Len(argv) + 1
  /\ IsSequence(ifaces)
  /\ \A e \in DOMAIN ifaces : \E k \in DOMAIN argv :
       argv[k].opt = "i" /\ ifaces[e] = parse_interface(argv[k])
  /\ pc # "exited" => Len(ifaces) = Cardinality(Given(optind - 1))

\* Which entries are open.
Opened ==
  /\ pc \in {"args", "open", "idle", "relay", "exited"}
  /\ opened \in Nat /\ opened <= Len(ifaces)
  /\ pc = "args" => opened = 0
  /\ pc \in {"open", "idle", "relay"} => optind = Len(argv) + 1
  /\ pc \in {"idle", "relay"} => opened = Len(ifaces)

\* The message that is relayed, or was relayed last, has left through the entries
\* in front of todo.
Copied ==
  /\ IsSequence(sent)
  /\ todo \in 1 .. Len(ifaces) + 1
  /\ pc \in {"args", "open"} => sent = <<>>
  /\ pc = "relay" \/ sent # <<>> => iface \in DOMAIN ifaces /\ Relays(iface, orig.type)
  /\ pc = "relay" => todo <= Len(ifaces) /\ DOMAIN msg = DOMAIN orig /\ orig \in Msg
  /\ pc = "idle" /\ sent # <<>> => todo = Len(ifaces) + 1
  /\ sent # <<>> => Proxied(msg)
  /\ Proxied(msg) /\ (pc = "relay" \/ sent # <<>>) =>
       {sent[j].ifa : j \in DOMAIN sent} = 1 .. todo - 1 \ {iface}
  /\ \A j, k \in DOMAIN sent : sent[j].ifa = sent[k].ifa => j = k

IInv == Listed /\ Opened /\ Copied

-----------------------------------------------------------------------------
(***************************************************************************)
(* The command line.                                                       *)
(***************************************************************************)
\* One more argument.
LEMMA GivenNext ==
  ASSUME NEW n \in Nat
  PROVE  /\ IsFiniteSet(Given(n)) /\ Cardinality(Given(n)) \in Nat
         /\ argv[n + 1].opt = "i" => Cardinality(Given(n + 1)) = Cardinality(Given(n)) + 1
         /\ argv[n + 1].opt # "i" => Cardinality(Given(n + 1)) = Cardinality(Given(n))
<1>1. IsFiniteSet(Given(n))
  <2>1. 1 \in Int /\ n \in Int
    OBVIOUS
  <2>2. IsFiniteSet(1 .. n)
    BY <2>1, FS_Interval
  <2>3. Given(n) \subseteq 1 .. n
    BY DEF Given
  <2> QED BY <2>2, <2>3, FS_Subset
<1>2. Cardinality(Given(n)) \in Nat
  BY <1>1, FS_CardinalityType
<1>3. ASSUME argv[n + 1].opt = "i"
      PROVE  Cardinality(Given(n + 1)) = Cardinality(Given(n)) + 1
  <2>1. Given(n + 1) = Given(n) \cup {n + 1}
    BY <1>3 DEF Given
  <2>2. n + 1 \notin Given(n)
    BY DEF Given
  <2>3. Cardinality(Given(n) \cup {n + 1}) = Cardinality(Given(n)) + 1
    BY <1>1, <2>2, FS_AddElement
  <2> QED BY <2>1, <2>3, Zenon
<1>4. ASSUME argv[n + 1].opt # "i"
      PROVE  Cardinality(Given(n + 1)) = Cardinality(Given(n))
  <2>1. Given(n + 1) = Given(n)
    BY <1>4 DEF Given
  <2> QED BY <2>1, Zenon
<1> QED BY <1>1, <1>2, <1>3, <1>4

\* A step that leaves the list of interfaces alone.
LEMMA ListedKept ==
  ASSUME Listed, UNCHANGED <<argv, optind, ifaces>>, pc = "exited" => pc' = "exited"
  PROVE  Listed'
  BY DEF Listed, IsSequence, Given

LEMMA ParseArgKeeps ==
  ASSUME IInv, ParseArg
  PROVE  IInv'
<1> DEFINE a == argv[optind]
           invalid == a.opt = "h" \/ (a.opt = "i" /\ "unknown" \in Words(a))
<1>1. /\ pc = "args" /\ optind <= Len(argv) /\ optind' = optind + 1
      /\ pc' = IF invalid THEN "exited" ELSE "args"
      /\ ifaces' = IF a.opt = "i" /\ ~invalid THEN <<parse_interface(a)>> \o ifaces ELSE ifaces
      /\ UNCHANGED <<argv, opened, iface, msg, todo, sent, orig>>
  BY DEF ParseArg, relayVars
<1>2. /\ argv \in Seq(Arg) /\ Len(argv) \in Nat /\ DOMAIN argv = 1 .. Len(argv)
      /\ optind \in 1 .. Len(argv) + 1 /\ optind \in DOMAIN argv
      /\ IsSequence(ifaces) /\ Len(ifaces) \in Nat /\ DOMAIN ifaces = 1 .. Len(ifaces)
      /\ Len(ifaces) = Cardinality(Given(optind - 1))
  BY <1>1, SequenceType DEF IInv, Listed
<1>3. /\ pc' # "exited" => Len(ifaces') = Cardinality(Given(optind))
      /\ IsSequence(ifaces') /\ Len(ifaces') \in Nat /\ Len(ifaces') >= Len(ifaces)
      /\ \A e \in DOMAIN ifaces' : \E k \in DOMAIN argv :
           argv[k].opt = "i" /\ ifaces'[e] = parse_interface(argv[k])
  <2> DEFINE m == optind - 1
  <2>1. m \in Nat /\ m + 1 = optind
    BY <1>2
  <2>2. /\ a.opt = "i" => Cardinality(Given(optind)) = Cardinality(Given(m)) + 1
        /\ a.opt # "i" => Cardinality(Given(optind)) = Cardinality(Given(m))
    <3> HIDE DEF m
    <3> QED BY <2>1, GivenNext
  <2>3. CASE a.opt = "i" /\ ~invalid
    <3> DEFINE x == parse_interface(a)
    <3>1. ifaces' = <<x>> \o ifaces
      BY <1>1, <2>3
    <3> HIDE DEF x
    <3>2. /\ IsSequence(ifaces') /\ Len(ifaces') = Len(ifaces) + 1
          /\ \A n \in 1 .. Len(ifaces) + 1 : ifaces'[n] = IF n = 1 THEN x ELSE ifaces[n - 1]
      BY <1>2, <3>1, PrependType, SMTT(30)
    <3>3. DOMAIN ifaces' = 1 .. Len(ifaces) + 1
      BY <3>2, SequenceType
    <3>4. ASSUME NEW e \in DOMAIN ifaces'
          PROVE  \E k \in DOMAIN argv : argv[k].opt = "i" /\ ifaces'[e] = parse_interface(argv[k])
      <4>1. CASE e = 1
        BY <1>2, <2>3, <3>2, <3>3, <4>1 DEF x
      <4>2. CASE e # 1
        <5>1. e - 1 \in DOMAIN ifaces /\ ifaces'[e] = ifaces[e - 1]
          BY <1>2, <3>2, <3>3, <3>4, <4>2, SMTT(30)
        <5> QED BY <5>1 DEF IInv, Listed
      <4> QED BY <4>1, <4>2
    <3> QED BY <1>2, <2>2, <2>3, <3>2, <3>4
  <2>4. CASE ~(a.opt = "i" /\ ~invalid)
    <3>1. ifaces' = ifaces /\ (pc' # "exited" => a.opt # "i")
      BY <1>1, <2>4
    <3> QED BY <1>2, <2>2, <3>1 DEF IInv, Listed
  <2> QED BY <2>3, <2>4
<1>4. Listed'
  <2>1. optind' - 1 = optind /\ optind' \in 1 .. Len(argv) + 1
    BY <1>1, <1>2
  <2>2. Given(optind - 1)' = Given(optind)
    BY <1>1, <2>1, SMTT(30) DEF Given
  <2> QED BY <1>1, <1>2, <1>3, <2>1, <2>2, Zenon DEF Listed, IsSequence
<1>5. Opened'
  BY <1>1, <1>2, <1>3 DEF IInv, Opened
<1>6. Copied'
  <2>1. sent = <<>> /\ sent' = sent /\ todo \in 1 .. Len(ifaces) + 1
    BY <1>1 DEF IInv, Copied
  <2>2. todo' \in 1 .. Len(ifaces') + 1
    BY <1>1, <1>2, <1>3, <2>1
  <2>3. IsSequence(sent) /\ DOMAIN sent = {}
    BY <2>1 DEF IInv, Copied
  <2>4. pc' # "relay"
    BY <1>1
  <2> QED BY <1>1, <2>1, <2>2, <2>3, <2>4 DEF Copied, IsSequence
<1> QED BY <1>4, <1>5, <1>6 DEF IInv

\* The steps between the command line and the messages, and the end.
LEMMA StartKeeps ==
  ASSUME IInv, Daemonize \/ iface_open \/ Run \/ Killed \/ Signal \/ termination_handler
               \/ iface_close
  PROVE  IInv'
<1>1. /\ UNCHANGED <<argv, optind, ifaces, iface, msg, todo, sent, orig>>
      /\ pc \in {"args", "open", "idle", "relay"}
      /\ pc' = "relay" => pc = "relay"
      /\ pc' \in {"args", "open"} => pc \in {"args", "open"}
      /\ pc' = "idle" => pc \in {"open", "idle"}
  BY DEF Daemonize, iface_open, Run, Killed, Signal, termination_handler, iface_close, startVars,
         relayVars
<1>2. Listed'
  BY <1>1, ListedKept DEF IInv
<1>3. Opened'
  <2>1. Opened /\ Len(ifaces) \in Nat /\ Len(argv) \in Nat /\ optind \in 1 .. Len(argv) + 1
    BY SequenceType DEF IInv, Listed
  <2>2. CASE Daemonize
    BY <2>1, <2>2 DEF Daemonize, Opened, startVars
  <2>3. CASE iface_open
    BY <2>1, <2>3 DEF iface_open, Opened
  <2>4. CASE Run \/ Killed
    BY <2>1, <2>4 DEF Run, Killed, Opened, startVars
  <2>5. CASE Signal \/ termination_handler \/ iface_close
    BY <2>1, <2>5 DEF Signal, termination_handler, iface_close, Opened
  <2> QED BY <2>2, <2>3, <2>4, <2>5
<1>4. Copied'
  <2>1. Copied /\ (pc = "open" => sent = <<>>)
    BY DEF IInv, Copied
  <2>2. /\ Relays(iface, orig.type)' <=> Relays(iface, orig.type)
        /\ Proxied(msg)' <=> Proxied(msg)
    BY <1>1 DEF Relays, Proxied
  <2> QED BY <1>1, <2>1, <2>2 DEF Copied, IsSequence
<1> QED BY <1>2, <1>3, <1>4 DEF IInv

-----------------------------------------------------------------------------
(***************************************************************************)
(* Messages.                                                               *)
(***************************************************************************)
LEMMA ReceiveKeeps ==
  ASSUME IInv, NEW i \in 1 .. opened, NEW m \in Inputs, Receive(i, m)
  PROVE  IInv'
<1>1. /\ pc = "idle" /\ iface' = i /\ msg' = m /\ orig' = m /\ sent' = <<>> /\ todo' = 1
      /\ pc' = IF Relays(i, m.type) THEN "relay" ELSE "idle"
      /\ UNCHANGED <<argv, optind, background, ifaces, opened>>
  BY Zenon DEF Receive, startVars
<1>2. /\ IsSequence(ifaces) /\ Len(ifaces) \in Nat /\ DOMAIN ifaces = 1 .. Len(ifaces)
      /\ opened = Len(ifaces) /\ i \in 1 .. Len(ifaces)
  BY <1>1, SequenceType DEF IInv, Listed, Opened
<1>3. Listed'
  BY <1>1, ListedKept DEF IInv
<1>4. Opened'
  BY <1>1 DEF IInv, Opened
<1>5. Copied'
  <2>1. IsSequence(<<>>) /\ DOMAIN <<>> = {}
    <3>1. <<>> \in Seq({})
      OBVIOUS
    <3> QED BY <3>1 DEF IsSequence
  <2>2. m \in Msg
    BY NdProxyAssumption, Zenon
  <2>3. {sent'[j].ifa : j \in DOMAIN sent'} = {} /\ 1 .. todo' - 1 \ {iface'} = {}
    BY <1>1, <2>1
  <2>4. pc' = "relay" => iface' \in DOMAIN ifaces' /\ Relays(iface', orig'.type)
    BY <1>1, <1>2
  <2>5. Relays(iface', orig'.type) = Relays(iface, orig.type)'
    BY <1>1 DEF Relays
  <2> QED BY <1>1, <1>2, <2>1, <2>2, <2>3, <2>4 DEF Copied, IsSequence, Relays
<1> QED BY <1>3, <1>4, <1>5 DEF IInv

\* The fields that proxy_rsra looks at.
LEMMA MsgDomain ==
  ASSUME NEW m \in Msg
  PROVE  {"src_multicast", "dst_multicast", "dhost33"} \subseteq DOMAIN m
  BY DEF Msg

\* The buffer remains a message that is relayed or not.
LEMMA RewriteKeeps ==
  ASSUME NEW m, DOMAIN m = DOMAIN orig, orig \in Msg, NEW n
  PROVE  DOMAIN rewrite(m, n) = DOMAIN m /\ (Proxied(rewrite(m, n)) <=> Proxied(m))
<1>1. {"src_multicast", "dst_multicast", "dhost33"} \subseteq DOMAIN m
  BY MsgDomain
<1> DEFINE u == update_slla_option(m, Hwaddr[n])
<1>2. /\ DOMAIN u = DOMAIN m
      /\ \A f \in {"src_multicast", "dst_multicast", "dhost33"} : u[f] = m[f]
  BY <1>1 DEF update_slla_option
<1> HIDE DEF u
<1>3. rewrite(m, n) = [u EXCEPT !.shost = Hwaddr[n]]
  BY DEF rewrite, u
<1>4. /\ DOMAIN rewrite(m, n) = DOMAIN u
      /\ \A f \in {"src_multicast", "dst_multicast", "dhost33"} : rewrite(m, n)[f] = u[f]
  BY <1>1, <1>2, <1>3
<1> QED BY <1>2, <1>4 DEF Proxied

LEMMA ForwardKeeps ==
  ASSUME IInv, Forward
  PROVE  IInv'
<1>1. /\ pc = "relay" /\ todo' = todo + 1
      /\ pc' = IF todo = Len(ifaces) THEN "idle" ELSE "relay"
      /\ UNCHANGED <<iface, orig, argv, optind, background, ifaces, opened>>
  BY DEF Forward, startVars
<1>2. /\ IsSequence(ifaces) /\ Len(ifaces) \in Nat /\ DOMAIN ifaces = 1 .. Len(ifaces)
      /\ todo \in 1 .. Len(ifaces) /\ iface \in DOMAIN ifaces
      /\ IsSequence(sent) /\ Len(sent) \in Nat /\ DOMAIN sent = 1 .. Len(sent)
      /\ DOMAIN msg = DOMAIN orig /\ orig \in Msg
      /\ Relays(iface, orig.type)
  BY <1>1, SequenceType DEF IInv, Listed, Copied
<1>3. Listed' /\ Opened'
  BY <1>1, ListedKept DEF IInv, Opened
<1>4. /\ Proxied(msg) => {sent[j].ifa : j \in DOMAIN sent} = 1 .. todo - 1 \ {iface}
      /\ sent # <<>> => Proxied(msg)
      /\ \A j, k \in DOMAIN sent : sent[j].ifa = sent[k].ifa => j = k
  BY <1>1 DEF IInv, Copied
<1>5. /\ todo' \in 1 .. Len(ifaces') + 1
      /\ pc' = "relay" => todo' <= Len(ifaces')
      /\ pc' = "idle" => todo' = Len(ifaces') + 1
      /\ iface' \in DOMAIN ifaces' /\ Relays(iface, orig.type)'
      /\ orig' \in Msg /\ pc' \notin {"args", "open"}
  BY <1>1, <1>2 DEF Relays
<1>6. /\ IsSequence(sent') /\ DOMAIN msg' = DOMAIN orig'
      /\ sent' # <<>> => Proxied(msg)'
      /\ Proxied(msg)' => {sent'[j].ifa : j \in DOMAIN sent'} = 1 .. todo' - 1 \ {iface'}
      /\ \A j, k \in DOMAIN sent' : sent'[j].ifa = sent'[k].ifa => j = k
  <2>1. CASE Outgoing(todo)
    <3>1. PICK ok \in BOOLEAN : /\ msg' = rewrite(msg, ifaces[todo].name)
                                /\ sent' = Append(sent, [ifa |-> todo, msg |-> msg', ok |-> ok])
      BY <2>1, Zenon DEF Forward
    <3>2. todo # iface /\ Proxied(msg)
      BY <2>1 DEF Outgoing
    <3>3. DOMAIN msg' = DOMAIN orig' /\ Proxied(msg)'
      <4>1. DOMAIN msg' = DOMAIN msg /\ (Proxied(msg') <=> Proxied(msg))
        BY <1>2, <3>1, RewriteKeeps
      <4> QED BY <1>1, <1>2, <3>2, <4>1, Zenon DEF Proxied
    <3> DEFINE x == [ifa |-> todo, msg |-> msg', ok |-> ok]
    <3>4. x.ifa = todo
      OBVIOUS
    <3> HIDE DEF x
    <3>5. /\ IsSequence(sent') /\ DOMAIN sent' = 1 .. Len(sent) + 1
          /\ sent'[Len(sent) + 1] = x /\ \A j \in 1 .. Len(sent) : sent'[j] = sent[j]
      BY <1>2, <3>1, AppendType DEF x
    <3>6. \A j \in DOMAIN sent : sent[j].ifa \in 1 .. todo - 1 /\ sent[j].ifa # iface
      BY <1>4, <3>2
    <3>7. {sent'[j].ifa : j \in DOMAIN sent'} = 1 .. todo' - 1 \ {iface'}
      <4>1. {sent'[j].ifa : j \in DOMAIN sent'} = {sent[j].ifa : j \in DOMAIN sent} \cup {todo}
        BY <1>2, <3>4, <3>5, SMTT(30)
      <4>2. 1 .. todo' - 1 \ {iface'} = (1 .. todo - 1 \ {iface}) \cup {todo}
        <5>1. todo' - 1 = todo /\ iface' = iface /\ todo \in Nat /\ todo >= 1
          <6>1. todo' = todo + 1 /\ iface' = iface /\ todo \in 1 .. Len(ifaces)
            BY <1>1, <1>2, Zenon
          <6> QED BY <1>2, <6>1, SMTT(30)
        <5>2. 1 .. todo = (1 .. todo - 1) \cup {todo}
          BY <5>1
        <5> QED BY <3>2, <5>1, <5>2
      <4> QED BY <1>4, <3>2, <4>1, <4>2
    <3>8. ASSUME NEW j \in DOMAIN sent', NEW k \in DOMAIN sent', sent'[j].ifa = sent'[k].ifa
          PROVE  j = k
      <4>1. \A h \in DOMAIN sent : sent'[h] = sent[h] /\ sent[h].ifa # todo
        BY <1>2, <3>5, <3>6
      <4>2. \A h \in DOMAIN sent' : h \in DOMAIN sent \/ h = Len(sent) + 1
        BY <1>2, <3>5
      <4>3. sent'[Len(sent) + 1].ifa = todo
        BY <3>4, <3>5
      <4> QED BY <1>4, <3>8, <4>1, <4>2, <4>3, Zenon
    <3> QED BY <3>3, <3>5, <3>7, <3>8
  <2>2. CASE ~Outgoing(todo)
    <3>1. msg' = msg /\ sent' = sent /\ iface' = iface /\ orig' = orig
      BY <1>1, <2>2 DEF Forward
    <3>2. Proxied(msg)' <=> Proxied(msg)
      BY <3>1 DEF Proxied
    <3>3. Proxied(msg) => 1 .. todo' - 1 \ {iface} = 1 .. todo - 1 \ {iface}
      <4>1. Proxied(msg) => todo = iface
        BY <2>2 DEF Outgoing
      <4> QED BY <1>1, <1>2, <4>1
    <3> QED BY <1>2, <1>4, <3>1, <3>2, <3>3
  <2> QED BY <2>1, <2>2
<1>7. Copied'
  BY <1>5, <1>6 DEF Copied, IsSequence
<1> QED BY <1>3, <1>7 DEF IInv

-----------------------------------------------------------------------------
(***************************************************************************)
(* The theorems.                                                           *)
(***************************************************************************)
LEMMA InitIInv == Init => IInv
<1> SUFFICES ASSUME Init PROVE IInv
  OBVIOUS
<1>1. /\ argv \in Seq(Arg) /\ optind = 1 /\ ifaces = <<>> /\ opened = 0 /\ pc = "args"
      /\ todo = 1 /\ sent = <<>>
  BY NdProxyAssumption DEF Init
<1>2. IsSequence(<<>>) /\ DOMAIN <<>> = {} /\ Len(<<>>) = 0
  <2>1. <<>> \in Seq({})
    OBVIOUS
  <2> QED BY <2>1 DEF IsSequence
<1>3. Cardinality(Given(0)) = 0
  <2>1. Given(0) = {}
    BY DEF Given
  <2> QED BY <2>1, FS_EmptySet
<1>4. Listed
  <2>1. optind - 1 = 0 /\ optind \in 1 .. Len(argv) + 1
    BY <1>1
  <2> QED BY <1>1, <1>2, <1>3, <2>1 DEF Listed
<1>5. Opened
  BY <1>1, <1>2 DEF Opened
<1>6. Copied
  BY <1>1, <1>2 DEF Copied
<1> QED BY <1>4, <1>5, <1>6 DEF IInv

LEMMA NextIInv == IInv /\ [Next]_vars => IInv'
<1> SUFFICES ASSUME IInv, [Next]_vars PROVE IInv'
  BY Zenon
<1>1. CASE UNCHANGED vars
  <2>1. UNCHANGED <<pc, argv, optind, ifaces, opened, iface, msg, todo, sent, orig>>
    BY <1>1 DEF vars, startVars, relayVars
  <2>2. Listed'
    BY <2>1 DEF IInv, Listed, IsSequence, Given
  <2>3. Opened'
    BY <2>1 DEF IInv, Opened
  <2>4. Copied'
    BY <2>1 DEF IInv, Copied, IsSequence, Relays, Proxied
  <2> QED BY <2>2, <2>3, <2>4 DEF IInv
<1>2. CASE \E i \in 1 .. opened, m \in Inputs : Receive(i, m)
  BY <1>2, ReceiveKeeps
<1> QED BY <1>1, <1>2, ParseArgKeeps, StartKeeps, ForwardKeeps DEF Next, Works

LEMMA SpecIInv == Spec => []IInv
  BY InitIInv, NextIInv, PTL DEF Spec

\* A message leaves once through every other interface of the command line, and
\* all of these are open by then, for any number of interfaces (main, proxy_rsra).
THEOREM LeavesOnce == Spec => []RelayedOnce
<1>1. IInv => RelayedOnce
  <2> SUFFICES ASSUME IInv PROVE RelayedOnce
    OBVIOUS
  <2>1. ASSUME sent # <<>> PROVE {sent[j].ifa : j \in DOMAIN sent} = 1 .. todo - 1 \ {iface}
    BY <2>1 DEF IInv, Copied
  <2>2. ASSUME NEW j \in DOMAIN sent PROVE sent[j].ifa # iface
    <3>1. sent # <<>>
      BY <2>2
    <3> QED BY <2>1, <2>2, <3>1, Zenon
  <2>3. ASSUME pc \in {"idle", "relay"}
        PROVE  opened = Cardinality({k \in DOMAIN argv : argv[k].opt = "i"})
    <3>1. argv \in Seq(Arg) /\ Len(argv) \in Nat /\ optind = Len(argv) + 1
      BY <2>3 DEF IInv, Listed, Opened
    <3>2. Given(optind - 1) = {k \in DOMAIN argv : argv[k].opt = "i"}
      BY <3>1 DEF Given
    <3>3. opened = Cardinality(Given(optind - 1))
      BY <2>3 DEF IInv, Listed, Opened
    <3> QED BY <3>2, <3>3, Zenon
  <2>4. ASSUME pc = "idle", sent # <<>>
        PROVE  {sent[j].ifa : j \in DOMAIN sent} = 1 .. opened \ {iface}
    <3>1. todo = Len(ifaces) + 1 /\ opened = Len(ifaces) /\ opened \in Nat
      BY <2>4 DEF IInv, Opened, Copied
    <3>2. todo - 1 = opened
      BY <3>1
    <3> QED BY <2>1, <2>4, <3>2
  <2>5. \A j, k \in DOMAIN sent : sent[j].ifa = sent[k].ifa => j = k
    BY DEF IInv, Copied
  <2> QED BY <2>2, <2>3, <2>4, <2>5 DEF RelayedOnce
<1> QED BY <1>1, SpecIInv, PTL

\* Only what the command line asks for is relayed, however many entries name an
\* interface and in whatever order (parse_interface, handle_fd).
THEOREM OnlyAsTold == Spec => []RelaysAsTold
<1>1. IInv => RelaysAsTold
  <2> SUFFICES ASSUME IInv, sent # <<>>
               PROVE  \E k \in DOMAIN argv :
                        /\ argv[k].opt = "i" /\ argv[k].name = ifaces[iface].name
                        /\ orig.type \in Words(argv[k]) \/ ~argv[k].colon
    BY DEF RelaysAsTold
  <2>1. iface \in DOMAIN ifaces /\ orig.type \in ifaces[iface].flags
    BY DEF IInv, Copied, Relays
  <2>2. PICK k \in DOMAIN argv : argv[k].opt = "i" /\ ifaces[iface] = parse_interface(argv[k])
    BY <2>1 DEF IInv, Listed
  <2>3. /\ ifaces[iface].name = argv[k].name
        /\ argv[k].colon => ifaces[iface].flags = Words(argv[k])
    BY <2>2 DEF parse_interface
  <2> QED BY <2>1, <2>2, <2>3
<1> QED BY <1>1, SpecIInv, PTL

-----------------------------------------------------------------------------
(***************************************************************************)
(* The checksum.  The value of MaxShort does not matter.                   *)
(***************************************************************************)
LEMMA MaxShortType == MaxShort \in Nat /\ MaxShort >= 2
  BY SMT DEF MaxShort

LEMMA DivMod ==
  ASSUME NEW n \in Int, NEW b \in Nat \ {0}
  PROVE  n \div b \in Int /\ n % b \in 0 .. b - 1 /\ n = (n \div b) * b + (n % b)
  BY SMT

LEMMA Cancel ==
  ASSUME NEW a \in Int, NEW c \in Int, NEW u \in Nat \ {0}, a * u < c * u
  PROVE  a < c
  BY SMT

\* A carry changes a number by a multiple of MaxShort.
LEMMA CarryBounds ==
  ASSUME NEW x \in Nat, x <= 3 * MaxShort
  PROVE  \E q \in 0 .. 2 : /\ Carry(x) = x - q * MaxShort
                           /\ q * MaxShort + q <= x /\ x <= q * MaxShort + q + MaxShort
<1> DEFINE N == MaxShort + 1
           q == x \div N
           r == x % N
<1>1. MaxShort \in Nat /\ N \in Nat \ {0} /\ x <= 3 * N
  BY MaxShortType
<1>2. q \in Int /\ r \in 0 .. N - 1 /\ x = q * N + r
  <2> HIDE DEF N
  <2> QED BY <1>1, DivMod
<1>3. Carry(x) = r + q
  BY DEF Carry
<1> HIDE DEF q, r
<1>4. q * N \in Int /\ q * N = q * MaxShort + q /\ q * MaxShort \in Int
  BY <1>1, <1>2
<1>5. q \in 0 .. 2
  <2>1. q < 3
    <3>1. q * N < 3 * N
      BY <1>1, <1>2, <1>4, MaxShortType
    <3> HIDE DEF N
    <3> QED BY <1>1, <1>2, <3>1, Cancel
  <2>2. -1 < q
    <3>1. (-1) * N < q * N
      BY <1>1, <1>2, <1>4
    <3> HIDE DEF N
    <3>2. -1 \in Int
      OBVIOUS
    <3> QED BY <1>1, <1>2, <3>1, <3>2, Cancel
  <2> QED BY <1>2, <2>1, <2>2
<1>6. Carry(x) = x - q * MaxShort /\ q * MaxShort + q <= x /\ x <= q * MaxShort + q + MaxShort
  BY <1>1, <1>2, <1>3, <1>4
<1> QED BY <1>5, <1>6

\* When a word of a message changes, two rounds of the carry loop make a word of
\* the adjusted checksum, and checksum and word together stay the same modulo
\* 65535, as the ones' complement sum asks, whatever the three values are
\* (update_slla_option).
THEOREM AdjustedSum ==
  ASSUME NEW cksum \in Short, NEW old \in Short, NEW new \in Short
  PROVE  /\ adjust(cksum, old, new) \in Short
         /\ \E k \in Int : adjust(cksum, old, new) + new = cksum + old + k * MaxShort
<1> DEFINE s == Not16(cksum) + Not16(old) + new
<1>1. MaxShort \in Nat /\ MaxShort >= 2
  BY MaxShortType
<1>2. s \in Nat /\ s <= 3 * MaxShort /\ s = MaxShort - cksum + (MaxShort - old) + new
  BY <1>1 DEF Not16, Short
<1>3. adjust(cksum, old, new) = Not16(Carry(Carry(s)))
  BY DEF adjust
<1> HIDE DEF s
<1>4. PICK p \in 0 .. 2 : /\ Carry(s) = s - p * MaxShort
                          /\ p * MaxShort + p <= s /\ s <= p * MaxShort + p + MaxShort
  BY <1>2, CarryBounds
<1>5. p * MaxShort \in Int
  BY <1>1
<1>6. Carry(s) \in Nat /\ Carry(s) <= MaxShort + 2
  BY <1>1, <1>2, <1>4, <1>5
<1>7. PICK q \in 0 .. 2 : /\ Carry(Carry(s)) = Carry(s) - q * MaxShort
                          /\ q * MaxShort + q <= Carry(s)
                          /\ Carry(s) <= q * MaxShort + q + MaxShort
  <2>1. Carry(s) <= 3 * MaxShort
    BY <1>1, <1>6
  <2> QED BY <1>6, <2>1, CarryBounds
<1>8. Carry(Carry(s)) \in Short
  <2>1. CASE q = 0
    BY <1>1, <1>6, <1>7, <2>1 DEF Short
  <2>2. CASE q = 1
    BY <1>1, <1>6, <1>7, <2>2 DEF Short
  <2>3. CASE q = 2
    BY <1>1, <1>6, <1>7, <2>3 DEF Short
  <2> QED BY <2>1, <2>2, <2>3
<1>9. adjust(cksum, old, new) \in Short
  BY <1>1, <1>3, <1>8 DEF Not16, Short
<1>10. adjust(cksum, old, new) + new = cksum + old + (p + q - 1) * MaxShort
  <2>1. q * MaxShort \in Int
        /\ (p + q - 1) * MaxShort = p * MaxShort + q * MaxShort - MaxShort
    BY <1>1
  <2>2. adjust(cksum, old, new) = MaxShort - (s - p * MaxShort - q * MaxShort)
    BY <1>3, <1>4, <1>7 DEF Not16
  <2> QED BY <1>1, <1>2, <1>5, <2>1, <2>2 DEF Short
<1>11. p + q - 1 \in Int
  OBVIOUS
<1> QED BY <1>9, <1>10, <1>11

\* A set of naturals that is not empty has a least element, and a greatest one
\* when it is bounded.
LEMMA LeastNat ==
  ASSUME NEW S, S \subseteq Nat, S # {}
  PROVE  \E m \in S : \A k \in S : m <= k
<1>1. IsWellFoundedOn(OpToRel(<, Nat), Nat)
  BY NatLessThanWellFounded, Zenon
<1>2. PICK m \in S : \A k \in S : ~(<<k, m>> \in OpToRel(<, Nat))
  BY <1>1, WFMin, Zenon
<1>3. \A k \in S : ~(k < m)
  BY <1>2, Zenon DEF OpToRel
<1> QED BY <1>3

\* A bounded set of naturals that is not empty has a greatest element.
LEMMA Greatest ==
  ASSUME NEW N \in Nat, NEW S, S \subseteq 0 .. N, S # {}
  PROVE  \E m \in S : \A k \in S : k <= m
<1> DEFINE R == {n \in Nat : \E k \in S : n = N - k}
<1>1. R # {}
  <2>1. PICK k \in S : TRUE
    BY Zenon
  <2>2. N - k \in Nat
    BY <2>1
  <2> QED BY <2>1, <2>2, Zenon
<1>2. PICK r \in R : \A k \in R : r <= k
  BY <1>1, LeastNat, Zenon
<1>3. PICK m \in S : r = N - m
  BY <1>2
<1>4. ASSUME NEW k \in S PROVE k <= m
  <2>1. N - k \in Nat
    OBVIOUS
  <2>2. N - k \in R
    BY <2>1, Zenon
  <2>3. N - m <= N - k
    BY <1>2, <1>3, <2>2, Zenon
  <2> HIDE DEF R
  <2> QED BY <2>3
<1> QED BY <1>4

-----------------------------------------------------------------------------
(***************************************************************************)
(* Sums modulo MaxShort.                                                   *)
(***************************************************************************)
Congruent(x, y) == \E q \in Int : x = y + q * MaxShort

\* Being equal modulo MaxShort goes with sums ...
LEMMA CongruentAdd ==
  ASSUME NEW a \in Int, NEW b \in Int, NEW c \in Int, NEW d \in Int,
         Congruent(a, b), Congruent(c, d)
  PROVE  Congruent(a + c, b + d)
<1>1. PICK p \in Int : a = b + p * MaxShort
  BY DEF Congruent
<1>2. PICK q \in Int : c = d + q * MaxShort
  BY DEF Congruent
<1>3. p + q \in Int /\ (p + q) * MaxShort = p * MaxShort + q * MaxShort
      /\ p * MaxShort \in Int /\ q * MaxShort \in Int
  BY MaxShortType
<1>4. a + c = (b + d) + (p + q) * MaxShort
  BY <1>1, <1>2, <1>3
<1> QED BY <1>3, <1>4 DEF Congruent

\* ... and is an equivalence.
LEMMA CongruentTrans ==
  ASSUME NEW a \in Int, NEW b \in Int, NEW c \in Int, Congruent(a, b), Congruent(b, c)
  PROVE  Congruent(a, c)
<1>1. PICK p \in Int : a = b + p * MaxShort
  BY DEF Congruent
<1>2. PICK q \in Int : b = c + q * MaxShort
  BY DEF Congruent
<1>3. p + q \in Int /\ (p + q) * MaxShort = p * MaxShort + q * MaxShort
      /\ p * MaxShort \in Int /\ q * MaxShort \in Int
  BY MaxShortType
<1>4. a = c + (p + q) * MaxShort
  BY <1>1, <1>2, <1>3
<1> QED BY <1>3, <1>4 DEF Congruent

LEMMA CongruentRefl ==
  ASSUME NEW a \in Int
  PROVE  Congruent(a, a)
<1>1. 0 \in Int /\ a = a + 0 * MaxShort
  BY MaxShortType
<1> QED BY <1>1 DEF Congruent

LEMMA CongruentSym ==
  ASSUME NEW a \in Int, NEW b \in Int, Congruent(a, b)
  PROVE  Congruent(b, a)
<1>1. PICK p \in Int : a = b + p * MaxShort
  BY DEF Congruent
<1>2. -p \in Int /\ p * MaxShort \in Int /\ (-p) * MaxShort = -(p * MaxShort)
  BY MaxShortType
<1>3. b = a + (-p) * MaxShort
  BY <1>1, <1>2
<1> QED BY <1>2, <1>3 DEF Congruent

\* The carry keeps a number modulo MaxShort, and makes it zero only if it is.
LEMMA CarryCongruent ==
  ASSUME NEW x \in Nat, x <= 3 * MaxShort
  PROVE  /\ Carry(x) \in Nat /\ Congruent(Carry(x), x)
         /\ Carry(x) <= x /\ Carry(x) <= MaxShort + 2
         /\ x <= 2 * MaxShort => Carry(x) <= MaxShort
         /\ x <= MaxShort + 2 => Carry(x) <= MaxShort
         /\ Carry(x) = 0 => x = 0
<1>1. MaxShort \in Nat /\ MaxShort >= 2
  BY MaxShortType
<1>2. PICK q \in 0 .. 2 : /\ Carry(x) = x - q * MaxShort
                          /\ q * MaxShort + q <= x /\ x <= q * MaxShort + q + MaxShort
  BY CarryBounds
<1>3. q * MaxShort \in Int /\ -q \in Int /\ (-q) * MaxShort = -(q * MaxShort)
  BY <1>1
<1>4. Carry(x) = x + (-q) * MaxShort
  BY <1>2, <1>3
<1>5. Congruent(Carry(x), x)
  BY <1>3, <1>4 DEF Congruent
<1>6. CASE q = 0
  BY <1>1, <1>2, <1>5, <1>6
<1>7. CASE q = 1
  BY <1>1, <1>2, <1>5, <1>7
<1>8. CASE q = 2
  BY <1>1, <1>2, <1>5, <1>8
<1> QED BY <1>6, <1>7, <1>8

\* A sum that is carried twice is MaxShort if and only if it is a multiple of
\* MaxShort other than zero.
LEMMA CarriedTwice ==
  ASSUME NEW x \in Nat, x <= 3 * MaxShort
  PROVE  Carry(Carry(x)) = MaxShort <=> x # 0 /\ Congruent(x, 0)
<1>1. MaxShort \in Nat /\ MaxShort >= 2
  BY MaxShortType
<1>2. /\ Carry(x) \in Nat /\ Congruent(Carry(x), x) /\ Carry(x) <= MaxShort + 2
      /\ Carry(x) = 0 => x = 0 
      /\ Carry(x) <= x
  BY CarryCongruent
<1>3. Carry(x) <= 3 * MaxShort
  BY <1>1, <1>2
<1>4. /\ Carry(Carry(x)) \in Nat /\ Congruent(Carry(Carry(x)), Carry(x))
      /\ Carry(Carry(x)) <= MaxShort /\ (Carry(Carry(x)) = 0 => Carry(x) = 0)
      /\ Carry(Carry(x)) <= Carry(x)
  BY <1>2, <1>3, CarryCongruent
<1> DEFINE y == Carry(Carry(x))
<1>5. Congruent(y, x)
  BY <1>2, <1>4, CongruentTrans
<1>6. y \in Nat /\ y <= MaxShort /\ (y = 0 <=> x = 0)
  BY <1>2, <1>4
<1> HIDE DEF y
<1>7. ASSUME y = MaxShort PROVE x # 0 /\ Congruent(x, 0)
  <2>1. Congruent(y, 0)
    <3>1. 1 \in Int /\ y = 0 + 1 * MaxShort
      BY <1>1, <1>7
    <3> QED BY <3>1 DEF Congruent
  <2>2. Congruent(x, y)
    BY <1>5, <1>6, CongruentSym
  <2> QED BY <1>1, <1>6, <1>7, <2>1, <2>2, CongruentTrans
<1>8. ASSUME x # 0, Congruent(x, 0) PROVE y = MaxShort
  <2>1. Congruent(y, 0)
    BY <1>5, <1>6, <1>8, CongruentTrans
  <2>2. PICK q \in Int : y = 0 + q * MaxShort
    BY <2>1 DEF Congruent
  <2>3. q * MaxShort = y /\ y > 0 /\ y <= MaxShort
    BY <1>1, <1>6, <1>8, <2>2
  <2>4. q > 0 
    <3>1. 0 * MaxShort < q * MaxShort
      BY <1>1, <2>3
    <3> QED BY <1>1, <3>1, Cancel
  <2>5. q < 2
    <3>1. q * MaxShort < 2 * MaxShort
      BY <1>1, <1>6, <2>3
    <3> QED BY <1>1, <3>1, Cancel
  <2>6. q = 1
    BY <2>4, <2>5
  <2> QED BY <1>1, <2>3, <2>6
<1> QED BY <1>7, <1>8 DEF y

-----------------------------------------------------------------------------
(***************************************************************************)
(* The sum of the words of the options.                                    *)
(***************************************************************************)
\* f[k] is the sum of the first k words.
Sums(f, s, K) == f = [k \in 0 .. K |-> IF k = 0 THEN 0 ELSE Carry(Word(s, 2 * k - 1) + f[k - 1])]

\* The sums of the words exist, although they are defined by recursion,
LEMMA SumsExist ==
  ASSUME NEW s, NEW K \in Nat
  PROVE  \E f : Sums(f, s, K)
<1> DEFINE Bad == {n \in Nat : ~\E f : Sums(f, s, n)}
<1> SUFFICES ASSUME Bad # {} PROVE FALSE
  BY Zenon
<1>1. PICK n \in Bad : \A k \in Bad : n <= k
  <2>1. Bad \subseteq Nat
    BY Zenon
  <2> HIDE DEF Bad
  <2> QED BY <2>1, LeastNat, Zenon
<1>2. n \in Nat
  BY <1>1, Zenon
<1>3. n # 0
  <2> DEFINE g == [k \in 0 .. 0 |-> 0]
  <2>1. Sums(g, s, 0)
    BY DEF Sums
  <2> HIDE DEF g
  <2> QED BY <1>1, <2>1, Zenon
<1>4. n - 1 \in Nat /\ ~(n <= n - 1)
  BY <1>2, <1>3
<1>5. PICK g : Sums(g, s, n - 1)
  BY <1>1, <1>4, Zenon
<1> DEFINE h == [k \in 0 .. n |-> IF k = n THEN Carry(Word(s, 2 * n - 1) + g[n - 1]) ELSE g[k]]
           body(f) == [k \in 0 .. n |-> IF k = 0 THEN 0 ELSE Carry(Word(s, 2 * k - 1) + f[k - 1])]
<1>6. g = [k \in 0 .. n - 1 |-> IF k = 0 THEN 0 ELSE Carry(Word(s, 2 * k - 1) + g[k - 1])]
  BY <1>5, Zenon DEF Sums
<1>7. ASSUME NEW k \in 0 .. n
      PROVE  h[k] = IF k = 0 THEN 0 ELSE Carry(Word(s, 2 * k - 1) + h[k - 1])
  <2>1. CASE k = n
    <3>1. n - 1 \in 0 .. n /\ n - 1 # n /\ n \in 0 .. n
      BY <1>2, <1>3
    <3>2. h[n - 1] = g[n - 1]
      BY <3>1, Zenon
    <3>3. h[n] = Carry(Word(s, 2 * n - 1) + g[n - 1])
      BY <3>1, Zenon
    <3> HIDE DEF h
    <3> QED BY <1>3, <2>1, <3>2, <3>3, Zenon
  <2>2. CASE k # n
    <3>1. k \in 0 .. n - 1
      BY <1>2, <1>7, <2>2
    <3>2. h[k] = g[k]
      BY <1>7, <2>2, Zenon
    <3>3. g[k] = IF k = 0 THEN 0 ELSE Carry(Word(s, 2 * k - 1) + g[k - 1])
      BY <1>6, <3>1, Zenon
    <3>4. k # 0 => k - 1 \in 0 .. n /\ k - 1 # n
      BY <1>2, <3>1
    <3>5. k # 0 => h[k - 1] = g[k - 1]
      BY <3>4, Zenon
    <3> HIDE DEF h
    <3> QED BY <3>2, <3>3, <3>5, Zenon
  <2> QED BY <2>1, <2>2, Zenon
<1>8. Sums(h, s, n)
  <2>1. h = [k \in 0 .. n |-> h[k]]
    BY Zenon
  <2> HIDE DEF h
  <2>2. [k \in 0 .. n |-> h[k]] = body(h)
    BY <1>7, Zenon
  <2> QED BY <2>1, <2>2, Zenon DEF Sums
<1> QED BY <1>1, <1>8, Zenon

\* each is the next word carried into the one before,
LEMMA SumStep ==
  ASSUME NEW f, NEW s, NEW K \in Nat, Sums(f, s, K), NEW k \in 0 .. K
  PROVE  f[k] = IF k = 0 THEN 0 ELSE Carry(Word(s, 2 * k - 1) + f[k - 1])
  BY Zenon DEF Sums

\* and WordSum is the last of them.
LEMMA WordSumIs ==
  ASSUME NEW s, NEW K \in Nat, K = Len(s) \div 2
  PROVE  \E f : Sums(f, s, K) /\ WordSum(s) = f[K]
<1> DEFINE f == CHOOSE g : Sums(g, s, K)
<1>1. Sums(f, s, K)
  <2>1. \E g : Sums(g, s, K)
    BY SumsExist
  <2> QED BY <2>1, Zenon
<1>2. WordSum(s) = f[K]
  BY Zenon DEF WordSum, Sums
<1> QED BY <1>1, <1>2, Zenon

\* The words of a sequence of bytes.
LEMMA TwoBytes ==
  ASSUME NEW a \in Byte, NEW b \in Byte
  PROVE  256 * a + b \in Short
<1> DEFINE w == 256 * a + b
           top == 65535
<1>1. a \in 0 .. 255 /\ b \in 0 .. 255
  BY Zenon DEF Byte
<1>2. w \in Nat /\ w <= top
  BY <1>1, SMT
<1>3. MaxShort = top
  BY SMT DEF MaxShort
<1> HIDE DEF w, top
<1>4. w \in Short
  BY <1>2, <1>3, SMT DEF Short
<1> QED BY <1>4 DEF w

\* Two bytes make a word.
LEMMA WordType ==
  ASSUME NEW s \in Seq(Byte), NEW j \in Nat, j + 1 \in 1 .. Len(s), j \in 1 .. Len(s)
  PROVE  Word(s, j) \in Short
<1>1. s[j] \in Byte /\ s[j + 1] \in Byte
  OBVIOUS
<1> HIDE DEF Byte
<1> QED BY <1>1, TwoBytes, SMT DEF Word

Words16(s, K) == \A k \in 1 .. K : Word(s, 2 * k - 1) \in Short

\* The sum of words is a word.
LEMMA SumType ==
  ASSUME NEW f, NEW s, NEW K \in Nat, Sums(f, s, K), Words16(s, K)
  PROVE  \A k \in 0 .. K : f[k] \in Short
<1> DEFINE Bad == {k \in 0 .. K : f[k] \notin Short}
<1> SUFFICES ASSUME Bad # {} PROVE FALSE
  BY Zenon
<1>0. MaxShort \in Nat /\ MaxShort >= 2
  BY MaxShortType
<1>1. PICK n \in Bad : \A k \in Bad : n <= k
  <2>1. Bad \subseteq Nat
    OBVIOUS
  <2> HIDE DEF Bad
  <2> QED BY <2>1, LeastNat, Zenon
<1>2. n \in 0 .. K /\ f[n] \notin Short
  BY <1>1, Zenon
<1>3. n # 0
  <2>1. f[0] = 0
    BY <1>0, SumStep
  <2> QED BY <1>0, <1>2, <2>1 DEF Short
<1>4. n - 1 \in 0 .. K /\ ~(n <= n - 1) /\ n \in 1 .. K
  BY <1>2, <1>3
<1>5. f[n - 1] \in Short
  BY <1>1, <1>4, Zenon
<1>6. Word(s, 2 * n - 1) \in Short
  BY <1>4 DEF Words16
<1> DEFINE x == Word(s, 2 * n - 1) + f[n - 1]
<1>7. x \in Nat /\ x <= 2 * MaxShort /\ x <= 3 * MaxShort
  BY <1>0, <1>5, <1>6 DEF Short
<1>8. f[n] = Carry(x)
  BY <1>2, <1>3, SumStep
<1> HIDE DEF x
<1>9. f[n] \in Short
  BY <1>0, <1>7, <1>8, CarryCongruent DEF Short
<1> QED BY <1>2, <1>9

\* A sum in which a word is not zero is not zero.
LEMMA SumPositive ==
  ASSUME NEW f, NEW s, NEW K \in Nat, Sums(f, s, K), Words16(s, K),
         NEW j \in 1 .. K, Word(s, 2 * j - 1) # 0
  PROVE  f[K] # 0
<1> DEFINE Bad == {k \in j .. K : f[k] = 0}
<1> SUFFICES ASSUME Bad # {} PROVE FALSE
  <2>1. K \in j .. K
    OBVIOUS
  <2> QED BY <2>1, Zenon
<1>0. MaxShort \in Nat /\ MaxShort >= 2
  BY MaxShortType
<1>1. PICK n \in Bad : \A k \in Bad : n <= k
  <2>1. Bad \subseteq Nat
    OBVIOUS
  <2> HIDE DEF Bad
  <2> QED BY <2>1, LeastNat, Zenon
<1>2. n \in j .. K /\ f[n] = 0
  BY <1>1, Zenon
<1>3. n \in 0 .. K /\ n # 0 /\ n - 1 \in 0 .. K /\ n \in 1 .. K
  BY <1>2
<1>4. f[n - 1] \in Short /\ Word(s, 2 * n - 1) \in Short
  BY <1>3, SumType DEF Words16
<1> DEFINE x == Word(s, 2 * n - 1) + f[n - 1]
<1>5. x \in Nat /\ x <= 3 * MaxShort
  BY <1>0, <1>4 DEF Short
<1>6. f[n] = Carry(x)
  BY <1>3, SumStep
<1>7. x = 0
  <2> HIDE DEF x
  <2> QED BY <1>2, <1>5, <1>6, CarryCongruent, Zenon
<1>8. Word(s, 2 * n - 1) = 0 /\ f[n - 1] = 0
  BY <1>0, <1>4, <1>7 DEF Short
<1>9. n # j
  BY <1>8
<1>10. n - 1 \in j .. K /\ ~(n <= n - 1)
  BY <1>2, <1>9
<1> QED BY <1>1, <1>8, <1>10, Zenon

\* The k-th word.
WordAt(s, k) == Word(s, 2 * k - 1)

\* When three words change, the sum changes by what they do.
LEMMA SumChanges ==
  ASSUME NEW f, NEW g, NEW s, NEW t, NEW K \in Nat, Sums(f, s, K), Sums(g, t, K),
         Words16(s, K), Words16(t, K), NEW a \in Nat, a + 3 <= K,
         \A k \in 1 .. K : k \notin a + 1 .. a + 3 => WordAt(t, k) = WordAt(s, k)
  PROVE  Congruent(g[K], f[K] + ((WordAt(t, a + 1) - WordAt(s, a + 1))
                                 + (WordAt(t, a + 2) - WordAt(s, a + 2))
                                 + (WordAt(t, a + 3) - WordAt(s, a + 3))))
<1> DEFINE e1 == WordAt(t, a + 1) - WordAt(s, a + 1)
           e2 == WordAt(t, a + 2) - WordAt(s, a + 2)
           e3 == WordAt(t, a + 3) - WordAt(s, a + 3)
           d(k) == (IF k >= a + 1 THEN e1 ELSE 0) + (IF k >= a + 2 THEN e2 ELSE 0)
                   + (IF k >= a + 3 THEN e3 ELSE 0)
           Bad == {k \in 0 .. K : ~Congruent(g[k], f[k] + d(k))}
<1>0. MaxShort \in Nat /\ MaxShort >= 2 /\ \A x \in Short : x \in Int /\ x \in Nat
  BY MaxShortType DEF Short
<1>1. \A k \in 1 .. K : WordAt(s, k) \in Short /\ WordAt(t, k) \in Short
  BY DEF Words16, WordAt
<1>2. \A k \in 0 .. K : f[k] \in Short /\ g[k] \in Short
  BY SumType
<1>3. e1 \in Int /\ e2 \in Int /\ e3 \in Int
  <2>1. a + 1 \in 1 .. K /\ a + 2 \in 1 .. K /\ a + 3 \in 1 .. K
    BY SMTT(30)
  <2> QED BY <1>0, <1>1, <2>1
<1>4. ASSUME NEW n \in 1 .. K PROVE WordAt(t, n) + d(n - 1) = WordAt(s, n) + d(n)
  <2>1. WordAt(t, n) \in Int /\ WordAt(s, n) \in Int
    BY <1>0, <1>1
  <2>2. CASE n \notin a + 1 .. a + 3
    <3>1. WordAt(t, n) = WordAt(s, n)
      BY <2>2
    <3> HIDE DEF e1, e2, e3
    <3> QED BY <1>3, <2>1, <2>2, <3>1, SMTT(30)
  <2>3. CASE n = a + 1
    <3>1. WordAt(t, n) = WordAt(s, n) + e1
      BY <2>1, <2>3
    <3> HIDE DEF e1, e2, e3
    <3> QED BY <1>3, <2>1, <2>3, <3>1
  <2>4. CASE n = a + 2
    <3>1. WordAt(t, n) = WordAt(s, n) + e2
      BY <2>1, <2>4
    <3> HIDE DEF e1, e2, e3
    <3> QED BY <1>3, <2>1, <2>4, <3>1
  <2>5. CASE n = a + 3
    <3>1. WordAt(t, n) = WordAt(s, n) + e3
      BY <2>1, <2>5
    <3> HIDE DEF e1, e2, e3
    <3> QED BY <1>3, <2>1, <2>5, <3>1
  <2> HIDE DEF e1, e2, e3, d, Bad
  <2>6. n \notin a + 1 .. a + 3 \/ n = a + 1 \/ n = a + 2 \/ n = a + 3
    BY SMTT(30)
  <2> QED BY <2>2, <2>3, <2>4, <2>5, <2>6, Zenon
<1>5. /\ \A k \in 0 .. K : d(k) \in Int
      /\ d(0) = 0 /\ d(K) = e1 + e2 + e3
  <2> HIDE DEF e1, e2, e3
  <2> QED BY <1>3
<1> HIDE DEF e1, e2, e3, d
<1>6. Bad = {}
  <2> SUFFICES ASSUME Bad # {} PROVE FALSE
    OBVIOUS
  <2>1. PICK n \in Bad : \A k \in Bad : n <= k
    <3>1. Bad \subseteq Nat
      OBVIOUS
    <3> HIDE DEF Bad
    <3> QED BY <3>1, LeastNat, Zenon
  <2>2. n \in 0 .. K /\ ~Congruent(g[n], f[n] + d(n))
    BY <2>1, Zenon
  <2>3. n # 0
    <3>1. 0 \in 0 .. K
      OBVIOUS
    <3>2. f[0] = 0 /\ g[0] = 0
      BY <3>1, SumStep
    <3> QED BY <1>5, <2>2, <3>2, CongruentRefl
  <2>4. n \in 1 .. K /\ n - 1 \in 0 .. K /\ ~(n <= n - 1)
    BY <2>2, <2>3
  <2>5. Congruent(g[n - 1], f[n - 1] + d(n - 1))
    BY <2>1, <2>4, Zenon
  <2>6. /\ f[n - 1] \in Short /\ g[n - 1] \in Short /\ f[n] \in Short /\ g[n] \in Short
        /\ WordAt(s, n) \in Short /\ WordAt(t, n) \in Short
        /\ d(n) \in Int /\ d(n - 1) \in Int
    BY <1>1, <1>2, <1>5, <2>2, <2>4, Zenon
  <2> DEFINE x == WordAt(s, n) + f[n - 1]
             y == WordAt(t, n) + g[n - 1]
  <2>7. x \in Nat /\ x <= 3 * MaxShort /\ y \in Nat /\ y <= 3 * MaxShort
    BY <1>0, <2>6 DEF Short
  <2>8. f[n] = Carry(x) /\ g[n] = Carry(y)
    BY <2>2, <2>3, SumStep, SMTT(30) DEF WordAt
  <2>9. Congruent(y, WordAt(t, n) + (f[n - 1] + d(n - 1)))
    <3>1. Congruent(WordAt(t, n), WordAt(t, n))
      BY <1>0, <2>6, CongruentRefl
    <3>2. /\ WordAt(t, n) \in Int /\ g[n - 1] \in Int /\ f[n - 1] + d(n - 1) \in Int
      BY <1>0, <2>6
    <3> QED BY <2>5, <3>1, <3>2, CongruentAdd, Zenon
  <2>10. WordAt(t, n) + (f[n - 1] + d(n - 1)) = x + d(n)
    BY <1>0, <1>4, <2>4, <2>6, SMTT(30)
  <2> HIDE DEF x, y
  <2>11. Congruent(g[n], y) /\ Congruent(f[n], x)
    BY <2>7, <2>8, CarryCongruent, Zenon
  <2>12. Congruent(x + d(n), f[n] + d(n))
    <3>1. f[n] \in Int /\ x \in Int
      BY <1>0, <2>6, <2>7, SMTT(30)
    <3>2. Congruent(x, f[n]) /\ Congruent(d(n), d(n))
      BY <2>6, <2>11, <3>1, CongruentSym, CongruentRefl, Zenon
    <3> QED BY <2>6, <3>1, <3>2, CongruentAdd, Zenon
  <2>13. /\ g[n] \in Int /\ y \in Int /\ x + d(n) \in Int /\ f[n] + d(n) \in Int
    BY <1>0, <2>6, <2>7, SMTT(30)
  <2>14. Congruent(g[n], x + d(n))
    BY <2>9, <2>10, <2>11, <2>13, CongruentTrans
  <2> QED BY <2>2, <2>12, <2>13, <2>14, CongruentTrans
<1>7. Congruent(g[K], f[K] + d(K))
  <2>1. K \in 0 .. K
    OBVIOUS
  <2> QED BY <1>6, <2>1, Zenon
<1> QED BY <1>5, <1>7 DEF e1, e2, e3

-----------------------------------------------------------------------------
(***************************************************************************)
(* The option that is found.                                               *)
(***************************************************************************)
\* A function that is defined by recursion to greater arguments exists.
Recursion(f, D, stop, base, next) ==
  f = [k \in D |-> IF k \in stop THEN base[k] ELSE f[next[k]]]

\* A function defined by going to greater arguments of a bounded set exists.
LEMMA RecursionExists ==
  ASSUME NEW N \in Nat, NEW D, D \subseteq 0 .. N, NEW stop, NEW base, NEW next,
         \A k \in D : k \notin stop => next[k] \in D /\ next[k] > k
  PROVE  \E f : Recursion(f, D, stop, base, next)
<1> DEFINE From(k) == {j \in D : j >= k}
           Partial(g, k) == Recursion(g, From(k), stop, base, next)
           Bad == {k \in 0 .. N : ~\E g : Partial(g, k)}
<1>0. \A j \in D : j \in Int /\ j >= 0 /\ j <= N
  BY SMT
<1>1. From(0) = D /\ From(N + 1) = {}
  <2>1. \A j \in D : j >= 0 /\ ~(j >= N + 1)
    BY <1>0
  <2> QED BY <2>1, Zenon
<1>2. ASSUME NEW k \in 0 .. N, NEW g, Partial(g, k + 1)
      PROVE  \E h : Partial(h, k)
  <2>1. CASE k \notin D
    <3>1. \A j \in D : j >= k + 1 <=> j >= k
      BY <1>0, <2>1
    <3>2. From(k + 1) = From(k)
      BY <3>1, Zenon
    <3> HIDE DEF From
    <3> QED BY <1>2, <3>2, Zenon
  <2>2. CASE k \in D
    <3> DEFINE first == IF k \in stop THEN base[k] ELSE g[next[k]]
               h == [j \in From(k) |-> IF j = k THEN first ELSE g[j]]
    <3>0. ASSUME NEW j \in D
          PROVE  /\ (j >= k + 1) <=> (j >= k /\ j # k)
                 /\ j >= k /\ j \notin stop => next[j] \in D /\ next[j] >= k + 1
      <4>1. j \in Int /\ (j \notin stop => next[j] \in D /\ next[j] > j /\ next[j] \in Int)
        BY <1>0, Zenon
      <4> HIDE DEF From, Partial, Bad
      <4> QED BY <4>1
    <3>1. \A j \in From(k + 1) : j \in From(k) /\ j # k
      BY <3>0, Zenon
    <3>2. \A j \in From(k) : j \notin stop => next[j] \in From(k + 1)
      BY <3>0, Zenon
    <3>3. k \in From(k) /\ \A j \in From(k) : j # k => j \in From(k + 1)
      <4>1. k >= k
        OBVIOUS
      <4> QED BY <2>2, <3>0, <4>1, Zenon
    <3> HIDE DEF From
    <3>4. \A j \in From(k + 1) : h[j] = g[j]
      BY <3>1, Zenon
    <3>5. h[k] = first
      BY <3>3, Zenon
    <3>6. ASSUME NEW j \in From(k) PROVE h[j] = IF j \in stop THEN base[j] ELSE h[next[j]]
      <4>1. j \notin stop => h[next[j]] = g[next[j]]
        BY <3>2, <3>4, Zenon
      <4>2. CASE j = k
        <5> HIDE DEF h
        <5> QED BY <3>5, <4>1, <4>2, Zenon
      <4>3. CASE j # k
        <5>1. j \in From(k + 1)
          BY <3>3, <4>3, Zenon
        <5>2. g[j] = IF j \in stop THEN base[j] ELSE g[next[j]]
          BY <1>2, <5>1, Zenon DEF Recursion
        <5> HIDE DEF h
        <5> QED BY <3>4, <4>1, <5>1, <5>2, Zenon
      <4> QED BY <4>2, <4>3, Zenon
    <3>7. h = [j \in From(k) |-> h[j]]
      BY Zenon
    <3> HIDE DEF h
    <3>8. [j \in From(k) |-> h[j]] = [j \in From(k) |-> IF j \in stop THEN base[j] ELSE h[next[j]]]
      BY <3>6, Zenon
    <3>9. Partial(h, k)
      BY <3>7, <3>8, Zenon DEF Recursion
    <3> QED BY <3>9, Zenon
  <2> QED BY <2>1, <2>2, Zenon
<1>3. \E g : Partial(g, N + 1)
  <2> DEFINE g == [j \in {} |-> base[j]]
  <2>1. g = [j \in {} |-> IF j \in stop THEN base[j] ELSE g[next[j]]]
    OBVIOUS
  <2> HIDE DEF g, From
  <2> QED BY <1>1, <2>1, Zenon DEF Recursion
<1>4. Bad = {}
  <2> HIDE DEF Partial, From
  <2> SUFFICES ASSUME Bad # {} PROVE FALSE
    BY Zenon
  <2>1. PICK k \in Bad : \A j \in Bad : j <= k
    <3>1. Bad \subseteq 0 .. N
      BY Zenon
    <3> HIDE DEF Bad
    <3> QED BY <3>1, Greatest, Zenon
  <2>2. k \in 0 .. N /\ ~\E g : Partial(g, k)
    BY <2>1, Zenon
  <2>3. ~\E g : Partial(g, k + 1)
    BY <1>2, <2>2, Zenon
  <2>4. k # N
    BY <1>3, <2>3, Zenon
  <2>5. k + 1 \in 0 .. N /\ ~(k + 1 <= k)
    BY <2>2, <2>4
  <2> QED BY <2>1, <2>3, <2>5, Zenon
<1>5. 0 \in 0 .. N
  OBVIOUS
<1>6. PICK g : Partial(g, 0)
  <2> HIDE DEF Partial
  <2> QED BY <1>4, <1>5, Zenon
<1> HIDE DEF From
<1> QED BY <1>1, <1>6, Zenon

\* Even offsets behind which there is room for the header of an option.
LEMMA EvenNext ==
  ASSUME NEW n \in Nat, n % 2 = 0, NEW o \in 0 .. n, o % 2 = 0, o < n, NEW b \in Nat
  PROVE  /\ o + 1 \in 1 .. n /\ o + 2 \in 1 .. n
         /\ o + 2 + 8 * b > o /\ o + 2 + 8 * b \in Nat /\ (o + 2 + 8 * b) % 2 = 0
<1>1. PICK p \in Int : n = 2 * p
  <2>1. n = 2 * (n \div 2) + 0 /\ n \div 2 \in Int
    BY SMT
  <2> QED BY <2>1
<1>2. PICK q \in Int : o = 2 * q
  <2>1. o = 2 * (o \div 2) + 0 /\ o \div 2 \in Int
    BY SMT
  <2> QED BY <2>1
<1>3. o + 2 <= n
  BY <1>1, <1>2
<1>4. o + 2 + 8 * b = 2 * (q + 1 + 4 * b) /\ (2 * (q + 1 + 4 * b)) % 2 = 0
  BY <1>2
<1> QED BY <1>3, <1>4

\* A message's options: bytes, in units of eight.
OptionBytes(s) == s \in Seq(Byte) /\ Len(s) % 8 = 0

\* What OptionBytes says of the length and the bytes.
LEMMA OptionLength ==
  ASSUME NEW s, OptionBytes(s)
  PROVE  /\ Len(s) \in Nat /\ Len(s) % 2 = 0 /\ DOMAIN s = 1 .. Len(s)
         /\ \A k \in 1 .. Len(s) : s[k] \in Nat /\ s[k] \in Byte
<1>1. s \in Seq(Byte) /\ Len(s) \in Nat /\ Len(s) % 8 = 0 /\ DOMAIN s = 1 .. Len(s)
  BY DEF OptionBytes
<1>2. Len(s) % 2 = 0
  BY <1>1
<1>3. \A k \in 1 .. Len(s) : s[k] \in Byte
  BY <1>1
<1>4. Byte \subseteq Nat
  BY SMT DEF Byte
<1> QED BY <1>1, <1>2, <1>3, <1>4, Zenon

\* find_option as the recursion it is.
NextOption(s, o) == o + 2 + 8 * s[o + 2]
Walk(f, s, t) ==
  f = [o \in Offsets(s, 2) |->
         IF o >= Len(s) THEN NotFound
         ELSE IF s[o + 1] = t THEN o
         ELSE IF NextOption(s, o) >= Len(s) THEN NotFound ELSE f[NextOption(s, o)]]

\* The step to the next option.
LEMMA NextType ==
  ASSUME NEW s, OptionBytes(s), NEW o \in Offsets(s, 2), o < Len(s)
  PROVE  /\ o + 1 \in 1 .. Len(s) /\ o + 2 \in 1 .. Len(s)
         /\ NextOption(s, o) \in Nat /\ NextOption(s, o) >= o + 2
         /\ NextOption(s, o) < Len(s) => NextOption(s, o) \in Offsets(s, 2)
<1>1. Len(s) \in Nat /\ Len(s) % 2 = 0 /\ \A k \in 1 .. Len(s) : s[k] \in Nat
  BY OptionLength
<1>2. o \in 0 .. Len(s) /\ o % 2 = 0
  BY DEF Offsets
<1>3. o + 1 \in 1 .. Len(s) /\ o + 2 \in 1 .. Len(s)
  <2>1. 0 \in Nat
    OBVIOUS
  <2> QED BY <1>1, <1>2, <2>1, EvenNext, SMTT(30)
<1>4. s[o + 2] \in Nat
  BY <1>1, <1>3
<1>5. NextOption(s, o) \in Nat /\ NextOption(s, o) % 2 = 0
  BY <1>1, <1>2, <1>4, EvenNext, Zenon DEF NextOption
<1>6. NextOption(s, o) >= o + 2
  BY <1>2, <1>4 DEF NextOption
<1> QED BY <1>1, <1>3, <1>5, <1>6, SMTT(30) DEF Offsets

\* find_option is the value of that recursion at the first option.
LEMMA FindIs ==
  ASSUME NEW s, OptionBytes(s), NEW t
  PROVE  \E f : Walk(f, s, t) /\ find_option(s, t) = f[0]
<1> DEFINE D == Offsets(s, 2)
           L == Len(s)
           stop == {o \in D : o >= L \/ s[o + 1] = t \/ NextOption(s, o) >= L}
           base == [o \in D |-> IF o >= L THEN NotFound ELSE IF s[o + 1] = t THEN o ELSE NotFound]
           next == [o \in D |-> NextOption(s, o)]
<1>1. L \in Nat /\ D \subseteq 0 .. L
  BY OptionLength DEF Offsets
<1>2. ASSUME NEW o \in D, o \notin stop PROVE next[o] \in D /\ next[o] > o
  <2>1. ~(o >= L) /\ ~(NextOption(s, o) >= L) /\ next[o] = NextOption(s, o)
    BY <1>2, Zenon
  <2>2. o \in Nat /\ o < L
    BY <1>1, <2>1
  <2>3. NextOption(s, o) \in Nat /\ NextOption(s, o) >= o + 2
        /\ (NextOption(s, o) < L => NextOption(s, o) \in D)
    BY <2>2, NextType
  <2> HIDE DEF D, L, stop, next
  <2> QED BY <1>1, <2>1, <2>2, <2>3
<1>3. PICK f : Recursion(f, D, stop, base, next)
  <2> HIDE DEF D, L, stop, base, next
  <2> QED BY <1>1, <1>2, RecursionExists, Zenon
<1> DEFINE body(g) == [o \in D |->
             IF o >= L THEN NotFound
             ELSE IF s[o + 1] = t THEN o
             ELSE IF NextOption(s, o) >= L THEN NotFound ELSE g[NextOption(s, o)]]
<1>4. [o \in D |-> IF o \in stop THEN base[o] ELSE f[next[o]]] = body(f)
  <2>1. ASSUME NEW o \in D
        PROVE  (IF o \in stop THEN base[o] ELSE f[next[o]])
                 = IF o >= L THEN NotFound
                   ELSE IF s[o + 1] = t THEN o
                   ELSE IF NextOption(s, o) >= L THEN NotFound ELSE f[NextOption(s, o)]
    BY Zenon
  <2> HIDE DEF D, L, stop, base, next
  <2> QED BY <2>1, Zenon
<1>5. f = body(f)
  BY <1>3, <1>4, Zenon DEF Recursion
<1> DEFINE w == CHOOSE g : g = body(g)
<1>6. w = body(w)
  <2> HIDE DEF body
  <2> QED BY <1>5, Zenon
<1>7. Walk(w, s, t)
  BY <1>6, Zenon DEF Walk
<1>8. find_option(s, t) = w[0]
  BY Zenon DEF find_option, NextOption
<1> QED BY <1>7, <1>8, Zenon

\* A step of the recursion.
LEMMA WalkStep ==
  ASSUME NEW f, NEW s, NEW t, Walk(f, s, t), NEW o \in Offsets(s, 2)
  PROVE  f[o] = IF o >= Len(s) THEN NotFound
                ELSE IF s[o + 1] = t THEN o
                ELSE IF NextOption(s, o) >= Len(s) THEN NotFound ELSE f[NextOption(s, o)]
  BY Zenon DEF Walk

\* What is found is an option of the type asked for, from where the walk begins.
Found(s, t, o, r) == r \in Offsets(s, 2) /\ r >= o /\ r < Len(s) /\ s[r + 1] = t

\* From wherever it begins, the walk finds such an option or none.
LEMMA WalkFinds ==
  ASSUME NEW f, NEW s, OptionBytes(s), NEW t, Walk(f, s, t)
  PROVE  \A o \in Offsets(s, 2) : f[o] = NotFound \/ Found(s, t, o, f[o])
<1> DEFINE D == Offsets(s, 2)
           Fine(o) == f[o] = NotFound \/ Found(s, t, o, f[o])
           Bad == {o \in D : ~Fine(o)}
<1>1. Len(s) \in Nat /\ D \subseteq 0 .. Len(s)
  BY OptionLength DEF Offsets
<1> SUFFICES ASSUME Bad # {} PROVE FALSE
  BY Zenon
<1>2. PICK o \in Bad : \A j \in Bad : j <= o
  <2>1. Bad \subseteq 0 .. Len(s)
    BY <1>1, Zenon
  <2> HIDE DEF Bad
  <2> QED BY <1>1, <2>1, Greatest, Zenon
<1>3. o \in D /\ ~Fine(o)
  BY <1>2, Zenon
<1> DEFINE n == NextOption(s, o)
<1>4. f[o] = IF o >= Len(s) THEN NotFound
             ELSE IF s[o + 1] = t THEN o ELSE IF n >= Len(s) THEN NotFound ELSE f[n]
  <2>1. o \in Offsets(s, 2)
    BY <1>3, Zenon
  <2> HIDE DEF D, Fine, Bad
  <2> QED BY <2>1, WalkStep
<1>5. ~(o >= Len(s))
  BY <1>3, <1>4, Zenon
<1>6. o \in Nat /\ o < Len(s) /\ o >= o
  BY <1>1, <1>3, <1>5
<1>7. s[o + 1] # t
  BY <1>3, <1>4, <1>5, <1>6, Zenon DEF Found
<1>8. ~(n >= Len(s)) /\ f[o] = f[n]
  BY <1>3, <1>4, <1>5, <1>7, Zenon
<1>9. n \in D /\ n > o
  <2>1. n \in Nat /\ n >= o + 2 /\ (n < Len(s) => n \in D)
    BY <1>3, <1>6, NextType, Zenon
  <2> HIDE DEF n, D, Fine, Bad
  <2> QED BY <1>1, <1>6, <1>8, <2>1
<1>10. Fine(n)
  <2>1. ~(n <= o)
    <3> HIDE DEF n, D, Fine, Bad
    <3> QED BY <1>1, <1>6, <1>9
  <2> QED BY <1>2, <1>9, <2>1, Zenon
<1>11. Found(s, t, n, f[n]) => Found(s, t, o, f[n])
  <2> HIDE DEF n, D, Fine, Bad
  <2> QED BY <1>1, <1>6, <1>9 DEF Found, Offsets
<1> QED BY <1>3, <1>8, <1>10, <1>11, Zenon

\* The option that find_option returns.
LEMMA FindType ==
  ASSUME NEW s, OptionBytes(s), NEW t, find_option(s, t) # NotFound
  PROVE  Found(s, t, 0, find_option(s, t))
<1>1. PICK f : Walk(f, s, t) /\ find_option(s, t) = f[0]
  BY FindIs, Zenon
<1>2. 0 \in Offsets(s, 2)
  BY OptionLength DEF Offsets
<1> QED BY <1>1, <1>2, WalkFinds, Zenon

\* It is found again when what is behind its header changes.
LEMMA FindAgain ==
  ASSUME NEW s, OptionBytes(s), NEW u, OptionBytes(u), Len(u) = Len(s), NEW t,
         NEW r, r = find_option(s, t), r # NotFound,
         \A k \in 1 .. r + 2 : u[k] = s[k]
  PROVE  find_option(u, t) = r
<1> DEFINE D == Offsets(s, 2)
           L == Len(s)
<1>1. PICK f : Walk(f, s, t) /\ find_option(s, t) = f[0]
  BY FindIs, Zenon
<1>2. PICK g : Walk(g, u, t) /\ find_option(u, t) = g[0]
  BY FindIs, Zenon
<1>3. L \in Nat /\ D \subseteq 0 .. L /\ 0 \in D /\ Offsets(u, 2) = D
  BY OptionLength DEF Offsets
<1>4. Found(s, t, 0, r)
  BY FindType, Zenon
<1>5. r \in D /\ r \in Nat /\ r < L /\ s[r + 1] = t
  BY <1>3, <1>4 DEF Found
<1> DEFINE Fine(o) == f[o] = r => g[o] = r
           Bad == {o \in D : ~Fine(o)}
<1>6. Bad = {}
  <2> SUFFICES ASSUME Bad # {} PROVE FALSE
    BY Zenon
  <2>1. PICK o \in Bad : \A j \in Bad : j <= o
    <3>1. Bad \subseteq 0 .. L
      BY <1>3, Zenon
    <3> HIDE DEF Bad, L
    <3> QED BY <1>3, <3>1, Greatest, Zenon
  <2>2. o \in D /\ f[o] = r /\ g[o] # r
    BY <2>1, Zenon
  <2> DEFINE n == NextOption(s, o)
  <2>3. /\ f[o] = IF o >= L THEN NotFound
                  ELSE IF s[o + 1] = t THEN o ELSE IF n >= L THEN NotFound ELSE f[n]
        /\ g[o] = IF o >= L THEN NotFound
                  ELSE IF u[o + 1] = t THEN o
                  ELSE IF NextOption(u, o) >= L THEN NotFound ELSE g[NextOption(u, o)]
    <3>1. o \in Offsets(s, 2) /\ o \in Offsets(u, 2)
      BY <1>3, <2>2, Zenon
    <3> HIDE DEF D, Fine, Bad
    <3> QED BY <1>1, <1>2, <3>1, WalkStep
  <2>4. ~(o >= L)
    BY <2>2, <2>3, Zenon
  <2>5. o \in Nat /\ o < L
    <3> HIDE DEF L, D, Fine, Bad
    <3> QED BY <1>3, <2>2, <2>4
  <2>6. o <= r
    <3>1. f[o] = NotFound \/ Found(s, t, o, f[o])
      BY <1>1, <2>2, WalkFinds, Zenon
    <3>2. Found(s, t, o, r)
      BY <2>2, <3>1, Zenon
    <3>3. r >= o
      BY <3>2, Zenon DEF Found
    <3> HIDE DEF L, D, Fine, Bad
    <3> QED BY <1>5, <2>5, <3>3
  <2>7. u[o + 1] = s[o + 1] /\ u[o + 2] = s[o + 2]
    <3>1. o + 1 \in 1 .. r + 2 /\ o + 2 \in 1 .. r + 2
      <4> HIDE DEF L, D, Fine, Bad, n
      <4> QED BY <1>5, <2>5, <2>6
    <3> QED BY <3>1, Zenon
  <2>8. s[o + 1] # t
    BY <2>2, <2>3, <2>4, <2>7, Zenon
  <2>9. ~(n >= L) /\ f[n] = r /\ NextOption(u, o) = n /\ g[o] = g[n]
    <3>1. NextOption(u, o) = n
      BY <2>7, Zenon DEF NextOption
    <3>2. ~(n >= L)
      BY <2>2, <2>3, <2>4, <2>8, Zenon
    <3>3. f[o] = f[n]
      BY <2>3, <2>4, <2>8, <3>2, Zenon
    <3>4. g[o] = g[n]
      <4> HIDE DEF n
      <4> QED BY <2>3, <2>4, <2>7, <2>8, <3>1, <3>2, Zenon
    <3> QED BY <2>2, <3>1, <3>2, <3>3, <3>4, Zenon
  <2>10. n \in D /\ ~(n <= o)
    <3>1. n \in Nat /\ n >= o + 2 /\ (n < Len(s) => n \in D)
      BY <2>2, <2>5, NextType, Zenon
    <3>2. ~(n >= L)
      BY <2>9, Zenon
    <3> HIDE DEF n, D, Fine, Bad
    <3> QED BY <1>3, <2>5, <3>1, <3>2
  <2>11. Fine(n)
    BY <2>1, <2>10, Zenon
  <2> QED BY <2>2, <2>9, <2>11, Zenon
<1>7. Fine(0)
  BY <1>3, <1>6, Zenon
<1> QED BY <1>1, <1>2, <1>7, Zenon

-----------------------------------------------------------------------------
(***************************************************************************)
(* The option is overwritten.                                              *)
(***************************************************************************)
Mac(mac) == mac \in Seq(Byte) /\ Len(mac) = 6

\* The elements of a sequence.
LEMMA Elements ==
  ASSUME NEW B, NEW s \in Seq(B)
  PROVE  \A k \in 1 .. Len(s) : s[k] \in B
  OBVIOUS

\* A hardware address has six bytes.
LEMMA MacBytes ==
  ASSUME NEW mac, Mac(mac)
  PROVE  \A k \in 1 .. 6 : mac[k] \in Byte
<1>1. mac \in Seq(Byte) /\ Len(mac) = 6
  BY Zenon DEF Mac
<1>2. \A k \in 1 .. Len(mac) : mac[k] \in Byte
  BY <1>1, Elements, ZenonT(30)
<1> QED BY <1>1, <1>2, Zenon

\* Overwriting changes six bytes and nothing else.
LEMMA OverwrittenType ==
  ASSUME NEW s, OptionBytes(s), NEW o \in Nat, o + 8 <= Len(s), NEW mac, Mac(mac)
  PROVE  /\ OptionBytes(Overwritten(s, o, mac)) /\ Len(Overwritten(s, o, mac)) = Len(s)
         /\ \A k \in 1 .. Len(s) :
              Overwritten(s, o, mac)[k] = IF k \in o + 3 .. o + 8 THEN mac[k - o - 2] ELSE s[k]
<1> DEFINE u == Overwritten(s, o, mac)
<1>1. Len(s) \in Nat /\ DOMAIN s = 1 .. Len(s) /\ \A k \in 1 .. Len(s) : s[k] \in Byte
  BY OptionLength
<1>2. u = [k \in 1 .. Len(s) |-> IF k \in o + 3 .. o + 8 THEN mac[k - o - 2] ELSE s[k]]
  BY <1>1, Zenon DEF Overwritten
<1>3. \A k \in 1 .. 6 : mac[k] \in Byte
  BY MacBytes
<1>4. ASSUME NEW k \in 1 .. Len(s) PROVE u[k] \in Byte
  <2>1. u[k] = IF k \in o + 3 .. o + 8 THEN mac[k - o - 2] ELSE s[k]
    BY <1>2, Zenon
  <2>2. k \in o + 3 .. o + 8 => k - o - 2 \in 1 .. 6
    BY <1>1
  <2> HIDE DEF u
  <2> QED BY <1>1, <1>3, <2>1, <2>2, Zenon
<1> HIDE DEF u
<1>5. u \in Seq(Byte) /\ Len(u) = Len(s)
  <2> DEFINE n == Len(s)
             B == Byte
  <2>1. n \in Nat /\ DOMAIN u = 1 .. n /\ u = [k \in 1 .. n |-> u[k]]
    BY <1>1, <1>2
  <2>2. \A k \in 1 .. n : u[k] \in B
    BY <1>4
  <2> HIDE DEF n, B
  <2>3. u \in [1 .. n -> B]
    BY <2>1, <2>2
  <2>4. u \in Seq(B) /\ Len(u) = n
    BY <2>1, <2>3
  <2> QED BY <2>4 DEF n, B
<1>6. OptionBytes(u)
  BY <1>5 DEF OptionBytes
<1>7. \A k \in 1 .. Len(s) : u[k] = IF k \in o + 3 .. o + 8 THEN mac[k - o - 2] ELSE s[k]
  BY <1>2, Zenon
<1> QED BY <1>5, <1>6, <1>7 DEF u

\* The words of the options.
LEMMA OptionWords ==
  ASSUME NEW s, OptionBytes(s), NEW K, K = Len(s) \div 2
  PROVE  K \in Nat /\ Len(s) = 2 * K /\ Words16(s, K)
<1>1. Len(s) \in Nat /\ Len(s) % 2 = 0 /\ s \in Seq(Byte)
  BY OptionLength DEF OptionBytes
<1>2. K \in Nat /\ Len(s) = 2 * K
  BY <1>1
<1>3. ASSUME NEW k \in 1 .. K PROVE Word(s, 2 * k - 1) \in Short
  <2>1. 2 * k - 1 \in Nat /\ 2 * k - 1 + 1 \in 1 .. Len(s) /\ 2 * k - 1 \in 1 .. Len(s)
    BY <1>2, SMTT(30)
  <2> HIDE DEF Byte
  <2> QED BY <1>1, <2>1, WordType
<1> QED BY <1>2, <1>3 DEF Words16

\* How the sum of the words changes, and that it is not zero.
LEMMA SumOverwritten ==
  ASSUME NEW s, OptionBytes(s), NEW o \in Offsets(s, 2), o + 8 <= Len(s), s[o + 1] = 1,
         NEW mac, Mac(mac)
  PROVE  /\ WordSum(s) \in Short /\ WordSum(Overwritten(s, o, mac)) \in Short
         /\ WordSum(Overwritten(s, o, mac)) # 0
         /\ \A k \in {1, 3, 5} : Word(s, o + 2 + k) \in Short /\ Word(mac, k) \in Short
         /\ Congruent(WordSum(Overwritten(s, o, mac)),
                      WordSum(s) + ((Word(mac, 1) - Word(s, o + 3))
                                    + (Word(mac, 3) - Word(s, o + 5))
                                    + (Word(mac, 5) - Word(s, o + 7))))
<1> DEFINE u == Overwritten(s, o, mac)
           K == Len(s) \div 2
           b == o \div 2
<1>1. Len(s) \in Nat /\ o \in Nat /\ o % 2 = 0 /\ o <= Len(s)
  BY OptionLength DEF Offsets
<1>2. b \in Nat /\ o = 2 * b
  BY <1>1
<1>3. /\ OptionBytes(u) /\ Len(u) = Len(s)
      /\ \A k \in 1 .. Len(s) : u[k] = IF k \in o + 3 .. o + 8 THEN mac[k - o - 2] ELSE s[k]
  BY <1>1, OverwrittenType, SMTT(30)
<1>4. K \in Nat /\ Len(s) = 2 * K /\ Words16(s, K)
  BY OptionWords
<1> HIDE DEF u
<1>5. Words16(u, K) /\ K = Len(u) \div 2
  BY <1>3, OptionWords
<1> HIDE DEF K, b
<1>6. PICK f : Sums(f, s, K) /\ WordSum(s) = f[K]
  BY <1>4, WordSumIs DEF K
<1>7. PICK g : Sums(g, u, K) /\ WordSum(u) = g[K]
  BY <1>4, <1>5, WordSumIs, SMTT(30)
<1>8. f[K] \in Short /\ g[K] \in Short
  <2>1. K \in 0 .. K
    BY <1>4
  <2> QED BY <1>4, <1>5, <1>6, <1>7, <2>1, SumType, SMTT(30)
<1>9. b + 4 <= K /\ b + 1 \in Nat /\ b + 1 + 3 <= K
  BY <1>1, <1>2, <1>4
<1>10. ASSUME NEW k \in 1 .. K, k \notin b + 1 + 1 .. b + 1 + 3 PROVE WordAt(u, k) = WordAt(s, k)
  <2>1. /\ 2 * k - 1 \in 1 .. Len(s) /\ 2 * k - 1 + 1 \in 1 .. Len(s)
        /\ 2 * k - 1 \notin o + 3 .. o + 8 /\ 2 * k - 1 + 1 \notin o + 3 .. o + 8
    BY <1>2, <1>4, <1>10, SMTT(30)
  <2>2. u[2 * k - 1] = s[2 * k - 1] /\ u[2 * k - 1 + 1] = s[2 * k - 1 + 1]
    BY <1>3, <2>1, Zenon
  <2> QED BY <2>2 DEF WordAt, Word
<1>11. ASSUME NEW k \in {1, 3, 5} PROVE Word(u, o + 2 + k) = Word(mac, k)
  <2>1. /\ o + 2 + k \in 1 .. Len(s) /\ o + 2 + k + 1 \in 1 .. Len(s)
        /\ o + 2 + k \in o + 3 .. o + 8 /\ o + 2 + k + 1 \in o + 3 .. o + 8
        /\ (o + 2 + k) - o - 2 = k /\ (o + 2 + k + 1) - o - 2 = k + 1
    BY <1>1
  <2>2. u[o + 2 + k] = mac[k] /\ u[o + 2 + k + 1] = mac[k + 1]
    <3>1. \A j \in 1 .. Len(s) : j \in o + 3 .. o + 8 => u[j] = mac[j - o - 2]
      BY <1>3, Zenon
    <3> DEFINE j == o + 2 + k
               i == o + 2 + k + 1
    <3>2. /\ j \in 1 .. Len(s) /\ j \in o + 3 .. o + 8 /\ j - o - 2 = k
          /\ i \in 1 .. Len(s) /\ i \in o + 3 .. o + 8 /\ i - o - 2 = k + 1
      BY <2>1, Zenon
    <3> HIDE DEF i, j
    <3>3. u[j] = mac[j - o - 2] /\ u[i] = mac[i - o - 2]
      BY <3>1, <3>2, Zenon
    <3>4. u[j] = mac[k] /\ u[i] = mac[k + 1]
      BY <3>2, <3>3, Zenon
    <3> QED BY <3>4, Zenon DEF i, j
  <2> QED BY <2>2 DEF Word
<1>12. /\ WordAt(u, b + 1 + 1) = Word(mac, 1) /\ WordAt(s, b + 1 + 1) = Word(s, o + 3)
       /\ WordAt(u, b + 1 + 2) = Word(mac, 3) /\ WordAt(s, b + 1 + 2) = Word(s, o + 5)
       /\ WordAt(u, b + 1 + 3) = Word(mac, 5) /\ WordAt(s, b + 1 + 3) = Word(s, o + 7)
  <2>1. /\ 2 * (b + 1 + 1) - 1 = o + 2 + 1 /\ 2 * (b + 1 + 2) - 1 = o + 2 + 3
        /\ 2 * (b + 1 + 3) - 1 = o + 2 + 5
        /\ o + 3 = o + 2 + 1 /\ o + 5 = o + 2 + 3 /\ o + 7 = o + 2 + 5
    BY <1>1, <1>2
  <2> QED BY <1>11, <2>1 DEF WordAt
<1>13. Congruent(g[K], f[K] + ((Word(mac, 1) - Word(s, o + 3))
                               + (Word(mac, 3) - Word(s, o + 5))
                               + (Word(mac, 5) - Word(s, o + 7))))
  <2> DEFINE a == b + 1
  <2>1. Congruent(g[K], f[K] + ((WordAt(u, a + 1) - WordAt(s, a + 1))
                                + (WordAt(u, a + 2) - WordAt(s, a + 2))
                                + (WordAt(u, a + 3) - WordAt(s, a + 3))))
    <3>1. a \in Nat /\ a + 3 <= K
      BY <1>9
    <3>2. \A k \in 1 .. K : k \notin a + 1 .. a + 3 => WordAt(u, k) = WordAt(s, k)
      BY <1>10
    <3> HIDE DEF a
    <3> QED BY <1>4, <1>5, <1>6, <1>7, <3>1, <3>2, SumChanges, Zenon
  <2> QED BY <1>12, <2>1, Zenon
<1>14. ASSUME NEW k \in {1, 3, 5} PROVE Word(s, o + 2 + k) \in Short /\ Word(mac, k) \in Short
  <2>1. /\ o + 2 + k \in Nat /\ o + 2 + k \in 1 .. Len(s) /\ o + 2 + k + 1 \in 1 .. Len(s)
        /\ k \in Nat /\ k \in 1 .. 6 /\ k + 1 \in 1 .. 6
    BY <1>1
  <2>2. s \in Seq(Byte) /\ mac \in Seq(Byte) /\ Len(mac) = 6
    BY DEF OptionBytes, Mac
  <2> HIDE DEF Byte
  <2> QED BY <2>1, <2>2, WordType, Zenon
<1>15. g[K] # 0
  <2>1. b + 1 \in 1 .. K /\ 2 * (b + 1) - 1 = o + 1
    BY <1>2, <1>4, <1>9, SMTT(30)
  <2>2. u[o + 1] = 1 /\ u[o + 2] = s[o + 2] /\ s[o + 2] \in Nat
    <3>1. /\ o + 1 \in 1 .. Len(s) /\ o + 2 \in 1 .. Len(s)
          /\ o + 1 \notin o + 3 .. o + 8 /\ o + 2 \notin o + 3 .. o + 8
      BY <1>1
    <3> QED BY <1>3, <3>1, OptionLength
  <2>3. o + 1 + 1 = o + 2
    BY <1>1
  <2>4. Word(u, 2 * (b + 1) - 1) # 0
    BY <2>1, <2>2, <2>3, SMTT(30) DEF Word
  <2> DEFINE j == b + 1
  <2>5. j \in 1 .. K /\ Word(u, 2 * j - 1) # 0
    BY <2>1, <2>4
  <2> HIDE DEF j
  <2> QED BY <1>4, <1>5, <1>7, <2>5, SumPositive, SMTT(30)
<1> QED BY <1>6, <1>7, <1>8, <1>13, <1>14, <1>15, SMTT(30) DEF u

\* The option that is found ends inside the message.
Inside(opts) ==
  LET o == find_option(opts, ND_OPT_SOURCE_LINKADDR) IN o = NotFound \/ o + 8 <= Len(opts)

\* What the buffer is while the message is relayed.
Sound(m) ==
  /\ {"cksum", "opts", "shost"} \subseteq DOMAIN m
  /\ OptionBytes(m.opts) /\ Inside(m.opts)
  /\ m.cksum \in Short /\ m.rest \in Short

\* The checksum after the three words have changed.
LEMMA AdjustedThrice ==
  ASSUME NEW c \in Short, NEW o1 \in Short, NEW o2 \in Short, NEW o3 \in Short,
         NEW n1 \in Short, NEW n2 \in Short, NEW n3 \in Short
  PROVE  LET d == adjust(adjust(adjust(c, o1, n1), o2, n2), o3, n3)
         IN  d \in Short /\ Congruent(d, c + ((o1 - n1) + (o2 - n2) + (o3 - n3)))
<1> DEFINE c1 == adjust(c, o1, n1)
           c2 == adjust(c1, o2, n2)
           c3 == adjust(c2, o3, n3)
<1>0. MaxShort \in Nat /\ \A x \in Short : x \in Int
  BY MaxShortType DEF Short
<1>1. c1 \in Short /\ \E k \in Int : c1 + n1 = c + o1 + k * MaxShort
  BY AdjustedSum
<1> HIDE DEF c1
<1>2. c2 \in Short /\ \E k \in Int : c2 + n2 = c1 + o2 + k * MaxShort
  BY <1>1, AdjustedSum
<1> HIDE DEF c2
<1>3. c3 \in Short /\ \E k \in Int : c3 + n3 = c2 + o3 + k * MaxShort
  BY <1>2, AdjustedSum
<1> HIDE DEF c3
<1>4. PICK k1 \in Int : c1 + n1 = c + o1 + k1 * MaxShort
  BY <1>1
<1>5. PICK k2 \in Int : c2 + n2 = c1 + o2 + k2 * MaxShort
  BY <1>2
<1>6. PICK k3 \in Int : c3 + n3 = c2 + o3 + k3 * MaxShort
  BY <1>3
<1>7. /\ k1 * MaxShort \in Int /\ k2 * MaxShort \in Int /\ k3 * MaxShort \in Int
      /\ (k1 + k2 + k3) * MaxShort = k1 * MaxShort + k2 * MaxShort + k3 * MaxShort
      /\ k1 + k2 + k3 \in Int
  BY <1>0
<1>8. /\ c \in Int /\ c1 \in Int /\ c2 \in Int /\ c3 \in Int /\ o1 \in Int /\ o2 \in Int
      /\ o3 \in Int /\ n1 \in Int /\ n2 \in Int /\ n3 \in Int
  BY <1>0, <1>1, <1>2, <1>3, SMTT(30)
<1>9. c3 = (c + ((o1 - n1) + (o2 - n2) + (o3 - n3))) + (k1 + k2 + k3) * MaxShort
  <2> DEFINE p1 == k1 * MaxShort
             p2 == k2 * MaxShort
             p3 == k3 * MaxShort
  <2>1. /\ p1 \in Int /\ p2 \in Int /\ p3 \in Int
        /\ c1 + n1 = c + o1 + p1 /\ c2 + n2 = c1 + o2 + p2 /\ c3 + n3 = c2 + o3 + p3
        /\ (k1 + k2 + k3) * MaxShort = p1 + p2 + p3
    BY <1>4, <1>5, <1>6, <1>7, Zenon
  <2> HIDE DEF p1, p2, p3
  <2> QED BY <1>8, <2>1
<1>10. Congruent(c3, c + ((o1 - n1) + (o2 - n2) + (o3 - n3)))
  BY <1>7, <1>9 DEF Congruent
<1> QED BY <1>3, <1>10, Zenon DEF c1, c2, c3

\* The sum of everything stays a multiple of MaxShort other than zero.
LEMMA SumKept ==
  ASSUME NEW r \in Short, NEW c \in Short, NEW w \in Short, NEW c3 \in Short, NEW v \in Short,
         v # 0, NEW d \in Int, Congruent(c3, c + (-d)), Congruent(v, w + d),
         Carry(Carry(r + c + w)) = MaxShort
  PROVE  Carry(Carry(r + c3 + v)) = MaxShort
<1> DEFINE x == r + c + w
           y == r + c3 + v
<1>0. MaxShort \in Nat /\ \A z \in Short : z \in Nat /\ z \in Int /\ z <= MaxShort
  BY MaxShortType DEF Short
<1>1. x \in Nat /\ x <= 3 * MaxShort /\ y \in Nat /\ y <= 3 * MaxShort /\ y # 0
  <2>1. /\ r \in Nat /\ c \in Nat /\ w \in Nat /\ c3 \in Nat /\ v \in Nat
        /\ r <= MaxShort /\ c <= MaxShort /\ w <= MaxShort /\ c3 <= MaxShort /\ v <= MaxShort
    BY <1>0
  <2> QED BY <1>0, <2>1, SMTT(30)
<1>2. Congruent(x, 0)
  <2> HIDE DEF x
  <2> QED BY <1>1, CarriedTwice DEF x
<1>3. PICK p \in Int : c3 = c + (-d) + p * MaxShort
  BY DEF Congruent
<1>4. PICK q \in Int : v = w + d + q * MaxShort
  BY DEF Congruent
<1>5. /\ p * MaxShort \in Int /\ q * MaxShort \in Int /\ p + q \in Int
      /\ (p + q) * MaxShort = p * MaxShort + q * MaxShort
  BY <1>0
<1>6. y = x + (p + q) * MaxShort
  <2> DEFINE pm == p * MaxShort
             qm == q * MaxShort
  <2>1. /\ pm \in Int /\ qm \in Int /\ (p + q) * MaxShort = pm + qm
        /\ c3 = c + (-d) + pm /\ v = w + d + qm
    BY <1>3, <1>4, <1>5, Zenon
  <2>2. r \in Int /\ c \in Int /\ w \in Int
    BY <1>0
  <2> HIDE DEF pm, qm
  <2> QED BY <2>1, <2>2
<1>7. Congruent(y, x)
  BY <1>5, <1>6 DEF Congruent
<1>8. Congruent(y, 0)
  <2>1. x \in Int /\ y \in Int /\ 0 \in Int
    BY <1>1
  <2> HIDE DEF x, y
  <2> QED BY <1>2, <1>7, <2>1, CongruentTrans, SMTT(30)
<1> HIDE DEF x, y
<1>9. Carry(Carry(y)) = MaxShort
  BY <1>1, <1>8, CarriedTwice
<1> QED BY <1>9 DEF y

\* update_slla_option leaves the options where they are, and the checksum valid.
LEMMA UpdateSound ==
  ASSUME NEW m, Sound(m), NEW mac, Mac(mac), NEW o,
         o = find_option(m.opts, ND_OPT_SOURCE_LINKADDR)
  PROVE  LET u == update_slla_option(m, mac)
         IN  /\ Sound(u) /\ DOMAIN u = DOMAIN m
             /\ find_option(u.opts, ND_OPT_SOURCE_LINKADDR) = o
             /\ u.opts = IF o = NotFound THEN m.opts ELSE Overwritten(m.opts, o, mac)
             /\ ChecksumOK(m) => ChecksumOK(u)
<1> DEFINE u == update_slla_option(m, mac)
           s == m.opts
           t == Overwritten(s, o, mac)
<1>1. CASE o = NotFound
  <2>1. u = m
    BY <1>1 DEF update_slla_option
  <2> QED BY <1>1, <2>1, Zenon
<1>2. CASE o # NotFound
  <2> DEFINE c3 == adjust(adjust(adjust(m.cksum, Word(s, o + 2 + 1), Word(mac, 1)),
                                 Word(s, o + 2 + 3), Word(mac, 3)),
                          Word(s, o + 2 + 5), Word(mac, 5))
  <2>1. /\ OptionBytes(s) /\ o + 8 <= Len(s) /\ m.cksum \in Short /\ m.rest \in Short
        /\ {"cksum", "opts", "shost"} \subseteq DOMAIN m
    BY <1>2, Zenon DEF Sound, Inside
  <2>2. Found(s, 1, 0, o)
    BY <1>2, <2>1, FindType, Zenon DEF ND_OPT_SOURCE_LINKADDR
  <2>3. o \in Offsets(s, 2) /\ s[o + 1] = 1 /\ o \in Nat /\ Len(s) \in Nat
    BY <2>1, <2>2, OptionLength DEF Found, Offsets
  <2>4. u = [m EXCEPT !.cksum = c3, !.opts = t]
    BY <1>2, Zenon DEF update_slla_option
  <2> HIDE DEF s, t, u, c3
  <2>5. u.cksum = c3 /\ u.opts = t /\ u.rest = m.rest /\ DOMAIN u = DOMAIN m
    BY <2>1, <2>4
  <2>6. /\ OptionBytes(t) /\ Len(t) = Len(s)
        /\ \A k \in 1 .. Len(s) : t[k] = IF k \in o + 3 .. o + 8 THEN mac[k - o - 2] ELSE s[k]
    BY <2>1, <2>3, OverwrittenType, ZenonT(30) DEF t
  <2>7. find_option(t, ND_OPT_SOURCE_LINKADDR) = o
    <3>1. ASSUME NEW k \in 1 .. o + 2 PROVE t[k] = s[k]
      <4>1. k \in 1 .. Len(s) /\ k \notin o + 3 .. o + 8
        BY <2>1, <2>3
      <4> QED BY <2>6, <4>1, Zenon
    <3>2. o = find_option(s, ND_OPT_SOURCE_LINKADDR)
      BY Zenon DEF s
    <3> QED BY <1>2, <2>1, <2>6, <3>1, <3>2, FindAgain
  <2> DEFINE o1 == Word(s, o + 2 + 1)
             o2 == Word(s, o + 2 + 3)
             o3 == Word(s, o + 2 + 5)
             n1 == Word(mac, 1)
             n2 == Word(mac, 3)
             n3 == Word(mac, 5)
             d == (n1 - o1) + (n2 - o2) + (n3 - o3)
  <2>8. /\ WordSum(s) \in Short /\ WordSum(t) \in Short /\ WordSum(t) # 0
        /\ o1 \in Short /\ o2 \in Short /\ o3 \in Short
        /\ n1 \in Short /\ n2 \in Short /\ n3 \in Short
        /\ Congruent(WordSum(t), WordSum(s) + d)
    <3>1. /\ WordSum(s) \in Short /\ WordSum(t) \in Short /\ WordSum(t) # 0
          /\ \A k \in {1, 3, 5} : Word(s, o + 2 + k) \in Short /\ Word(mac, k) \in Short
          /\ Congruent(WordSum(t), WordSum(s) + ((Word(mac, 1) - Word(s, o + 3))
                                                 + (Word(mac, 3) - Word(s, o + 5))
                                                 + (Word(mac, 5) - Word(s, o + 7))))
      BY <2>1, <2>3, SumOverwritten, Zenon DEF t
    <3>2. o + 2 + 1 = o + 3 /\ o + 2 + 3 = o + 5 /\ o + 2 + 5 = o + 7
      BY <2>3
    <3>3. 1 \in {1, 3, 5} /\ 3 \in {1, 3, 5} /\ 5 \in {1, 3, 5}
      OBVIOUS
    <3> QED BY <3>1, <3>2, <3>3, Zenon
  <2>9. c3 = adjust(adjust(adjust(m.cksum, o1, n1), o2, n2), o3, n3)
    BY Zenon DEF c3
  <2> HIDE DEF o1, o2, o3, n1, n2, n3
  <2>10. c3 \in Short /\ Congruent(c3, m.cksum + ((o1 - n1) + (o2 - n2) + (o3 - n3)))
    BY <2>1, <2>8, <2>9, AdjustedThrice, Zenon
  <2>11. d \in Int /\ (o1 - n1) + (o2 - n2) + (o3 - n3) = -d
    <3>1. \A x \in Short : x \in Int
      BY MaxShortType DEF Short
    <3>2. /\ o1 \in Int /\ o2 \in Int /\ o3 \in Int /\ n1 \in Int /\ n2 \in Int /\ n3 \in Int
      BY <2>8, <3>1
    <3> QED BY <3>2
  <2>12. Congruent(c3, m.cksum + (-d))
    BY <2>10, <2>11, Zenon
  <2> HIDE DEF d
  <2>13. ASSUME ChecksumOK(m) PROVE ChecksumOK(u)
    <3>1. Carry(Carry(m.rest + m.cksum + WordSum(s))) = MaxShort
      BY <2>13, Zenon DEF ChecksumOK, s
    <3>2. Carry(Carry(m.rest + c3 + WordSum(t))) = MaxShort
      <4> DEFINE r == m.rest
                 c == m.cksum
                 w == WordSum(s)
                 v == WordSum(t)
      <4>1. /\ r \in Short /\ c \in Short /\ w \in Short /\ c3 \in Short /\ v \in Short
            /\ v # 0 /\ d \in Int /\ Congruent(c3, c + (-d)) /\ Congruent(v, w + d)
            /\ Carry(Carry(r + c + w)) = MaxShort
        BY <2>1, <2>8, <2>10, <2>11, <2>12, <3>1, ZenonT(30)
      <4> HIDE DEF r, c, w, v
      <4>2. Carry(Carry(r + c3 + v)) = MaxShort
        BY <4>1, SumKept, SMTT(30)
      <4> QED BY <4>2, Zenon DEF r, v
    <3> QED BY <2>5, <3>2, Zenon DEF ChecksumOK
  <2>14. Inside(t)
    BY <2>1, <2>6, <2>7, Zenon DEF Inside
  <2>15. Sound(u)
    BY <2>1, <2>5, <2>6, <2>10, <2>14, Zenon DEF Sound
  <2> QED BY <1>2, <2>5, <2>7, <2>13, <2>15, Zenon DEF u, s, t
<1> QED BY <1>1, <1>2, Zenon

\* So does proxy_rsra, which puts the address into the frame as well.
LEMMA RewriteSound ==
  ASSUME NEW m, Sound(m), NEW n \in Name, NEW o,
         o = find_option(m.opts, ND_OPT_SOURCE_LINKADDR)
  PROVE  LET v == rewrite(m, n)
         IN  /\ Sound(v) /\ v.shost = Hwaddr[n]
             /\ find_option(v.opts, ND_OPT_SOURCE_LINKADDR) = o
             /\ v.opts = IF o = NotFound THEN m.opts ELSE Overwritten(m.opts, o, Hwaddr[n])
             /\ ChecksumOK(m) => ChecksumOK(v)
<1> DEFINE mac == Hwaddr[n]
           u == update_slla_option(m, mac)
           v == rewrite(m, n)
<1>1. Mac(mac)
  BY NdProxyAssumption, Zenon DEF Mac
<1>2. /\ Sound(u) /\ DOMAIN u = DOMAIN m
      /\ find_option(u.opts, ND_OPT_SOURCE_LINKADDR) = o
      /\ u.opts = IF o = NotFound THEN m.opts ELSE Overwritten(m.opts, o, mac)
      /\ ChecksumOK(m) => ChecksumOK(u)
  BY <1>1, UpdateSound, Zenon
<1>3. v = [u EXCEPT !.shost = mac]
  BY Zenon DEF rewrite
<1>4. {"cksum", "opts", "shost"} \subseteq DOMAIN u
  BY <1>2, Zenon DEF Sound
<1> HIDE DEF u, v, mac
<1>5. v.opts = u.opts /\ v.cksum = u.cksum /\ v.rest = u.rest /\ v.shost = mac
      /\ DOMAIN v = DOMAIN u
  BY <1>3, <1>4
<1>6. Sound(v) /\ (ChecksumOK(v) <=> ChecksumOK(u))
  BY <1>2, <1>4, <1>5, Zenon DEF Sound, ChecksumOK
<1> QED BY <1>2, <1>5, <1>6, Zenon DEF v, mac

-----------------------------------------------------------------------------
(***************************************************************************)
(* What leaves.                                                            *)
(***************************************************************************)
\* The buffer while the list is gone through.
Buffer == pc = "relay" => Sound(msg) /\ (ChecksumOK(orig) => ChecksumOK(msg))

\* A message is sound when it arrives.
LEMMA InputSound ==
  ASSUME NEW m \in Inputs, Inside(m.opts)
  PROVE  Sound(m)
<1>1. m \in Msg /\ Len(m.opts) % 8 = 0
  BY NdProxyAssumption, Zenon
<1>2. /\ {"cksum", "opts", "shost"} \subseteq DOMAIN m
      /\ m.opts \in Seq(Byte) /\ m.cksum \in Short /\ m.rest \in Short
  <2> HIDE DEF Byte, Short
  <2> QED BY <1>1, SMTT(30) DEF Msg
<1> QED BY <1>1, <1>2, Zenon DEF Sound, OptionBytes

\* The entries name interfaces.
LEMMA EntryName ==
  ASSUME Listed, NEW e \in DOMAIN ifaces
  PROVE  ifaces[e].name \in Name
<1>1. PICK k \in DOMAIN argv : argv[k].opt = "i" /\ ifaces[e] = parse_interface(argv[k])
  BY Zenon DEF Listed
<1>2. argv[k] \in Arg
  BY <1>1, SMTT(30) DEF Listed
<1>3. argv[k].name \in Name
  BY <1>1, <1>2 DEF Arg
<1> QED BY <1>1, <1>3 DEF parse_interface

\* What a step does to the messages: it receives one, sends one, or leaves them.
LEMMA StepMessages ==
  ASSUME IInv, [Next]_vars
  PROVE  \/ /\ msg' \in Inputs /\ orig' = msg' /\ sent' = <<>> /\ ifaces' = ifaces
         \/ /\ pc = "relay" /\ UNCHANGED <<orig, ifaces>>
            /\ todo \in DOMAIN ifaces /\ ifaces[todo].name \in Name
            /\ IsSequence(sent)
            /\ msg' = rewrite(msg, ifaces[todo].name)
            /\ \E ok \in BOOLEAN : sent' = Append(sent, [ifa |-> todo, msg |-> msg', ok |-> ok])
         \/ /\ UNCHANGED <<msg, orig, sent>>
            /\ ifaces' = ifaces \/ sent = <<>>
            /\ pc' = "relay" => pc = "relay"
<1>1. CASE UNCHANGED vars \/ Daemonize \/ iface_open \/ Run \/ Killed \/ Signal
           \/ termination_handler \/ iface_close
  BY <1>1 DEF Daemonize, iface_open, Run, Killed, Signal, termination_handler, iface_close, vars,
              startVars, relayVars
<1>2. CASE ParseArg
  <2>1. sent = <<>>
    BY <1>2 DEF ParseArg, IInv, Copied
  <2> QED BY <1>2, <2>1 DEF ParseArg, relayVars
<1>3. CASE \E i \in 1 .. opened, m \in Inputs : Receive(i, m)
  BY <1>3, Zenon DEF Receive, startVars
<1>4. CASE Forward
  <2>1. CASE Outgoing(todo)
    <3>1. pc = "relay" /\ UNCHANGED <<orig, ifaces>>
      BY <1>4, ZenonT(30) DEF Forward, startVars
    <3>2. todo \in DOMAIN ifaces /\ IsSequence(sent)
      <4>1. IsSequence(sent) /\ todo \in 1 .. Len(ifaces) + 1 /\ todo <= Len(ifaces)
        BY <3>1, Zenon DEF IInv, Copied
      <4>2. IsSequence(ifaces)
        BY Zenon DEF IInv, Listed
      <4>3. Len(ifaces) \in Nat /\ DOMAIN ifaces = 1 .. Len(ifaces)
        BY <4>2, SequenceType, Zenon
      <4> QED BY <4>1, <4>3, SMTT(30)
    <3>3. ifaces[todo].name \in Name
      BY <3>2, EntryName, SMTT(30) DEF IInv
    <3> QED BY <1>4, <2>1, <3>1, <3>2, <3>3, ZenonT(30) DEF Forward
  <2>2. CASE ~Outgoing(todo)
    BY <1>4, <2>2 DEF Forward, startVars
  <2> QED BY <2>1, <2>2, Zenon
<1> QED BY <1>1, <1>2, <1>3, <1>4, ZenonT(30) DEF Next, Works

\* Nothing has been sent yet.
LEMMA NoCopies == DOMAIN <<>> = {}
  BY SMTT(30)

\* The copies a call of sendto adds to.
LEMMA OneMoreCopy ==
  ASSUME IsSequence(sent), NEW e, sent' = Append(sent, e), NEW j \in DOMAIN sent'
  PROVE  (j \in DOMAIN sent /\ sent'[j] = sent[j]) \/ sent'[j] = e
<1>1. /\ DOMAIN sent' = 1 .. Len(sent) + 1 /\ sent'[Len(sent) + 1] = e
      /\ \A n \in 1 .. Len(sent) : sent'[n] = sent[n]
  BY AppendType
<1>2. Len(sent) \in Nat /\ DOMAIN sent = 1 .. Len(sent)
  BY SequenceType, SMTT(30)
<1> QED BY <1>1, <1>2, SMTT(30)

\* A step keeps the buffer, and every copy in it, valid.
LEMMA ChecksumStep ==
  ASSUME \A m \in Inputs : Inside(m.opts),
         IInv, Buffer, ChecksumKept, [Next]_vars
  PROVE  Buffer' /\ ChecksumKept'
<1>1. CASE /\ msg' \in Inputs /\ orig' = msg' /\ sent' = <<>> /\ ifaces' = ifaces
  <2>1. Sound(msg')
    BY <1>1, InputSound, SMTT(30)
  <2>2. \A j \in DOMAIN sent' : FALSE
    BY <1>1, NoCopies
  <2>3. ChecksumOK(orig)' => ChecksumOK(msg)'
    BY <1>1, Zenon DEF ChecksumOK
  <2>4. Sound(msg)'
    BY <2>1, Zenon DEF Sound
  <2> QED BY <2>2, <2>3, <2>4, ZenonT(30) DEF Buffer, ChecksumKept
<1>2. CASE /\ pc = "relay" /\ UNCHANGED <<orig, ifaces>>
           /\ todo \in DOMAIN ifaces /\ ifaces[todo].name \in Name
           /\ IsSequence(sent)
           /\ msg' = rewrite(msg, ifaces[todo].name)
           /\ \E ok \in BOOLEAN : sent' = Append(sent, [ifa |-> todo, msg |-> msg', ok |-> ok])
  <2> DEFINE n == ifaces[todo].name
  <2>1. Sound(msg) /\ (ChecksumOK(orig) => ChecksumOK(msg))
    BY <1>2, ZenonT(30) DEF Buffer
  <2>2. Sound(msg') /\ (ChecksumOK(msg) => ChecksumOK(msg'))
    <3>1. n \in Name /\ msg' = rewrite(msg, n)
      BY <1>2
    <3> HIDE DEF n
    <3> QED BY <2>1, <3>1, RewriteSound, Zenon
  <2>3. Sound(msg)' /\ (ChecksumOK(orig)' => ChecksumOK(msg)')
    <3>1. Sound(msg)'
      BY <2>2, Zenon DEF Sound
    <3>2. ChecksumOK(orig)' => ChecksumOK(orig)
      BY <1>2, Zenon DEF ChecksumOK
    <3>3. ChecksumOK(msg') => ChecksumOK(msg)'
      BY Zenon DEF ChecksumOK
    <3> QED BY <2>1, <2>2, <3>1, <3>2, <3>3, SMTT(30)
  <2>4. PICK ok \in BOOLEAN : sent' = Append(sent, [ifa |-> todo, msg |-> msg', ok |-> ok])
    BY <1>2
  <2> DEFINE e == [ifa |-> todo, msg |-> msg', ok |-> ok]
  <2>5. e.msg = msg'
    OBVIOUS
  <2>6. sent' = Append(sent, e)
    BY <2>4, SMTT(30)
  <2> HIDE DEF e
  <2>7. ASSUME ChecksumOK(orig)', NEW j \in DOMAIN sent' PROVE ChecksumOK(sent[j].msg)'
    <3>1. ChecksumOK(orig)
      BY <1>2, <2>7, ZenonT(30) DEF ChecksumOK
    <3>2. (j \in DOMAIN sent /\ sent'[j] = sent[j]) \/ sent'[j] = e
      BY <1>2, <2>6, OneMoreCopy
    <3>3. CASE j \in DOMAIN sent /\ sent'[j] = sent[j]
      BY <3>1, <3>3, Zenon DEF ChecksumKept, ChecksumOK
    <3>4. CASE sent'[j] = e
      BY <2>3, <2>5, <2>7, <3>4, Zenon DEF ChecksumOK
    <3> QED BY <3>2, <3>3, <3>4
  <2> QED BY <2>3, <2>7, Zenon DEF Buffer, ChecksumKept
<1>3. CASE /\ UNCHANGED <<msg, orig, sent>> /\ (pc' = "relay" => pc = "relay")
  BY <1>3, Zenon DEF Buffer, ChecksumKept, Sound, ChecksumOK
<1> QED BY <1>1, <1>2, <1>3, StepMessages, SMTT(30)

\* A message that arrives with a valid checksum leaves with a valid one through
\* every interface, for any number of interfaces, any addresses and any options,
\* as long as an option that find_option finds lies within the message
\* (update_slla_option).
THEOREM ChecksumCorrect ==
  ASSUME \A m \in Inputs : Inside(m.opts)
  PROVE  Spec => []ChecksumKept
<1>1. Init => Buffer /\ ChecksumKept
  <2> SUFFICES ASSUME Init PROVE Buffer /\ ChecksumKept
    OBVIOUS
  <2>1. pc = "args" /\ sent = <<>>
    BY DEF Init
  <2> QED BY <2>1, NoCopies DEF Buffer, ChecksumKept
<1>2. IInv /\ Buffer /\ ChecksumKept /\ [Next]_vars => Buffer' /\ ChecksumKept'
  BY ChecksumStep
<1> QED BY <1>1, <1>2, SpecIInv, PTL DEF Spec

-----------------------------------------------------------------------------
(***************************************************************************)
(* Whom the copies name.                                                   *)
(***************************************************************************)
\* The message has the option that find_option finds, and no other of its type.
OnlySlla(opts) == Slla(opts) = {find_option(opts, ND_OPT_SOURCE_LINKADDR)} \ {NotFound}

\* The header of an option is not part of an address.
LEMMA HeadersKept ==
  ASSUME NEW s, OptionBytes(s), NEW o \in Offsets(s, 8), o < Len(s), NEW mac, Mac(mac),
         NEW x \in Offsets(s, 8), x < Len(s)
  PROVE  /\ Overwritten(s, o, mac)[x + 1] = s[x + 1]
         /\ Overwritten(s, o, mac)[x + 2] = s[x + 2]
<1>1. /\ Len(s) \in Nat /\ Len(s) % 8 = 0 /\ DOMAIN s = 1 .. Len(s)
      /\ o \in Nat /\ o % 8 = 0 /\ x \in Nat /\ x % 8 = 0
  BY OptionLength DEF OptionBytes, Offsets
<1>2. x + 8 <= Len(s)
  BY <1>1
<1>3. x + 1 \notin o + 3 .. o + 8 /\ x + 2 \notin o + 3 .. o + 8
  BY <1>1
<1>4. x + 1 \in DOMAIN s /\ x + 2 \in DOMAIN s
  BY <1>1, <1>2
<1> QED BY <1>3, <1>4, Zenon DEF Overwritten

\* So the options begin where they did, and have the types they had.
LEMMA StartsKept ==
  ASSUME NEW s, OptionBytes(s), NEW o \in Offsets(s, 8), o < Len(s), NEW mac, Mac(mac)
  PROVE  LET t == Overwritten(s, o, mac)
         IN  Starts(t) = Starts(s) /\ Slla(t) = Slla(s)
<1> DEFINE t == Overwritten(s, o, mac)
           Body(r, f, x) == IF x >= Len(r) THEN {}
                            ELSE LET next == x + 8 * r[x + 2]
                                 IN  {x} \cup (IF next = x \/ next >= Len(r) THEN {} ELSE f[next])
<1>1. Len(t) = Len(s)
  <2>1. Len(s) \in Nat /\ DOMAIN s = 1 .. Len(s)
    BY OptionLength
  <2> QED BY <2>1 DEF Overwritten
<1>2. Offsets(t, 8) = Offsets(s, 8)
  BY <1>1, Zenon DEF Offsets
<1>3. \A x \in Offsets(s, 8) : x < Len(s) => t[x + 1] = s[x + 1] /\ t[x + 2] = s[x + 2]
  BY HeadersKept, Zenon
<1>4. \A x \in Offsets(s, 8) : x \in Nat /\ Len(s) \in Nat
  BY OptionLength DEF Offsets
<1> HIDE DEF t
<1>5. ASSUME NEW f, NEW x \in Offsets(s, 8) PROVE Body(t, f, x) = Body(s, f, x)
  <2>1. CASE x >= Len(s)
    BY <1>1, <2>1, Zenon
  <2>2. CASE ~(x >= Len(s))
    <3>1. t[x + 2] = s[x + 2]
      BY <1>3, <1>4, <2>2
    <3> QED BY <1>1, <2>2, <3>1, Zenon
  <2> QED BY <2>1, <2>2, Zenon
<1>6. Starts(t) = Starts(s)
  <2>1. Starts(t) = (CHOOSE f : f = [x \in Offsets(t, 8) |-> Body(t, f, x)])[0]
    BY Zenon DEF Starts
  <2>2. Starts(s) = (CHOOSE f : f = [x \in Offsets(s, 8) |-> Body(s, f, x)])[0]
    BY Zenon DEF Starts
  <2> HIDE DEF Body
  <2>3. \A f : [x \in Offsets(t, 8) |-> Body(t, f, x)] = [x \in Offsets(s, 8) |-> Body(s, f, x)]
    BY <1>2, <1>5, Zenon
  <2>4. (CHOOSE f : f = [x \in Offsets(t, 8) |-> Body(t, f, x)])
          = (CHOOSE f : f = [x \in Offsets(s, 8) |-> Body(s, f, x)])
    BY <2>3
  <2> QED BY <2>1, <2>2, <2>4, Zenon
<1>7. ASSUME NEW x \in Offsets(s, 8), x < Len(s) PROVE t[x + 1] = s[x + 1]
  BY <1>3, <1>7, Zenon
<1>8. Slla(t) = Slla(s)
  BY <1>1, <1>2, <1>6, <1>7 DEF Slla
<1> QED BY <1>6, <1>8, Zenon DEF t

\* The address in the option that was overwritten.
LEMMA AddressWritten ==
  ASSUME NEW s, OptionBytes(s), NEW o \in Nat, o + 8 <= Len(s), NEW mac, Mac(mac)
  PROVE  SubSeq(Overwritten(s, o, mac), o + 3, o + 8) = mac
<1> DEFINE t == Overwritten(s, o, mac)
<1>1. /\ Len(s) \in Nat /\ DOMAIN s = 1 .. Len(s)
      /\ mac \in Seq(Byte) /\ Len(mac) = 6 /\ DOMAIN mac = 1 .. 6
  BY OptionLength DEF Mac
<1>2. \A k \in 1 .. 6 : t[o + 2 + k] = mac[k]
  <2> SUFFICES ASSUME NEW k \in 1 .. 6 PROVE t[o + 2 + k] = mac[k]
    OBVIOUS
  <2>1. /\ o + 2 + k \in DOMAIN s /\ o + 2 + k \in o + 3 .. o + 8
        /\ (o + 2 + k) - o - 2 = k
    BY <1>1
  <2> QED BY <2>1, Zenon DEF Overwritten
<1> HIDE DEF t
<1>3. SubSeq(t, o + 3, o + 8) = [k \in 1 .. (1 + (o + 8)) - (o + 3) |-> t[(k + (o + 3)) - 1]]
  OBVIOUS
<1>4. (1 + (o + 8)) - (o + 3) = 6
  OBVIOUS
<1>5. \A k \in 1 .. 6 : (k + (o + 3)) - 1 = o + 2 + k
  OBVIOUS
<1>6. SubSeq(t, o + 3, o + 8) = [k \in 1 .. 6 |-> mac[k]]
  BY <1>2, <1>3, <1>4, <1>5, ZenonT(30)
<1>7. mac = [k \in 1 .. 6 |-> mac[k]]
  BY <1>1
<1> QED BY <1>6, <1>7, Zenon DEF t

\* The copies proxy_rsra sends name the outgoing interface.
LEMMA RewriteNames ==
  ASSUME NEW m, Sound(m), OnlySlla(m.opts), NEW n \in Name
  PROVE  LET v == rewrite(m, n)
         IN  /\ OnlySlla(v.opts) /\ v.shost = Hwaddr[n]
             /\ \A x \in Slla(v.opts) : SubSeq(v.opts, x + 3, x + 8) = Hwaddr[n]
<1> DEFINE s == m.opts
           v == rewrite(m, n)
           mac == Hwaddr[n]
           o == find_option(s, ND_OPT_SOURCE_LINKADDR)
           t == Overwritten(s, o, mac)
<1>1. Mac(mac)
  BY NdProxyAssumption, Zenon DEF Mac
<1>2. /\ v.shost = mac /\ find_option(v.opts, ND_OPT_SOURCE_LINKADDR) = o
      /\ v.opts = IF o = NotFound THEN s ELSE t
  BY RewriteSound, Zenon
<1>3. OptionBytes(s) /\ Slla(s) = {o} \ {NotFound} /\ (o = NotFound \/ o + 8 <= Len(s))
  BY Zenon DEF Sound, Inside, OnlySlla
<1> HIDE DEF s, v, mac, o
<1>4. CASE o = NotFound
  <2>1. v.opts = s /\ Slla(s) = {}
    BY <1>2, <1>3, <1>4, Zenon
  <2> QED BY <1>2, <1>3, <1>4, <2>1, Zenon DEF OnlySlla, v, mac
<1>5. CASE o # NotFound
  <2>1. v.opts = t /\ o \in Slla(s) /\ o + 8 <= Len(s)
    BY <1>2, <1>3, <1>5, Zenon
  <2>2. o \in Offsets(s, 8) /\ o < Len(s)
    BY <2>1, Zenon DEF Slla
  <2>3. o \in Nat
    BY <1>3, <2>2, OptionLength DEF Offsets
  <2>4. Slla(t) = {o} \ {NotFound}
    BY <1>1, <1>3, <2>2, StartsKept, Zenon
  <2>5. SubSeq(t, o + 3, o + 8) = mac
    BY <1>1, <1>3, <2>1, <2>3, AddressWritten, Zenon
  <2> HIDE DEF t
  <2>6. OnlySlla(v.opts)
    BY <1>2, <2>1, <2>4, Zenon DEF OnlySlla
  <2>7. \A x \in Slla(v.opts) : SubSeq(v.opts, x + 3, x + 8) = mac
    BY <2>1, <2>4, <2>5, Zenon
  <2> QED BY <1>2, <2>6, <2>7, Zenon DEF v, mac
<1> QED BY <1>4, <1>5

\* An option that begins where options do lies within the message.
LEMMA OnlyInside ==
  ASSUME NEW m \in Inputs, OnlySlla(m.opts)
  PROVE  Inside(m.opts)
<1> DEFINE s == m.opts
           o == find_option(s, ND_OPT_SOURCE_LINKADDR)
<1>1. m \in Msg /\ Len(s) % 8 = 0
  BY NdProxyAssumption, Zenon
<1>2. s \in Seq(Byte)
  <2> HIDE DEF Byte
  <2> QED BY <1>1 DEF Msg
<1>3. Slla(s) = {o} \ {NotFound}
  BY Zenon DEF OnlySlla
<1> HIDE DEF o, s
<1>4. CASE o # NotFound
  <2>1. o \in Offsets(s, 8) /\ o < Len(s)
    BY <1>3, <1>4, Zenon DEF Slla
  <2>2. Len(s) \in Nat /\ o \in Nat /\ o % 8 = 0
    BY <1>2, <2>1 DEF Offsets
  <2>3. o + 8 <= Len(s)
    BY <1>1, <2>1, <2>2
  <2> QED BY <2>3, Zenon DEF Inside, o, s
<1> QED BY <1>4, Zenon DEF Inside, o, s

\* The buffer while the list is gone through.
OneOption == pc = "relay" => Sound(msg) /\ OnlySlla(msg.opts)

\* A step keeps the one option of the buffer, and whom the copies name.
LEMMA NamesStep ==
  ASSUME \A m \in Inputs : OnlySlla(m.opts),
         IInv, OneOption, NamesSender, [Next]_vars
  PROVE  OneOption' /\ NamesSender'
<1> DEFINE Names(c, list) ==
             LET mac == Hwaddr[list[c.ifa].name]
             IN  /\ c.msg.shost = mac
                 /\ \A o \in Slla(c.msg.opts) : SubSeq(c.msg.opts, o + 3, o + 8) = mac
<1>0. /\ NamesSender <=> \A j \in DOMAIN sent : Names(sent[j], ifaces)
      /\ NamesSender' <=> \A j \in DOMAIN sent' : Names(sent'[j], ifaces')
  BY Zenon DEF NamesSender, Slla, Starts, Offsets
<1>1. CASE /\ msg' \in Inputs /\ orig' = msg' /\ sent' = <<>> /\ ifaces' = ifaces
  <2>1. Sound(msg') /\ OnlySlla(msg'.opts)
    BY <1>1, OnlyInside, InputSound
  <2>2. \A j \in DOMAIN sent' : FALSE
    BY <1>1, NoCopies
  <2>3. OneOption'
    BY <2>1, Zenon DEF OneOption, Sound, OnlySlla
  <2> QED BY <1>0, <2>2, <2>3, Zenon
<1>2. CASE /\ pc = "relay" /\ UNCHANGED <<orig, ifaces>>
           /\ todo \in DOMAIN ifaces /\ ifaces[todo].name \in Name
           /\ IsSequence(sent)
           /\ msg' = rewrite(msg, ifaces[todo].name)
           /\ \E ok \in BOOLEAN : sent' = Append(sent, [ifa |-> todo, msg |-> msg', ok |-> ok])
  <2> DEFINE n == ifaces[todo].name
  <2>1. Sound(msg) /\ OnlySlla(msg.opts)
    BY <1>2, ZenonT(30) DEF OneOption
  <2>2. /\ Sound(msg') /\ OnlySlla(msg'.opts) /\ msg'.shost = Hwaddr[n]
        /\ \A x \in Slla(msg'.opts) : SubSeq(msg'.opts, x + 3, x + 8) = Hwaddr[n]
    <3>1. n \in Name /\ msg' = rewrite(msg, n)
      BY <1>2
    <3> HIDE DEF n
    <3> QED BY <2>1, <3>1, RewriteSound, RewriteNames, SMTT(30)
  <2>3. OneOption'
    BY <2>2, Zenon DEF OneOption, Sound, OnlySlla
  <2>4. PICK ok \in BOOLEAN : sent' = Append(sent, [ifa |-> todo, msg |-> msg', ok |-> ok])
    BY <1>2
  <2> DEFINE e == [ifa |-> todo, msg |-> msg', ok |-> ok]
  <2>5. e.msg = msg' /\ e.ifa = todo
    OBVIOUS
  <2>6. sent' = Append(sent, e)
    BY <2>4
  <2> HIDE DEF e
  <2>7. Names(e, ifaces)
    BY <2>2, <2>5, Zenon
  <2> HIDE DEF Names
  <2>8. ASSUME NEW j \in DOMAIN sent' PROVE Names(sent'[j], ifaces')
    <3>1. (j \in DOMAIN sent /\ sent'[j] = sent[j]) \/ sent'[j] = e
      BY <1>2, <2>6, OneMoreCopy, SMTT(30)
    <3>2. ifaces' = ifaces
      BY <1>2
    <3> QED BY <1>0, <2>7, <3>1, <3>2, ZenonT(30)
  <2> QED BY <1>0, <2>3, <2>8, Zenon
<1>3. CASE /\ UNCHANGED <<msg, orig, sent>> /\ (pc' = "relay" => pc = "relay")
           /\ (ifaces' = ifaces \/ sent = <<>>)
  <2>1. OneOption'
    BY <1>3, Zenon DEF OneOption, Sound, OnlySlla
  <2> HIDE DEF Names
  <2>2. CASE ifaces' = ifaces
    BY <1>0, <1>3, <2>1, <2>2, Zenon
  <2>3. CASE sent = <<>>
    <3>1. \A j \in DOMAIN sent' : FALSE
      BY <1>3, <2>3, NoCopies, Zenon
    <3> QED BY <1>0, <2>1, <3>1, Zenon
  <2> QED BY <1>3, <2>2, <2>3
<1> HIDE DEF Names
<1> QED BY <1>1, <1>2, <1>3, StepMessages, Zenon

\* A copy names the interface it leaves on, in its frame and in its "source
\* link-layer address" option, although the same buffer has named the interfaces
\* before it, for messages whose only such option is the one find_option finds
\* (proxy_rsra).
THEOREM SenderNamed ==
  ASSUME \A m \in Inputs : OnlySlla(m.opts)
  PROVE  Spec => []NamesSender
<1>1. Init => OneOption /\ NamesSender
  <2> SUFFICES ASSUME Init PROVE OneOption /\ NamesSender
    OBVIOUS
  <2>1. pc = "args" /\ sent = <<>>
    BY DEF Init
  <2>2. \A j \in DOMAIN sent : FALSE
    BY <2>1, NoCopies
  <2> QED BY <2>1, <2>2, Zenon DEF OneOption, NamesSender
<1>2. IInv /\ OneOption /\ NamesSender /\ [Next]_vars => OneOption' /\ NamesSender'
  BY NamesStep
<1> QED BY <1>1, <1>2, SpecIInv, PTL DEF Spec
=============================================================================
