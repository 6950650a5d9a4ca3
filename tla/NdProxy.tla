------------------------------ MODULE NdProxy ------------------------------
(***************************************************************************)
(* nd-proxy.c: the program that relays router solicitations and            *)
(* advertisements between interfaces.  A message is copied to every other  *)
(* interface from one buffer, in which the hardware address of each        *)
(* outgoing interface overwrites the previous one: as the source of the    *)
(* frame and in the "source link-layer address" option, for which the      *)
(* checksum is adjusted.                                                   *)
(*                                                                         *)
(* A message is what these steps tell apart: its type, whether its source, *)
(* its destination and the first two bytes of its frame's destination are  *)
(* multicast, its frame's source, its options as bytes, its checksum, and  *)
(* the ones' complement sum of everything else the checksum covers.        *)
(*                                                                         *)
(* An argument of the command line is a letter, for -i with the name of an *)
(* interface, whether it has a colon, and the words behind it.  An entry   *)
(* of the list of interfaces is identified by its position: two entries    *)
(* may name the same interface.                                            *)
(***************************************************************************)
EXTENDS Integers, Sequences, FiniteSets

CONSTANTS
  Name,         \* names of interfaces
  CommandLines, \* sequences of arguments
  Openable,     \* interfaces that can be opened
  Hwaddr,       \* Hwaddr[n]: the six bytes of the hardware address of n
  Inputs        \* messages that may arrive

Byte == 0 .. 255
MaxShort == 65535
Short == 0 .. MaxShort
Type == {"NS", "NA", "RS", "RA", "RD"}
Arg == [opt : {"h", "b", "d"}]
         \cup [opt : {"i"}, name : Name, colon : BOOLEAN, words : Seq(Type \cup {"unknown"})]

Msg == [type : Type, src_multicast : BOOLEAN, dst_multicast : BOOLEAN,
        dhost33 : BOOLEAN \X BOOLEAN, shost : Seq(Byte), opts : Seq(Byte),
        cksum : Short, rest : Short]

ASSUME NdProxyAssumption ==
  /\ CommandLines \subseteq Seq(Arg)
  /\ Openable \subseteq Name
  /\ \A n \in Name : Hwaddr[n] \in Seq(Byte) /\ Len(Hwaddr[n]) = 6
  /\ \A m \in Inputs : m \in Msg /\ Len(m.opts) % 8 = 0

VARIABLES
  argv,         \* the command line
  optind,       \* the next argument
  background,   \* -b was given, and no -d after it
  ifaces,       \* the list of interfaces: [name, flags]
  opened,       \* how many of them are open
  pc,           \* "args", "open", "idle", "exited", or "relay" while handle_fd
                \* goes through the list
  signalled,    \* SIGINT or SIGTERM has arrived
  running,      \* the main loop has not been told to end
  iface,        \* the entry the message came in on
  msg,          \* the buffer
  todo,         \* the next entry of the list
  sent,         \* [ifa, msg, ok]: the calls of sendto for this message
  orig          \* the message as it was received (history)

startVars == <<argv, optind, background, ifaces, opened, signalled, running>>
relayVars == <<iface, msg, todo, sent, orig>>
vars == <<pc, startVars, relayVars>>

\* The buffer is filled before anything reads it, so its first contents are any.
Init ==
  /\ argv \in CommandLines
  /\ optind = 1
  /\ background = FALSE
  /\ ifaces = <<>>
  /\ opened = 0
  /\ pc = "args"
  /\ signalled = FALSE
  /\ running = TRUE
  /\ iface = 0
  /\ msg = CHOOSE m \in Inputs : TRUE
  /\ todo = 1
  /\ sent = <<>>
  /\ orig = msg

-----------------------------------------------------------------------------
(***************************************************************************)
(* main() up to its loop.                                                  *)
(***************************************************************************)
\* The words behind the colon.
Words(a) == {a.words[k] : k \in DOMAIN a.words}

\* Mutant: the words add to the default.
parse_interface_adds(a) == [name |-> a.name, flags |-> {"RS", "RA"} \cup Words(a)]

\* The interface of an argument without unknown words.
parse_interface(a) ==
  [name |-> a.name, flags |-> IF a.colon THEN Words(a) ELSE {"RS", "RA"}]

\* getopt and its switch: the next argument.
ParseArg ==
  /\ pc = "args" /\ optind <= Len(argv)
  /\ optind' = optind + 1
  /\ LET a == argv[optind]
         invalid == a.opt = "h" \/ (a.opt = "i" /\ "unknown" \in Words(a))
     IN  /\ pc' = IF invalid THEN "exited" ELSE "args"
         /\ background' = CASE a.opt = "b" -> TRUE
                            [] a.opt = "d" -> FALSE
                            [] OTHER -> background
         /\ ifaces' = IF a.opt = "i" /\ ~invalid THEN <<parse_interface(a)>> \o ifaces
                      ELSE ifaces
  /\ UNCHANGED <<argv, opened, signalled, running, relayVars>>

\* The number of interfaces is checked; fork may fail.
Daemonize ==
  /\ pc = "args" /\ optind > Len(argv)
  /\ \E child \in BOOLEAN :
       pc' = IF Len(ifaces) < 2 \/ (background /\ ~child) THEN "exited" ELSE "open"
  /\ UNCHANGED <<startVars, relayVars>>

\* iface_open for the next entry; a failure ends the program.
iface_open ==
  /\ pc = "open" /\ opened < Len(ifaces)
  /\ IF ifaces[opened + 1].name \in Openable
     THEN opened' = opened + 1 /\ UNCHANGED pc
     ELSE pc' = "exited" /\ UNCHANGED opened
  /\ UNCHANGED <<argv, optind, background, ifaces, signalled, running, relayVars>>

\* g_main_loop_run.
Run ==
  /\ pc = "open" /\ opened = Len(ifaces)
  /\ pc' = "idle"
  /\ UNCHANGED <<startVars, relayVars>>

\* A signal before main() installs its handlers kills the program ...
Killed ==
  /\ pc = "args"
  /\ pc' = "exited"
  /\ UNCHANGED <<startVars, relayVars>>

\* ... a later one waits for the loop,
Signal ==
  /\ pc \in {"open", "idle", "relay"}
  /\ ~signalled
  /\ signalled' = TRUE
  /\ UNCHANGED <<pc, argv, optind, background, ifaces, opened, running, relayVars>>

\* Mutant: only a loop that has handled a message is told to end.
termination_handler_late ==
  /\ pc = "idle" /\ signalled /\ running
  /\ running' = (sent = <<>>)
  /\ signalled' = FALSE
  /\ UNCHANGED <<pc, argv, optind, background, ifaces, opened, relayVars>>

\* which calls termination_handler, and with it g_main_loop_quit.
termination_handler ==
  /\ pc = "idle" /\ signalled /\ running
  /\ running' = FALSE
  /\ signalled' = FALSE
  /\ UNCHANGED <<pc, argv, optind, background, ifaces, opened, relayVars>>

\* The loop ends once the sources that were ready too are dispatched; iface_close
\* for all entries.
iface_close ==
  /\ pc = "idle" /\ ~running
  /\ pc' = "exited"
  /\ opened' = 0
  /\ UNCHANGED <<argv, optind, background, ifaces, signalled, running, relayVars>>

-----------------------------------------------------------------------------
ND_OPT_SOURCE_LINKADDR == 1
NotFound == -1

\* Offsets of a message; the steps between options are even.
Offsets(opts, unit) == {o \in 0 .. Len(opts) : o % unit = 0}

\* The offset of the option of the given type.  nd_opt_len counts the option's
\* header, which the step to the next option adds once more.
find_option(opts, type) ==
  LET walk[o \in Offsets(opts, 2)] ==
        IF o >= Len(opts) THEN NotFound
        ELSE IF opts[o + 1] = type THEN o
        ELSE LET next == o + 2 + 8 * opts[o + 2]
             IN  IF next >= Len(opts) THEN NotFound ELSE walk[next]
  IN  walk[0]

\* ntohs of the 16-bit word at byte k of s.
Word(s, k) == 256 * s[k] + s[k + 1]
Not16(x) == MaxShort - x

\* The carry is added until there is none: twice is enough for three words.
Carry(x) == (x % (MaxShort + 1)) + (x \div (MaxShort + 1))

\* Mutant: the carries are dropped.
adjust_drops(cksum, old, new) == Not16((Not16(cksum) + Not16(old) + new) % (MaxShort + 1))

\* The checksum after a word old of the message has become new.
adjust(cksum, old, new) == Not16(Carry(Carry(Not16(cksum) + Not16(old) + new)))

\* The option's address becomes mac.
Overwritten(opts, o, mac) ==
  [k \in DOMAIN opts |-> IF k \in o + 3 .. o + 8 THEN mac[k - o - 2] ELSE opts[k]]

update_slla_option(m, mac) ==
  LET o == find_option(m.opts, ND_OPT_SOURCE_LINKADDR)
      old(k) == Word(m.opts, o + 2 + k)
      new(k) == Word(mac, k)
  IN  IF o = NotFound THEN m
      ELSE [m EXCEPT
              !.cksum = adjust(adjust(adjust(@, old(1), new(1)), old(3), new(3)),
                               old(5), new(5)),
              !.opts = Overwritten(@, o, mac)]

\* The early returns of proxy_rsra.
Proxied(m) ==
  /\ ~m.src_multicast
  /\ m.dst_multicast
  /\ m.dhost33[1] \/ m.dhost33[2]

\* Mutant: the option is not touched.
rewrite_frame(m, n) == [m EXCEPT !.shost = Hwaddr[n]]

\* The buffer when proxy_rsra sends it out of interface n.
rewrite(m, n) == [update_slla_option(m, Hwaddr[n]) EXCEPT !.shost = Hwaddr[n]]

-----------------------------------------------------------------------------
\* handle_fd for types that are relayed, on an interface with the flag.
Relays(i, type) == type \in {"RS", "RA"} /\ type \in ifaces[i].flags

Receive(i, m) ==
  /\ pc = "idle"
  /\ i \in 1 .. opened
  /\ iface' = i
  /\ msg' = m
  /\ orig' = m
  /\ sent' = <<>>
  /\ todo' = 1
  /\ pc' = IF Relays(i, m.type) THEN "relay" ELSE "idle"
  /\ UNCHANGED startVars

\* Mutant: the interface the message came from is not left out.
Outgoing_all(o) == Proxied(msg)

Outgoing(o) == o # iface /\ Proxied(msg)

\* The next entry of the list; sendto may fail.
Forward ==
  /\ pc = "relay"
  /\ IF Outgoing(todo)
     THEN \E ok \in BOOLEAN :
            /\ msg' = rewrite(msg, ifaces[todo].name)
            /\ sent' = Append(sent, [ifa |-> todo, msg |-> msg', ok |-> ok])
     ELSE UNCHANGED <<msg, sent>>
  /\ todo' = todo + 1
  /\ pc' = IF todo = Len(ifaces) THEN "idle" ELSE "relay"
  /\ UNCHANGED <<iface, orig, startVars>>

Works == ParseArg \/ Daemonize \/ iface_open \/ Run \/ Forward

Next ==
  \/ Works
  \/ Killed \/ Signal \/ termination_handler \/ iface_close
  \/ \E i \in 1 .. opened, m \in Inputs : Receive(i, m)

Spec == Init /\ [][Next]_vars

\* The program runs on; an iteration of the main loop dispatches every source
\* that is ready once, so neither a signal nor the end of the loop is overtaken by
\* messages for ever.
FairSpec ==
  Spec /\ WF_vars(Works) /\ SF_vars(termination_handler) /\ SF_vars(iface_close)

-----------------------------------------------------------------------------
\* The ones' complement sum of everything the checksum covers.
WordSum(s) ==
  LET sum[k \in 0 .. Len(s) \div 2] ==
        IF k = 0 THEN 0 ELSE Carry(Word(s, 2 * k - 1) + sum[k - 1])
  IN  sum[Len(s) \div 2]

ChecksumOK(m) == Carry(Carry(m.rest + m.cksum + WordSum(m.opts))) = MaxShort

\* A message that arrives with a valid checksum leaves with a valid one on every
\* interface, although the option is overwritten again and again in one buffer
\* (update_slla_option).
ChecksumKept ==
  ChecksumOK(orig) => \A j \in DOMAIN sent : ChecksumOK(sent[j].msg)

\* The offsets at which the options of a message begin, up to one without a
\* length, and of those the "source link-layer address" options.
Starts(opts) ==
  LET from[o \in Offsets(opts, 8)] ==
        IF o >= Len(opts) THEN {}
        ELSE LET next == o + 8 * opts[o + 2]
             IN  {o} \cup (IF next = o \/ next >= Len(opts) THEN {} ELSE from[next])
  IN  from[0]

Slla(opts) ==
  {o \in Offsets(opts, 8) :
     o \in Starts(opts) /\ o < Len(opts) /\ opts[o + 1] = ND_OPT_SOURCE_LINKADDR}

\* "Copy the outgoing interface's hw addr into the source link-layer address
\* option in the pkt" (proxy_rsra): a copy names the interface it leaves on, in
\* its frame and in every such option.
NamesSender ==
  \A j \in DOMAIN sent :
    LET m == sent[j].msg
        mac == Hwaddr[ifaces[sent[j].ifa].name]
    IN  /\ m.shost = mac
        /\ \A o \in Slla(m.opts) : SubSeq(m.opts, o + 3, o + 8) = mac

\* A message that is relayed leaves once through every other interface of the
\* command line, all of which are open by then, and never through the one it came
\* from (iface_open, handle_fd, proxy_rsra).
RelayedOnce ==
  /\ \A j \in DOMAIN sent : sent[j].ifa # iface
  /\ \A j, k \in DOMAIN sent : sent[j].ifa = sent[k].ifa => j = k
  /\ pc \in {"idle", "relay"} => opened = Cardinality({k \in DOMAIN argv : argv[k].opt = "i"})
  /\ pc = "idle" /\ sent # <<>> => {sent[j].ifa : j \in DOMAIN sent} = 1 .. opened \ {iface}

\* Only what the command line asks for is relayed: an argument names the interface
\* the message came in on, with its type or without types (parse_interface).
RelaysAsTold ==
  sent # <<>> =>
    \E k \in DOMAIN argv :
      /\ argv[k].opt = "i" /\ argv[k].name = ifaces[iface].name
      /\ orig.type \in Words(argv[k]) \/ ~argv[k].colon

\* A signal ends the program, also one that arrives before its loop runs or while
\* it relays, and although messages keep arriving (termination_handler).
SignalEnds == signalled ~> pc = "exited"
=============================================================================
