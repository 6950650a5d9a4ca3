------------------------------ MODULE Address ------------------------------
(***************************************************************************)
(* class address (address.cc): an IPv6 address with a mask, as the rules   *)
(* of the configuration, the routes of the kernel and the addresses of     *)
(* messages use it.                                                        *)
(*                                                                         *)
(* The 128 bits of _addr and of _mask are numbered from the most           *)
(* significant bit of byte 0, and each is the set of its one bits.         *)
(***************************************************************************)
EXTENDS Integers

CONSTANTS
  Bytes,      \* size of an in6_addr, 16
  Hosts,      \* the values of _addr that occur, as sets of one bits
  Suffixes    \* the numbers that may follow the slash of a string

Width == 8 * Bytes
Bit == 0 .. Width - 1

ASSUME AddressAssumption ==
  /\ Bytes \in Nat \ {0}
  /\ Hosts \subseteq SUBSET Bit
  /\ {} \in Hosts
  /\ Suffixes \subseteq Nat

VARIABLES
  obj,        \* an address object
  ok,         \* FALSE after a parse_string that failed
  len         \* the prefix length that was asked for (history)

addressVars == <<obj, ok, len>>

\* The constructor from an in6_addr.
Host(a) == [addr |-> a, mask |-> Bit]

\* reset(): the unspecified address, which is_empty recognises.
Empty == Host({})

-----------------------------------------------------------------------------
\* prefix(int): whole bytes of ones, then maskbit[pf % 8].
mask_of(pf) ==
  IF pf >= Width THEN Bit
  ELSE IF pf <= 0 THEN {}
  ELSE {p \in Bit : \/ p \div 8 < pf \div 8
                    \/ p \div 8 = pf \div 8 /\ p % 8 < pf % 8}

\* prefix(): the first zero bit of the mask.
prefix(x) ==
  IF \A p \in 0 .. 7 : p \notin x.mask THEN 0
  ELSE IF Bit \subseteq x.mask THEN Width
  ELSE CHOOSE p \in Bit \ x.mask : \A q \in 0 .. p - 1 : q \in x.mask

\* Mutant: a single difference outside the mask counts.
Equal_any(x, y) == \A p \in Bit : (p \in x.addr) = (p \in y.addr) \/ p >= prefix(x) + 1

\* operator==, which looks through the mask of its left operand only.
Equal(x, y) == \A p \in x.mask : (p \in x.addr) = (p \in y.addr)

-----------------------------------------------------------------------------
(***************************************************************************)
(* The strings parse_string reads, up to the text of the address itself,   *)
(* which inet_pton and inet_ntop convert.  What follows it is nothing, a   *)
(* slash and a number, a slash alone, or something else.                   *)
(***************************************************************************)
Text == [addr : Hosts, tail : {"none", "slash", "junk"}, pf : {0}]
        \cup [addr : Hosts, tail : {"number"}, pf : Suffixes]

\* atoi makes 0 of the empty string after a lone slash.
Accepted(s) == s.tail \in {"none", "number", "slash"}

\* Mutant: the mask is cleared before the rest is checked.
parse_string_clears(s) ==
  IF s.tail = "none" THEN Host(s.addr) ELSE [addr |-> s.addr, mask |-> mask_of(s.pf)]

parse_string(s) ==
  CASE s.tail = "none" -> Host(s.addr)
    [] s.tail \in {"number", "slash"} -> [addr |-> s.addr, mask |-> mask_of(s.pf)]
    [] s.tail = "junk" -> Host(s.addr)

\* Mutant: the prefix length is left out when it fills the last byte.
to_string_short(x) ==
  IF prefix(x) < Width - 8 THEN [addr |-> x.addr, tail |-> "number", pf |-> prefix(x)]
  ELSE [addr |-> x.addr, tail |-> "none", pf |-> 0]

to_string(x) ==
  IF prefix(x) < Width THEN [addr |-> x.addr, tail |-> "number", pf |-> prefix(x)]
  ELSE [addr |-> x.addr, tail |-> "none", pf |-> 0]

-----------------------------------------------------------------------------
Clamp(pf) == IF pf > Width THEN Width ELSE IF pf < 0 THEN 0 ELSE pf

AddressInit == obj = Empty /\ ok = TRUE /\ len = Width

\* An address of a message, or of /proc/net/if_inet6.
Assign(a) == obj' = Host(a) /\ ok' = TRUE /\ len' = Width

\* A line of /proc/net/ipv6_route.
Route(a, pf) ==
  obj' = [addr |-> a, mask |-> mask_of(pf)] /\ ok' = TRUE /\ len' = Clamp(pf)

\* A string of the configuration that is an address and what follows it.
Parse(s) ==
  /\ obj' = parse_string(s)
  /\ ok' = Accepted(s)
  /\ len' = IF s.tail \in {"number", "slash"} THEN Clamp(s.pf) ELSE Width

\* A string that is no address: reset() stands.
ParseFails == obj' = Empty /\ ok' = FALSE /\ len' = Width

AddressNext ==
  \/ \E a \in Hosts : Assign(a)
  \/ \E a \in Hosts, pf \in Suffixes : Route(a, pf)
  \/ \E s \in Text : Parse(s)
  \/ ParseFails

AddressSpec == AddressInit /\ [][AddressNext]_addressVars

-----------------------------------------------------------------------------
\* Every mask is the initial segment of the bits that was asked for, and
\* prefix() returns its length (prefix(int), the constructors, parse_string).
MaskIsPrefix == obj.mask = 0 .. len - 1 /\ prefix(obj) = len

\* operator== matches exactly the addresses that agree with the object in the
\* bits of the prefix, and so a host address matches only itself.
MatchesPrefix ==
  \A h \in Hosts :
    Equal(obj, Host(h)) <=> \A p \in Bit : p < len => (p \in obj.addr) = (p \in h)

\* Reading back what to_string prints gives the same address (the debug output
\* and the route commands of session.cc print addresses this way).
RoundTrip == Accepted(to_string(obj)) /\ parse_string(to_string(obj)) = obj

\* A string that parse_string rejects leaves a single host address, never a
\* range: the constructors ignore its result.
RejectedIsHost == ~ok => obj.mask = Bit
=============================================================================
