----------------------------- MODULE MCAddress -----------------------------
(***************************************************************************)
(* Instance of Address: two bytes, addresses with one bits at the edges of *)
(* the bytes, every prefix length and one beyond the width.                *)
(***************************************************************************)
EXTENDS Address

Edge == {0, 1, 7, 8, 9, 15}
HostsTwo == {{}, Bit} \cup {{p, q} : p \in Edge, q \in Edge}
SuffixesAll == 0 .. Width + 1
=============================================================================
