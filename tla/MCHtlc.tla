------------------------------- MODULE MCHtlc -------------------------------
(* Small instances of Htlc for TLC. *)
EXTENDS Htlc, TLC

\* Two secrets, each opening one digest.
CONSTANTS s1, s2, d1, d2

MCSha256 == s1 :> d1 @@ s2 :> d2

Swap(a, b) == a :> b @@ b :> a

\* The secrets are exchanged together with what they open.
Sym == Permutations(Ids) \cup Permutations(Addresses) \cup {Swap(s1, s2) @@ Swap(d1, d2)}
=============================================================================
