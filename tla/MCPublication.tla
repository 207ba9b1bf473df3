---------------------------- MODULE MCPublication --------------------------
(* Small instances of Publication for TLC. *)
EXTENDS Publication, TLC

CONSTANTS q1, q2, h1, h2, g1, g2, s1, s2

OnePool == (s1 :> {g1})
TwoPools == (s1 :> {g1}) @@ (s2 :> {g2})
Identical == Permutations(Handlers) \cup Permutations(MsgIds) \cup Permutations(Posts)
============================================================================
