------------------------------ MODULE MCSeeding ------------------------------
(* Two seeding processes for TLC. *)
EXTENDS Seeding, TLC

CONSTANTS s1, s2

MCSeeders == {s1, s2}
Interchangeable == Permutations(MCSeeders)
=============================================================================
