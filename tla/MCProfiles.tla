----------------------------- MODULE MCProfiles -----------------------------
(* An instance of Profiles for TLC.                                        *)
EXTENDS Profiles, TLC

CONSTANTS p1, p2, p3, u1, c1, c2

Symmetry == Permutations({p1, p2, p3}) \cup Permutations({c1, c2})
=============================================================================
