----------------------------- MODULE MCStateFile -----------------------------
(* TLC instance of StateFile: one id to set, two random ones.              *)
EXTENDS StateFile, TLC

CONSTANTS p1, r1, r2, f1, f2, f3

OnePin == {p1}
TwoRandom == {r1, r2}

(* state.json, its temporary file, and one that a process still writes.    *)
ThreeFiles == {f1, f2, f3}

(* Files and random ids are only ever compared.                            *)
Alike == Permutations(ThreeFiles) \cup Permutations(TwoRandom)
=============================================================================
