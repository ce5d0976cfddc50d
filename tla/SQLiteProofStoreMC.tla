------------------------- MODULE SQLiteProofStoreMC -------------------------
(* Small instances of SQLiteProofStore: its callers are interchangeable.   *)
EXTENDS SQLiteProofStore, TLC

CallerSymmetry == Permutations(Callers)
=============================================================================
