---------------------------- MODULE MCOvsdbFile ----------------------------
(***************************************************************************)
(* OvsdbFile for TLC.  Rows 1 and 3 have the same indexed value, row 2 has *)
(* another one.                                                            *)
(***************************************************************************)
EXTENDS OvsdbFile

MCSymmetry == Permutations(Inodes)

MCKey(r) == r % 2

============================================================================
