---------------------------- MODULE MCVec0Table ----------------------------
(* A vec0 table of three rows in chunks of two slots, and two vectors that *)
(* a search tells apart.                                                    *)
EXTENDS Vec0Search

CONSTANTS near, far

MCDistance == [v \in Vectors |-> IF v = near THEN 1 ELSE 2]
=============================================================================
