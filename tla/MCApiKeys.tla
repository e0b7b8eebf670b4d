----------------------------- MODULE MCApiKeys -----------------------------
(***************************************************************************)
(* Instances of ApiKeys for TLC: one partner with a word for a name and    *)
(* one whose name reads as the number 1.                                   *)
(***************************************************************************)
EXTENDS ApiKeys, TLC

CONSTANTS acme, one

MCPartners == {acme, one}
MCNumericNames == {one}
MCNameAsId(p) == 1

CommandSymmetry == Permutations(Commands)
=============================================================================
