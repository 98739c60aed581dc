----------------------------- MODULE MCSourceConfig -----------------------------
(* Instances of SourceConfig for TLC.                                      *)
EXTENDS SourceConfig, TLC

CONSTANTS quoted   \* an alias with a quotation mark in it

\* Every string reads back as it was written, but for the quoted alias.
MCReadBack == [s \in Strings |-> IF s = quoted THEN Corrupt ELSE s]

Slots == Permutations(Procs)
=============================================================================
