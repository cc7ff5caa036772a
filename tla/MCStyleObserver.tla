--------------------------- MODULE MCStyleObserver ---------------------------
(* Small instances of StyleObserver: three inputs, two of which share      *)
(* their flags.                                                            *)
EXTENDS StyleObserver

InputFlags == [inp \in Inputs |-> IF inp = "legible" THEN {} ELSE {"InvisibleText"}]
=============================================================================
