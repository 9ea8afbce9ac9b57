---------------------------- MODULE MCSymbolNav ----------------------------
(* Two or three symbols in one or two files; s2 neighbours the others. *)
EXTENDS SymbolNav

CONSTANTS f1, f2, s1, s2, s3

OneFile == {f1}
TwoFiles == {f1, f2}
TwoSymbols == {s1, s2}
ThreeSymbols == {s1, s2, s3}
InFile == [s \in Symbols |-> IF s = s1 \/ Files = OneFile THEN f1 ELSE f2]
FirstIn == [f \in Files |-> IF f = f1 THEN s1 ELSE s2]
Around == [s \in Symbols |-> Symbols \cap (IF s = s2 THEN {s1, s3} ELSE {s2})]
=============================================================================
