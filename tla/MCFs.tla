-------------------------------- MODULE MCFs --------------------------------
(* Fs on a few small sectors. A text is a sequence of cells: one chunk, or *)
(* none for an empty line.                                                 *)
EXTENDS Fs

CONSTANTS x, y, f, g, h

TwoTexts  == {<<x>>, <<y>>}
LineTexts == {<<>>, <<x>>}
TwoNames  == {f, g}
ThreeNames == {f, g, h}
Identity  == [n \in Names |-> n]

\* Nothing tells one name from another.
NameSymmetry == Permutations(Names)
=============================================================================
