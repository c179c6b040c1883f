------------------------------ MODULE MCFileIo -------------------------------
(* Small programs with files.                                              *)
EXTENDS FileIo

Int1 == [type |-> "Integer", val |-> "1"]
Int7 == [type |-> "Integer", val |-> "7"]
Char1 == [type |-> "Character", val |-> "x"]

FewRecords == {<<Int1>>, <<Int7, Char1>>}
FewShapes  == {<<"Real">>, <<"Integer", "String">>}

Symmetry == Permutations(Names) \cup Permutations(InVars)
=============================================================================
