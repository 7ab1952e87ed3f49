------------------------------ MODULE MCFiles -------------------------------
(***************************************************************************)
(* Three descriptors, a heap of 28 blocks, a volume with a file in the     *)
(* root and one in a directory, and names of every kind the parser tells   *)
(* apart.                                                                  *)
(***************************************************************************)
EXTENDS Files

Drive0(parts) == [length |-> "fits", drive |-> 0, slash |-> TRUE, parts |-> parts]

SomePaths == {Drive0(<<"a">>), Drive0(<<"d">>), Drive0(<<"d", "a">>), Drive0(<<"d", "x">>),
              Drive0(<<"d", "", "a">>), Drive0(<<"">>),
              [Drive0(<<"a">>) EXCEPT !.drive = 1],
              [Drive0(<<"a">>) EXCEPT !.drive = -1],
              [Drive0(<<"a">>) EXCEPT !.slash = FALSE],
              [Drive0(<<>>) EXCEPT !.length = "short"],
              [Drive0(<<"a">>) EXCEPT !.length = "long"]}

Tree == [p \in {<<"a">>, <<"d">>, <<"d", "a">>} |-> IF p = <<"d">> THEN "directory" ELSE "file"]

=============================================================================
