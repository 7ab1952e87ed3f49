------------------------------ MODULE MCLookup ------------------------------
(***************************************************************************)
(* Volumes of a root directory and two subdirectories, one inside the      *)
(* other, with names of up to two characters and extensions of one; with   *)
(* and without deleted entries, labels, names that fill their field,       *)
(* entries of someone else behind a full directory, directories that are   *)
(* empty, cannot be read, or fill the disk to its end.                     *)
(***************************************************************************)
EXTENDS Lookup

UpperLower == [c \in {"A", "B", "C"} |->
    CASE c = "A" -> "a" [] c = "B" -> "b" [] c = "C" -> "c"]

\* Attributes: archived (0x20), a directory (0x10), a label (0x08).
FileEntry(f, x) == [filename |-> f, ext |-> x, behind |-> <<" ">>, kind |-> "file", dir |-> None]
DirEntry(n, d)  == [filename |-> <<n, " ">>, ext |-> <<" ">>, behind |-> <<"0x10">>,
                    kind |-> "directory", dir |-> d]
LabelEntry(n)   == [filename |-> <<n, " ">>, ext |-> <<" ">>, behind |-> <<"0x08">>,
                    kind |-> "label", dir |-> None]

A    == FileEntry(<<"A", " ">>, <<" ">>)
AB   == FileEntry(<<"A", " ">>, <<"B">>)
Gone == FileEntry(<<"0xE5", " ">>, <<" ">>)

Dir(items) == [items |-> items, behind |-> 0, readable |-> 9]

Inner == <<A, DirEntry("C", "deep")>>

Volume(r, s) == [d \in {"root", "sub", "deep"} |->
    CASE d = "root" -> Dir(r) [] d = "sub" -> s [] d = "deep" -> Dir(<<A>>)]

Outer == <<A, DirEntry("B", "sub"), AB>>

GapVolumes == {Volume(<<Gone, DirEntry("B", "sub"), A>>, Dir(Inner)),
               Volume(Outer, Dir(<<A, Gone, DirEntry("C", "deep")>>))}

\* "AB.C" and "A.B" have full fields; the attribute behind the extension
\* ends it.
Volumes == GapVolumes \cup
           {Volume(Outer, Dir(Inner)),
            Volume(<<LabelEntry("A"), DirEntry("B", "sub"), A>>, Dir(Inner)),
            Volume(<<FileEntry(<<"A", "B">>, <<"C">>), DirEntry("B", "sub"), A>>, Dir(Inner)),
            Volume(Outer, Dir(<<>>)),
            Volume(Outer, [Dir(Inner) EXCEPT !.readable = 1]),
            Volume(Outer, [Dir(Inner) EXCEPT !.behind = 1]),
            Volume(Outer, [Dir(Inner) EXCEPT !.behind = -1])}

a == <<"a">>
b == <<"b">>
c == <<"c">>

SomePaths == {<<a>>, <<b>>, <<a, b>>, <<b, <<"A">>>>, <<b, c>>, <<b, c, a>>, <<b, b, a>>,
              <<<<"a", ".", "b">>>>, <<<<"a", "b", ".", "c">>>>}

HeapBlocks == 1 .. 8

=============================================================================
