------------------------------ MODULE MCFat16 -------------------------------
(***************************************************************************)
(* Volumes with five clusters of one or two sectors of two bytes, of which *)
(* clusters 5 and 6 have the numbers of marks; the root directory fills    *)
(* its sectors, or the last of them by half.                               *)
(***************************************************************************)
EXTENDS Fat16

Header(entries, sectors) ==
    [reserved_sectors |-> 1, fat_copies |-> 2, sectors_per_fat |-> 1,
     root_dir_entries |-> entries, sectors_per_cluster |-> sectors]

Layouts == {Header(2, 1), Header(2, 2), Header(3, 1)}

SmallEntries == 0 .. 7

=============================================================================
