------------------------------- MODULE Lookup -------------------------------
(***************************************************************************)
(* Looking up a path on a FAT16 volume: fat16_open and fat16_close         *)
(* (fs/fat/fat16.c), with every structure they allocate; the names of the  *)
(* entries are those of Names, as the code reads them.  The heap is        *)
(* first-fit over blocks that each hold one structure; what a freed block  *)
(* contains stays there until kzalloc gives it out again, so that a use    *)
(* of freed memory is one in the model too.  When the code reads a         *)
(* structure from a block that holds something else, its fate is "wild"    *)
(* and nothing more is said of it.                                         *)
(***************************************************************************)
EXTENDS Names, FiniteSets

CONSTANTS Unused,     \* the byte 0xE5, first of a deleted entry
          Dirs,       \* the directories of the volume
          Root,       \* its root directory
          None,       \* no directory
          Trees,      \* the volumes: what each directory holds
          Paths,      \* the paths to open, without the drive
          Blocks,     \* the blocks of the heap, 1 .. n
          MaxOpen,    \* how many descriptors may be open, and
          MaxOthers,  \* how many blocks the rest of the kernel may hold
          MaxCalls    \* how many calls are made

\* A directory on the disk: its entries in order, how many entries that are
\* not its own are met behind them before one that starts with 0 (-1 if
\* there is none up to the end of the disk), and how many of its entries
\* can be read before its cluster chain meets a mark that stops the read.
Kinds == {"file", "directory", "label"}
Holds(e) == /\ IsEntry(e) /\ e.kind \in Kinds /\ e.dir \in Dirs \cup {None}
            /\ e.kind = "directory" <=> e.dir # None
Directory(dir) == /\ dir.behind \in {-1} \cup Nat /\ dir.readable \in Nat
                  /\ Len(dir.items) \in Nat /\ DOMAIN dir.items = 1 .. Len(dir.items)
                  /\ \A i \in DOMAIN dir.items : Holds(dir.items[i])

Deleted(e) == e.filename[1] = Unused

\* No two entries of a directory have the same name; and a root directory
\* without end is not mounted, as fat16_get_root_directory counts it.
Distinct(dir) == \A i, j \in {k \in DOMAIN dir.items : dir.items[k].kind # "label" /\ ~ Deleted(dir.items[k])} :
                     LowerCase(ShortName(dir.items[i])) = LowerCase(ShortName(dir.items[j])) => i = j

ASSUME LookupAssumption ==
    /\ Root \in Dirs /\ None \notin Dirs
    /\ \A t \in Trees : /\ DOMAIN t = Dirs /\ \A d \in Dirs : Directory(t[d]) /\ Distinct(t[d])
                       /\ t[Root].behind # -1
    /\ Paths \subseteq Seq(Seq(STRING)) \ {<<>>}
    /\ \A path \in Paths : \A i \in DOMAIN path : path[i] # <<>> /\ path[i][1] # Unused
    /\ Unused \notin DOMAIN Letters /\ \A c \in DOMAIN Letters : Letters[c] # Unused
    /\ Blocks \subseteq Nat \ {0}
    /\ MaxOthers \in Nat

VARIABLES tree,    \* the volume
          heap,    \* the blocks in use, what blocks contain, and the fate
          open,    \* the descriptors fat16_open has returned, with their paths
          others,  \* blocks of the rest of the kernel
          last,    \* the last call of fat16_open and its result
          calls    \* how many calls have been made

vars == <<tree, heap, open, others, last, calls>>

Blank  == [is |-> "zero"]
NoOpen == [path |-> <<>>, result |-> "none"]

Init == /\ tree \in Trees
        /\ heap = [used |-> {}, mem |-> [b \in Blocks |-> Blank], fate |-> "fine", failed |-> FALSE]
        /\ open = {} /\ others = {}
        /\ last = NoOpen
        /\ calls = 0

-----------------------------------------------------------------------------
\* The heap.  Functions of the code return the heap they leave and a pointer;
\* 0 is NULL.
Ret(h, p) == [heap |-> h, ptr |-> p]

\* Slip: nobody notices that the heap is full.
kzalloc_slip(h) == Ret([h EXCEPT !.used = @ \cup {Cardinality(@) + 1}], Cardinality(h.used) + 1)

kzalloc(h) ==
    IF Blocks \subseteq h.used THEN Ret(h, 0)
    ELSE LET b == CHOOSE b \in Blocks \ h.used : \A c \in Blocks \ h.used : b <= c
         IN  Ret([h EXCEPT !.used = @ \cup {b}, !.mem[b] = Blank], b)

kfree(h, b) == [h EXCEPT !.used = @ \ {b}]

Put(h, b, x) == [h EXCEPT !.mem[b] = x]

Wild(h) == [h EXCEPT !.fate = "wild"]

fat16_free_directory(h, d) ==
    IF d = 0 THEN h
    ELSE CASE h.mem[d].is = "zero" -> kfree(h, d)
           [] h.mem[d].is = "dir"  -> kfree(kfree(h, h.mem[d].item), d)
           [] OTHER                -> Wild(h)

fat16_fat_item_free(h, f) ==
    CASE h.mem[f].is # "fat_item"         -> Wild(h)
      [] h.mem[f].type = "DIRECTORY" -> kfree(fat16_free_directory(h, h.mem[f].ptr), f)
      [] OTHER                            -> kfree(kfree(h, h.mem[f].ptr), f)

-----------------------------------------------------------------------------
\* Slip: the last entry is not counted.
total_short_slip(d) ==
    IF tree[d].behind = -1 \/ tree[d].items = <<>> THEN tree[d].behind
    ELSE Cardinality({i \in DOMAIN tree[d].items : ~ Deleted(tree[d].items[i])}) - 1

\* fat16_get_total_items_for_directory; -1 if it does not come to an end.
\* Labels count, deleted entries do not.
total_items(d) ==
    IF tree[d].behind = -1 THEN -1
    ELSE Cardinality({i \in DOMAIN tree[d].items : ~ Deleted(tree[d].items[i])}) + tree[d].behind

\* The directory is freed when it cannot be read, and returned all the same.
fat16_load_fat_directory(h, d) ==
    LET dir   == kzalloc(h)
        total == total_items(d)
        items == IF total = 0 THEN Ret(dir.heap, 0) ELSE kzalloc(dir.heap)
        made  == Put(items.heap, dir.ptr, [is |-> "dir", of |-> d, total |-> total, item |-> items.ptr])
        read  == Put(made, items.ptr, [is |-> "items", of |-> d])
    IN  IF dir.ptr = 0 THEN Ret([dir.heap EXCEPT !.failed = TRUE], 0)
        ELSE IF total = -1 THEN Ret([dir.heap EXCEPT !.fate = "hung"], 0)
        ELSE IF items.ptr = 0
          THEN Ret([fat16_free_directory(made, dir.ptr) EXCEPT !.failed = TRUE], dir.ptr)
        ELSE IF total > tree[d].readable
          THEN Ret([fat16_free_directory(read, dir.ptr) EXCEPT !.failed = TRUE], dir.ptr)
        ELSE Ret(read, dir.ptr)

fat16_clone_directory_item(h, d, i) ==
    LET copy == kzalloc(h)
    IN  IF copy.ptr = 0 THEN copy
        ELSE Ret(Put(copy.heap, copy.ptr, [is |-> "entry", of |-> d, index |-> i]), copy.ptr)

fat16_new_fat_item_for_directory_item(h, d, i) ==
    LET e == tree[d].items[i]
        f == kzalloc(h)
        x == IF e.kind = "directory" THEN fat16_load_fat_directory(f.heap, e.dir)
             ELSE fat16_clone_directory_item(f.heap, d, i)
    IN  IF h.fate # "fine" \/ f.ptr = 0 THEN Ret(f.heap, 0)
        ELSE Ret(Put(x.heap, f.ptr,
                     [is |-> "fat_item", ptr |-> x.ptr,
                      type |-> IF e.kind = "directory" THEN "DIRECTORY" ELSE "FILE"]), f.ptr)

\* The name of each entry of the volumes as the search makes it.
Entries == UNION {{t[d].items[i] : i \in DOMAIN t[d].items} : t \in Trees, d \in Dirs}
tmp_filename == [e \in Entries |-> combine_filename_and_ext(e)]

\* The entries among the first `total' that have the name.
Matches(d, total, name) ==
    {i \in 1 .. total : /\ i <= Len(tree[d].items)
                        /\ SameName(tmp_filename[tree[d].items[i]], name)}

\* The search goes on behind a match, and what it found before is forgotten.
Search(h, d, total, name) ==
    LET r[i \in 0 .. Len(tree[d].items)] ==
            IF i = 0 THEN Ret(h, 0)
            ELSE IF i \in Matches(d, total, name)
              THEN fat16_new_fat_item_for_directory_item(r[i - 1].heap, d, i)
            ELSE r[i - 1]
    IN  r[Len(tree[d].items)]

\* A directory without items is searched at address 0, where nothing has a
\* name; one that was freed is used until a match makes the heap give its
\* blocks out again.
fat16_find_item_in_directory(h, p, name) ==
    IF p = 0 THEN Ret(Wild(h), 0)
    ELSE LET x == h.mem[p] IN
         CASE x.is = "zero"                       -> Ret(h, 0)
           [] x.is = "dir" /\ x.item = 0          -> Ret(h, 0)
           [] x.is = "dir" /\ x.item # 0 /\ p \in h.used /\ h.mem[x.item].is = "items"
                -> Search(h, h.mem[x.item].of, x.total, name)
           [] x.is = "dir" /\ x.item # 0 /\ p \notin h.used /\ h.mem[x.item].is = "items"
                -> IF Matches(h.mem[x.item].of, x.total, name) = {} THEN Ret(h, 0) ELSE Ret(Wild(h), 0)
           [] OTHER                               -> Ret(Wild(h), 0)

\* Slip: the item found is freed instead of the one that was searched.
replace_slip(current, tmp) ==
    IF tmp.heap.fate # "fine" \/ tmp.ptr = 0 THEN tmp
    ELSE Ret(fat16_fat_item_free(tmp.heap, tmp.ptr), tmp.ptr)

\* current_item is freed and what was found in it takes its place.
Replace(current, tmp) ==
    IF tmp.heap.fate # "fine" THEN tmp
    ELSE Ret(fat16_fat_item_free(tmp.heap, current), tmp.ptr)

\* The next component below current_item.
Descend(r, name) ==
    Replace(r.ptr, fat16_find_item_in_directory(r.heap, r.heap.mem[r.ptr].ptr, name))

At(r, stop) == [heap |-> r.heap, ptr |-> r.ptr, stop |-> stop]

\* The first component is searched in the root directory; when it is
\* missing nothing more is done.
FirstPart(h, name) ==
    LET root == Search(h, Root, total_items(Root), name) IN At(root, root.ptr = 0)

\* A missing component leaves current_item NULL; with more components to
\* come its type is read from low memory, where it may look like that of a
\* directory (low) or not.  A file with more components to come is dropped.
NextPart(r, name, low) ==
    IF r.heap.fate # "fine" \/ r.stop THEN r
    ELSE IF r.ptr = 0
      THEN [r EXCEPT !.heap = IF low THEN Wild(@) ELSE @, !.stop = TRUE]
    ELSE IF r.heap.mem[r.ptr].type # "DIRECTORY"
      THEN [r EXCEPT !.ptr = 0, !.stop = TRUE]
    ELSE At(Descend(r, name), FALSE)

fat16_get_directory_entry(h, path, low) ==
    LET r[k \in 1 .. Len(path)] ==
            IF k = 1 THEN FirstPart(h, path[k]) ELSE NextPart(r[k - 1], path[k], low)
    IN  r[Len(path)]

-----------------------------------------------------------------------------
\* What fat16_open makes of the descriptor's block and of the item found.
Opened(path, at, found) ==
    LET Result(res) == last' = [path |-> path, result |-> res] IN
    \/ at = 0 /\ Result("ENOMEM") /\ UNCHANGED <<heap, open>>
    \/ /\ at # 0 /\ found.heap.fate # "fine"
       /\ heap' = found.heap /\ Result("none") /\ UNCHANGED open
    \/ /\ at # 0 /\ found.heap.fate = "fine" /\ found.ptr = 0
       /\ heap' = found.heap /\ Result("EIO") /\ UNCHANGED open
    \/ /\ at # 0 /\ found.heap.fate = "fine" /\ found.ptr # 0
       /\ heap' = Put(found.heap, at, [is |-> "descriptor", item |-> found.ptr])
       /\ open' = open \cup {[at |-> at, path |-> path]}
       /\ Result("descriptor")

fat16_open(path, mode, low) ==
    /\ heap.fate = "fine" /\ Cardinality(open) < MaxOpen
    /\ \/ mode # "READ" /\ last' = [NoOpen EXCEPT !.result = "ERDONLY"] /\ UNCHANGED <<heap, open>>
       \/ /\ mode = "READ"
          /\ LET descriptor == kzalloc(heap)
             IN  Opened(path, descriptor.ptr, fat16_get_directory_entry(descriptor.heap, path, low))
    /\ UNCHANGED <<tree, others>>

fat16_close(d) ==
    /\ heap.fate = "fine"
    /\ heap' = IF heap.mem[d.at].is # "descriptor" THEN Wild(heap)
               ELSE kfree(fat16_fat_item_free(heap, heap.mem[d.at].item), d.at)
    /\ open' = open \ {d}
    /\ last' = NoOpen
    /\ UNCHANGED <<tree, others>>

\* The rest of the kernel allocates and frees.
TakeOther == /\ heap.fate = "fine" /\ Cardinality(others) < MaxOthers
             /\ LET b == kzalloc(heap) IN
                /\ b.ptr # 0
                /\ heap' = Put(b.heap, b.ptr, [is |-> "other"])
                /\ others' = others \cup {b.ptr}
             /\ last' = NoOpen
             /\ UNCHANGED <<tree, open>>

FreeOther == /\ heap.fate = "fine"
             /\ \E b \in others : heap' = kfree(heap, b) /\ others' = others \ {b}
             /\ last' = NoOpen
             /\ UNCHANGED <<tree, open>>

Open == \E path \in Paths, mode \in {"READ", "WRITE"} :
            \E low \in IF Len(path) > 2 THEN BOOLEAN ELSE {FALSE} : fat16_open(path, mode, low)
Close == \E d \in open : fat16_close(d)

Next == /\ Open \/ Close \/ TakeOther \/ FreeOther
        /\ calls < MaxCalls /\ calls' = calls + 1

Spec == Init /\ [][Next]_vars

-----------------------------------------------------------------------------
\* What a path names: the directory of each component, and its entries with
\* the component's name, of which a sound volume has no more than one.
Own == [e \in Entries |-> LowerCase(ShortName(e))]
Named(d, name) == {i \in DOMAIN tree[d].items :
                      LET e == tree[d].items[i]
                      IN  e.kind # "label" /\ ~ Deleted(e) /\ Own[e] = LowerCase(name)}

DirOf(path) ==
    LET at[k \in 1 .. Len(path)] ==
            IF k = 1 THEN Root
            ELSE IF at[k - 1] = None \/ Named(at[k - 1], path[k - 1]) = {} THEN None
            ELSE tree[at[k - 1]].items[CHOOSE i \in Named(at[k - 1], path[k - 1]) : TRUE].dir
    IN  at

Exists(path) == LET d == DirOf(path)[Len(path)] IN d # None /\ Named(d, Last(path)) # {}

EntryOf(path) == LET d == DirOf(path)[Len(path)] IN <<d, CHOOSE i \in Named(d, Last(path)) : TRUE>>

\* The directories that are searched for a path.
Searched(path) == {DirOf(path)[k] : k \in 1 .. Len(path)} \ {None}

\* A label is found like a file, and so is an entry under a name that is not
\* its own when a field of it runs on or has a space inside.
Misleads(d) == \E i \in DOMAIN tree[d].items :
                  tree[d].items[i].kind = "label" \/ ~ Plain(tree[d].items[i])
Gaps(d) == \E i \in DOMAIN tree[d].items : Deleted(tree[d].items[i])

\* The blocks an open descriptor refers to.
Item(d) == heap.mem[d.at].item
Reach(d) ==
    LET p == heap.mem[Item(d)].ptr
    IN  {d.at, Item(d)} \cup ({p} \ {0})
          \cup (IF p # 0 /\ heap.mem[p].is = "dir" THEN {heap.mem[p].item} \ {0} ELSE {})

\* Blocks that nobody will ever free.
Lost == heap.used \ (others \cup UNION {Reach(d) : d \in open})

\* fat16_open has the descriptor, and two items with their directories, at
\* a time.
Room == Cardinality(Blocks \ heap.used) >= 7

(***************************************************************************)
(* Type correctness of heap, descriptors and result.                       *)
(***************************************************************************)
TypeOK ==
    /\ DOMAIN tree = Dirs /\ \A d \in Dirs : Directory(tree[d])
    /\ heap.used \subseteq Blocks /\ DOMAIN heap.mem = Blocks
    /\ heap.fate \in {"fine", "wild", "hung"} /\ heap.failed \in BOOLEAN
    /\ \A d \in open : d.at \in Blocks /\ d.path \in Paths
    /\ others \subseteq Blocks /\ Cardinality(others) <= MaxOthers
    /\ last.result \in {"none", "ERDONLY", "ENOMEM", "EIO", "descriptor"}

(***************************************************************************)
(* What fat16_open returns is the file or directory that the path names,   *)
(* in either case of its letters, unless a directory on the way holds a    *)
(* volume label, or an entry with a field that is full or has a space      *)
(* inside; or the entry is missing for lack of memory.                     *)
(***************************************************************************)
OpenRight ==
    (heap.fate = "fine" /\ ~ heap.failed) =>
        \A d \in open :
            \/ \E s \in Searched(d.path) : Misleads(s)
            \/ heap.mem[Item(d)].ptr = 0
            \/ /\ Exists(d.path)
               /\ LET e == EntryOf(d.path)
                      x == heap.mem[heap.mem[Item(d)].ptr] IN
                  IF tree[e[1]].items[e[2]].kind = "directory"
                    THEN x.is = "dir" /\ x.of = tree[e[1]].items[e[2]].dir
                    ELSE x.is = "entry" /\ <<x.of, x.index>> = e

(***************************************************************************)
(* As long as every directory could be loaded, the blocks of an open       *)
(* descriptor are in use and belong to no other descriptor and to no one   *)
(* else: whatever fat16_close frees is its own.                            *)
(***************************************************************************)
OwnedApart ==
    (heap.fate = "fine" /\ ~ heap.failed) =>
        \A d \in open :
            /\ Reach(d) \subseteq heap.used /\ Reach(d) \cap others = {}
            /\ \A e \in open : e # d => Reach(d) \cap Reach(e) = {}

\* Something on the way of the path is not as the code takes it to be.
Obstructed(path) == \E s \in Searched(path) : Gaps(s) \/ Misleads(s)

(***************************************************************************)
(* What can go wrong while every directory can be loaded and memory is     *)
(* ample: a file or directory of the volume is missed only behind a        *)
(* deleted entry, a label or an entry that misleads; a pointer that leads  *)
(* nowhere is followed only when a component in the middle of a path is    *)
(* missing; the count of entries goes on for ever only in a directory with *)
(* no end; and memory is lost only by an open that fails or that met a     *)
(* name twice, and never by fat16_close.                                   *)
(***************************************************************************)
GoesWrongOnly ==
    [][ (heap.fate = "fine" /\ ~ heap'.failed) =>
          /\ (Room /\ last' # last /\ last'.result = "EIO" /\ Exists(last'.path))
                => Obstructed(last'.path)
          /\ (Room /\ heap'.fate = "wild")
                => Len(last'.path) > 2 /\ (~ Exists(last'.path) \/ Obstructed(last'.path))
          /\ heap'.fate = "hung" => \E d \in Dirs : tree[d].behind = -1
          /\ (heap'.fate = "fine" /\ ~ (Lost' \subseteq Lost))
                => last'.result = "EIO" \/ \E s \in Searched(last'.path) : Misleads(s) ]_vars

(***************************************************************************)
(* fat16.c:528: "Looks for a file or subdirectory with the passed name in  *)
(* the directory and returns its fat item", where no entry misleads and    *)
(* there was memory enough.                                                *)
(***************************************************************************)
FindsItem ==
    [][ (/\ Room /\ heap'.fate = "fine" /\ ~ heap'.failed /\ last' # last
         /\ last'.result = "EIO" /\ ~ \E s \in Searched(last'.path) : Misleads(s))
          => ~ Exists(last'.path) ]_vars

=============================================================================
