------------------------------- MODULE Files --------------------------------
(***************************************************************************)
(* Files by name and by number: the path parser (fs/pparser.c) and the     *)
(* descriptor table (fs/file.c) over a file system that opens and closes   *)
(* as Lookup shows.  Memory is counted in blocks; what the parser takes is *)
(* never given back, and few of the allocations are tested.                *)
(***************************************************************************)
EXTENDS Integers, Sequences

CONSTANTS MaxFd,      \* RASOS_MAX_FILEDESCRIPTORS
          Blocks,     \* the blocks of the heap
          Peak,       \* the blocks that are enough to look up any path
          Paths,      \* the names to open
          Volume,     \* what the volume holds: paths to "file" or "directory"
          NULL

\* A name as the parser sees it: its length against 3 and
\* RASOS_PATH_MAX_LEN, its first character as a drive number (-1 when it
\* is no digit), whether ":/" follows, and the components behind it; an
\* empty component stands for two slashes in a row or one at the end.
Path == [length : {"short", "fits", "long"}, drive : -1 .. 9,
         slash : BOOLEAN, parts : Seq(STRING)]

ASSUME FilesAssumption ==
    /\ MaxFd \in Nat \ {0} /\ Blocks \in Nat /\ Peak \in Nat
    /\ Paths \subseteq Path
    /\ NULL \notin [path : DOMAIN Volume, kind : {"file", "directory"}, loaded : BOOLEAN]
    /\ \A parts \in DOMAIN Volume : Volume[parts] \in {"file", "directory"}

VARIABLES room,      \* the free blocks of the heap
          mounted,   \* disk.filesystem is not NULL
          file_descriptors,
          last,      \* the last call with its name or descriptor, and its result
          wild       \* a pointer was followed that leads nowhere

vars == <<room, mounted, file_descriptors, last, wild>>

Fds == 1 .. MaxFd

\* fs_init has cleared the descriptors.
fs_init == file_descriptors = [fd \in Fds |-> NULL]

\* disk_search_and_init has found the file system, or none.
Init == /\ fs_init
        /\ mounted \in BOOLEAN
        /\ room = Blocks /\ wild = FALSE
        /\ last = [call |-> "none", path |-> NULL, fd |-> 0, result |-> "OK"]

-----------------------------------------------------------------------------
is_valid_path(path) == path.length = "fits" /\ path.drive >= 0 /\ path.slash

\* The component between two slashes in a row, and behind one at the end.
Empty == ""

\* Slip: an empty component is passed over.
parse_empty_slip(s, part) ==
    IF s.stop \/ part = Empty THEN s
    ELSE IF s.room < 2 THEN [s EXCEPT !.room = 0, !.stop = TRUE]
    ELSE [s EXCEPT !.room = @ - 2, !.parts = Append(@, part)]

\* parse_path_part: a block for the name and one for the part.  Without
\* memory for either the path ends here, as it does at an empty component.
parse_path_part(s, part) ==
    IF s.stop THEN s
    ELSE IF part = Empty THEN [s EXCEPT !.stop = TRUE]
    ELSE IF s.room < 2 THEN [s EXCEPT !.room = 0, !.stop = TRUE]
    ELSE [s EXCEPT !.room = @ - 2, !.parts = Append(@, part)]

\* pathparser_parse; no parts stand for its result NULL.
pathparser_parse(path) ==
    IF ~ is_valid_path(path) \/ room = 0 THEN [room |-> room, parts |-> <<>>]
    ELSE LET s[k \in 0 .. Len(path.parts)] ==
                 IF k = 0 THEN [room |-> room - 1, parts |-> <<>>, stop |-> FALSE]
                 ELSE parse_path_part(s[k - 1], path.parts[k])
             end == s[Len(path.parts)]
         IN  [room |-> end.room, parts |-> end.parts]

\* What fat16_open keeps: descriptor and item, and with the directory entry
\* or the directory and its items.
Cost(private) == IF ~ private.loaded THEN 2 ELSE IF private.kind = "file" THEN 3 ELSE 4

\* The file system's open: with enough memory it finds what there is, and
\* loses a block if there is nothing; with less it may also fail later, or
\* return an item without its contents (Lookup).
fs_open(free, parts, mode) ==
    LET Private(loaded) == [path |-> parts, kind |-> Volume[parts], loaded |-> loaded]
        found == IF parts \in DOMAIN Volume THEN {Private(TRUE)} ELSE {}
        bare  == IF parts \in DOMAIN Volume /\ free < Peak THEN {Private(FALSE)} ELSE {}
    IN  IF mode # "r" \/ free = 0 THEN {[room |-> free, private |-> NULL]}
        ELSE {[room |-> free - Cost(p), private |-> p] : p \in {q \in found \cup bare : Cost(q) <= free}}
               \cup (IF free >= Peak
                       THEN IF found = {} THEN {[room |-> free - 1, private |-> NULL]} ELSE {}
                       ELSE {[room |-> r, private |-> NULL] : r \in 0 .. free - 1})

\* There is one disk, with index 0.
disk_get(index) == index = 0

\* Modes are recognized by their first character.
file_get_mode_by_string(mode) == IF mode \in {"r", "w", "a"} THEN mode ELSE "invalid"

\* fat16_seek and fat16_stat refuse directories.
fs_refuses(private) == private.kind = "directory"

\* The slot file_new_descriptor finds, or 0.
file_new_descriptor == LET free == {fd \in Fds : file_descriptors[fd] = NULL}
                       IN  IF free = {} THEN 0 ELSE CHOOSE fd \in free : \A g \in free : fd <= g

Opened(path, fd) ==
    last' = [call |-> "fopen", path |-> path, fd |-> fd, result |-> IF fd = 0 THEN "0" ELSE "fd"]

Result(call, fd, res) == last' = [call |-> call, path |-> NULL, fd |-> fd, result |-> res]

\* fopen.  Every error is returned as 0.  file_new_descriptor does not test
\* its allocation: without memory the slot stays empty, and its number is
\* returned all the same, read back from address 0.
fopen(path, mode) ==
    LET parsed == pathparser_parse(path)
        fd == file_new_descriptor
    IN
    /\ ~ wild
    /\ IF \/ parsed.parts = <<>>
          \/ ~ disk_get(path.drive) \/ ~ mounted
          \/ file_get_mode_by_string(mode) = "invalid"
         THEN room' = parsed.room /\ Opened(path, 0) /\ UNCHANGED file_descriptors
         ELSE \E opened \in fs_open(parsed.room, parsed.parts, mode) :
              IF opened.private = NULL \/ fd = 0
                THEN /\ room' = opened.room
                     /\ Opened(path, 0) /\ UNCHANGED file_descriptors
                ELSE /\ Opened(path, fd)
                     /\ IF opened.room = 0
                          THEN room' = 0 /\ UNCHANGED file_descriptors
                          ELSE /\ room' = opened.room - 1
                               /\ file_descriptors' = [file_descriptors EXCEPT ![fd] = opened.private]
    /\ UNCHANGED <<mounted, wild>>

file_get_descriptor(fd) == IF fd <= 0 \/ fd >= MaxFd THEN NULL ELSE file_descriptors[fd]

\* fread of some bytes.  fat16_read takes a directory for a directory entry.
fread(fd) ==
    LET d == file_get_descriptor(fd) IN
    /\ ~ wild
    /\ IF d = NULL THEN Result("fread", fd, "EINVARG") /\ UNCHANGED wild
       ELSE /\ wild' = (d.kind = "directory" \/ ~ d.loaded)
            /\ Result("fread", fd, "read")
    /\ UNCHANGED <<room, mounted, file_descriptors>>

\* fseek looks the descriptor up, but tests its number.
fseek(fd) ==
    LET d == file_get_descriptor(fd) IN
    /\ ~ wild
    /\ IF fd = 0 THEN Result("fseek", fd, "EINVARG") /\ UNCHANGED wild
       ELSE IF d = NULL THEN Result("fseek", fd, "unknown") /\ wild' = TRUE
       ELSE IF fs_refuses(d) THEN Result("fseek", fd, "EINVARG") /\ UNCHANGED wild
       ELSE Result("fseek", fd, "sought") /\ wild' = ~ d.loaded
    /\ UNCHANGED <<room, mounted, file_descriptors>>

\* fstat, and fat16_stat.
fstat(fd) ==
    LET d == file_get_descriptor(fd) IN
    /\ ~ wild
    /\ IF d = NULL \/ (d # NULL /\ fs_refuses(d))
         THEN Result("fstat", fd, "EINVARG") /\ UNCHANGED wild
         ELSE Result("fstat", fd, "stat") /\ wild' = ~ d.loaded
    /\ UNCHANGED <<room, mounted, file_descriptors>>

\* Slip: the descriptor itself is not freed.
close_slip(private) == Cost(private)

\* Slip: the file system frees everything, and so does fclose.
close_twice_slip(private) == 2 * (Cost(private) + 1)

CloseFrees(private) == Cost(private) + 1

\* fclose, fat16_close and file_free_descriptor.
fclose(fd) ==
    LET d == file_get_descriptor(fd) IN
    /\ ~ wild
    /\ IF d = NULL THEN Result("fclose", fd, "EINVARG") /\ UNCHANGED <<room, file_descriptors>>
       ELSE /\ room' = room + CloseFrees(d)
            /\ file_descriptors' = [file_descriptors EXCEPT ![fd] = NULL]
            /\ Result("fclose", fd, "OK")
    /\ UNCHANGED <<mounted, wild>>

Next == \/ \E path \in Paths, mode \in {"r", "w", "x"} : fopen(path, mode)
        \/ \E fd \in 0 .. MaxFd + 1 : fread(fd) \/ fseek(fd) \/ fstat(fd) \/ fclose(fd)

Spec == Init /\ [][Next]_vars

-----------------------------------------------------------------------------
\* The components of a name up to an empty one.
Named(path) == LET n == CHOOSE n \in 0 .. Len(path.parts) :
                           /\ \A i \in 1 .. n : path.parts[i] # Empty
                           /\ n < Len(path.parts) => path.parts[n + 1] = Empty
               IN  SubSeq(path.parts, 1, n)

Open == {fd \in Fds : file_descriptors[fd] # NULL}

(***************************************************************************)
(* Type correctness of the descriptor table and the heap's room.           *)
(***************************************************************************)
TypeOK ==
    /\ room \in 0 .. Blocks /\ mounted \in BOOLEAN /\ wild \in BOOLEAN
    /\ \A fd \in Open : /\ file_descriptors[fd].path \in DOMAIN Volume
                        /\ file_descriptors[fd].kind = Volume[file_descriptors[fd].path]
                        /\ file_descriptors[fd].loaded \in BOOLEAN
    /\ last.call \in {"none", "fopen", "fread", "fseek", "fstat", "fclose"}

(***************************************************************************)
(* The number that fopen returns is that of a descriptor opened by this    *)
(* call, for the whole path and not for the part of it that was parsed     *)
(* when memory ended, unless the last block of memory went to the file     *)
(* system's data.  A pointer that leads nowhere is followed only by fseek  *)
(* with a number that is not open, by fread of a directory, and by a call  *)
(* for a descriptor that was opened when memory ran out.  And the last     *)
(* descriptor, which file_get_descriptor does not know, stays open for     *)
(* ever.                                                                   *)
(***************************************************************************)
DescriptorsRight ==
    [][ /\ (last'.call = "fopen" /\ last'.fd # 0) =>
              \/ /\ last'.fd \notin Open /\ last'.fd \in Open'
                 /\ file_descriptors'[last'.fd].path = Named(last'.path)
              \/ room' = 0
        /\ (wild' /\ ~ wild) =>
              \/ last'.call = "fseek" /\ last'.fd \notin Open \ {MaxFd}
              \/ last'.call = "fread" /\ file_descriptors[last'.fd].kind = "directory"
              \/ last'.fd \in Open /\ ~ file_descriptors[last'.fd].loaded
        /\ file_descriptors[MaxFd] # NULL
              => file_descriptors'[MaxFd] = file_descriptors[MaxFd] ]_vars

(***************************************************************************)
(* Every fopen of a valid name costs memory for good, whether it fails or  *)
(* its descriptor is closed again: fclose gives back what the file system  *)
(* and the table took, and never what the parser did.                      *)
(***************************************************************************)
HeldBy(table) ==
    LET held[fd \in 0 .. MaxFd] ==
            IF fd = 0 THEN 0
            ELSE held[fd - 1] + IF table[fd] = NULL THEN 0 ELSE Cost(table[fd]) + 1
    IN  held[MaxFd]

FopenCosts ==
    [][ LET spent == Blocks - room - HeldBy(file_descriptors)
            spent2 == Blocks - room' - HeldBy(file_descriptors')
        IN  IF last'.call = "fopen" /\ is_valid_path(last'.path) /\ room > 0
              THEN spent2 > spent ELSE spent2 = spent ]_vars

=============================================================================
