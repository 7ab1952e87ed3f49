------------------------------- MODULE Fat16 --------------------------------
(***************************************************************************)
(* The contents of a file of a FAT16 volume (fs/fat/fat16.c): where the    *)
(* data area starts, the cluster chain, fat16_seek and fat16_read.  The    *)
(* file is open; its chain may lie in any order on the disk.  A byte is    *)
(* its address on the disk, as in Stream, so that a byte read tells where  *)
(* it came from; a seek and a read of cluster_read_stream deliver the      *)
(* bytes from an address on, which is what Stream shows of them.           *)
(***************************************************************************)
EXTENDS Integers, Sequences

CONSTANTS SectorSize,   \* RASOS_SECTOR_SIZE
          ItemSize,     \* sizeof(struct fat_directory_item)
          Headers,      \* the values of header.primary_header to consider
          DataClusters, \* how many clusters the data area has
          MaxChain,     \* how many clusters the file has at most
          Entries,      \* the values of a FAT entry, 16 bits
          EndMarks,     \* entries that end a chain on a FAT16 volume, 0xFFF8 .. 0xFFFF
          LastMarks,    \* entries that end a chain in this code, 0xFF8 and 0xFFF
          OtherMarks,   \* RASOS_FAT16_BAD_SECTOR, 0xFF0 and 0xFF6
          Word,         \* 2^32
          Offsets,      \* offsets to seek
          Sizes,        \* sizes and
          Counts        \* numbers of the items to read

VARIABLES header,     \* private->header.primary_header
          ending,     \* root_directory.ending_sector_pos
          chain,      \* the clusters of the file, in order
          filesize,   \* filesize in its directory entry
          fat,        \* the file allocation table and what is read beyond it
          pos,        \* pos of the file's descriptor
          pc,         \* "idle", "reading", or "hung" in disk_read_sector
          asked,      \* size and nmemb of the read
          item,       \* the index i of fat16_read
          offset,     \* offset and
          total,      \* total of fat16_read_internal_from_stream
          out,        \* the bytes read
          result      \* what fat16_read or fat16_seek returned

disk == <<header, ending, chain, filesize, fat>>
read == <<pc, asked, item, offset, total, out>>
vars == <<disk, pos, read, result>>

-----------------------------------------------------------------------------
Clusters == 2 .. DataClusters + 1

\* struct fat_header, as far as it is read here.
FatHeader == [reserved_sectors : Nat, fat_copies : Nat, sectors_per_fat : Nat,
              root_dir_entries : Nat, sectors_per_cluster : Nat \ {0}]

Half == Word \div 2

\* A file is smaller than 2^31 bytes: that is as large as 16-bit entries and
\* clusters of 32 KB allow.
ASSUME Fat16Assumption ==
    /\ SectorSize \in Nat \ {0} /\ ItemSize \in Nat \ {0}
    /\ Headers \subseteq FatHeader
    /\ DataClusters \in Nat /\ MaxChain \in Nat /\ Word \in Nat \ {0}
    /\ \A h \in Headers : MaxChain * (h.sectors_per_cluster * SectorSize) <= Half
    /\ Entries \subseteq Nat /\ Clusters \cup EndMarks \cup {0} \subseteq Entries
    /\ Offsets \subseteq 0 .. Word - 1 /\ Sizes \subseteq Nat /\ Counts \subseteq Nat

RootSector(h) == h.fat_copies * h.sectors_per_fat + h.reserved_sectors

EndingSector(h) == RootSector(h) + (h.root_dir_entries * ItemSize) \div SectorSize

\* Where the data area begins on the disk, whatever the code thinks.
DataStart == SectorSize *
    (RootSector(header) + (header.root_dir_entries * ItemSize + SectorSize - 1) \div SectorSize)

ClusterSize == header.sectors_per_cluster * SectorSize

\* The file's clusters are any of the data area, linked in any order.
Chains(n) == {s \in [1 .. n -> Clusters] : \A i, j \in 1 .. n : s[i] = s[j] => i = j}

Links(s, end, other) ==
    [c \in Entries |-> IF \E i \in DOMAIN s : s[i] = c
                         THEN LET i == CHOOSE i \in DOMAIN s : s[i] = c
                              IN  IF i = Len(s) THEN end ELSE s[i + 1]
                         ELSE IF c \in Clusters THEN 0 ELSE other]

Init == /\ header \in Headers
        /\ ending = EndingSector(header)
        /\ \E n \in 1 .. MaxChain : chain \in Chains(n)
        /\ filesize \in (Len(chain) - 1) * ClusterSize + 1 .. Len(chain) * ClusterSize
        /\ \E end \in EndMarks, other \in {0, 2} : fat = Links(chain, end, other)
        /\ pos = 0
        /\ pc = "idle" /\ asked = [size |-> 0, nmemb |-> 0] /\ item = 0
        /\ offset = 0 /\ total = 0 /\ out = <<>> /\ result = "none"

-----------------------------------------------------------------------------
ToInt(n) == ((n + Half) % Word) - Half

\* C's division and remainder.
CDiv(a, b) == IF a >= 0 THEN a \div b ELSE - ((- a) \div b)
CMod(a, b) == a - CDiv(a, b) * b

\* Slip: the marks are off by one.
refused_slip(entry) == entry = 0 \/ entry + 1 \in LastMarks \cup OtherMarks

Refused(entry) == entry \in LastMarks \cup OtherMarks \cup {0}

\* One turn of the loop; -1 stands for -EIO.
Follow(c) == IF c = -1 \/ Refused(fat[c]) THEN -1 ELSE fat[c]

\* The cluster n links along the chain.
Walk(n) == LET walk[i \in 0 .. n] == IF i = 0 THEN chain[1] ELSE Follow(walk[i - 1])
           IN  walk[n]

ClustersAhead(o) == CDiv(o, ClusterSize)

\* For a negative offset the loop is not entered.
fat16_get_cluster_for_offset(o) == Walk(IF ClustersAhead(o) > 0 THEN ClustersAhead(o) ELSE 0)

fat16_cluster_to_sector(c) == ending + (c - 2) * header.sectors_per_cluster

\* disk_read_sector waits for ever for a sector that is not there, and a
\* read that ends with a sector reads the next one too (Stream).
DiskEnd == DataStart + DataClusters * ClusterSize
OnDisk(at, n) == at >= 0 /\ at + n < DiskEnd

-----------------------------------------------------------------------------
\* Slip: the position is wider than 32 bits.
seek_cur_slip(o) == pos + o

SeekCur(o) == (pos + o) % Word

\* fat16_seek: the offset is compared with the size of the file, but not the
\* position that SEEK_CUR adds it to.
fat16_seek(o, mode) ==
    /\ pc = "idle"
    /\ IF o >= filesize THEN pos' = pos /\ result' = "EIO"
       ELSE \/ mode = "SEEK_SET" /\ pos' = o /\ result' = "OK"
            \/ mode = "SEEK_CUR" /\ pos' = SeekCur(o) /\ result' = "OK"
            \/ mode = "SEEK_END" /\ pos' = pos /\ result' = "EUNIMP"
    /\ asked' = [size |-> 0, nmemb |-> 0] /\ out' = <<>>
    /\ UNCHANGED <<disk, pc, item, offset, total>>

\* fat16_read, up to its first call of fat16_read_internal.
fat16_read(size, nmemb) ==
    /\ pc = "idle"
    /\ pc' = "reading"
    /\ asked' = [size |-> size, nmemb |-> nmemb]
    /\ item' = 0 /\ offset' = ToInt(pos) /\ total' = size /\ out' = <<>>
    /\ result' = "none"
    /\ UNCHANGED <<disk, pos>>

\* Slip: the cluster's size is taken for the limit whatever is asked for.
whole_cluster_slip == ClusterSize

TotalToRead == IF total > ClusterSize THEN ClusterSize ELSE total

NextOffset == ToInt(pos) + (item + 1) * asked.size

\* The end of fat16_read; its variables are gone.
Leave(res) == pc' = "idle" /\ result' = res /\ item' = 0 /\ offset' = 0 /\ total' = 0

\* One level of fat16_read_internal_from_stream, and fat16_read's loop
\* around the last of them.
Level ==
    LET cluster == fat16_get_cluster_for_offset(offset)
        at == fat16_cluster_to_sector(cluster) * SectorSize + CMod(offset, ClusterSize)
        n == TotalToRead
    IN
    /\ pc = "reading" /\ item < asked.nmemb
    /\ \/ /\ cluster = -1
          /\ Leave("EIO")
          /\ UNCHANGED out
       \/ /\ cluster # -1 /\ ~ OnDisk(at, n)
          /\ pc' = "hung"
          /\ UNCHANGED <<item, offset, total, out, result>>
       \/ /\ cluster # -1 /\ OnDisk(at, n)
          /\ out' = out \o [i \in 1 .. n |-> at + i - 1]
          /\ IF total - n > 0
               THEN offset' = offset + n /\ total' = total - n /\ item' = item
               ELSE offset' = NextOffset /\ total' = asked.size /\ item' = item + 1
          /\ UNCHANGED <<pc, result>>
    /\ UNCHANGED <<disk, pos, asked>>

\* fat16_read returns the number of items.
Return == /\ pc = "reading" /\ item = asked.nmemb
          /\ Leave("nmemb")
          /\ UNCHANGED <<disk, pos, asked, out>>

Next == \/ \E o \in Offsets, mode \in {"SEEK_SET", "SEEK_CUR", "SEEK_END"} :
              fat16_seek(o, mode)
        \/ \E size \in Sizes, nmemb \in Counts : fat16_read(size, nmemb)
        \/ Level
        \/ Return

Spec == Init /\ [][Next]_vars

-----------------------------------------------------------------------------
(***************************************************************************)
(* Type correctness of the file, its descriptor and the read under way.    *)
(***************************************************************************)
TypeOK ==
    /\ header \in Headers /\ ending \in Nat
    /\ chain \in Seq(Clusters) /\ filesize \in Nat /\ fat \in [Entries -> Entries]
    /\ pos \in 0 .. Word - 1
    /\ pc \in {"idle", "reading", "hung"}
    /\ asked \in [size : Sizes \cup {0}, nmemb : Counts \cup {0}]
    /\ item \in 0 .. asked.nmemb
    /\ offset \in Int /\ total \in 0 .. asked.size
    /\ out \in Seq(0 .. DiskEnd - 1)
    /\ result \in {"none", "OK", "EIO", "EUNIMP", "nmemb"}

\* The byte at position p of the file.
ByteAt(p) == DataStart + (chain[p \div ClusterSize + 1] - 2) * ClusterSize + (p % ClusterSize)

Length == asked.size * asked.nmemb

InFile == pos + Length <= filesize /\ Length > 0

\* The root directory fills its sectors.
FullSectors == (header.root_dir_entries * ItemSize) % SectorSize = 0

Right == \A i \in DOMAIN out : out[i] = ByteAt(pos + i - 1)

Cluster(c) == LET start == DataStart + (c - 2) * ClusterSize
              IN  start .. start + ClusterSize - 1

Contiguous == \A i \in 1 .. Len(chain) - 1 : chain[i + 1] = chain[i] + 1
WholeItems == /\ pos % ClusterSize = 0
              /\ asked.size % ClusterSize = 0 \/ asked.nmemb = 1

(***************************************************************************)
(* However the file's clusters lie on the disk, a read in whole clusters,  *)
(* or of a single item from the beginning of a cluster, returns exactly    *)
(* the file's bytes from the descriptor's position on; and as fat16_read   *)
(* does not advance that position, so does the next one.  A file whose     *)
(* clusters follow each other is read right from every position and in     *)
(* items of every size, although a read from the middle of a cluster runs  *)
(* over its end.  Any other read takes what it runs over the end for from  *)
(* the cluster behind it on the disk, and from nowhere else.               *)
(***************************************************************************)
ReadsRight ==
    (InFile /\ FullSectors) =>
        /\ (result = "nmemb" /\ (WholeItems \/ Contiguous)) => Right /\ Len(out) = Length
        /\ \A i \in DOMAIN out : \E k \in DOMAIN chain :
              out[i] \in Cluster(chain[k]) \cup Cluster(chain[k] + 1)

(***************************************************************************)
(* A read inside a file fails only for a file that has a cluster whose     *)
(* number is one of the marks of FAT12 the code compares with, and it      *)
(* never comes back only for a file that holds the disk's last cluster.    *)
(***************************************************************************)
FailsOnlyAtEnds ==
    /\ (pc = "idle" /\ result = "EIO" /\ InFile) =>
          \E k \in 2 .. Len(chain) : chain[k] \in LastMarks \cup OtherMarks
    /\ (pc = "hung" /\ InFile /\ FullSectors) =>
          \E k \in DOMAIN chain : chain[k] = DataClusters + 1

=============================================================================
