---------------------------- MODULE Fat16Proofs -----------------------------
(***************************************************************************)
(* Proofs that a FAT16 file is read right, for clusters and disks of any   *)
(* size and files and reads of any length.  The cluster chain is followed  *)
(* by a recursive function; what it computes is shown by induction, which  *)
(* the first two lemmas give.                                              *)
(***************************************************************************)
EXTENDS Fat16, TLAPS, WellFoundedInduction

-----------------------------------------------------------------------------
(***************************************************************************)
(* Every set of numbers that is not empty has a least element.             *)
(***************************************************************************)
LEMMA Least == ASSUME NEW S, S \subseteq Nat, S # {}
               PROVE  \E n \in S : \A m \in S : n <= m
<1> DEFINE R == {ss \in Nat \X Nat : ss[1] < ss[2]}
<1>1. IsWellFoundedOn(R, Nat)
  BY NatLessThanWellFounded DEF OpToRel
<1>2. PICK n \in S : \A m \in S : ~ (<<m, n>> \in R)
  <2> HIDE DEF R
  <2> QED
    BY <1>1, WFMin
<1>3. ASSUME NEW m \in S, m < n PROVE FALSE
  <2>1. <<m, n>> \in Nat \X Nat /\ <<m, n>>[1] < <<m, n>>[2]
    BY <1>3
  <2>2. <<m, n>> \in R
    BY <2>1
  <2> HIDE DEF R
  <2> QED
    BY <1>2, <2>2
<1>4. \A m \in S : n \in Nat /\ m \in Nat
  OBVIOUS
<1> QED
  BY <1>3, <1>4

(***************************************************************************)
(* A set of numbers with 0 and, with each n, n + 1, has all numbers.       *)
(***************************************************************************)
LEMMA SetInduction == ASSUME NEW S, S \subseteq Nat, 0 \in S, \A n \in S : n + 1 \in S
                      PROVE  S = Nat
<1>1. SUFFICES ASSUME Nat \ S # {} PROVE FALSE
  OBVIOUS
<1>2. PICK n \in Nat \ S : \A m \in Nat \ S : n <= m
  BY <1>1, Least
<1>3. n # 0 /\ n - 1 \in Nat /\ ~ (n <= n - 1)
  BY <1>2
<1>4. n - 1 \in S
  BY <1>2, <1>3
<1> QED
  BY <1>2, <1>4


-----------------------------------------------------------------------------
(***************************************************************************)
(* Division with remainder.                                                *)
(***************************************************************************)
LEMMA Division == ASSUME NEW a \in Nat, NEW d \in Nat \ {0}
                  PROVE  /\ a \div d \in Nat /\ a % d \in 0 .. d - 1
                         /\ a = (a \div d) * d + (a % d)
OBVIOUS

(***************************************************************************)
(* Quotient and remainder are the only ones.                               *)
(***************************************************************************)
LEMMA Quotient == ASSUME NEW q \in Nat, NEW d \in Nat \ {0}, NEW r \in 0 .. d - 1
                  PROVE  (q * d + r) \div d = q /\ (q * d + r) % d = r
OBVIOUS

(***************************************************************************)
(* A product grows with its factors.                                       *)
(***************************************************************************)
LEMMA Grows == ASSUME NEW m \in Nat, NEW n \in Nat, NEW s \in Nat, m <= n
               PROVE  m * s <= n * s /\ (n + 1) * s = n * s + s
OBVIOUS

(***************************************************************************)
(* Whole multiples add up.                                                 *)
(***************************************************************************)
LEMMA Multiples == ASSUME NEW a \in Nat, NEW b \in Nat, NEW d \in Nat \ {0},
                          a % d = 0, b % d = 0
                   PROVE  (a + b) % d = 0
<1>1. a = (a \div d) * d /\ b = (b \div d) * d /\ a \div d \in Nat /\ b \div d \in Nat
  BY Division
<1>2. a + b = ((a \div d) + (b \div d)) * d + 0
  BY <1>1
<1> QED
  BY <1>1, <1>2, Quotient

(***************************************************************************)
(* A multiple of a multiple is one.                                        *)
(***************************************************************************)
LEMMA MultipleOf == ASSUME NEW n \in Nat, NEW b \in Nat, NEW d \in Nat \ {0}, b % d = 0
                    PROVE  (n * b) % d = 0
<1>1. PICK q \in Nat : b = q * d
  <2>1. b = (b \div d) * d /\ b \div d \in Nat
    BY Division
  <2> QED
    BY <2>1
<1>2. PICK p : p = n * q /\ p \in Nat
  OBVIOUS
<1>3. n * b = p * d + 0
  BY <1>1, <1>2
<1>4. (p * d + 0) % d = 0
  <2>1. 0 \in 0 .. d - 1
    OBVIOUS
  <2> QED
    BY <1>2, <2>1, Quotient
<1> QED
  BY <1>3, <1>4

-----------------------------------------------------------------------------
(***************************************************************************)
(* The inductive invariant.                                                *)
(***************************************************************************)
\* What the volume and its file are like never changes.
Layout ==
    /\ ending = EndingSector(header)
    /\ Len(chain) \in 1 .. MaxChain
    /\ filesize <= Len(chain) * ClusterSize
    /\ \A i \in 1 .. Len(chain) - 1 : fat[chain[i]] = chain[i + 1]

\* Between two reads the variables of fat16_read are gone.
AtRest == pc = "idle" => item = 0 /\ total = 0

\* A read is always as far as offset says.
Progress ==
    (pc = "reading" /\ InFile) =>
        /\ offset + total = pos + (item + 1) * asked.size
        /\ total > 0
        /\ Len(out) = offset - pos
        /\ item = asked.nmemb => total = asked.size
        /\ (WholeItems /\ item < asked.nmemb) => offset % ClusterSize = 0

Finished == (result = "nmemb" /\ InFile) => pc = "idle" /\ Len(out) = Length

\* The bytes read so far, also while the read goes on.
Sources ==
    (InFile /\ FullSectors) =>
        /\ (WholeItems \/ Contiguous) => Right
        /\ \A i \in DOMAIN out : \E k \in DOMAIN chain :
              out[i] \in Cluster(chain[k]) \cup Cluster(chain[k] + 1)

IInv == TypeOK /\ Layout /\ AtRest /\ Progress /\ Finished /\ Sources /\ FailsOnlyAtEnds

-----------------------------------------------------------------------------
(***************************************************************************)
(* A cluster has bytes, and a file fewer than 2^31.                        *)
(***************************************************************************)
LEMMA Bytes == ASSUME TypeOK
               PROVE  /\ header \in FatHeader
                      /\ ClusterSize \in Nat \ {0}
                      /\ Layout => filesize <= Half
<1>1. header \in FatHeader
  BY Fat16Assumption DEF TypeOK
<1>2. header.sectors_per_cluster \in Nat \ {0} /\ SectorSize \in Nat \ {0}
  BY <1>1, Fat16Assumption DEF FatHeader
<1>3. ClusterSize \in Nat \ {0}
  BY <1>2 DEF ClusterSize
<1>4. MaxChain * ClusterSize <= Half
  BY Fat16Assumption DEF TypeOK, ClusterSize
<1>5. ASSUME Layout PROVE filesize <= Half
  <2>1. Len(chain) \in Nat /\ MaxChain \in Nat /\ Len(chain) <= MaxChain
    BY <1>5, Fat16Assumption DEF Layout
  <2>2. Len(chain) * ClusterSize <= MaxChain * ClusterSize
    BY <2>1, <1>3, Grows
  <2>3. filesize <= Len(chain) * ClusterSize /\ filesize \in Nat
    BY <1>5 DEF Layout, TypeOK
  <2>4. Half \in Int
    BY Fat16Assumption DEF Half
  <2>5. Len(chain) * ClusterSize \in Int /\ MaxChain * ClusterSize \in Int
    BY <2>1, <1>3
  <2> QED
    BY <2>2, <2>3, <2>4, <2>5, <1>4
<1> QED
  BY <1>1, <1>3, <1>5

(***************************************************************************)
(* A position below 2^31 stays itself as an int.                           *)
(***************************************************************************)
LEMMA IntKeeps == ASSUME NEW n \in Nat, n < Half
                  PROVE  ToInt(n) = n
<1>1. Word \in Nat \ {0} /\ Half = Word \div 2
  BY Fat16Assumption DEF Half
<1>2. Half \in Nat /\ Half + Half <= Word
  BY <1>1
<1>3. n + Half \in 0 .. Word - 1
  BY <1>1, <1>2
<1>4. (n + Half) % Word = n + Half
  BY <1>1, <1>3
<1> QED
  BY <1>2, <1>4 DEF ToInt

(***************************************************************************)
(* Every position becomes an int.                                          *)
(***************************************************************************)
LEMMA IntType == ASSUME NEW n \in Int
                 PROVE  ToInt(n) \in Int
<1>1. Word \in Nat \ {0} /\ Half \in Int
  BY Fat16Assumption DEF Half
<1>2. (n + Half) % Word \in Int
  BY <1>1
<1> QED
  BY <1>1, <1>2 DEF ToInt

(***************************************************************************)
(* The loop along the chain has a value after every number of turns: a     *)
(* function that describes the turns up to the k-th exists for every k.    *)
(***************************************************************************)
LEMMA WalkExists ==
    ASSUME NEW k \in Nat
    PROVE  \E w : w = [i \in 0 .. k |-> IF i = 0 THEN chain[1] ELSE Follow(w[i - 1])]
<1> DEFINE Turns(n, w) == w = [i \in 0 .. n |-> IF i = 0 THEN chain[1] ELSE Follow(w[i - 1])]
           S == {n \in Nat : \E w : Turns(n, w)}
<1>1. 0 \in S
  <2>1. Turns(0, [i \in 0 .. 0 |-> chain[1]])
    OBVIOUS
  <2> QED
    BY <2>1
<1>2. ASSUME NEW n \in S PROVE n + 1 \in S
  <2>1. PICK w : Turns(n, w)
    OBVIOUS
  <2> DEFINE v == [i \in 0 .. n + 1 |-> IF i = 0 THEN chain[1] ELSE Follow(w[i - 1])]
  <2>2. \A i \in 0 .. n : v[i] = w[i]
    BY <2>1
  <2>3. n \in Nat /\ \A i \in 0 .. n + 1 : i # 0 => i - 1 \in 0 .. n
    OBVIOUS
  <2>4. Turns(n + 1, v)
    BY <2>2, <2>3
  <2> HIDE DEF Turns, v
  <2>5. n + 1 \in Nat
    BY <2>3
  <2> QED
    BY <2>4, <2>5
<1>3. S = Nat
  <2> HIDE DEF S
  <2>1. S \subseteq Nat
    BY DEF S
  <2> QED
    BY <1>1, <1>2, <2>1, SetInduction
<1> QED
  BY <1>3

(***************************************************************************)
(* One turn after another.                                                 *)
(***************************************************************************)
LEMMA Walked ==
    ASSUME NEW k \in Nat
    PROVE  \E w : /\ w[0] = chain[1] /\ Walk(k) = w[k]
                  /\ \A i \in 0 .. k - 1 : w[i + 1] = Follow(w[i])
<1> DEFINE w == CHOOSE w : w = [i \in 0 .. k |-> IF i = 0 THEN chain[1] ELSE Follow(w[i - 1])]
<1>1. w = [i \in 0 .. k |-> IF i = 0 THEN chain[1] ELSE Follow(w[i - 1])]
  BY WalkExists
<1>2. Walk(k) = w[k]
  BY DEF Walk
<1> HIDE DEF w
<1>3. \A i \in 0 .. k - 1 : i + 1 \in 0 .. k /\ i + 1 # 0 /\ (i + 1) - 1 = i
  OBVIOUS
<1>4. \A i \in 0 .. k - 1 : w[i + 1] = Follow(w[i])
  BY <1>1, <1>3
<1> QED
  BY <1>1, <1>2, <1>4

(***************************************************************************)
(* What the loop ends with is an entry of the table, or -EIO.              *)
(***************************************************************************)
LEMMA WalkType == ASSUME TypeOK, Layout, NEW k \in Nat
                  PROVE  Walk(k) \in Entries \cup {-1}
<1>1. PICK w : /\ w[0] = chain[1] /\ Walk(k) = w[k]
               /\ \A i \in 0 .. k - 1 : w[i + 1] = Follow(w[i])
  BY Walked
<1> DEFINE S == {n \in Nat : n <= k => w[n] \in Entries \cup {-1}}
<1>2. 0 \in S
  <2>1. chain[1] \in Clusters
    BY DEF TypeOK, Layout
  <2> QED
    BY <2>1, <1>1, Fat16Assumption
<1>3. ASSUME NEW n \in S PROVE n + 1 \in S
  <2>1. SUFFICES ASSUME n + 1 <= k PROVE w[n + 1] \in Entries \cup {-1}
    OBVIOUS
  <2>2. w[n] \in Entries \cup {-1} /\ w[n + 1] = Follow(w[n])
    BY <1>1, <2>1
  <2>3. fat \in [Entries -> Entries]
    BY DEF TypeOK
  <2> QED
    BY <2>2, <2>3 DEF Follow
<1>4. S = Nat
  <2> HIDE DEF S
  <2>1. S \subseteq Nat
    BY DEF S
  <2> QED
    BY <1>2, <1>3, <2>1, SetInduction
<1> QED
  BY <1>1, <1>4

(***************************************************************************)
(* fat16_get_cluster_for_offset: inside the file, the loop either reaches  *)
(* the cluster of the offset or stops at a cluster whose number it takes   *)
(* for a mark.                                                             *)
(***************************************************************************)
LEMMA WalkAlong ==
    ASSUME TypeOK, Layout, NEW k \in 0 .. Len(chain) - 1
    PROVE  \/ Walk(k) = chain[k + 1]
           \/ /\ Walk(k) = -1
              /\ \E j \in 2 .. Len(chain) : chain[j] \in LastMarks \cup OtherMarks
<1>1. PICK w : /\ w[0] = chain[1] /\ Walk(k) = w[k]
               /\ \A i \in 0 .. k - 1 : w[i + 1] = Follow(w[i])
  BY Walked
<1> DEFINE Stopped == \E j \in 2 .. Len(chain) : chain[j] \in LastMarks \cup OtherMarks
           S == {n \in Nat : n <= k => w[n] = chain[n + 1] \/ (w[n] = -1 /\ Stopped)}
<1>2. 0 \in S
  BY <1>1
<1>3. ASSUME NEW n \in S PROVE n + 1 \in S
  <2>1. SUFFICES ASSUME n + 1 <= k
                 PROVE  w[n + 1] = chain[n + 2] \/ (w[n + 1] = -1 /\ Stopped)
    OBVIOUS
  <2>2. /\ w[n] = chain[n + 1] \/ (w[n] = -1 /\ Stopped)
        /\ w[n + 1] = Follow(w[n])
    BY <1>1, <2>1
  <2>3. CASE w[n] = -1 /\ Stopped
    BY <2>2, <2>3 DEF Follow
  <2>4. CASE w[n] = chain[n + 1]
    <3>1. n + 1 \in 1 .. Len(chain) - 1 /\ n + 2 \in 2 .. Len(chain)
      BY <2>1
    <3>2. fat[chain[n + 1]] = chain[n + 2]
      BY <3>1 DEF Layout
    <3>3. chain[n + 1] \in Clusters /\ chain[n + 2] \in Clusters
      BY <3>1 DEF TypeOK
    <3>4. chain[n + 1] # -1 /\ chain[n + 2] # 0
      BY <3>3 DEF Clusters
    <3>5. CASE Refused(chain[n + 2])
      <4>1. chain[n + 2] \in LastMarks \cup OtherMarks
        BY <3>4, <3>5 DEF Refused
      <4> QED
        BY <2>2, <2>4, <3>1, <3>2, <3>5, <4>1 DEF Follow
    <3>6. CASE ~ Refused(chain[n + 2])
      BY <2>2, <2>4, <3>2, <3>4, <3>6 DEF Follow
    <3> QED
      BY <3>5, <3>6
  <2> QED
    BY <2>2, <2>3, <2>4
<1>4. S = Nat
  <2> HIDE DEF S
  <2>1. S \subseteq Nat
    BY DEF S
  <2> QED
    BY <1>2, <1>3, <2>1, SetInduction
<1> QED
  BY <1>1, <1>4

-----------------------------------------------------------------------------
(***************************************************************************)
(* C's division is that of the numbers when there is no sign.              *)
(***************************************************************************)
LEMMA Unsigned == ASSUME NEW o \in Nat, ClusterSize \in Nat \ {0}
                  PROVE  /\ ClustersAhead(o) = o \div ClusterSize
                         /\ CMod(o, ClusterSize) = o % ClusterSize
<1>1. CDiv(o, ClusterSize) = o \div ClusterSize
  BY DEF CDiv
<1>2. o = (o \div ClusterSize) * ClusterSize + (o % ClusterSize)
      /\ o \div ClusterSize \in Nat /\ o % ClusterSize \in Nat
  BY Division
<1>3. (o \div ClusterSize) * ClusterSize \in Nat
  BY <1>2
<1> QED
  BY <1>1, <1>2, <1>3 DEF CMod, ClustersAhead

(***************************************************************************)
(* C's division and remainder of ints are ints.                            *)
(***************************************************************************)
LEMMA Signed == ASSUME NEW o \in Int, ClusterSize \in Nat \ {0}
                PROVE  ClustersAhead(o) \in Int /\ CMod(o, ClusterSize) \in Int
<1>1. CDiv(o, ClusterSize) \in Int
  BY DEF CDiv
<1>2. CDiv(o, ClusterSize) * ClusterSize \in Int
  BY <1>1
<1> QED
  BY <1>1, <1>2 DEF CMod, ClustersAhead

(***************************************************************************)
(* The root directory fills its sectors: the code finds the data area.     *)
(***************************************************************************)
LEMMA DataFound == ASSUME TypeOK, Layout, FullSectors
                   PROVE  ending * SectorSize = DataStart /\ DataStart \in Nat
<1> DEFINE b == header.root_dir_entries * ItemSize
<1>1. header \in FatHeader /\ SectorSize \in Nat \ {0} /\ ItemSize \in Nat \ {0}
  BY Bytes, Fat16Assumption
<1>2. b \in Nat
  BY <1>1 DEF FatHeader
<1>3. RootSector(header) \in Nat
  <2>1. header.fat_copies \in Nat /\ header.sectors_per_fat \in Nat
        /\ header.reserved_sectors \in Nat
    BY <1>1 DEF FatHeader
  <2>2. header.fat_copies * header.sectors_per_fat \in Nat
    BY <2>1
  <2> QED
    BY <2>1, <2>2 DEF RootSector
<1>4. b % SectorSize = 0
  BY DEF FullSectors
<1>5. ending = RootSector(header) + b \div SectorSize
  BY DEF Layout, EndingSector
<1>6. DataStart = SectorSize * (RootSector(header) + (b + SectorSize - 1) \div SectorSize)
  BY DEF DataStart
<1> HIDE DEF b
<1>7. b = (b \div SectorSize) * SectorSize /\ b \div SectorSize \in Nat
  BY <1>1, <1>2, <1>4, Division
<1>8. (b + SectorSize - 1) \div SectorSize = b \div SectorSize
  <2>1. SectorSize - 1 \in 0 .. SectorSize - 1
    BY <1>1
  <2>2. b + SectorSize - 1 = (b \div SectorSize) * SectorSize + (SectorSize - 1)
    BY <1>1, <1>2, <1>7
  <2> QED
    BY <1>1, <1>7, <2>1, <2>2, Quotient
<1>9. RootSector(header) + b \div SectorSize \in Nat
  BY <1>3, <1>7
<1> QED
  BY <1>1, <1>5, <1>6, <1>8, <1>9

(***************************************************************************)
(* The disk has an end.                                                    *)
(***************************************************************************)
LEMMA DataEnds == ASSUME TypeOK
                  PROVE  DiskEnd \in Int
<1> DEFINE b == header.root_dir_entries * ItemSize
<1>1. header \in FatHeader /\ SectorSize \in Nat \ {0} /\ ItemSize \in Nat \ {0}
  BY Bytes, Fat16Assumption
<1>2. b \in Nat
  BY <1>1 DEF FatHeader
<1>3. RootSector(header) \in Nat
  <2>1. header.fat_copies * header.sectors_per_fat \in Nat /\ header.reserved_sectors \in Nat
    BY <1>1 DEF FatHeader
  <2> QED
    BY <2>1 DEF RootSector
<1>4. (b + SectorSize - 1) \div SectorSize \in Nat
  <2>1. b + SectorSize - 1 \in Nat
    BY <1>1, <1>2
  <2> QED
    BY <1>1, <2>1, Division
<1>5. SectorSize * (RootSector(header) + (b + SectorSize - 1) \div SectorSize) \in Nat
  BY <1>1, <1>3, <1>4
<1>6. DataClusters * ClusterSize \in Nat
  BY Bytes, Fat16Assumption
<1> QED
  BY <1>5, <1>6 DEF DiskEnd, DataStart

(***************************************************************************)
(* The sector of a cluster, in bytes.                                      *)
(***************************************************************************)
LEMMA SectorBytes ==
    ASSUME TypeOK, NEW c \in Int
    PROVE  fat16_cluster_to_sector(c) * SectorSize
             = ending * SectorSize + (c - 2) * ClusterSize
<1> DEFINE s == header.sectors_per_cluster
<1>1. s \in Nat /\ SectorSize \in Nat /\ ending \in Nat
  BY Bytes, Fat16Assumption DEF TypeOK, FatHeader
<1>2. ClusterSize = s * SectorSize /\ fat16_cluster_to_sector(c) = ending + (c - 2) * s
  BY DEF ClusterSize, fat16_cluster_to_sector
<1> HIDE DEF s
<1>3. (ending + (c - 2) * s) * SectorSize = ending * SectorSize + (c - 2) * (s * SectorSize)
  <2> DEFINE d == c - 2
             e == d * s
  <2>1. d \in Int /\ e \in Int
    BY <1>1
  <2>2. (ending + e) * SectorSize = ending * SectorSize + e * SectorSize
    <3> HIDE DEF e
    <3> QED
      BY <1>1, <2>1
  <2>3. e * SectorSize = d * (s * SectorSize)
    <3> HIDE DEF d
    <3> QED
      BY <1>1, <2>1
  <2> QED
    BY <2>2, <2>3
<1> QED
  BY <1>2, <1>3

\* Where fat16_read_internal_from_stream starts to read.
Start == fat16_cluster_to_sector(fat16_get_cluster_for_offset(offset)) * SectorSize
           + CMod(offset, ClusterSize)

(***************************************************************************)
(* For an offset in the file it starts at the byte of the file that has    *)
(* this offset, unless it fails at a mark.                                 *)
(***************************************************************************)
LEMMA StartsRight ==
    ASSUME TypeOK, Layout, offset \in Nat, offset < filesize
    PROVE  LET k == offset \div ClusterSize IN
           /\ k \in 0 .. Len(chain) - 1
           /\ fat16_get_cluster_for_offset(offset) = -1 =>
                \E j \in 2 .. Len(chain) : chain[j] \in LastMarks \cup OtherMarks
           /\ fat16_get_cluster_for_offset(offset) # -1 =>
                /\ fat16_get_cluster_for_offset(offset) = chain[k + 1]
                /\ FullSectors => Start = ByteAt(offset)
<1> DEFINE k == offset \div ClusterSize
           r == offset % ClusterSize
           cluster == fat16_get_cluster_for_offset(offset)
<1>1. ClusterSize \in Nat \ {0}
  BY Bytes
<1>2. k \in Nat /\ r \in 0 .. ClusterSize - 1 /\ offset = k * ClusterSize + r
  BY <1>1, Division
<1>3. k \in 0 .. Len(chain) - 1
  <2>1. filesize <= Len(chain) * ClusterSize /\ Len(chain) \in Nat /\ filesize \in Nat
    BY DEF Layout, TypeOK
  <2>2. ASSUME Len(chain) <= k PROVE FALSE
    <3>1. Len(chain) * ClusterSize <= k * ClusterSize
      BY <1>1, <1>2, <2>1, <2>2, Grows
    <3>2. Len(chain) * ClusterSize \in Nat /\ k * ClusterSize \in Nat
      BY <1>1, <1>2, <2>1
    <3> HIDE DEF k, r
    <3> QED
      BY <1>2, <2>1, <3>1, <3>2
  <2> QED
    BY <1>2, <2>1, <2>2
<1>4. cluster = Walk(k)
  <2>1. ClustersAhead(offset) = k
    BY <1>1, Unsigned
  <2>2. (IF k > 0 THEN k ELSE 0) = k
    BY <1>2
  <2> QED
    BY <2>1, <2>2 DEF fat16_get_cluster_for_offset
<1>5. \/ cluster = chain[k + 1]
      \/ /\ cluster = -1
         /\ \E j \in 2 .. Len(chain) : chain[j] \in LastMarks \cup OtherMarks
  <2> HIDE DEF k, cluster
  <2> QED
    BY <1>3, <1>4, WalkAlong
<1>6. chain[k + 1] \in Clusters
  BY <1>3 DEF TypeOK
<1>7. chain[k + 1] \in Int /\ chain[k + 1] # -1
  BY <1>6 DEF Clusters
<1>8. ASSUME cluster # -1, FullSectors PROVE Start = ByteAt(offset)
  <2>1. fat16_cluster_to_sector(cluster) * SectorSize
          = DataStart + (chain[k + 1] - 2) * ClusterSize
    <3> HIDE DEF k, cluster
    <3> QED
      BY <1>5, <1>7, <1>8, SectorBytes, DataFound
  <2>2. CMod(offset, ClusterSize) = r
    BY <1>1, Unsigned
  <2> QED
    BY <2>1, <2>2 DEF Start, ByteAt
<1> QED
  BY <1>3, <1>5, <1>7, <1>8

-----------------------------------------------------------------------------
(***************************************************************************)
(* The numbers are numbers.                                                *)
(***************************************************************************)
LEMMA Ranges ==
    ASSUME TypeOK
    PROVE  /\ pos \in Nat /\ filesize \in Nat /\ item \in Nat /\ total \in Nat /\ offset \in Int
           /\ asked.size \in Nat /\ asked.nmemb \in Nat /\ Length \in Nat
           /\ out \in Seq(0 .. DiskEnd - 1) /\ Len(out) \in Nat
           /\ chain \in Seq(Clusters) /\ Len(chain) \in Nat
           /\ \A i \in 1 .. Len(chain) : chain[i] \in Int
<1>1. asked.size \in Nat /\ asked.nmemb \in Nat
  BY Fat16Assumption DEF TypeOK
<1>2. pos \in Nat /\ filesize \in Nat /\ item \in Nat /\ total \in Nat /\ offset \in Int
  BY <1>1 DEF TypeOK
<1>3. Length \in Nat
  BY <1>1 DEF Length
<1>4. out \in Seq(0 .. DiskEnd - 1) /\ chain \in Seq(Clusters)
  BY DEF TypeOK
<1>5. Len(out) \in Nat /\ Len(chain) \in Nat /\ \A i \in 1 .. Len(chain) : chain[i] \in Clusters
  BY <1>4
<1>6. Clusters \subseteq Int
  BY DEF Clusters
<1> QED
  BY <1>1, <1>2, <1>3, <1>4, <1>5, <1>6

(***************************************************************************)
(* While a read inside the file goes on, what is left to read lies in the  *)
(* file, and the next level reads some of it, but no more than a cluster.  *)
(***************************************************************************)
LEMMA LeftToRead ==
    ASSUME TypeOK, Layout, Progress, pc = "reading", item < asked.nmemb, InFile
    PROVE  /\ ToInt(pos) = pos
           /\ TotalToRead \in 1 .. ClusterSize /\ TotalToRead <= total
           /\ offset \in Nat /\ offset = pos + Len(out)
           /\ offset + TotalToRead <= filesize
<1>1. /\ offset + total = pos + (item + 1) * asked.size
      /\ total > 0 /\ Len(out) = offset - pos
  BY DEF Progress
<1>2. /\ pos \in Nat /\ filesize \in Nat /\ item \in Nat /\ total \in Nat /\ offset \in Int
      /\ asked.size \in Nat /\ asked.nmemb \in Nat /\ Len(out) \in Nat
  BY Ranges
<1>3. ClusterSize \in Nat \ {0} /\ filesize <= Half
  BY Bytes
<1>4. TotalToRead \in 1 .. ClusterSize /\ TotalToRead <= total
  BY <1>1, <1>2, <1>3 DEF TotalToRead
<1>5. offset + total <= filesize
  <2>1. (item + 1) * asked.size <= asked.nmemb * asked.size
    BY <1>2, Grows
  <2>2. asked.nmemb * asked.size = Length /\ Length \in Nat
    BY <1>2 DEF Length
  <2>3. pos + Length <= filesize
    BY DEF InFile
  <2>4. (item + 1) * asked.size \in Nat
    BY <1>2
  <2> QED
    BY <1>1, <1>2, <2>1, <2>2, <2>3, <2>4
<1>6. offset \in Nat /\ offset = pos + Len(out)
  BY <1>1, <1>2
<1>7. pos < Half
  <2>1. Half \in Int
    BY Fat16Assumption DEF Half
  <2> QED
    BY <1>1, <1>2, <1>3, <1>5, <1>6, <2>1
<1>8. ToInt(pos) = pos
  BY <1>2, <1>7, IntKeeps
<1> QED
  BY <1>2, <1>3, <1>4, <1>5, <1>6, <1>8

(***************************************************************************)
(* A read in whole clusters starts at the beginning of a cluster, and ends *)
(* in it; when the clusters follow each other it may run on into the next. *)
(***************************************************************************)
LEMMA BytesRight ==
    ASSUME TypeOK, Layout, Progress, pc = "reading", item < asked.nmemb, InFile, FullSectors,
           fat16_get_cluster_for_offset(offset) # -1, WholeItems \/ Contiguous,
           NEW j \in 0 .. TotalToRead - 1
    PROVE  Start + j = ByteAt(offset + j)
<1> DEFINE k == offset \div ClusterSize
           r == offset % ClusterSize
           At(p, q) == DataStart + (chain[p + 1] - 2) * ClusterSize + q
<1>1. /\ TotalToRead \in 1 .. ClusterSize /\ offset \in Nat /\ filesize \in Nat
      /\ offset + TotalToRead <= filesize
  BY LeftToRead DEF TypeOK
<1>2. ClusterSize \in Nat \ {0} /\ DataStart \in Nat
  BY Bytes, DataFound
<1>3. k \in Nat /\ r \in 0 .. ClusterSize - 1 /\ offset = k * ClusterSize + r
  BY <1>1, <1>2, Division
<1>4. k \in 0 .. Len(chain) - 1 /\ Start = At(k, r)
  BY <1>1, StartsRight DEF ByteAt
<1>5. chain \in Seq(Clusters) /\ Len(chain) \in Nat /\ \A i \in 1 .. Len(chain) : chain[i] \in Int
  BY Ranges
<1>6. \A i \in 1 .. Len(chain) : (chain[i] - 2) * ClusterSize \in Int
  BY <1>2, <1>5
<1>7. \A p \in Nat, q \in 0 .. ClusterSize - 1 : ByteAt(p * ClusterSize + q) = At(p, q)
  BY <1>2, Quotient DEF ByteAt
<1> HIDE DEF k, r
<1>8. CASE r + j < ClusterSize
  <2>1. r + j \in 0 .. ClusterSize - 1
    BY <1>1, <1>2, <1>3, <1>8
  <2>2. k * ClusterSize \in Nat
    BY <1>2, <1>3
  <2>3. offset + j = k * ClusterSize + (r + j)
    BY <1>1, <1>3, <2>2
  <2>4. ByteAt(offset + j) = At(k, r + j)
    BY <1>3, <1>7, <2>1, <2>3
  <2>5. k + 1 \in 1 .. Len(chain)
    BY <1>4, <1>5
  <2>6. At(k, r) + j = At(k, r + j)
    BY <1>1, <1>2, <1>3, <1>6, <2>5
  <2> QED
    BY <1>4, <2>4, <2>6
<1>9. CASE ~ (r + j < ClusterSize)
  <2>1. r + j - ClusterSize \in 0 .. ClusterSize - 1
    BY <1>1, <1>2, <1>3, <1>9
  <2>2. /\ k * ClusterSize \in Nat
        /\ (k + 1) * ClusterSize = k * ClusterSize + ClusterSize
    BY <1>2, <1>3, Grows
  <2>3. offset + j = (k + 1) * ClusterSize + (r + j - ClusterSize)
    BY <1>1, <1>2, <1>3, <2>2
  <2>4. ByteAt(offset + j) = At(k + 1, r + j - ClusterSize)
    <3>1. k + 1 \in Nat
      BY <1>3
    <3> QED
      BY <1>7, <2>1, <2>3, <3>1
  <2>5. Contiguous
    <3>1. ASSUME WholeItems PROVE FALSE
      <4>1. offset % ClusterSize = 0
        BY <3>1 DEF Progress
      <4>2. r = 0
        BY <4>1 DEF r
      <4> QED
        BY <1>1, <1>2, <1>9, <4>2
    <3> QED
      BY <3>1
  <2>6. k + 1 \in 1 .. Len(chain) - 1
    <3>1. ASSUME Len(chain) <= k + 1 PROVE FALSE
      <4>1. Len(chain) * ClusterSize <= (k + 1) * ClusterSize
        BY <1>2, <1>3, <1>5, <3>1, Grows
      <4>2. filesize <= Len(chain) * ClusterSize /\ Len(chain) * ClusterSize \in Nat
        BY <1>2, <1>5 DEF Layout
      <4>3. offset + j < filesize
        BY <1>1
      <4> QED
        BY <1>1, <1>2, <1>3, <2>1, <2>2, <2>3, <4>1, <4>2, <4>3
    <3> QED
      BY <1>3, <1>4, <1>5, <3>1
  <2>7. chain[k + 2] = chain[k + 1] + 1
    BY <2>5, <2>6, <1>3, <1>5 DEF Contiguous
  <2>8. (chain[k + 2] - 2) * ClusterSize = (chain[k + 1] - 2) * ClusterSize + ClusterSize
    <3> DEFINE d == chain[k + 1] - 2
    <3>1. d \in Int /\ chain[k + 2] - 2 = d + 1
      BY <1>5, <2>6, <2>7
    <3> HIDE DEF d
    <3>2. (d + 1) * ClusterSize = d * ClusterSize + ClusterSize
      BY <1>2, <3>1
    <3> QED
      BY <3>1, <3>2 DEF d
  <2>9. (chain[k + 1] - 2) * ClusterSize \in Int /\ (k + 1) + 1 = k + 2
    BY <1>3, <1>6, <2>6
  <2>10. At(k, r) + j = At(k + 1, r + j - ClusterSize)
    BY <1>1, <1>2, <1>3, <2>8, <2>9
  <2> QED
    BY <1>4, <2>4, <2>10
<1> QED
  BY <1>8, <1>9

(***************************************************************************)
(* Every read takes bytes of the cluster it starts in and of the one       *)
(* behind it on the disk.                                                  *)
(***************************************************************************)
LEMMA BytesNear ==
    ASSUME TypeOK, Layout, Progress, pc = "reading", item < asked.nmemb, InFile, FullSectors,
           fat16_get_cluster_for_offset(offset) # -1
    PROVE  \E k \in DOMAIN chain :
              /\ Start \in Cluster(chain[k])
              /\ \A j \in 0 .. TotalToRead - 1 :
                    Start + j \in Cluster(chain[k]) \cup Cluster(chain[k] + 1)
              /\ ~ OnDisk(Start, TotalToRead) => chain[k] = DataClusters + 1
<1> DEFINE k == offset \div ClusterSize + 1
           r == offset % ClusterSize
           c == chain[k]
           start == DataStart + (c - 2) * ClusterSize
<1>1. /\ TotalToRead \in 1 .. ClusterSize /\ offset \in Nat /\ offset < filesize
  BY LeftToRead DEF TypeOK
<1>2. ClusterSize \in Nat \ {0} /\ DataStart \in Nat
  BY Bytes, DataFound
<1>3. r \in 0 .. ClusterSize - 1
  BY <1>1, <1>2, Division
<1>4. k - 1 \in 0 .. Len(chain) - 1 /\ k \in Nat /\ Start = start + r
  BY <1>1, <1>2, Division, StartsRight DEF ByteAt
<1>5. k \in DOMAIN chain /\ c \in Clusters
  BY <1>4 DEF TypeOK
<1>6. c \in 2 .. DataClusters + 1 /\ DataClusters \in Nat
  BY <1>5, Fat16Assumption DEF Clusters
<1> HIDE DEF k, r, c
<1>7. /\ (c - 2) * ClusterSize \in Nat
      /\ ((c + 1) - 2) * ClusterSize = (c - 2) * ClusterSize + ClusterSize
  <2> DEFINE d == c - 2
  <2>1. d \in Nat /\ (c + 1) - 2 = d + 1
    BY <1>6
  <2> HIDE DEF d
  <2>2. d * ClusterSize \in Nat /\ (d + 1) * ClusterSize = d * ClusterSize + ClusterSize
    BY <1>2, <2>1
  <2> QED
    BY <2>1, <2>2 DEF d
<1>8. start \in Nat
  BY <1>2, <1>7
<1>9. /\ Cluster(c) = start .. start + ClusterSize - 1
      /\ Cluster(c + 1) = start + ClusterSize .. start + ClusterSize + ClusterSize - 1
  BY <1>2, <1>7 DEF Cluster
<1>10. ASSUME ~ OnDisk(Start, TotalToRead) PROVE c = DataClusters + 1
  <2>1. Start \in Nat
    BY <1>3, <1>4, <1>8
  <2>2. DiskEnd <= Start + TotalToRead
    <3>1. DiskEnd \in Nat
      BY <1>2, <1>6 DEF DiskEnd
    <3> QED
      BY <1>1, <1>10, <2>1, <3>1 DEF OnDisk
  <2>3. ASSUME c <= DataClusters PROVE FALSE
    <3>1. ((c + 1) - 2) * ClusterSize <= (DataClusters - 1) * ClusterSize
      BY <1>2, <1>6, <2>3, Grows
    <3>2. (DataClusters - 1) * ClusterSize + ClusterSize = DataClusters * ClusterSize
      <4>1. DataClusters - 1 \in Nat /\ (DataClusters - 1) + 1 = DataClusters
        BY <1>6, <2>3
      <4> QED
        BY <1>2, <4>1, Grows
    <3>3. (DataClusters - 1) * ClusterSize \in Int
      BY <1>2, <1>6
    <3>4. DiskEnd = DataStart + DataClusters * ClusterSize
      BY DEF DiskEnd
    <3> DEFINE a == (c - 2) * ClusterSize
               b == (DataClusters - 1) * ClusterSize
               m == DataClusters * ClusterSize
    <3>5. /\ a \in Int /\ b \in Int /\ m = b + ClusterSize /\ a + ClusterSize <= b
          /\ DataStart + m <= DataStart + a + r + TotalToRead
      BY <1>4, <1>7, <2>2, <3>1, <3>2, <3>3, <3>4
    <3> HIDE DEF a, b, m
    <3> QED
      BY <1>1, <1>2, <1>3, <3>5
  <2> QED
    BY <1>6, <2>3
<1> HIDE DEF start
<1>11. Start \in Cluster(c)
  BY <1>2, <1>3, <1>4, <1>8, <1>9
<1>12. ASSUME NEW j \in 0 .. TotalToRead - 1
       PROVE  Start + j \in Cluster(c) \cup Cluster(c + 1)
  BY <1>1, <1>2, <1>3, <1>4, <1>8, <1>9
<1> QED
  BY <1>5, <1>10, <1>11, <1>12 DEF c

-----------------------------------------------------------------------------
(***************************************************************************)
(* A volume as it is found.                                                *)
(***************************************************************************)
LEMMA InitLayout == ASSUME Init
                    PROVE  TypeOK /\ Layout /\ AtRest
<1>1. header \in FatHeader /\ ending = EndingSector(header)
  BY Fat16Assumption DEF Init
<1>2. ending \in Nat
  <2> DEFINE h == header
  <2>1. /\ h.fat_copies * h.sectors_per_fat \in Nat /\ h.reserved_sectors \in Nat
        /\ h.root_dir_entries * ItemSize \in Nat
    BY <1>1, Fat16Assumption DEF FatHeader
  <2>2. (h.root_dir_entries * ItemSize) \div SectorSize \in Nat
    BY <2>1, Fat16Assumption, Division
  <2>3. RootSector(h) \in Nat
    BY <2>1 DEF RootSector
  <2> QED
    BY <1>1, <2>2, <2>3 DEF EndingSector
<1>3. ClusterSize \in Nat \ {0}
  <2>1. header.sectors_per_cluster \in Nat \ {0} /\ SectorSize \in Nat \ {0}
    BY <1>1, Fat16Assumption DEF FatHeader
  <2> QED
    BY <2>1 DEF ClusterSize
<1>4. PICK n \in 1 .. MaxChain : chain \in Chains(n)
  BY DEF Init
<1>5. /\ n \in Nat /\ chain \in [1 .. n -> Clusters] /\ chain \in Seq(Clusters) /\ Len(chain) = n
      /\ \A i, j \in 1 .. n : chain[i] = chain[j] => i = j
  BY <1>4, Fat16Assumption DEF Chains
<1>6. filesize \in Nat /\ filesize <= Len(chain) * ClusterSize
  <2>1. (n - 1) * ClusterSize \in Nat /\ n * ClusterSize \in Nat
    <3>1. n - 1 \in Nat
      BY <1>4
    <3> QED
      BY <1>3, <1>5, <3>1
  <2>2. filesize \in (n - 1) * ClusterSize + 1 .. n * ClusterSize
    BY <1>5 DEF Init
  <2> QED
    BY <1>5, <2>1, <2>2
<1>7. PICK end \in EndMarks, other \in {0, 2} : fat = Links(chain, end, other)
  BY DEF Init
<1>8. Clusters \subseteq Entries /\ end \in Entries /\ 0 \in Entries /\ other \in Entries
  <2>1. chain[1] \in Clusters
    BY <1>4, <1>5
  <2>2. 2 \in Clusters
    BY <2>1, Fat16Assumption DEF Clusters
  <2> QED
    BY <1>7, <2>2, Fat16Assumption
<1>9. ASSUME NEW c \in Entries, NEW i \in 1 .. n, chain[i] = c
      PROVE  fat[c] = IF i = n THEN end ELSE chain[i + 1]
  <2>1. i \in DOMAIN chain
    BY <1>5
  <2>2. (CHOOSE j \in DOMAIN chain : chain[j] = c) = i
    BY <1>5, <1>9, <2>1
  <2> QED
    BY <1>5, <1>7, <1>9, <2>1, <2>2 DEF Links
<1>10. fat \in [Entries -> Entries]
  <2>1. ASSUME NEW c \in Entries PROVE fat[c] \in Entries
    <3>1. CASE \E i \in 1 .. n : chain[i] = c
      <4>1. PICK i \in 1 .. n : chain[i] = c
        BY <3>1
      <4>2. i # n => chain[i + 1] \in Clusters
        BY <1>5
      <4> QED
        BY <1>8, <1>9, <4>1, <4>2
    <3>2. CASE ~ \E i \in 1 .. n : chain[i] = c
      <4>1. ~ \E i \in DOMAIN chain : chain[i] = c
        BY <1>5, <3>2
      <4> QED
        BY <1>7, <1>8, <4>1 DEF Links
    <3> QED
      BY <3>1, <3>2
  <2>2. fat = [c \in Entries |-> fat[c]]
    BY <1>7 DEF Links
  <2> HIDE <1>9
  <2> QED
    BY <2>1, <2>2
<1>11. Layout
  <2>1. ASSUME NEW i \in 1 .. Len(chain) - 1 PROVE fat[chain[i]] = chain[i + 1]
    <3>1. i \in 1 .. n /\ i # n
      BY <1>5
    <3>2. chain[i] \in Entries
      BY <1>5, <1>8, <3>1
    <3> QED
      BY <1>9, <3>1, <3>2
  <2> QED
    BY <1>1, <1>4, <1>5, <1>6, <2>1 DEF Layout
<1>12. TypeOK
  <2>1. /\ pos = 0 /\ pc = "idle" /\ asked = [size |-> 0, nmemb |-> 0] /\ item = 0
        /\ offset = 0 /\ total = 0 /\ out = <<>> /\ result = "none" /\ header \in Headers
    BY DEF Init
  <2>2. pos \in 0 .. Word - 1
    BY <2>1, Fat16Assumption
  <2>3. out \in Seq(0 .. DiskEnd - 1)
    BY <2>1
  <2> QED
    BY <1>2, <1>5, <1>6, <1>10, <2>1, <2>2, <2>3 DEF TypeOK
<1> QED
  BY <1>11, <1>12 DEF AtRest, Init

(***************************************************************************)
(* What depends on the volume and its file only.                           *)
(***************************************************************************)
LEMMA SameDisk == ASSUME UNCHANGED disk
                  PROVE  /\ UNCHANGED <<header, ending, chain, filesize, fat>>
                         /\ ClusterSize' = ClusterSize /\ DataStart' = DataStart
                         /\ DiskEnd' = DiskEnd
                         /\ FullSectors' = FullSectors /\ Contiguous' = Contiguous
                         /\ Layout' = Layout
<1>1. UNCHANGED <<header, ending, chain, filesize, fat>>
  BY DEF disk
<1>2. ClusterSize' = ClusterSize /\ DataStart' = DataStart
  BY <1>1 DEF ClusterSize, DataStart, RootSector
<1>3. FullSectors' = FullSectors /\ Contiguous' = Contiguous
  BY <1>1 DEF FullSectors, Contiguous
<1>4. Layout' = Layout
  BY <1>1, <1>2 DEF Layout, EndingSector
<1> QED
  BY <1>1, <1>2, <1>3, <1>4 DEF DiskEnd

(***************************************************************************)
(* No step disturbs the types.                                             *)
(***************************************************************************)
LEMMA TypeStep == ASSUME TypeOK, Layout, AtRest, [Next]_vars
                  PROVE  TypeOK' /\ Layout' /\ AtRest'
<1>1. UNCHANGED disk
  BY DEF Next, fat16_seek, fat16_read, Level, Return, vars
<1>2. Layout'
  BY <1>1, SameDisk
<1>3. /\ header' \in Headers /\ ending' \in Nat /\ chain' \in Seq(Clusters) /\ filesize' \in Nat
      /\ fat' \in [Entries -> Entries] /\ DiskEnd' = DiskEnd
  BY <1>1, SameDisk DEF TypeOK
<1>4. ClusterSize \in Nat \ {0}
  BY Bytes
<1>5. ASSUME NEW o \in Offsets, NEW mode \in {"SEEK_SET", "SEEK_CUR", "SEEK_END"},
             fat16_seek(o, mode)
      PROVE  TypeOK'
  <2>1. pos' \in 0 .. Word - 1
    <3>1. Word \in Nat \ {0} /\ o \in 0 .. Word - 1 /\ pos \in 0 .. Word - 1
      BY Fat16Assumption DEF TypeOK
    <3>2. SeekCur(o) \in 0 .. Word - 1
      <4>1. pos + o \in Nat
        BY <3>1
      <4> QED
        BY <3>1, <4>1, Division DEF SeekCur
    <3> QED
      BY <1>5, <3>1, <3>2 DEF fat16_seek
  <2>2. pc' = pc /\ pc = "idle" /\ item' = item /\ total' = total /\ offset' = offset
    BY <1>5 DEF fat16_seek
  <2>3. /\ asked' = [size |-> 0, nmemb |-> 0] /\ out' = <<>>
        /\ result' \in {"EIO", "OK", "EUNIMP"}
    BY <1>5 DEF fat16_seek
  <2>4. out' \in Seq(0 .. DiskEnd' - 1)
    BY <2>3
  <2>5. item' \in 0 .. asked'.nmemb /\ total' \in 0 .. asked'.size
    BY <2>2, <2>3 DEF AtRest
  <2> QED
    BY <1>3, <2>1, <2>2, <2>3, <2>4, <2>5 DEF TypeOK
<1>6. ASSUME NEW size \in Sizes, NEW nmemb \in Counts, fat16_read(size, nmemb)
      PROVE  TypeOK'
  <2>1. /\ pc' = "reading" /\ asked' = [size |-> size, nmemb |-> nmemb]
        /\ item' = 0 /\ offset' = ToInt(pos) /\ total' = size /\ out' = <<>>
        /\ result' = "none" /\ pos' = pos
    BY <1>6 DEF fat16_read
  <2>2. offset' \in Int
    BY <2>1, IntType DEF TypeOK
  <2>3. out' \in Seq(0 .. DiskEnd' - 1)
    BY <2>1
  <2>4. item' \in 0 .. asked'.nmemb /\ total' \in 0 .. asked'.size
    BY <2>1, Fat16Assumption
  <2>5. pos' \in 0 .. Word - 1
    BY <2>1 DEF TypeOK
  <2> QED
    BY <1>3, <2>1, <2>2, <2>3, <2>4, <2>5 DEF TypeOK
<1>7. ASSUME Level PROVE TypeOK'
  <2> DEFINE n == TotalToRead
  <2>1. UNCHANGED <<pos, asked>> /\ pc = "reading" /\ item < asked.nmemb
    BY <1>7 DEF Level
  <2>2. /\ pos' \in 0 .. Word - 1 /\ asked' \in [size : Sizes \cup {0}, nmemb : Counts \cup {0}]
    BY <2>1 DEF TypeOK
  <2>3. total \in 0 .. asked.size /\ asked.size \in Nat /\ item \in 0 .. asked.nmemb
        /\ asked.nmemb \in Nat /\ offset \in Int /\ pos \in Nat
    BY Ranges DEF TypeOK
  <2>4. CASE Leave("EIO") /\ UNCHANGED out
    <3>1. /\ pc' = "idle" /\ result' = "EIO" /\ item' = 0 /\ offset' = 0 /\ total' = 0
          /\ out' = out
      BY <2>4 DEF Leave
    <3>2. item' \in 0 .. asked'.nmemb /\ total' \in 0 .. asked'.size
      BY <2>1, <2>3, <3>1
    <3> QED
      BY <1>3, <2>2, <3>1, <3>2 DEF TypeOK
  <2>5. CASE pc' = "hung" /\ UNCHANGED <<item, offset, total, out, result>>
    BY <1>3, <2>1, <2>2, <2>5 DEF TypeOK
  <2>6. CASE /\ fat16_get_cluster_for_offset(offset) # -1 /\ OnDisk(Start, n)
             /\ out' = out \o [i \in 1 .. n |-> Start + i - 1]
             /\ IF total - n > 0
                  THEN offset' = offset + n /\ total' = total - n /\ item' = item
                  ELSE offset' = NextOffset /\ total' = asked.size /\ item' = item + 1
             /\ UNCHANGED <<pc, result>>
    <3>1. n \in Nat /\ n <= total
      BY <1>4, <2>3 DEF TotalToRead
    <3>2. Start \in Int
      <4>1. ClustersAhead(offset) \in Int /\ CMod(offset, ClusterSize) \in Int
        BY <1>4, <2>3, Signed
      <4>2. (IF ClustersAhead(offset) > 0 THEN ClustersAhead(offset) ELSE 0) \in Nat
        BY <4>1
      <4>3. fat16_get_cluster_for_offset(offset) \in Entries \cup {-1}
        BY <4>2, WalkType DEF fat16_get_cluster_for_offset
      <4>4. fat16_get_cluster_for_offset(offset) \in Int
        <5>1. Entries \subseteq Nat
          BY Fat16Assumption
        <5>2. \A e \in Entries \cup {-1} : e \in Int
          BY <5>1
        <5> QED
          BY <4>3, <5>2
      <4>5. fat16_cluster_to_sector(fat16_get_cluster_for_offset(offset)) * SectorSize \in Int
        <5>1. header.sectors_per_cluster \in Int /\ ending \in Int /\ SectorSize \in Int
          BY Bytes, Fat16Assumption DEF FatHeader, TypeOK
        <5>2. fat16_cluster_to_sector(fat16_get_cluster_for_offset(offset)) \in Int
          BY <4>4, <5>1 DEF fat16_cluster_to_sector
        <5> QED
          BY <5>1, <5>2
      <4> QED
        BY <4>1, <4>5 DEF Start
    <3>3. [i \in 1 .. n |-> Start + i - 1] \in Seq(0 .. DiskEnd - 1)
      <4>1. DiskEnd \in Int
        BY DataEnds
      <4>2. \A i \in 1 .. n : Start + i - 1 \in 0 .. DiskEnd - 1
        BY <2>6, <3>1, <3>2, <4>1 DEF OnDisk
      <4> HIDE DEF n
      <4> QED
        BY <3>1, <4>2
    <3>4. out' \in Seq(0 .. DiskEnd' - 1)
      <4>1. out \in Seq(0 .. DiskEnd - 1)
        BY DEF TypeOK
      <4> HIDE DEF n
      <4> QED
        BY <1>3, <2>6, <3>3, <4>1
    <3>5. item' \in 0 .. asked'.nmemb /\ total' \in 0 .. asked'.size
      BY <2>1, <2>3, <2>6, <3>1
    <3>6. offset' \in Int
      <4>1. NextOffset \in Int
        <5>1. (item + 1) * asked.size \in Int /\ ToInt(pos) \in Int
          BY <2>3, IntType
        <5> QED
          BY <5>1 DEF NextOffset
      <4> QED
        BY <2>3, <2>6, <3>1, <4>1
    <3>7. pc' = pc /\ result' = result
      BY <2>6
    <3> QED
      BY <1>3, <2>2, <3>4, <3>5, <3>6, <3>7 DEF TypeOK
  <2> QED
    BY <1>7, <2>4, <2>5, <2>6 DEF Level, Start
<1>8. ASSUME Return PROVE TypeOK'
  <2>1. /\ pc' = "idle" /\ result' = "nmemb" /\ item' = 0 /\ offset' = 0 /\ total' = 0
        /\ UNCHANGED <<pos, asked, out>>
    BY <1>8 DEF Return, Leave
  <2>2. asked.size \in Nat /\ asked.nmemb \in Nat
    BY Ranges
  <2>3. item' \in 0 .. asked'.nmemb /\ total' \in 0 .. asked'.size
    BY <2>1, <2>2
  <2> QED
    BY <1>3, <2>1, <2>3 DEF TypeOK
<1>9. ASSUME UNCHANGED vars PROVE TypeOK'
  <2>1. UNCHANGED <<pos, pc, asked, item, offset, total, out, result>>
    BY <1>9 DEF vars, read
  <2> QED
    BY <1>3, <2>1 DEF TypeOK
<1>10. AtRest'
  BY DEF AtRest, Next, fat16_seek, fat16_read, Level, Leave, Return, vars, read
<1> QED
  BY <1>2, <1>5, <1>6, <1>7, <1>8, <1>9, <1>10 DEF Next

-----------------------------------------------------------------------------
(***************************************************************************)
(* When the volume, the position and what is asked for stay, so does what  *)
(* is said of them.                                                        *)
(***************************************************************************)
LEMMA SameRead == ASSUME UNCHANGED disk, UNCHANGED <<pos, asked>>
                  PROVE  /\ InFile' = InFile /\ Length' = Length
                         /\ (FullSectors' = FullSectors) /\ (Contiguous' = Contiguous)
                         /\ (WholeItems' = WholeItems) /\ chain' = chain
                         /\ \A p : (ByteAt(p))' = ByteAt(p)
                         /\ \A c : (Cluster(c))' = Cluster(c)
<1>1. /\ chain' = chain /\ filesize' = filesize /\ ClusterSize' = ClusterSize
      /\ DataStart' = DataStart /\ FullSectors' = FullSectors /\ Contiguous' = Contiguous
  BY SameDisk
<1>2. pos' = pos /\ asked' = asked
  OBVIOUS
<1>3. InFile' = InFile /\ Length' = Length
  BY <1>1, <1>2 DEF InFile, Length
<1>4. WholeItems' = WholeItems
  BY <1>1, <1>2 DEF WholeItems
<1>5. \A p : (ByteAt(p))' = ByteAt(p)
  BY <1>1 DEF ByteAt
<1>6. \A c : (Cluster(c))' = Cluster(c)
  BY <1>1 DEF Cluster
<1> QED
  BY <1>1, <1>3, <1>4, <1>5, <1>6

(***************************************************************************)
(* A read for 0 bytes, such as what fat16_seek leaves, is no read.         *)
(***************************************************************************)
LEMMA NoRead == ASSUME asked = [size |-> 0, nmemb |-> 0]
                PROVE  ~ InFile
BY DEF InFile, Length

\* One level of fat16_read_internal_from_stream that delivers its bytes.
Delivers ==
    /\ fat16_get_cluster_for_offset(offset) # -1
    /\ out' = out \o [i \in 1 .. TotalToRead |-> Start + i - 1]
    /\ IF total - TotalToRead > 0
         THEN /\ offset' = offset + TotalToRead /\ total' = total - TotalToRead
              /\ item' = item
         ELSE offset' = NextOffset /\ total' = asked.size /\ item' = item + 1
    /\ UNCHANGED <<disk, pos, pc, asked, result>>

(***************************************************************************)
(* The bytes of a level come after those of the levels before.             *)
(***************************************************************************)
LEMMA BytesAppended ==
    ASSUME IInv, pc = "reading", item < asked.nmemb, InFile, Delivers
    PROVE  /\ Len(out') = Len(out) + TotalToRead
           /\ \A i \in 1 .. Len(out) : out'[i] = out[i]
           /\ \A i \in 1 .. TotalToRead : out'[Len(out) + i] = Start + i - 1
           /\ DOMAIN out' = 1 .. Len(out')
           /\ \A i \in DOMAIN out' : \/ i \in DOMAIN out
                                     \/ i - Len(out) \in 1 .. TotalToRead
<1> DEFINE n == TotalToRead
           more == [i \in 1 .. n |-> Start + i - 1]
<1>1. out \in Seq(0 .. DiskEnd - 1) /\ Len(out) \in Nat
  BY Ranges DEF IInv
<1>2. n \in Nat
  <2>1. n \in 1 .. ClusterSize
    BY LeftToRead DEF IInv
  <2> QED
    BY <2>1
<1>3. out' = out \o more
  BY DEF Delivers
<1> DEFINE Any == {out[i] : i \in 1 .. Len(out)} \cup {more[i] : i \in 1 .. n}
<1>4. more \in Seq(Any) /\ Len(more) = n /\ \A i \in 1 .. n : more[i] = Start + i - 1
  <2>1. more \in [1 .. n -> Any]
    OBVIOUS
  <2> HIDE DEF n
  <2> QED
    BY <1>2, <2>1
<1>5. out \in Seq(Any)
  <2>1. out \in [1 .. Len(out) -> Any]
    BY <1>1
  <2> QED
    BY <1>1, <2>1
<1> HIDE DEF n, more, Any
<1>6. /\ Len(out \o more) = Len(out) + n /\ DOMAIN (out \o more) = 1 .. Len(out) + n
      /\ \A i \in 1 .. Len(out) : (out \o more)[i] = out[i]
      /\ \A i \in 1 .. n : (out \o more)[Len(out) + i] = more[i]
  BY <1>1, <1>2, <1>4, <1>5
<1>7. \A i \in 1 .. Len(out) + n : i \in 1 .. Len(out) \/ i - Len(out) \in 1 .. n
  BY <1>1, <1>2
<1> QED
  BY <1>1, <1>3, <1>4, <1>6, <1>7 DEF n

(***************************************************************************)
(* A level that delivers leaves just the bytes of the items still to read. *)
(***************************************************************************)
LEMMA ProgressKept ==
    ASSUME IInv, pc = "reading", item < asked.nmemb, Delivers
    PROVE  Progress'
<1>1. InFile' = InFile /\ WholeItems' = WholeItems /\ pos' = pos /\ asked' = asked
      /\ ClusterSize' = ClusterSize
  BY SameRead, SameDisk DEF Delivers
<1>2. SUFFICES ASSUME InFile
               PROVE  /\ offset' + total' = pos + (item' + 1) * asked.size
                      /\ total' > 0 /\ Len(out') = offset' - pos
                      /\ item' = asked.nmemb => total' = asked.size
                      /\ WholeItems /\ item' < asked.nmemb => offset' % ClusterSize = 0
  BY <1>1 DEF Progress
<1> DEFINE n == TotalToRead
<1>3. /\ ToInt(pos) = pos /\ n \in 1 .. ClusterSize /\ n <= total
      /\ offset \in Nat /\ offset = pos + Len(out)
  BY <1>2, LeftToRead DEF IInv
<1>4. /\ offset + total = pos + (item + 1) * asked.size
      /\ total > 0
      /\ WholeItems => offset % ClusterSize = 0
  BY <1>2 DEF IInv, Progress
<1>5. /\ pos \in Nat /\ item \in Nat /\ total \in Nat /\ asked.size \in Nat
      /\ asked.nmemb \in Nat /\ Len(out) \in Nat /\ ClusterSize \in Nat \ {0}
  BY Ranges, Bytes DEF IInv
<1>6. Len(out') = Len(out) + n
  BY <1>2, BytesAppended
<1>7. (item + 1) * asked.size \in Nat /\ ((item + 1) + 1) * asked.size \in Nat
      /\ ((item + 1) + 1) * asked.size = (item + 1) * asked.size + asked.size
  <2>1. item + 1 \in Nat
    BY <1>5
  <2> QED
    BY <1>5, <2>1, Grows
<1>8. asked.size > 0
  <2>1. Length > 0 /\ Length = asked.size * asked.nmemb
    BY <1>2 DEF InFile, Length
  <2> QED
    BY <1>5, <2>1
<1>9. CASE total - n > 0
  <2>1. offset' = offset + n /\ total' = total - n /\ item' = item
    BY <1>9 DEF Delivers
  <2>2. n = ClusterSize
    BY <1>5, <1>9 DEF TotalToRead
  <2>3. ASSUME WholeItems PROVE offset' % ClusterSize = 0
    <3>1. ClusterSize % ClusterSize = 0 /\ offset % ClusterSize = 0
      <4>1. 1 * ClusterSize + 0 = ClusterSize /\ 0 \in 0 .. ClusterSize - 1
        BY <1>5
      <4>2. (1 * ClusterSize + 0) % ClusterSize = 0
        BY <1>5, <4>1, Quotient
      <4> QED
        BY <1>4, <2>3, <4>1, <4>2
    <3>2. (offset + ClusterSize) % ClusterSize = 0
      BY <1>3, <1>5, <3>1, Multiples
    <3> QED
      BY <2>1, <2>2, <3>2
  <2> HIDE DEF n
  <2>4. offset' + total' = pos + (item' + 1) * asked.size /\ total' > 0
        /\ Len(out') = offset' - pos
    BY <1>3, <1>4, <1>5, <1>6, <1>7, <1>9, <2>1
  <2>5. item' # asked.nmemb
    BY <1>5, <2>1
  <2> QED
    BY <2>3, <2>4, <2>5
<1>10. CASE ~ (total - n > 0)
  <2>1. offset' = NextOffset /\ total' = asked.size /\ item' = item + 1
    BY <1>10 DEF Delivers
  <2>2. NextOffset = pos + (item + 1) * asked.size
    BY <1>3 DEF NextOffset
  <2>3. n = total
    BY <1>3, <1>5, <1>10
  <2>4. ASSUME WholeItems, item' < asked.nmemb PROVE offset' % ClusterSize = 0
    <3>1. pos % ClusterSize = 0 /\ asked.size % ClusterSize = 0
      BY <1>5, <2>1, <2>4 DEF WholeItems
    <3>2. ((item + 1) * asked.size) % ClusterSize = 0
      <4>1. item + 1 \in Nat
        BY <1>5
      <4> QED
        BY <1>5, <3>1, <4>1, MultipleOf
    <3> QED
      BY <1>5, <1>7, <2>1, <2>2, <3>1, <3>2, Multiples
  <2> DEFINE end == (item + 1) * asked.size
  <2>5. (item' + 1) * asked.size = end + asked.size /\ end \in Nat
    BY <1>7, <2>1
  <2>6. NextOffset = pos + end /\ offset + total = pos + end
    BY <1>4, <2>2
  <2> HIDE DEF n, end
  <2>7. offset' + total' = pos + (item' + 1) * asked.size /\ total' > 0
    BY <1>5, <1>8, <2>1, <2>5, <2>6
  <2>8. Len(out') = offset' - pos
    BY <1>3, <1>5, <1>6, <2>1, <2>3, <2>5, <2>6
  <2> QED
    BY <2>1, <2>4, <2>7, <2>8
<1> QED
  BY <1>9, <1>10

(***************************************************************************)
(* What a level delivers comes from where the bytes of the file are.       *)
(***************************************************************************)
LEMMA SourcesKept ==
    ASSUME IInv, pc = "reading", item < asked.nmemb, Delivers
    PROVE  Sources'
<1>1. /\ (InFile' = InFile) /\ (FullSectors' = FullSectors) /\ (Contiguous' = Contiguous)
      /\ (WholeItems' = WholeItems) /\ pos' = pos /\ chain' = chain
      /\ \A p : (ByteAt(p))' = ByteAt(p)
      /\ \A c : (Cluster(c))' = Cluster(c)
  BY SameRead DEF Delivers
<1>2. SUFFICES ASSUME InFile, FullSectors
               PROVE  /\ WholeItems \/ Contiguous =>
                           \A i \in DOMAIN out' : out'[i] = ByteAt(pos + i - 1)
                      /\ \A i \in DOMAIN out' : \E k \in DOMAIN chain :
                           out'[i] \in Cluster(chain[k]) \cup Cluster(chain[k] + 1)
  BY <1>1 DEF Sources, Right
<1> DEFINE n == TotalToRead
<1>3. /\ \A i \in 1 .. Len(out) : out'[i] = out[i]
      /\ \A i \in 1 .. n : out'[Len(out) + i] = Start + i - 1
      /\ \A i \in DOMAIN out' : i \in DOMAIN out \/ i - Len(out) \in 1 .. n
      /\ DOMAIN out' = 1 .. Len(out')
  BY <1>2, BytesAppended
<1>4. /\ WholeItems \/ Contiguous => \A i \in DOMAIN out : out[i] = ByteAt(pos + i - 1)
      /\ \A i \in DOMAIN out : \E k \in DOMAIN chain :
              out[i] \in Cluster(chain[k]) \cup Cluster(chain[k] + 1)
  BY <1>2 DEF IInv, Sources, Right
<1>5. DOMAIN out = 1 .. Len(out) /\ Len(out) \in Nat /\ pos \in Nat
  <2>1. out \in Seq(0 .. DiskEnd - 1) /\ Len(out) \in Nat /\ pos \in Nat
    BY Ranges DEF IInv
  <2> QED
    BY <2>1
<1>6. n \in Nat /\ offset = pos + Len(out)
  BY <1>2, LeftToRead DEF IInv
<1>7. fat16_get_cluster_for_offset(offset) # -1
  BY DEF Delivers
<1>8. ASSUME NEW i \in DOMAIN out', i \in DOMAIN out
      PROVE  /\ WholeItems \/ Contiguous => out'[i] = ByteAt(pos + i - 1)
             /\ \E k \in DOMAIN chain :
                  out'[i] \in Cluster(chain[k]) \cup Cluster(chain[k] + 1)
  BY <1>3, <1>4, <1>5, <1>8
<1>9. ASSUME NEW i \in DOMAIN out', i - Len(out) \in 1 .. n
      PROVE  /\ WholeItems \/ Contiguous => out'[i] = ByteAt(pos + i - 1)
             /\ \E k \in DOMAIN chain :
                  out'[i] \in Cluster(chain[k]) \cup Cluster(chain[k] + 1)
  <2> DEFINE j == i - Len(out) - 1
  <2>1. /\ i \in Int /\ j \in 0 .. n - 1 /\ Len(out) + (i - Len(out)) = i
        /\ offset + j = pos + i - 1
    <3> DEFINE l == Len(out)
    <3>1. i \in Int /\ l \in Nat
      BY <1>3, <1>5
    <3>2. n \in Nat /\ i - l \in 1 .. n /\ offset = pos + l /\ pos \in Nat
      BY <1>5, <1>6, <1>9
    <3> HIDE DEF l, n
    <3>3. i - l - 1 \in 0 .. n - 1 /\ l + (i - l) = i
      BY <3>1, <3>2
    <3>4. offset + (i - l - 1) = pos + i - 1
      BY <3>1, <3>2
    <3> QED
      BY <3>1, <3>3, <3>4 DEF l
  <2>2. PICK z : z = Start
    OBVIOUS
  <2>3. out'[i] = Start + (i - Len(out)) - 1
    BY <1>3, <1>9, <2>1
  <2>4. ASSUME NEW s \in Int, s = Start PROVE out'[i] = Start + j
    BY <1>5, <2>1, <2>3, <2>4
  <2>5. Start \in Int
    <3>1. PICK k \in DOMAIN chain : Start \in Cluster(chain[k])
      BY <1>2, <1>7, BytesNear DEF IInv
    <3> QED
      BY <3>1 DEF Cluster
  <2>6. out'[i] = Start + j
    BY <2>4, <2>5
  <2> HIDE DEF j, n
  <2>7. ASSUME WholeItems \/ Contiguous PROVE out'[i] = ByteAt(pos + i - 1)
    <3>1. Start + j = ByteAt(offset + j)
      BY <1>2, <1>7, <2>1, <2>7, BytesRight DEF IInv, n
    <3> QED
      BY <2>1, <2>6, <3>1
  <2>8. \E k \in DOMAIN chain : Start + j \in Cluster(chain[k]) \cup Cluster(chain[k] + 1)
    BY <1>2, <1>7, <2>1, BytesNear DEF IInv, n
  <2> QED
    BY <2>6, <2>7, <2>8
<1> QED
  BY <1>3, <1>8, <1>9

-----------------------------------------------------------------------------
(***************************************************************************)
(* What holds of a read holds before the first one.                        *)
(***************************************************************************)
LEMMA InitInv == ASSUME Init
                 PROVE  IInv
<1>1. TypeOK /\ Layout /\ AtRest
  BY InitLayout
<1>2. ~ InFile
  BY NoRead DEF Init
<1> QED
  BY <1>1, <1>2 DEF IInv, Progress, Finished, Sources, FailsOnlyAtEnds

(***************************************************************************)
(* Seeks and reads that begin, go on, fail, hang and return.               *)
(***************************************************************************)
LEMMA NextInv == ASSUME IInv, [Next]_vars
                 PROVE  IInv'
<1>1. TypeOK' /\ Layout' /\ AtRest'
  BY TypeStep DEF IInv
<1>2. ASSUME ~ InFile' PROVE IInv'
  BY <1>1, <1>2 DEF IInv, Progress, Finished, Sources, FailsOnlyAtEnds
<1>3. ASSUME NEW o \in Offsets, NEW mode \in {"SEEK_SET", "SEEK_CUR", "SEEK_END"},
             fat16_seek(o, mode)
      PROVE  IInv'
  <2>1. asked' = [size |-> 0, nmemb |-> 0]
    BY <1>3 DEF fat16_seek
  <2>2. ~ InFile'
    BY <2>1 DEF InFile, Length
  <2> QED
    BY <1>2, <2>2
<1>4. ASSUME NEW size \in Sizes, NEW nmemb \in Counts, fat16_read(size, nmemb), InFile'
      PROVE  IInv'
  <2>1. /\ pc' = "reading" /\ asked' = [size |-> size, nmemb |-> nmemb] /\ item' = 0
        /\ offset' = ToInt(pos) /\ total' = size /\ out' = <<>> /\ result' = "none"
        /\ pos' = pos /\ UNCHANGED disk
    BY <1>4 DEF fat16_read
  <2>2. size \in Nat /\ nmemb \in Nat /\ pos \in Nat /\ filesize \in Nat
    BY Fat16Assumption, Ranges DEF IInv
  <2>3. pos + size * nmemb <= filesize /\ size * nmemb > 0 /\ size * nmemb \in Nat
    <3>1. filesize' = filesize
      BY <2>1, SameDisk
    <3> QED
      BY <1>4, <2>1, <2>2, <3>1 DEF InFile, Length
  <2>4. size > 0
    BY <2>2, <2>3
  <2>5. ToInt(pos) = pos
    <3>1. filesize <= Half /\ Half \in Int
      BY Bytes, Fat16Assumption DEF IInv, Half
    <3>2. pos < Half
      BY <2>2, <2>3, <3>1
    <3> QED
      BY <2>2, <3>2, IntKeeps
  <2>6. Progress'
    <3>1. WholeItems' => pos % ClusterSize' = 0
      BY <2>1 DEF WholeItems
    <3>2. Len(out') = 0
      BY <2>1
    <3>3. (0 + 1) * size = size
      BY <2>2
    <3> QED
      BY <2>1, <2>2, <2>4, <2>5, <3>1, <3>2, <3>3 DEF Progress
  <2>7. Sources'
    <3>1. DOMAIN out' = {}
      BY <2>1
    <3> QED
      BY <3>1 DEF Sources, Right
  <2> QED
    BY <1>1, <2>1, <2>6, <2>7 DEF IInv, Finished, FailsOnlyAtEnds
<1>5. ASSUME Level, InFile' PROVE IInv'
  <2>1. /\ UNCHANGED disk /\ UNCHANGED <<pos, asked>>
        /\ pc = "reading" /\ item < asked.nmemb
    BY <1>5 DEF Level
  <2>2. /\ InFile /\ (FullSectors' = FullSectors) /\ (Contiguous' = Contiguous)
        /\ (WholeItems' = WholeItems) /\ chain' = chain
        /\ \A p : (ByteAt(p))' = ByteAt(p)
        /\ \A c : (Cluster(c))' = Cluster(c)
    BY <1>5, <2>1, SameRead
  <2>3. result # "nmemb"
    BY <2>1, <2>2 DEF IInv, Finished
  <2>4. /\ offset \in Nat /\ offset < filesize
    <3>1. /\ TotalToRead \in 1 .. ClusterSize /\ offset \in Nat
          /\ offset + TotalToRead <= filesize /\ filesize \in Nat
      BY <2>1, <2>2, LeftToRead DEF IInv, TypeOK
    <3> QED
      BY <3>1
  <2>5. ASSUME UNCHANGED out PROVE Sources'
    BY <2>1, <2>2, <2>5 DEF IInv, Sources, Right
  <2>6. CASE fat16_get_cluster_for_offset(offset) = -1 /\ Leave("EIO") /\ UNCHANGED out
    <3>1. pc' = "idle" /\ result' = "EIO"
      BY <2>6 DEF Leave
    <3>2. \E j \in 2 .. Len(chain) : chain[j] \in LastMarks \cup OtherMarks
      BY <2>4, <2>6, StartsRight DEF IInv
    <3>3. FailsOnlyAtEnds'
      BY <2>2, <3>1, <3>2 DEF FailsOnlyAtEnds
    <3> QED
      BY <1>1, <2>5, <2>6, <3>1, <3>3 DEF IInv, Progress, Finished
  <2>7. CASE /\ fat16_get_cluster_for_offset(offset) # -1 /\ ~ OnDisk(Start, TotalToRead)
             /\ pc' = "hung" /\ UNCHANGED <<item, offset, total, out, result>>
    <3>1. FullSectors => \E k \in DOMAIN chain : chain[k] = DataClusters + 1
      BY <2>1, <2>2, <2>7, BytesNear DEF IInv
    <3>2. FailsOnlyAtEnds'
      BY <2>2, <2>7, <3>1 DEF FailsOnlyAtEnds
    <3> QED
      BY <1>1, <2>3, <2>5, <2>7, <3>2 DEF IInv, Progress, Finished
  <2>8. CASE /\ fat16_get_cluster_for_offset(offset) # -1 /\ OnDisk(Start, TotalToRead)
             /\ out' = out \o [i \in 1 .. TotalToRead |-> Start + i - 1]
             /\ IF total - TotalToRead > 0
                  THEN /\ offset' = offset + TotalToRead /\ total' = total - TotalToRead
                       /\ item' = item
                  ELSE offset' = NextOffset /\ total' = asked.size /\ item' = item + 1
             /\ UNCHANGED <<pc, result>>
    <3>1. Delivers
      BY <2>1, <2>8 DEF Delivers
    <3>2. Progress' /\ Sources'
      BY <2>1, <3>1, ProgressKept, SourcesKept
    <3> QED
      BY <1>1, <2>1, <2>3, <2>8, <3>2 DEF IInv, Finished, FailsOnlyAtEnds
  <2> QED
    BY <1>5, <2>6, <2>7, <2>8 DEF Level, Start
<1>6. ASSUME Return, InFile' PROVE IInv'
  <2>1. /\ UNCHANGED disk /\ UNCHANGED <<pos, asked>> /\ UNCHANGED out
        /\ pc = "reading" /\ item = asked.nmemb /\ pc' = "idle" /\ result' = "nmemb"
    BY <1>6 DEF Return, Leave
  <2>2. /\ InFile /\ Length' = Length /\ (FullSectors' = FullSectors)
        /\ (Contiguous' = Contiguous) /\ (WholeItems' = WholeItems) /\ chain' = chain
        /\ \A p : (ByteAt(p))' = ByteAt(p)
        /\ \A c : (Cluster(c))' = Cluster(c)
    BY <1>6, <2>1, SameRead
  <2>3. Sources'
    BY <2>1, <2>2 DEF IInv, Sources, Right
  <2>4. Len(out) = Length
    <3>1. /\ offset + total = pos + (item + 1) * asked.size
          /\ Len(out) = offset - pos
      BY <2>1, <2>2 DEF IInv, Progress
    <3>2. /\ asked.size \in Nat /\ asked.nmemb \in Nat /\ pos \in Nat /\ total \in Nat
          /\ offset \in Int
      BY Ranges DEF IInv
    <3>3. total = asked.size
      BY <2>1, <2>2 DEF IInv, Progress
    <3>4. (item + 1) * asked.size = asked.nmemb * asked.size + asked.size
      BY <2>1, <3>2, Grows
    <3>5. asked.nmemb * asked.size = Length /\ Length \in Nat
      BY <3>2 DEF Length
    <3> QED
      BY <3>1, <3>2, <3>3, <3>4, <3>5
  <2> QED
    BY <1>1, <2>1, <2>2, <2>3, <2>4 DEF IInv, Progress, Finished, FailsOnlyAtEnds
<1>7. ASSUME UNCHANGED vars, InFile' PROVE IInv'
  <2>1. /\ UNCHANGED disk /\ UNCHANGED <<pos, asked>>
        /\ UNCHANGED <<pc, item, offset, total, out, result>>
    BY <1>7 DEF vars, read
  <2>2. /\ InFile /\ Length' = Length /\ (FullSectors' = FullSectors)
        /\ (Contiguous' = Contiguous) /\ (WholeItems' = WholeItems) /\ chain' = chain
        /\ \A p : (ByteAt(p))' = ByteAt(p)
        /\ \A c : (Cluster(c))' = Cluster(c) 
    BY <1>7, <2>1, SameRead
  <2>3. Sources'
    BY <2>1, <2>2 DEF IInv, Sources, Right
  <2>4. FailsOnlyAtEnds'
    BY <2>1, <2>2 DEF IInv, FailsOnlyAtEnds
  <2>5. ClusterSize' = ClusterSize
    BY <2>1, SameDisk
  <2>6. Progress' /\ Finished'
    BY <2>1, <2>2, <2>5 DEF IInv, Progress, Finished
  <2> QED
    BY <1>1, <2>3, <2>4, <2>6 DEF IInv
<1> QED
  BY <1>2, <1>3, <1>4, <1>5, <1>6, <1>7 DEF Next

(***************************************************************************)
(* The invariant says what the runs check.                                 *)
(***************************************************************************)
LEMMA InvReads == ASSUME IInv
                  PROVE  TypeOK /\ ReadsRight /\ FailsOnlyAtEnds
BY DEF IInv, ReadsRight, Sources, Finished

-----------------------------------------------------------------------------
(***************************************************************************)
(* The strengthened invariant holds in every state: a read has always      *)
(* delivered the bytes up to its offset, has the right number of them left *)
(* to read, and is at the beginning of a cluster whenever it should be.    *)
(***************************************************************************)
THEOREM ReadInvariant == Spec => []IInv
<1>1. Init => IInv
  BY InitInv
<1>2. IInv /\ [Next]_vars => IInv'
  BY NextInv
<1> QED
  BY <1>1, <1>2, PTL DEF Spec

(***************************************************************************)
(* Types: the read of a file never leaves its file, its items or the disk. *)
(***************************************************************************)
THEOREM TypeCorrect == Spec => []TypeOK
<1>1. IInv => TypeOK
  BY InvReads
<1> QED
  BY <1>1, ReadInvariant, PTL

(***************************************************************************)
(* fat16_read returns the file's bytes when it reads in whole clusters, or *)
(* when the file's clusters follow each other, on volumes of every layout, *)
(* with clusters of every size and files of every length; any other read   *)
(* strays no farther than to the cluster behind one of the file's.         *)
(***************************************************************************)
THEOREM ReadsAreRight == Spec => []ReadsRight
<1>1. IInv => ReadsRight
  BY InvReads
<1> QED
  BY <1>1, ReadInvariant, PTL

(***************************************************************************)
(* fat16_read fails inside a file only for a cluster number that the code  *)
(* takes for a mark, and hangs only at the last cluster of the disk.       *)
(***************************************************************************)
THEOREM FailuresAreRight == Spec => []FailsOnlyAtEnds
<1>1. IInv => FailsOnlyAtEnds
  BY InvReads
<1> QED
  BY <1>1, ReadInvariant, PTL

=============================================================================
