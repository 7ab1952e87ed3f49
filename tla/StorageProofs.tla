---------------------------- MODULE StorageProofs ---------------------------
(***************************************************************************)
(* Theorems about the two ends of the way to a file.  The disk stream: for *)
(* every size of a sector and of the disk, and every width of int that is  *)
(* a multiple of two sectors.  The descriptor table and the path parser:   *)
(* for any names, any volume, any number of descriptors and any heap; the  *)
(* loops over a name's components and the table are recursive functions.   *)
(***************************************************************************)
EXTENDS Stream, Files, SequenceTheorems, WellFoundedInduction, TLAPS

SS == SectorSize

(***************************************************************************)
(* Half of the range of int is a whole number of sectors.                  *)
(***************************************************************************)
LEMMA Sizes == /\ SS \in Nat \ {0} /\ Sectors \in Nat \ {0} /\ Word \in Nat \ {0}
               /\ Half \in Nat /\ Word = Half + Half /\ Half > 0
               /\ \E h \in Nat : Half = h * SS
<1>1. SS \in Nat \ {0} /\ Sectors \in Nat \ {0} /\ Word \in Nat \ {0} /\ Word % (2 * SS) = 0
  BY StreamAssumption DEF SS
<1>2. PICK d \in Nat \ {0} : d = 2 * SS /\ Word % d = 0
  BY <1>1
<1>3. Word = (Word \div d) * d + (Word % d) /\ Word \div d \in Nat
  BY <1>1
<1>4. PICK h \in Nat : Word = h * d
  BY <1>1, <1>2, <1>3
<1>5. h * d = 2 * (h * SS) /\ h * SS \in Nat
  BY <1>1, <1>2
<1>6. Half = h * SS
  BY <1>4, <1>5 DEF Half
<1>7. QED
  BY <1>1, <1>4, <1>5, <1>6

(***************************************************************************)
(* Multiplying by the size of a sector keeps the order.                    *)
(***************************************************************************)
LEMMA Product == ASSUME NEW a \in Int, NEW b \in Int
                 PROVE  /\ a * SS \in Int
                        /\ a >= 0 => a * SS >= 0
                        /\ a < b => a * SS + SS <= b * SS
                        /\ a * SS < b * SS => a < b
<1>1. SS \in Nat \ {0}
  BY Sizes
<1>2. a >= 0 => a * SS >= 0
  BY <1>1
<1>3. ASSUME a < b PROVE a * SS + SS <= b * SS
  <2>1. (b - a - 1) * SS >= 0
    BY <1>1, <1>3
  <2>2. (b - a - 1) * SS = b * SS - a * SS - SS
    BY <1>1
  <2>3. QED
    BY <1>1, <2>1, <2>2
<1>4. ASSUME a * SS < b * SS PROVE a < b
  <2>1. CASE b <= a
    <3>1. (a - b) * SS >= 0
      BY <1>1, <2>1
    <3>2. (a - b) * SS = a * SS - b * SS
      BY <1>1
    <3>3. QED
      BY <1>1, <1>4, <3>1, <3>2
  <2>2. QED
    BY <2>1
<1>5. QED
  BY <1>1, <1>2, <1>3, <1>4

(***************************************************************************)
(* The conversion to int: always an int, the number itself if it is one,   *)
(* and the smallest int for the number after the largest.                  *)
(***************************************************************************)
LEMMA IntValue ==
    ASSUME NEW n \in Int
    PROVE  /\ ToInt(n) \in - Half .. Half - 1
           /\ n \in - Half .. Half - 1 => ToInt(n) = n
           /\ n = Half => ToInt(n) = - Half
<1>1. Half \in Nat /\ Half > 0 /\ Word = Half + Half /\ Word \in Nat \ {0}
  BY Sizes
<1>2. (n + Half) % Word \in 0 .. Word - 1
  BY <1>1
<1>3. ASSUME n \in - Half .. Half - 1 PROVE (n + Half) % Word = n + Half
  BY <1>1, <1>3
<1>4. ASSUME n = Half PROVE (n + Half) % Word = 0
  BY <1>1, <1>4
<1>5. QED
  BY <1>1, <1>2, <1>3, <1>4 DEF ToInt

(***************************************************************************)
(* Sector and offset of a position.                                        *)
(***************************************************************************)
LEMMA SectorOf ==
    ASSUME NEW p \in Int
    PROVE  /\ Sector(p) \in Int /\ Offset(p) \in Int /\ p = Sector(p) * SS + Offset(p)
           /\ p >= 0 => Sector(p) >= 0 /\ Offset(p) \in 0 .. SS - 1
           /\ p < 0 => Sector(p) <= 0 /\ Offset(p) <= 0 /\ Offset(p) > - SS
<1>1. SS \in Nat \ {0}
  BY Sizes
<1>2. CASE p >= 0
  <2>1. p = (p \div SS) * SS + (p % SS) /\ p \div SS \in Int /\ p % SS \in 0 .. SS - 1
    BY <1>1
  <2>2. p \div SS >= 0
    BY <1>1, <1>2
  <2>3. Sector(p) = p \div SS /\ Offset(p) = p - Sector(p) * SS
    BY <1>2 DEF Sector, Offset, SS
  <2>4. (p \div SS) * SS \in Int
    BY <2>1, Product
  <2>5. QED
    BY <1>1, <1>2, <2>1, <2>2, <2>3, <2>4
<1>3. CASE p < 0
  <2>1. /\ - p = ((- p) \div SS) * SS + ((- p) % SS)
        /\ (- p) \div SS \in Int /\ (- p) % SS \in 0 .. SS - 1
    BY <1>1
  <2>2. (- p) \div SS >= 0
    BY <1>1, <1>3
  <2>3. PICK q \in Nat, r \in 0 .. SS - 1 : q = (- p) \div SS /\ - p = q * SS + r
    BY <2>1, <2>2
  <2>4. Sector(p) = - q /\ Offset(p) = p - (- q) * SS
    BY <1>3, <2>3 DEF Sector, Offset, SS
  <2>5. (- q) * SS = - (q * SS) /\ q * SS \in Int
    BY <1>1
  <2>6. Offset(p) = - r
    BY <2>3, <2>4, <2>5
  <2>7. QED
    BY <1>1, <1>3, <2>3, <2>4, <2>5, <2>6
<1>4. QED
  BY <1>2, <1>3

(***************************************************************************)
(* The bytes one level of the recursion copies from buf.                   *)
(***************************************************************************)
Byte == -1 .. Sectors * SectorSize - 1
Copied(n) == [i \in 1 .. n |-> Buf(Sector(pos), Offset(pos) + i - 1)]

LEMMA CopiedBytes ==
    ASSUME NEW n \in Int, pos \in Int, disk_read_sector(Sector(pos))
    PROVE  /\ Copied(n) \in Seq(Byte)
           /\ Len(Copied(n)) = IF n >= 0 THEN n ELSE 0
           /\ \A i \in 1 .. n : (Offset(pos) >= 0 /\ n <= SS - Offset(pos)) => Copied(n)[i] = pos + i - 1
<1>1. /\ SS \in Nat \ {0} /\ Sector(pos) \in 0 .. Sectors - 1 /\ Offset(pos) \in Int
      /\ pos = Sector(pos) * SS + Offset(pos) /\ Sectors \in Nat
  BY Sizes, SectorOf DEF disk_read_sector
<1>2. PICK b \in Int : b = Sector(pos) * SS /\ b >= 0 /\ b + SS <= Sectors * SS /\ Sectors * SS \in Int
  <2>1. Sector(pos) < Sectors /\ Sector(pos) >= 0 /\ Sector(pos) \in Int /\ Sectors \in Int
    BY <1>1
  <2>2. QED
    BY <2>1, Product
<1>3. \A k \in Int : Buf(Sector(pos), k) = IF k \in 0 .. SS - 1 THEN b + k ELSE -1
  BY <1>2 DEF Buf, SS
<1>4. \A k \in Int : Buf(Sector(pos), k) \in Byte
  BY <1>1, <1>2, <1>3 DEF Byte, SS
<1>5. Copied(n) \in [1 .. n -> Byte]
  BY <1>1, <1>4 DEF Copied
<1>6. ASSUME n >= 0
      PROVE  Copied(n) \in Seq(Byte) /\ Len(Copied(n)) = n
  BY <1>5, <1>6
<1>7. ASSUME n < 0
      PROVE  Copied(n) \in Seq(Byte) /\ Len(Copied(n)) = 0
  <2>1. 1 .. n = 1 .. 0
    BY <1>7
  <2>2. Copied(n) \in [1 .. 0 -> Byte]
    BY <1>5, <2>1
  <2>3. QED
    BY <1>7, <2>2
<1>8. ASSUME NEW i \in 1 .. n, Offset(pos) >= 0, n <= SS - Offset(pos)
      PROVE  Copied(n)[i] = pos + i - 1
  <2>1. Offset(pos) + i - 1 \in 0 .. SS - 1
    BY <1>1, <1>8
  <2>2. QED
    BY <1>1, <1>2, <1>3, <2>1 DEF Copied
<1>9. QED
  BY <1>6, <1>7, <1>8

-----------------------------------------------------------------------------
(***************************************************************************)
(* The inductive invariant: a read under way has read the bytes from its   *)
(* start on, and the position is behind them (where the int wraps around   *)
(* at the end of its range).                                               *)
(***************************************************************************)
Going == /\ Len(out) + total = asked
         /\ Len(out) > 0 => total >= 0
         /\ \A i \in 1 .. Len(out) : out[i] = start + i - 1
         /\ start + Len(out) <= Half
         /\ pos = ToInt(start + Len(out))

StreamInv == StreamWellFormed /\ (pc # "idle" /\ start >= 0 => Going)

(***************************************************************************)
(* A fresh stream.                                                         *)
(***************************************************************************)
LEMMA StreamInitInv == StreamInit => StreamInv
BY Sizes DEF StreamInit, StreamInv, StreamWellFormed

(***************************************************************************)
(* diskstreamer_seek.                                                      *)
(***************************************************************************)
LEMMA SeekInv == ASSUME StreamInv, NEW p \in 0 .. Word - 1, diskstreamer_seek(p)
                 PROVE  StreamInv' /\ pos' \in Int
<1>1. pos' \in - Half .. Half - 1
  BY Sizes, IntValue DEF diskstreamer_seek
<1>2. QED
  BY <1>1, Sizes DEF StreamInv, StreamWellFormed, diskstreamer_seek

(***************************************************************************)
(* The beginning of diskstreamer_read.                                     *)
(***************************************************************************)
LEMMA ReadInv == ASSUME StreamInv, NEW n \in Totals, diskstreamer_read(n)
                       PROVE  StreamInv'
<1>1. n \in Int
  BY StreamAssumption, Sizes DEF Half, SS
<1>2. StreamWellFormed'
  BY <1>1 DEF StreamInv, StreamWellFormed, diskstreamer_read
<1>3. pos \in - Half .. Half - 1 /\ ToInt(pos) = pos
  BY Sizes, IntValue DEF StreamInv, StreamWellFormed
<1>4. out' = <<>> /\ total' = n /\ asked' = n /\ start' = pos /\ pos' = pos
  BY DEF diskstreamer_read
<1>5. start' >= 0 => Going'
  BY <1>1, <1>3, <1>4, Sizes DEF Going
<1>6. QED
  BY <1>2, <1>5 DEF StreamInv

(***************************************************************************)
(* A level of the recursion for a sector the disk does not have.           *)
(***************************************************************************)
LEMMA HungInv == ASSUME StreamInv, Level, pc' = "hung", ~ disk_read_sector(Sector(pos))
                       PROVE  StreamInv'
BY DEF StreamInv, StreamWellFormed, Going, Level

\* How many bytes a level reads.
Piece == IF Offset(pos) + total >= SS THEN SS - Offset(pos) ELSE total

(***************************************************************************)
(* A level of the recursion: what it reads, and where it leaves position   *)
(* and length.                                                             *)
(***************************************************************************)
LEMMA LevelStep ==
    ASSUME StreamInv, Level, disk_read_sector(Sector(pos))
    PROVE  /\ Piece \in Int /\ pc = "reading"
           /\ out' = out \o Copied(Piece) /\ pos' = ToInt(pos + Piece)
           /\ IF Offset(pos) + total >= SS THEN total' = total - Piece /\ pc' = "reading"
                                          ELSE total' = 0 /\ pc' = "idle"
           /\ start' = start /\ asked' = asked
<1>1. pos \in Int /\ total \in Int /\ SS \in Int
  BY Sizes DEF StreamInv, StreamWellFormed
<1>2. Piece \in Int
  BY <1>1, SectorOf DEF Piece
<1>3. BytesInCurrentSector = Piece /\ (IsOverflow <=> Offset(pos) + total >= SS)
  BY DEF Piece, BytesInCurrentSector, IsOverflow, SS
<1>4. QED
  BY <1>2, <1>3 DEF Level, Rest, Advance, Copied

(***************************************************************************)
(* The invariant after such a level.                                       *)
(***************************************************************************)
LEMMA LevelInv ==
    ASSUME StreamInv, Level, disk_read_sector(Sector(pos))
    PROVE  /\ StreamInv'
           /\ (pc' # "reading" /\ start >= 0) =>
                 /\ out' = [i \in 1 .. asked |-> start + i - 1]
                 /\ pos' = start + asked
<1>1. PICK n \in Int :
         /\ n = Piece
         /\ out' = out \o Copied(n) /\ pos' = ToInt(pos + n)
         /\ IF Offset(pos) + total >= SS THEN total' = total - n /\ pc' = "reading"
                                        ELSE total' = 0 /\ pc' = "idle"
         /\ start' = start /\ asked' = asked
  BY LevelStep
<1>2. /\ pos \in Int /\ start \in Int /\ total \in Int /\ Half \in Nat /\ Half > 0 /\ SS \in Nat \ {0}
      /\ out \in Seq(Byte) /\ Len(out) \in Nat /\ asked \in Int /\ asked >= - Half
  BY Sizes, StreamAssumption DEF StreamInv, StreamWellFormed, Byte, Half, SS
<1>3. /\ Sector(pos) \in 0 .. Sectors - 1 /\ Offset(pos) \in Int
      /\ pos = Sector(pos) * SS + Offset(pos)
  BY <1>2, SectorOf, Sizes DEF disk_read_sector
<1>4. /\ Copied(n) \in Seq(Byte)
      /\ Len(Copied(n)) = IF n >= 0 THEN n ELSE 0
      /\ \A i \in 1 .. n : (Offset(pos) >= 0 /\ n <= SS - Offset(pos)) => Copied(n)[i] = pos + i - 1
  BY <1>1, <1>2, CopiedBytes
<1>5. /\ out' \in Seq(Byte) /\ Len(out') = Len(out) + Len(Copied(n))
      /\ \A i \in 1 .. Len(out) + Len(Copied(n)) :
            out'[i] = IF i <= Len(out) THEN out[i] ELSE Copied(n)[i - Len(out)]
  <2>1. out \in Seq(Byte) /\ Copied(n) \in Seq(Byte) /\ out' = out \o Copied(n)
    BY <1>1, <1>2, <1>4
  <2>2. QED
    BY <2>1, ConcatProperties
<1>6. StreamWellFormed'
  <2>1. pos' \in - Half .. Half - 1
    BY <1>1, <1>2, IntValue
  <2>2. total' \in Int /\ pc' \in {"idle", "reading", "hung"}
    BY <1>1, <1>2
  <2>3. QED
    BY <1>1, <1>5, <2>1, <2>2 DEF StreamInv, StreamWellFormed, Byte
<1>7. ASSUME start >= 0
      PROVE  /\ pc' = "reading" => Going'
             /\ pc' # "reading" => /\ out' = [i \in 1 .. asked |-> start + i - 1]
                                    /\ pos' = start + asked
  <2>1. pc = "reading" /\ Going
    BY <1>7, LevelStep DEF StreamInv
  <2>2. /\ Len(out) + total = asked /\ (Len(out) > 0 => total >= 0)
        /\ \A i \in 1 .. Len(out) : out[i] = start + i - 1
        /\ start + Len(out) <= Half /\ pos = ToInt(start + Len(out))
    BY <2>1 DEF Going
  <2> DEFINE m == Len(out)
  <2>10. m + total = asked /\ (m > 0 => total >= 0) /\ start + m <= Half /\ m \in Nat
    BY <1>2, <2>2
  <2> HIDE DEF m
  <2>3. start + Len(out) < Half /\ pos = start + Len(out) /\ pos >= 0
    <3>1. ASSUME start + Len(out) = Half PROVE FALSE
      <4>1. pos = - Half
        BY <1>2, <2>2, <3>1, IntValue
      <4>2. PICK h \in Nat : Half = h * SS
        BY Sizes
      <4>3. Sector(pos) <= 0 /\ Offset(pos) > - SS
        BY <1>2, <4>1, SectorOf
      <4>4. Sector(pos) = 0 /\ Sector(pos) * SS = 0
        BY <1>2, <1>3, <4>3
      <4>5. Half < SS
        BY <1>2, <1>3, <4>1, <4>3, <4>4
      <4>6. 0 * SS < h * SS /\ 0 * SS = 0
        BY <1>2, <4>2
      <4>7. 0 * SS + SS <= h * SS
        BY <4>6, Product
      <4>8. QED
        BY <1>2, <4>2, <4>5, <4>6, <4>7
    <3>2. start + m # Half
      BY <3>1 DEF m
    <3>3. start + m \in - Half .. Half - 1 /\ start + m < Half /\ start + m >= 0
      BY <1>2, <1>7, <2>10, <3>2
    <3>4. QED
      BY <1>2, <2>2, <3>3, IntValue DEF m
  <2>4. Offset(pos) \in 0 .. SS - 1 /\ pos - Offset(pos) + SS <= Half
    <3>1. Offset(pos) \in 0 .. SS - 1
      BY <1>2, <2>3, SectorOf
    <3>2. PICK h \in Nat : Half = h * SS
      BY Sizes
    <3>3. PICK q \in Int : q = Sector(pos) /\ q * SS \in Int /\ pos = q * SS + Offset(pos)
      BY <1>3, Product
    <3>4. q * SS < h * SS
      BY <1>2, <2>3, <3>1, <3>2, <3>3
    <3>5. q * SS + SS <= h * SS
      BY <3>3, <3>4, Product
    <3>6. QED
      BY <1>2, <3>1, <3>2, <3>3, <3>5
  <2>5. /\ n <= SS - Offset(pos)
        /\ Offset(pos) + total >= SS => n > 0 /\ n <= total /\ pos + n <= Half
        /\ ~ (Offset(pos) + total >= SS) => n = total /\ pos + n \in - Half .. Half - 1
    <3>1. pos = start + m /\ pos >= 0
      BY <2>3 DEF m
    <3>2. Offset(pos) \in Int /\ Offset(pos) >= 0 /\ Offset(pos) < SS /\ pos - Offset(pos) + SS <= Half
      BY <1>2, <2>4
    <3>3. CASE Offset(pos) + total >= SS
      <4>1. n = SS - Offset(pos)
        BY <1>1, <3>3 DEF Piece
      <4>2. QED
        BY <1>2, <3>2, <3>3, <4>1
    <3>4. CASE ~ (Offset(pos) + total >= SS)
      <4>1. n = total
        BY <1>1, <3>4 DEF Piece
      <4>2. total >= - Half
        BY <1>2, <2>10
      <4>3. pos + n \in Int /\ pos + n >= - Half /\ pos + n < Half
        BY <1>2, <3>1, <3>2, <3>4, <4>1, <4>2
      <4>4. pos + n \in - Half .. Half - 1
        BY <1>2, <4>3
      <4>5. QED
        BY <1>2, <3>2, <3>4, <4>1, <4>4
    <3>5. QED
      BY <3>3, <3>4
  <2>6. \A i \in 1 .. Len(out') : out'[i] = start + i - 1
    <3>1. ASSUME NEW i \in 1 .. Len(out') PROVE out'[i] = start + i - 1
      <4>1. CASE i <= Len(out)
        BY <1>2, <1>5, <2>2, <4>1
      <4>2. CASE i > Len(out)
        <5>1. i - Len(out) \in 1 .. n
          BY <1>1, <1>2, <1>4, <1>5, <4>2
        <5>2. Copied(n)[i - Len(out)] = pos + (i - Len(out)) - 1
          BY <1>4, <2>4, <2>5, <5>1
        <5>3. QED
          BY <1>2, <1>5, <2>3, <4>2, <5>2
      <4>3. QED
        BY <1>2, <1>5, <4>1, <4>2
    <3>2. QED
      BY <3>1
  <2>7. CASE Offset(pos) + total >= SS
    <3>1. Len(out') = Len(out) + n /\ n > 0
      BY <1>1, <1>2, <1>4, <1>5, <2>5, <2>7
    <3>2. Len(out') = m + n /\ total' = total - n /\ pos = start + m
      BY <1>1, <2>3, <2>7, <3>1 DEF m
    <3>3. Len(out') + total' = asked /\ total' >= 0 /\ start + Len(out') = pos + n
      BY <1>1, <1>2, <2>5, <2>7, <2>10, <3>2
    <3>4. start' + Len(out') <= Half /\ pos' = ToInt(start' + Len(out'))
      BY <1>1, <2>5, <2>7, <3>3
    <3>5. QED
      BY <1>1, <2>6, <2>7, <3>3, <3>4 DEF Going
  <2>8. CASE ~ (Offset(pos) + total >= SS)
    <3>1. n = total /\ pos' = pos + n /\ total' = 0 /\ pc' = "idle"
      BY <1>1, <1>2, <2>5, <2>8, IntValue
    <3>2. pos' = start + asked
      BY <1>2, <2>2, <2>3, <3>1
    <3>3. Len(out') = IF asked >= 0 THEN asked ELSE 0
      BY <1>2, <1>4, <1>5, <2>2, <3>1
    <3>4. out' = [i \in 1 .. asked |-> start + i - 1]
      <4>1. 1 .. Len(out') = 1 .. asked
        BY <1>2, <3>3
      <4>2. out' = [i \in 1 .. Len(out') |-> out'[i]]
        BY <1>5
      <4>3. QED
        BY <2>6, <4>1, <4>2
    <3>5. QED
      BY <3>1, <3>2, <3>4
  <2>9. QED
    BY <2>7, <2>8
<1>8. QED
  BY <1>1, <1>6, <1>7 DEF StreamInv

(***************************************************************************)
(* The invariant holds in every state.                                     *)
(***************************************************************************)
LEMMA StreamNextInv == ASSUME StreamInv, [StreamNext]_stream_vars
                       PROVE  StreamInv'
<1>1. ASSUME NEW p \in 0 .. Word - 1, diskstreamer_seek(p) PROVE StreamInv'
  BY <1>1, SeekInv
<1>2. ASSUME NEW n \in Totals, diskstreamer_read(n) PROVE StreamInv'
  BY <1>2, ReadInv
<1>3. ASSUME Level PROVE StreamInv'
  <2>1. CASE disk_read_sector(Sector(pos))
    BY <1>3, <2>1, LevelInv
  <2>2. CASE ~ disk_read_sector(Sector(pos))
    <3>1. pc' = "hung"
      BY <1>3, <2>2 DEF Level
    <3>2. QED
      BY <1>3, <2>2, <3>1, HungInv
  <2>3. QED
    BY <2>1, <2>2
<1>4. CASE UNCHANGED stream_vars
  BY <1>4 DEF StreamInv, StreamWellFormed, Going, stream_vars
<1>5. QED
  BY <1>1, <1>2, <1>3, <1>4 DEF StreamNext

(***************************************************************************)
(* The bytes a read has copied so far are the first of those asked for,    *)
(* and the position is behind them (diskstreamer_read).                    *)
(***************************************************************************)
THEOREM StreamInvariant == StreamSpec => []StreamInv
<1>1. StreamInit => StreamInv
  BY StreamInitInv
<1>2. StreamInv /\ [StreamNext]_stream_vars => StreamInv'
  BY StreamNextInv
<1>3. QED
  BY <1>1, <1>2, PTL DEF StreamSpec

(***************************************************************************)
(* The stream and the call of diskstreamer_read keep their types: the      *)
(* position stays a value of type int.                                     *)
(***************************************************************************)
THEOREM StreamTypeOK == StreamSpec => []StreamWellFormed
<1>1. StreamInv => StreamWellFormed
  BY DEF StreamInv
<1>2. QED
  BY <1>1, StreamInvariant, PTL

(***************************************************************************)
(* Every step of the stream is one of what it promises, or none that       *)
(* shows.                                                                  *)
(***************************************************************************)
LEMMA StepSimulates == ASSUME StreamInv, [StreamNext]_stream_vars
                       PROVE  [Source!Next]_(Source!vars)
<1> USE DEF Source!vars
<1>1. ASSUME NEW p \in 0 .. Word - 1, diskstreamer_seek(p) PROVE Source!Seek
  <2>1. p \in Int /\ Word \in Nat
    BY Sizes
  <2>2. ToInt(p) \in Int
    BY <2>1, IntValue, Sizes
  <2>3. QED
    BY <1>1, <2>2 DEF diskstreamer_seek, Source!Seek
<1>2. ASSUME NEW n \in Totals, diskstreamer_read(n) PROVE Source!Request
  BY <1>2 DEF diskstreamer_read, Source!Request
<1>3. ASSUME Level, pc' # "idle" PROVE UNCHANGED Source!vars
  <2>1. pc = "reading" /\ start' = start /\ asked' = asked
    BY <1>3 DEF Level
  <2>2. QED
    BY <1>3, <2>1
<1>4. ASSUME Level, pc' = "idle" PROVE Source!Respond
  <2>1. pc = "reading" /\ start' = start /\ asked' = asked
    BY <1>4 DEF Level
  <2>2. disk_read_sector(Sector(pos))
    BY <1>4 DEF Level
  <2>3. start >= 0 => /\ out' = [i \in 1 .. asked |-> start + i - 1]
                      /\ pos' = start + asked
    BY <1>4, <2>2, LevelInv
  <2>4. QED
    BY <1>4, <2>1, <2>3 DEF Source!Respond
<1>5. CASE UNCHANGED stream_vars
  BY <1>5 DEF stream_vars
<1>6. QED
  BY <1>1, <1>2, <1>3, <1>4, <1>5 DEF StreamNext, Source!Next

(***************************************************************************)
(* However a read falls on the sectors, diskstreamer_read returns exactly  *)
(* the bytes asked for, in order, and leaves the position behind them.     *)
(***************************************************************************)
THEOREM StreamImplementsByteSource == StreamSpec => ImplementsByteSource
<1>1. StreamInit => Source!Init
  BY DEF StreamInit, Source!Init
<1>2. StreamInv /\ [StreamNext]_stream_vars => [Source!Next]_(Source!vars)
  BY StepSimulates
<1>3. QED
  BY <1>1, <1>2, StreamInvariant, PTL DEF StreamSpec, ImplementsByteSource, Source!Spec

-----------------------------------------------------------------------------
(***************************************************************************)
(* The descriptor table and the path parser.                               *)
(***************************************************************************)

(***************************************************************************)
(* Every set of numbers that is not empty has a least element.             *)
(***************************************************************************)
LEMMA Least == ASSUME NEW S, S \subseteq Nat, S # {}
               PROVE  \E n \in S : \A m \in S : n <= m
<1> DEFINE R == {ss \in Nat \X Nat : ss[1] < ss[2]}
<1>1. IsWellFoundedOn(R, Nat)
  BY NatLessThanWellFounded DEF OpToRel
<1>2. PICK n \in S : \A m \in S : ~ (<<m, n>> \in R)
  <2> HIDE DEF R
  <2> QED
    BY <1>1, WFMin
<1>3. ASSUME NEW m \in S, m < n PROVE FALSE
  <2>1. <<m, n>> \in Nat \X Nat /\ <<m, n>>[1] < <<m, n>>[2]
    BY <1>3
  <2>2. <<m, n>> \in R
    BY <2>1
  <2> HIDE DEF R
  <2> QED
    BY <1>2, <2>2
<1>4. \A m \in S : n \in Nat /\ m \in Nat
  OBVIOUS
<1> QED
  BY <1>3, <1>4

(***************************************************************************)
(* A set of numbers with 0 and, with each n, n + 1, has all numbers.       *)
(***************************************************************************)
LEMMA SetInduction == ASSUME NEW S, S \subseteq Nat, 0 \in S, \A n \in S : n + 1 \in S
                      PROVE  S = Nat
<1>1. SUFFICES ASSUME Nat \ S # {} PROVE FALSE
  OBVIOUS
<1>2. PICK n \in Nat \ S : \A m \in Nat \ S : n <= m
  BY <1>1, Least
<1>3. n # 0 /\ n - 1 \in Nat /\ ~ (n <= n - 1)
  BY <1>2
<1>4. n - 1 \in S
  BY <1>2, <1>3
<1> QED
  BY <1>2, <1>4

-----------------------------------------------------------------------------
(***************************************************************************)
(* What a descriptor holds, and the blocks that are given back with it.    *)
(***************************************************************************)
Privates == [path : DOMAIN Volume, kind : {"file", "directory"}, loaded : BOOLEAN]
Slots == Privates \cup {NULL}

Weight(slot) == IF slot = NULL THEN 0 ELSE Cost(slot) + 1

Table(table) == /\ table \in [Fds -> Slots]
                /\ \A fd \in Fds : table[fd] # NULL => table[fd].kind = Volume[table[fd].path]

LEMMA SlotWeight == ASSUME NEW slot \in Slots
                    PROVE  /\ Weight(slot) \in Nat
                           /\ slot # NULL => Cost(slot) \in Nat /\ Weight(slot) = Cost(slot) + 1
BY DEF Weight, Cost

LEMMA PrivateIsNotNull == NULL \notin Privates
BY FilesAssumption DEF Privates

(***************************************************************************)
(* The sum over the table exists for every length of it.                   *)
(***************************************************************************)
HeldRun(table, n, h) ==
    h = [fd \in 0 .. n |->
            IF fd = 0 THEN 0
            ELSE h[fd - 1] + IF table[fd] = NULL THEN 0 ELSE Cost(table[fd]) + 1]

LEMMA HeldExists == ASSUME NEW table, NEW n \in Nat PROVE \E h : HeldRun(table, n, h)
<1> DEFINE S == {k \in Nat : \E h : HeldRun(table, k, h)}
<1>1. 0 \in S
  <2>1. HeldRun(table, 0, [fd \in 0 .. 0 |-> 0])
    BY DEF HeldRun
  <2> QED
    BY <2>1
<1>2. ASSUME NEW k \in S PROVE k + 1 \in S
  <2>1. PICK h : HeldRun(table, k, h)
    OBVIOUS
  <2> DEFINE g == [fd \in 0 .. k + 1 |->
            IF fd = 0 THEN 0
            ELSE h[fd - 1] + IF table[fd] = NULL THEN 0 ELSE Cost(table[fd]) + 1]
  <2>2. \A fd \in 0 .. k : g[fd] = h[fd]
    BY <2>1 DEF HeldRun
  <2>3. k \in Nat /\ \A fd \in 0 .. k + 1 : fd # 0 => fd - 1 \in 0 .. k
    OBVIOUS
  <2>4. HeldRun(table, k + 1, g)
    BY <2>2, <2>3 DEF HeldRun
  <2> HIDE DEF g
  <2>5. k + 1 \in Nat
    BY <2>3
  <2> QED
    BY <2>4, <2>5
<1>3. S = Nat
  <2> HIDE DEF S
  <2>1. S \subseteq Nat
    BY DEF S
  <2> QED
    BY <1>1, <1>2, <2>1, SetInduction
<1> QED
  BY <1>3

(***************************************************************************)
(* HeldBy adds the weights of the descriptors one by one.                  *)
(***************************************************************************)
Sums(table, h) == /\ HeldBy(table) = h[MaxFd] /\ h[0] = 0
                  /\ \A fd \in Fds : h[fd] = h[fd - 1] + Weight(table[fd])

LEMMA HeldSteps == ASSUME NEW table PROVE \E h : Sums(table, h)
<1> DEFINE h == CHOOSE h : h = [fd \in 0 .. MaxFd |->
            IF fd = 0 THEN 0
            ELSE h[fd - 1] + IF table[fd] = NULL THEN 0 ELSE Cost(table[fd]) + 1]
<1>0. MaxFd \in Nat \ {0}
  BY FilesAssumption
<1>1. h = [fd \in 0 .. MaxFd |->
            IF fd = 0 THEN 0
            ELSE h[fd - 1] + IF table[fd] = NULL THEN 0 ELSE Cost(table[fd]) + 1]
  <2>1. \E z : HeldRun(table, MaxFd, z)
    BY <1>0, HeldExists
  <2> QED
    BY <2>1 DEF HeldRun
<1>2. HeldBy(table) = h[MaxFd]
  BY DEF HeldBy
<1> HIDE DEF h
<1>3. h[0] = 0
  BY <1>0, <1>1
<1>4. ASSUME NEW fd \in Fds PROVE h[fd] = h[fd - 1] + Weight(table[fd])
  <2>1. fd \in 0 .. MaxFd /\ fd # 0
    BY <1>0 DEF Fds
  <2>2. h[fd] = h[fd - 1] + IF table[fd] = NULL THEN 0 ELSE Cost(table[fd]) + 1
    BY <1>1, <2>1
  <2> QED
    BY <2>2 DEF Weight
<1> QED
  BY <1>2, <1>3, <1>4 DEF Sums

(***************************************************************************)
(* The sum is a number, and when one descriptor changes it changes by the  *)
(* difference of that descriptor's weights.                                *)
(***************************************************************************)
LEMMA HeldNat == ASSUME NEW table \in [Fds -> Slots] PROVE HeldBy(table) \in Nat
<1>0. MaxFd \in Nat \ {0}
  BY FilesAssumption
<1>1. PICK h : Sums(table, h)
  BY HeldSteps
<1> DEFINE S == {k \in Nat : k <= MaxFd => h[k] \in Nat}
<1>2. 0 \in S
  BY <1>1 DEF Sums
<1>3. ASSUME NEW k \in S PROVE k + 1 \in S
  <2>1. CASE k + 1 <= MaxFd
    <3>1. k \in Nat /\ k <= MaxFd /\ k + 1 \in Fds /\ (k + 1) - 1 = k
      BY <1>0, <2>1 DEF Fds
    <3>2. h[k] \in Nat /\ Weight(table[k + 1]) \in Nat
      BY <3>1, SlotWeight
    <3>3. h[k + 1] = h[k] + Weight(table[k + 1])
      BY <1>1, <3>1 DEF Sums
    <3> QED
      BY <3>1, <3>2, <3>3
  <2>2. CASE ~ (k + 1 <= MaxFd)
    BY <2>2
  <2> QED
    BY <2>1, <2>2
<1>4. S = Nat
  <2> HIDE DEF S
  <2>1. S \subseteq Nat
    BY DEF S
  <2> QED
    BY <1>2, <1>3, <2>1, SetInduction
<1> QED
  BY <1>0, <1>1, <1>4 DEF Sums

LEMMA HeldExcept ==
    ASSUME NEW table \in [Fds -> Slots], NEW fd \in Fds, NEW slot \in Slots
    PROVE  HeldBy([table EXCEPT ![fd] = slot])
              = HeldBy(table) - Weight(table[fd]) + Weight(slot)
<1> DEFINE other == [table EXCEPT ![fd] = slot]
<1>0. MaxFd \in Nat \ {0} /\ fd \in Nat /\ fd <= MaxFd /\ 1 <= fd
  BY FilesAssumption DEF Fds
<1>1. /\ other \in [Fds -> Slots] /\ other[fd] = slot
      /\ \A k \in Fds : k # fd => other[k] = table[k]
  OBVIOUS
<1> HIDE DEF other
<1>2. PICK h : Sums(table, h)
  BY HeldSteps
<1>3. PICK g : Sums(other, g)
  BY HeldSteps
<1> DEFINE d == Weight(slot) - Weight(table[fd])
<1>4. Weight(slot) \in Nat /\ Weight(table[fd]) \in Nat /\ d \in Int
  BY SlotWeight
<1> DEFINE S == {k \in Nat : k <= MaxFd => /\ h[k] \in Int
                                           /\ g[k] = IF k < fd THEN h[k] ELSE h[k] + d}
<1>5. 0 \in S
  BY <1>0, <1>2, <1>3 DEF Sums
<1>6. ASSUME NEW k \in S PROVE k + 1 \in S
  <2>1. CASE k + 1 <= MaxFd
    <3>1. k \in Nat /\ k <= MaxFd /\ k + 1 \in Fds /\ (k + 1) - 1 = k
      BY <1>0, <2>1 DEF Fds
    <3>2. Weight(table[k + 1]) \in Nat
      BY <3>1, SlotWeight
    <3>3. h[k + 1] = h[k] + Weight(table[k + 1]) /\ g[k + 1] = g[k] + Weight(other[k + 1])
      BY <1>2, <1>3, <3>1 DEF Sums
    <3>4. h[k] \in Int /\ g[k] = IF k < fd THEN h[k] ELSE h[k] + d
      BY <3>1
    <3>5. CASE k + 1 = fd
      <4>1. Weight(other[k + 1]) = Weight(slot) /\ Weight(table[k + 1]) = Weight(table[fd])
        BY <1>1, <3>5
      <4>2. g[k + 1] = h[k + 1] + d /\ h[k + 1] \in Int
        BY <1>4, <3>1, <3>2, <3>3, <3>4, <3>5, <4>1
      <4> QED
        BY <1>0, <3>1, <3>5, <4>2
    <3>6. CASE k + 1 # fd
      <4>1. Weight(other[k + 1]) = Weight(table[k + 1])
        BY <1>1, <3>1, <3>6
      <4> HIDE DEF d
      <4>2. h[k + 1] \in Int /\ g[k + 1] = IF k + 1 < fd THEN h[k + 1] ELSE h[k + 1] + d
        BY <1>0, <1>4, <3>1, <3>2, <3>3, <3>4, <3>6, <4>1
      <4> QED
        BY <3>1, <4>2
    <3> QED
      BY <3>5, <3>6
  <2>2. CASE ~ (k + 1 <= MaxFd)
    BY <2>2
  <2> QED
    BY <2>1, <2>2
<1>7. S = Nat
  <2> HIDE DEF S
  <2>1. S \subseteq Nat
    BY DEF S
  <2> QED
    BY <1>5, <1>6, <2>1, SetInduction
<1>8. h[MaxFd] \in Int /\ g[MaxFd] = h[MaxFd] + d
  BY <1>0, <1>7
<1>9. HeldBy(table) = h[MaxFd] /\ HeldBy(other) = g[MaxFd]
  BY <1>2, <1>3 DEF Sums
<1> QED
  BY <1>4, <1>8, <1>9 DEF other

-----------------------------------------------------------------------------
(***************************************************************************)
(* The loop of the path parser exists for every number of components.      *)
(***************************************************************************)
ParseRun(parts, free, n, s) ==
    s = [k \in 0 .. n |->
            IF k = 0 THEN [room |-> free, parts |-> <<>>, stop |-> FALSE]
            ELSE parse_path_part(s[k - 1], parts[k])]

LEMMA ParseExists == ASSUME NEW parts, NEW free, NEW n \in Nat
                     PROVE  \E s : ParseRun(parts, free, n, s)
<1> DEFINE S == {k \in Nat : \E s : ParseRun(parts, free, k, s)}
<1>1. 0 \in S
  <2>1. ParseRun(parts, free, 0, [k \in 0 .. 0 |-> [room |-> free, parts |-> <<>>, stop |-> FALSE]])
    BY DEF ParseRun
  <2> QED
    BY <2>1
<1>2. ASSUME NEW k \in S PROVE k + 1 \in S
  <2>1. PICK s : ParseRun(parts, free, k, s)
    OBVIOUS
  <2> DEFINE t == [i \in 0 .. k + 1 |->
            IF i = 0 THEN [room |-> free, parts |-> <<>>, stop |-> FALSE]
            ELSE parse_path_part(s[i - 1], parts[i])]
  <2>0. k \in Nat
    OBVIOUS
  <2>2. \A i \in 0 .. k : i \in 0 .. k + 1 /\ t[i] = s[i]
    <3>1. \A i \in 0 .. k : i \in 0 .. k + 1
      BY <2>0
    <3>2. \A i \in 0 .. k : s[i] = IF i = 0 THEN [room |-> free, parts |-> <<>>, stop |-> FALSE]
                                   ELSE parse_path_part(s[i - 1], parts[i])
      <4> HIDE DEF t, S
      <4> QED
        BY <2>1, Zenon DEF ParseRun
    <3> QED
      BY <3>1, <3>2
  <2>3. k \in Nat /\ \A i \in 0 .. k + 1 : i # 0 => i - 1 \in 0 .. k
    BY <2>0
  <2>4. ParseRun(parts, free, k + 1, t)
    BY <2>2, <2>3 DEF ParseRun
  <2> HIDE DEF t
  <2>5. k + 1 \in Nat
    BY <2>3
  <2> QED
    BY <2>4, <2>5
<1>3. S = Nat
  <2> HIDE DEF S
  <2>1. S \subseteq Nat
    BY DEF S
  <2> QED
    BY <1>1, <1>2, <2>1, SetInduction
<1> QED
  BY <1>3

(***************************************************************************)
(* The components up to the n-th are the name up to an empty one.          *)
(***************************************************************************)
StopsAt(parts, n) == /\ n \in 0 .. Len(parts)
                     /\ \A i \in 1 .. n : parts[i] # Empty
                     /\ n < Len(parts) => parts[n + 1] = Empty

LEMMA NamedIs == ASSUME NEW path, path.parts \in Seq(STRING), NEW n, StopsAt(path.parts, n)
                 PROVE  Named(path) = SubSeq(path.parts, 1, n)
<1> DEFINE m == CHOOSE m \in 0 .. Len(path.parts) :
                   /\ \A i \in 1 .. m : path.parts[i] # Empty
                   /\ m < Len(path.parts) => path.parts[m + 1] = Empty
<1>0. Len(path.parts) \in Nat
  OBVIOUS
<1>1. StopsAt(path.parts, m)
  BY DEF StopsAt
<1>2. Named(path) = SubSeq(path.parts, 1, m)
  BY DEF Named
<1> HIDE DEF m
<1>3. ASSUME m < n PROVE FALSE
  <2>1. m + 1 \in 1 .. n /\ m < Len(path.parts)
    BY <1>0, <1>1, <1>3 DEF StopsAt
  <2> QED
    BY <1>1, <2>1 DEF StopsAt
<1>4. ASSUME n < m PROVE FALSE
  <2>1. n + 1 \in 1 .. m /\ n < Len(path.parts)
    BY <1>0, <1>1, <1>4 DEF StopsAt
  <2> QED
    BY <1>1, <2>1 DEF StopsAt
<1>5. m = n
  BY <1>0, <1>1, <1>3, <1>4 DEF StopsAt
<1> QED
  BY <1>2, <1>5

(***************************************************************************)
(* What the parser has done after k components: it has copied them all, or *)
(* it has stopped at an empty one, or when memory ended.                   *)
(***************************************************************************)
Parser == [room : Nat, parts : Seq(STRING), stop : BOOLEAN]

Parsed(parts, free, k, r) ==
    /\ r \in Parser /\ r.room <= free
    /\ \/ r.room = 0
       \/ /\ ~ r.stop /\ r.parts = SubSeq(parts, 1, k)
          /\ \A i \in 1 .. k : parts[i] # Empty
       \/ \E n \in 0 .. k : StopsAt(parts, n) /\ r.parts = SubSeq(parts, 1, n) /\ r.stop

LEMMA ParseStep == ASSUME NEW parts \in Seq(STRING), NEW free \in Nat, NEW k \in Nat,
                          k + 1 <= Len(parts), NEW r, Parsed(parts, free, k, r),
                          NEW t, t = parse_path_part(r, parts[k + 1])
                   PROVE  Parsed(parts, free, k + 1, t)
<1>0. /\ k + 1 \in 1 .. Len(parts) /\ Len(parts) \in Nat /\ parts[k + 1] \in STRING
      /\ k \in 0 .. Len(parts) /\ k < Len(parts) /\ k \in 0 .. k + 1
  OBVIOUS
<1>r. /\ r \in Parser /\ r.room \in Nat /\ r.room <= free /\ r.stop \in BOOLEAN
      /\ r.parts \in Seq(STRING) /\ r = [room |-> r.room, parts |-> r.parts, stop |-> r.stop]
  BY DEF Parsed, Parser
<1>1. CASE r.stop
  <2>1. t = r
    BY <1>1 DEF parse_path_part
  <2> QED
    BY <1>0, <1>1, <1>r, <2>1 DEF Parsed
<1>2. CASE ~ r.stop /\ parts[k + 1] = Empty
  <2>1. t = [room |-> r.room, parts |-> r.parts, stop |-> TRUE]
    BY <1>2, <1>r DEF parse_path_part
  <2>2. CASE r.room = 0
    BY <1>r, <2>1, <2>2 DEF Parsed, Parser
  <2>3. CASE r.room # 0
    <3>1. r.parts = SubSeq(parts, 1, k) /\ \A i \in 1 .. k : parts[i] # Empty
      BY <1>2, <2>3 DEF Parsed
    <3>2. StopsAt(parts, k)
      BY <1>0, <1>2, <3>1 DEF StopsAt
    <3> QED
      BY <1>0, <2>1, <1>r, <3>1, <3>2 DEF Parsed, Parser
  <2> QED
    BY <2>2, <2>3
<1>3. CASE ~ r.stop /\ parts[k + 1] # Empty /\ r.room < 2
  <2>1. t = [room |-> 0, parts |-> r.parts, stop |-> TRUE]
    BY <1>3, <1>r DEF parse_path_part
  <2> QED
    BY <1>r, <2>1 DEF Parsed, Parser
<1>4. CASE ~ r.stop /\ parts[k + 1] # Empty /\ ~ (r.room < 2)
  <2>1. t = [room |-> r.room - 2, parts |-> Append(r.parts, parts[k + 1]), stop |-> FALSE]
    BY <1>4, <1>r DEF parse_path_part
  <2>2. r.room \in Nat /\ r.room <= free /\ r.room - 2 \in Nat /\ r.room - 2 <= free
    BY <1>4, <1>r
  <2>3. r.parts = SubSeq(parts, 1, k) /\ \A i \in 1 .. k : parts[i] # Empty
    BY <1>4, <2>2 DEF Parsed
  <2>4. \A i \in 1 .. k + 1 : parts[i] # Empty
    <3>1. \A i \in 1 .. k + 1 : i \in 1 .. k \/ i = k + 1
      OBVIOUS
    <3> QED
      BY <1>4, <2>3, <3>1
  <2>5. Append(SubSeq(parts, 1, k), parts[k + 1]) = SubSeq(parts, 1, k + 1)
    OBVIOUS
  <2>6. t.parts \in Seq(STRING)
    BY <1>0, <1>r, <2>1
  <2> QED
    BY <2>1, <2>2, <2>3, <2>4, <2>5, <2>6 DEF Parsed, Parser
<1> QED
  BY <1>1, <1>2, <1>3, <1>4

(***************************************************************************)
(* pathparser_parse takes memory from every valid name, and what it makes  *)
(* of it are the components up to an empty one, or memory has ended.       *)
(***************************************************************************)
LEMMA ParserRight ==
    ASSUME room \in Nat, NEW path \in Path
    PROVE  LET p == pathparser_parse(path)
           IN  /\ p.room \in Nat
               /\ IF is_valid_path(path) /\ room > 0
                    THEN p.room < room /\ (p.room = 0 \/ p.parts = Named(path))
                    ELSE p.room = room /\ p.parts = <<>>
<1>1. CASE ~ is_valid_path(path) \/ room = 0
  <2>1. pathparser_parse(path) = [room |-> room, parts |-> <<>>]
    BY <1>1 DEF pathparser_parse
  <2> QED
    BY <1>1, <2>1
<1>2. CASE is_valid_path(path) /\ room # 0
  <2> DEFINE parts == path.parts
             n == Len(parts)
             s == CHOOSE s : s = [k \in 0 .. n |->
                     IF k = 0 THEN [room |-> room - 1, parts |-> <<>>, stop |-> FALSE]
                     ELSE parse_path_part(s[k - 1], parts[k])]
  <2>1. parts \in Seq(STRING)
    BY DEF Path
  <2>2. pathparser_parse(path) = [room |-> s[n].room, parts |-> s[n].parts]
    BY <1>2 DEF pathparser_parse
  <2>3. Named(path) = Named(path) /\ room - 1 \in Nat /\ room - 1 < room /\ room > 0
    BY <1>2
  <2>4. \A m : StopsAt(parts, m) => Named(path) = SubSeq(parts, 1, m)
    BY <2>1, NamedIs
  <2> HIDE DEF parts
  <2>5. n \in Nat
    BY <2>1
  <2> HIDE DEF n
  <2>6. s = [k \in 0 .. n |-> IF k = 0 THEN [room |-> room - 1, parts |-> <<>>, stop |-> FALSE]
                             ELSE parse_path_part(s[k - 1], parts[k])]
    <3>1. \E z : ParseRun(parts, room - 1, n, z)
      BY <2>5, ParseExists
    <3> QED
      BY <3>1 DEF ParseRun
  <2> HIDE DEF s
  <2>7. s[0] = [room |-> room - 1, parts |-> <<>>, stop |-> FALSE]
    BY <2>5, <2>6
  <2>8. \A k \in 0 .. n - 1 : s[k + 1] = parse_path_part(s[k], parts[k + 1])
    <3>1. \A k \in 0 .. n - 1 : k + 1 \in 0 .. n /\ k + 1 # 0 /\ (k + 1) - 1 = k
      BY <2>5
    <3> QED
      BY <2>6, <3>1
  <2> DEFINE S == {k \in Nat : k <= n => Parsed(parts, room - 1, k, s[k])}
  <2>9. 0 \in S
    <3>1. SubSeq(parts, 1, 0) = <<>> /\ <<>> \in Seq(STRING)
      BY <2>1
    <3>2. s[0] \in Parser /\ s[0].room = room - 1 /\ ~ s[0].stop /\ s[0].parts = <<>>
      BY <2>3, <2>7, <3>1 DEF Parser
    <3>3. \A i \in 1 .. 0 : parts[i] # Empty
      OBVIOUS
    <3>4. Parsed(parts, room - 1, 0, s[0])
      BY <2>3, <3>1, <3>2, <3>3 DEF Parsed
    <3> QED
      BY <3>4
  <2>10. ASSUME NEW k \in S PROVE k + 1 \in S
    <3>1. k \in Nat
      OBVIOUS
    <3>2. CASE k + 1 <= n
      <4>1. Parsed(parts, room - 1, k, s[k])
        BY <2>5, <3>1, <3>2
      <4>0. k \in 0 .. n - 1 /\ k + 1 <= Len(parts)
        BY <2>5, <3>1, <3>2 DEF n
      <4>2. s[k + 1] = parse_path_part(s[k], parts[k + 1])
        BY <2>8, <4>0
      <4>3. Parsed(parts, room - 1, k + 1, s[k + 1])
        BY <2>1, <2>3, <3>1, <4>0, <4>1, <4>2, ParseStep
      <4> QED
        BY <3>1, <4>3
    <3>3. CASE ~ (k + 1 <= n)
      BY <3>1, <3>3
    <3> QED
      BY <3>2, <3>3
  <2>11. S = Nat
    <3> HIDE DEF S
    <3>1. S \subseteq Nat
      BY DEF S
    <3> QED
      BY <2>9, <2>10, <3>1, SetInduction
  <2>12. Parsed(parts, room - 1, n, s[n])
    BY <2>5, <2>11
  <2>13. s[n].room = 0 \/ s[n].parts = Named(path)
    <3>1. CASE s[n].parts = SubSeq(parts, 1, n) /\ \A i \in 1 .. n : parts[i] # Empty
      <4>1. StopsAt(parts, n)
        BY <2>5, <3>1 DEF StopsAt, n
      <4> QED
        BY <2>4, <3>1, <4>1
    <3> QED
      BY <2>4, <2>12, <3>1 DEF Parsed
  <2>14. s[n].room \in Nat /\ s[n].room <= room - 1
    BY <2>12 DEF Parsed, Parser
  <2> QED
    BY <1>2, <2>2, <2>3, <2>13, <2>14
<1> QED
  BY <1>1, <1>2

-----------------------------------------------------------------------------
(***************************************************************************)
(* What the file system returns: nothing, or an item for the whole path    *)
(* with the memory it costs.                                               *)
(***************************************************************************)
LEMMA FsOpenRight ==
    ASSUME NEW free \in Nat, NEW parts, NEW mode, NEW o \in fs_open(free, parts, mode)
    PROVE  /\ o.room \in Nat /\ o.room <= free
           /\ \/ o.private = NULL
              \/ /\ o.private \in Privates /\ o.private.path = parts /\ free # 0
                 /\ o.private.kind = Volume[parts] /\ parts \in DOMAIN Volume
                 /\ o.room + Cost(o.private) = free
<1> DEFINE Private(loaded) == [path |-> parts, kind |-> Volume[parts], loaded |-> loaded]
           found == IF parts \in DOMAIN Volume THEN {Private(TRUE)} ELSE {}
           bare  == IF parts \in DOMAIN Volume /\ free < Peak THEN {Private(FALSE)} ELSE {}
<1>1. CASE mode # "r" \/ free = 0
  BY <1>1 DEF fs_open
<1>2. CASE ~ (mode # "r" \/ free = 0)
  <2>1. CASE \E p \in {q \in found \cup bare : Cost(q) <= free} :
                o = [room |-> free - Cost(p), private |-> p]
    <3>1. PICK p \in found \cup bare : Cost(p) <= free /\ o = [room |-> free - Cost(p), private |-> p]
      BY <2>1
    <3>2. parts \in DOMAIN Volume /\ Volume[parts] \in {"file", "directory"}
      BY <3>1, FilesAssumption
    <3>3. p \in Privates /\ p.path = parts /\ p.kind = Volume[parts]
      <4>1. PICK l \in BOOLEAN : p = Private(l)
        BY <3>1, <3>2
      <4> QED
        BY <3>2, <4>1 DEF Privates
    <3>4. Cost(p) \in Nat
      BY <3>3, SlotWeight, PrivateIsNotNull DEF Slots
    <3> QED
      BY <1>2, <3>1, <3>2, <3>3, <3>4
  <2>2. CASE \/ o \in {[room |-> free - 1, private |-> NULL]}
             \/ o \in {[room |-> r, private |-> NULL] : r \in 0 .. free - 1}
    BY <1>2, <2>2
  <2> QED
    BY <1>2, <2>1, <2>2 DEF fs_open
<1> QED
  BY <1>1, <1>2

(***************************************************************************)
(* The slot that file_new_descriptor finds is one, and is empty.           *)
(***************************************************************************)
LEMMA NewDescriptor == \/ file_new_descriptor = 0
                       \/ /\ file_new_descriptor \in Fds
                          /\ file_descriptors[file_new_descriptor] = NULL
<1> DEFINE free == {fd \in Fds : file_descriptors[fd] = NULL}
<1>1. CASE free = {}
  BY <1>1 DEF file_new_descriptor
<1>2. CASE free # {}
  <2>1. free \subseteq Nat
    BY FilesAssumption DEF Fds
  <2>2. \E fd \in free : \A g \in free : fd <= g
    <3> HIDE DEF free
    <3> QED
      BY <1>2, <2>1, Least
  <2>3. file_new_descriptor = CHOOSE fd \in free : \A g \in free : fd <= g
    BY <1>2 DEF file_new_descriptor
  <2>4. file_new_descriptor \in free
    <3> HIDE DEF free
    <3> QED
      BY <2>2, <2>3
  <2> QED
    BY <2>4
<1> QED
  BY <1>1, <1>2

-----------------------------------------------------------------------------
(***************************************************************************)
(* The inductive invariant: the table's type, and memory: what is free and *)
(* what the descriptors hold is never more than there is.                  *)
(***************************************************************************)
RoomLeft == room + HeldBy(file_descriptors) <= Blocks

FilesInv == TypeOK /\ Table(file_descriptors) /\ RoomLeft

(***************************************************************************)
(* What fopen does: it fails with the table as it was; or it returns the   *)
(* number of a slot that stays empty, with no memory left; or it fills     *)
(* that slot with an item for the whole path.  A valid name has cost       *)
(* memory.                                                                 *)
(***************************************************************************)
Filled(path, fd, p) ==
    /\ p \in Privates /\ p.path = Named(path) /\ p.kind = Volume[p.path]
    /\ file_descriptors' = [file_descriptors EXCEPT ![fd] = p]
    /\ room' + Cost(p) + 1 < room

FopenEffect(path) ==
    /\ last'.call = "fopen" /\ last'.path = path /\ wild' = wild /\ mounted' = mounted
    /\ room' \in Nat
    /\ IF is_valid_path(path) /\ room > 0
         THEN \/ last'.fd = 0 /\ file_descriptors' = file_descriptors /\ room' < room
              \/ /\ last'.fd \in Fds /\ file_descriptors[last'.fd] = NULL
                 /\ \/ room' = 0 /\ file_descriptors' = file_descriptors
                    \/ \E p \in Privates : Filled(path, last'.fd, p)
         ELSE last'.fd = 0 /\ file_descriptors' = file_descriptors /\ room' = room

LEMMA FopenDoes == ASSUME FilesInv, NEW path \in Path, NEW mode, fopen(path, mode)
                   PROVE  FopenEffect(path)
<1> DEFINE parsed == pathparser_parse(path)
           fd == file_new_descriptor
           valid == is_valid_path(path) /\ room > 0
<1>0. room \in Nat
  BY FilesAssumption DEF FilesInv, TypeOK
<1>1. /\ parsed.room \in Nat
      /\ IF valid THEN parsed.room < room /\ (parsed.room = 0 \/ parsed.parts = Named(path))
         ELSE parsed.room = room /\ parsed.parts = <<>>
  BY <1>0, ParserRight
<1>2. fd = 0 \/ (fd \in Fds /\ file_descriptors[fd] = NULL)
  BY NewDescriptor
<1>3. wild' = wild /\ mounted' = mounted
  BY DEF fopen
<1>4. CASE room' = parsed.room /\ Opened(path, 0) /\ UNCHANGED file_descriptors
  <2>1. last'.call = "fopen" /\ last'.path = path /\ last'.fd = 0
    BY <1>4 DEF Opened
  <2> HIDE DEF parsed, fd, valid
  <2> QED
    BY <1>0, <1>1, <1>3, <1>4, <2>1 DEF FopenEffect, valid
<1>5. CASE /\ parsed.parts # <<>>
           /\ \E opened \in fs_open(parsed.room, parsed.parts, mode) :
                IF opened.private = NULL \/ fd = 0
                THEN /\ room' = opened.room
                     /\ Opened(path, 0) /\ UNCHANGED file_descriptors
                ELSE /\ Opened(path, fd)
                     /\ IF opened.room = 0
                          THEN room' = 0 /\ UNCHANGED file_descriptors
                          ELSE /\ room' = opened.room - 1
                               /\ file_descriptors' = [file_descriptors EXCEPT ![fd] = opened.private]
  <2>1. PICK o \in fs_open(parsed.room, parsed.parts, mode) :
                IF o.private = NULL \/ fd = 0
                THEN /\ room' = o.room
                     /\ Opened(path, 0) /\ UNCHANGED file_descriptors
                ELSE /\ Opened(path, fd)
                     /\ IF o.room = 0
                          THEN room' = 0 /\ UNCHANGED file_descriptors
                          ELSE /\ room' = o.room - 1
                               /\ file_descriptors' = [file_descriptors EXCEPT ![fd] = o.private]
    BY <1>5
  <2>2. /\ o.room \in Nat /\ o.room <= parsed.room
        /\ \/ o.private = NULL
           \/ /\ o.private \in Privates /\ o.private.path = parsed.parts /\ parsed.room # 0
              /\ o.private.kind = Volume[parsed.parts] /\ parsed.parts \in DOMAIN Volume
              /\ o.room + Cost(o.private) = parsed.room
    BY <1>1, FsOpenRight
  <2>3. valid
    BY <1>1, <1>5
  <2>4. last'.call = "fopen" /\ last'.path = path
    BY <2>1 DEF Opened
  <2> HIDE DEF parsed, fd
  <2>5. CASE o.private = NULL \/ fd = 0
    <3>1. room' = o.room /\ last'.fd = 0 /\ file_descriptors' = file_descriptors
      BY <2>1, <2>5 DEF Opened
    <3> QED
      BY <1>0, <1>1, <1>3, <2>2, <2>3, <2>4, <3>1 DEF FopenEffect
  <2>6. CASE ~ (o.private = NULL \/ fd = 0) /\ o.room = 0
    <3>1. room' = 0 /\ last'.fd = fd /\ file_descriptors' = file_descriptors
      BY <2>1, <2>6 DEF Opened
    <3> QED
      BY <1>2, <1>3, <2>3, <2>4, <2>6, <3>1 DEF FopenEffect
  <2>7. CASE ~ (o.private = NULL \/ fd = 0) /\ o.room # 0
    <3>1. /\ room' = o.room - 1 /\ last'.fd = fd
          /\ file_descriptors' = [file_descriptors EXCEPT ![fd] = o.private]
      BY <2>1, <2>7 DEF Opened
    <3>2. parsed.parts = Named(path)
      BY <1>1, <2>2, <2>3, <2>7
    <3>3. Cost(o.private) \in Nat
      BY <2>2, <2>7, SlotWeight DEF Slots
    <3>4. room' + Cost(o.private) + 1 < room /\ room' \in Nat
      BY <1>0, <1>1, <2>2, <2>3, <2>7, <3>1, <3>3
    <3>5. Filled(path, fd, o.private)
      BY <2>2, <2>7, <3>1, <3>2, <3>4 DEF Filled
    <3> QED
      BY <1>2, <1>3, <2>2, <2>3, <2>4, <2>7, <3>1, <3>4, <3>5 DEF FopenEffect
  <2> QED
    BY <2>5, <2>6, <2>7
<1> QED
  BY <1>4, <1>5 DEF fopen

(***************************************************************************)
(* What fclose does: nothing but an error, or it empties a slot other than *)
(* the last and gives back its weight.                                     *)
(***************************************************************************)
Emptied(fd) == /\ fd \in Fds \ {MaxFd} /\ file_descriptors[fd] # NULL
               /\ room' = room + Cost(file_descriptors[fd]) + 1
               /\ file_descriptors' = [file_descriptors EXCEPT ![fd] = NULL]

LEMMA FcloseDoes == ASSUME FilesInv, NEW fd \in Int, fclose(fd)
                    PROVE  /\ last'.call = "fclose" /\ mounted' = mounted /\ wild' = wild
                           /\ \/ room' = room /\ file_descriptors' = file_descriptors
                              \/ Emptied(fd)
<1>0. room \in Nat /\ MaxFd \in Nat \ {0}
  BY FilesAssumption DEF FilesInv, TypeOK
<1>1. CASE file_get_descriptor(fd) = NULL
  BY <1>1 DEF fclose, Result
<1>2. CASE file_get_descriptor(fd) # NULL
  <2>1. fd \in Fds \ {MaxFd} /\ file_get_descriptor(fd) = file_descriptors[fd]
    BY <1>0, <1>2 DEF file_get_descriptor, Fds
  <2>2. file_descriptors[fd] \in Slots
    BY <2>1 DEF FilesInv, Table
  <2>3. room' = room + (Cost(file_descriptors[fd]) + 1)
    BY <1>2, <2>1 DEF fclose, CloseFrees
  <2>4. room' = room + Cost(file_descriptors[fd]) + 1
    BY <1>0, <1>2, <2>1, <2>2, <2>3, SlotWeight
  <2> QED
    BY <1>2, <2>1, <2>4 DEF fclose, Result, Emptied
<1> QED
  BY <1>1, <1>2

(***************************************************************************)
(* What fread, fseek and fstat do: the table and memory stay as they are,  *)
(* and a pointer is followed astray only where DescriptorsRight says.      *)
(***************************************************************************)
Astray == \/ last'.call = "fseek" /\ last'.fd \notin Open \ {MaxFd}
          \/ last'.call = "fread" /\ file_descriptors[last'.fd].kind = "directory"
          \/ last'.fd \in Open /\ ~ file_descriptors[last'.fd].loaded

LEMMA UsesDo == ASSUME FilesInv, NEW fd \in Int, fread(fd) \/ fseek(fd) \/ fstat(fd)
                PROVE  /\ last'.call \in {"fread", "fseek", "fstat"}
                       /\ mounted' = mounted /\ wild' \in BOOLEAN
                       /\ room' = room /\ file_descriptors' = file_descriptors
                       /\ wild' /\ ~ wild => Astray
<1> DEFINE d == file_get_descriptor(fd)
<1>0. MaxFd \in Nat \ {0} /\ wild \in BOOLEAN
  BY FilesAssumption DEF FilesInv, TypeOK
<1>1. CASE d = NULL
  <2>1. fd \notin Open \ {MaxFd}
    BY <1>0, <1>1 DEF file_get_descriptor, Open, Fds
  <2>2. CASE fread(fd)
    BY <1>0, <1>1, <2>2 DEF fread, Result
  <2>3. CASE fseek(fd)
    <3>1. last'.call = "fseek" /\ last'.fd = fd
      BY <1>1, <2>3 DEF fseek, Result
    <3>2. wild' = wild \/ wild' = TRUE
      BY <1>1, <2>3 DEF fseek
    <3>3. wild' \in BOOLEAN
      BY <1>0, <3>2
    <3> QED
      BY <2>1, <2>3, <3>1, <3>3 DEF fseek, Astray
  <2>4. CASE fstat(fd)
    BY <1>0, <1>1, <2>4 DEF fstat, Result
  <2> QED
    BY <2>2, <2>3, <2>4
<1>2. CASE d # NULL
  <2>1. fd \in Open /\ d = file_descriptors[fd]
    BY <1>0, <1>2 DEF file_get_descriptor, Open, Fds
  <2>2. CASE fread(fd)
    <3>1. /\ last'.call = "fread" /\ last'.fd = fd
          /\ wild' = (d.kind = "directory" \/ ~ d.loaded)
      BY <1>2, <2>2 DEF fread, Result
    <3>2. wild' \in BOOLEAN /\ (wild' => Astray)
      BY <2>1, <3>1 DEF Astray
    <3> QED
      BY <2>2, <3>1, <3>2 DEF fread
  <2>3. CASE fseek(fd)
    <3>1. /\ last'.call = "fseek" /\ last'.fd = fd
          /\ wild' = wild \/ wild' = ~ d.loaded
      BY <1>2, <2>3 DEF fseek, Result
    <3>2. ASSUME wild' = wild PROVE wild' \in BOOLEAN /\ (wild' /\ ~ wild => Astray)
      BY <1>0, <3>2
    <3>3. ASSUME wild' = ~ d.loaded PROVE wild' \in BOOLEAN /\ (wild' /\ ~ wild => Astray)
      BY <2>1, <3>1, <3>3 DEF Astray
    <3>4. wild' \in BOOLEAN /\ (wild' /\ ~ wild => Astray)
      <4> HIDE DEF d
      <4> QED
        BY <3>1, <3>2, <3>3
    <3> QED
      BY <2>3, <3>1, <3>4 DEF fseek
  <2>4. CASE fstat(fd)
    <3>1. /\ last'.call = "fstat" /\ last'.fd = fd
          /\ wild' = wild \/ wild' = ~ d.loaded
      BY <1>2, <2>4 DEF fstat, Result
    <3>2. ASSUME wild' = wild PROVE wild' \in BOOLEAN /\ (wild' /\ ~ wild => Astray)
      BY <1>0, <3>2
    <3>3. ASSUME wild' = ~ d.loaded PROVE wild' \in BOOLEAN /\ (wild' /\ ~ wild => Astray)
      BY <2>1, <3>1, <3>3 DEF Astray
    <3>4. wild' \in BOOLEAN /\ (wild' /\ ~ wild => Astray)
      <4> HIDE DEF d
      <4> QED
        BY <3>1, <3>2, <3>3
    <3> QED
      BY <2>4, <3>1, <3>4 DEF fstat
  <2> QED
    BY <2>2, <2>3, <2>4
<1> QED
  BY <1>1, <1>2

(***************************************************************************)
(* Every step is one of these.                                             *)
(***************************************************************************)
LEMMA StepIs ==
    ASSUME FilesInv, Next
    PROVE  \/ \E path \in Path : FopenEffect(path)
           \/ \E fd \in Int : /\ last'.call = "fclose" /\ mounted' = mounted /\ wild' = wild
                             /\ \/ room' = room /\ file_descriptors' = file_descriptors
                                \/ Emptied(fd)
           \/ /\ last'.call \in {"fread", "fseek", "fstat"}
              /\ mounted' = mounted /\ wild' \in BOOLEAN
              /\ room' = room /\ file_descriptors' = file_descriptors
              /\ wild' /\ ~ wild => Astray
<1>1. CASE \E path \in Paths, mode \in {"r", "w", "x"} : fopen(path, mode)
  <2>1. PICK path \in Paths : \E mode : fopen(path, mode)
    BY <1>1
  <2>2. PICK mode : fopen(path, mode)
    BY <2>1
  <2>3. path \in Path
    BY FilesAssumption
  <2> QED
    BY <2>2, <2>3, FopenDoes
<1>2. CASE \E fd \in 0 .. MaxFd + 1 : fread(fd) \/ fseek(fd) \/ fstat(fd) \/ fclose(fd)
  <2>1. PICK fd \in 0 .. MaxFd + 1 : fread(fd) \/ fseek(fd) \/ fstat(fd) \/ fclose(fd)
    BY <1>2
  <2>2. fd \in Int
    BY FilesAssumption
  <2>3. CASE fclose(fd)
    BY <2>2, <2>3, FcloseDoes
  <2>4. CASE fread(fd) \/ fseek(fd) \/ fstat(fd)
    BY <2>2, <2>4, UsesDo
  <2> QED
    BY <2>1, <2>3, <2>4
<1> QED
  BY <1>1, <1>2 DEF Next

-----------------------------------------------------------------------------
(***************************************************************************)
(* What the descriptors hold when one is filled or emptied.                *)
(***************************************************************************)
LEMMA FilledHolds == ASSUME Table(file_descriptors), NEW path, NEW fd \in Fds, NEW p \in Privates,
                            file_descriptors[fd] = NULL, Filled(path, fd, p)
                     PROVE  /\ Table(file_descriptors)' /\ Cost(p) \in Nat
                            /\ HeldBy(file_descriptors)' = HeldBy(file_descriptors) + Cost(p) + 1
<1>1. p \in Slots /\ p # NULL /\ NULL \in Slots
  BY PrivateIsNotNull DEF Slots
<1>2. file_descriptors \in [Fds -> Slots]
  BY DEF Table
<1>3. file_descriptors' = [file_descriptors EXCEPT ![fd] = p]
  BY DEF Filled
<1>4. Cost(p) \in Nat /\ Weight(p) = Cost(p) + 1 /\ Weight(file_descriptors[fd]) = 0
  BY <1>1, SlotWeight DEF Weight
<1>5. HeldBy(file_descriptors) \in Nat
  BY <1>2, HeldNat
<1>6. HeldBy(file_descriptors') = HeldBy(file_descriptors) - 0 + (Cost(p) + 1)
  BY <1>1, <1>2, <1>3, <1>4, HeldExcept
<1>7. Table(file_descriptors')
  BY <1>1, <1>2, <1>3 DEF Table, Filled
<1>8. HeldBy(file_descriptors') = HeldBy(file_descriptors) + Cost(p) + 1
  BY <1>4, <1>5, <1>6
<1> QED
  BY <1>4, <1>7, <1>8

LEMMA EmptiedHolds == ASSUME Table(file_descriptors), NEW fd, Emptied(fd)
                      PROVE  /\ Table(file_descriptors)' /\ Cost(file_descriptors[fd]) \in Nat
                             /\ HeldBy(file_descriptors)' + Cost(file_descriptors[fd]) + 1
                                    = HeldBy(file_descriptors)
<1> DEFINE p == file_descriptors[fd]
<1>1. fd \in Fds /\ p \in Slots /\ p # NULL /\ NULL \in Slots
  BY DEF Slots, Table, Emptied
<1>2. file_descriptors \in [Fds -> Slots]
  BY DEF Table
<1>3. file_descriptors' = [file_descriptors EXCEPT ![fd] = NULL]
  BY DEF Emptied
<1>4. Cost(p) \in Nat /\ Weight(p) = Cost(p) + 1 /\ Weight(NULL) = 0
  BY <1>1, SlotWeight DEF Weight
<1>5. HeldBy(file_descriptors) \in Nat
  BY <1>2, HeldNat
<1>6. HeldBy(file_descriptors') = HeldBy(file_descriptors) - (Cost(p) + 1) + 0
  BY <1>1, <1>2, <1>3, <1>4, HeldExcept
<1>7. Table(file_descriptors')
  BY <1>1, <1>2, <1>3 DEF Table
<1>8. HeldBy(file_descriptors') + Cost(p) + 1 = HeldBy(file_descriptors)
  BY <1>4, <1>5, <1>6
<1> QED
  BY <1>4, <1>7, <1>8

(***************************************************************************)
(* The type of the table and of the rest make up TypeOK.                   *)
(***************************************************************************)
Besides == /\ room \in 0 .. Blocks /\ mounted \in BOOLEAN /\ wild \in BOOLEAN
           /\ last.call \in {"none", "fopen", "fread", "fseek", "fstat", "fclose"}

LEMMA TypeFrom == Table(file_descriptors) /\ Besides => TypeOK
<1> SUFFICES ASSUME Table(file_descriptors), Besides PROVE TypeOK
  OBVIOUS
<1>1. \A fd \in Open : /\ file_descriptors[fd] \in Privates
                      /\ file_descriptors[fd].kind = Volume[file_descriptors[fd].path]
  BY DEF Open, Table, Slots
<1>2. \A p \in Privates : p.path \in DOMAIN Volume /\ p.loaded \in BOOLEAN
  BY DEF Privates
<1> QED
  BY <1>1, <1>2 DEF TypeOK, Besides

LEMMA InitInv == Init => FilesInv
<1> SUFFICES ASSUME Init PROVE FilesInv
  OBVIOUS
<1>0. MaxFd \in Nat \ {0} /\ Blocks \in Nat
  BY FilesAssumption
<1>1. file_descriptors \in [Fds -> Slots] /\ \A fd \in Fds : file_descriptors[fd] = NULL
  BY DEF Init, fs_init, Slots
<1>2. HeldBy(file_descriptors) = 0
  <2>1. PICK h : Sums(file_descriptors, h)
    BY HeldSteps
  <2> DEFINE S == {k \in Nat : k <= MaxFd => h[k] = 0}
  <2>2. 0 \in S
    BY <2>1 DEF Sums
  <2>3. ASSUME NEW k \in S PROVE k + 1 \in S
    <3>1. CASE k + 1 <= MaxFd
      <4>1. k \in Nat /\ k <= MaxFd /\ k + 1 \in Fds /\ (k + 1) - 1 = k
        BY <1>0, <3>1 DEF Fds
      <4>2. h[k] = 0 /\ Weight(file_descriptors[k + 1]) = 0
        BY <1>1, <4>1 DEF Weight
      <4>3. h[k + 1] = h[k] + Weight(file_descriptors[k + 1])
        BY <2>1, <4>1 DEF Sums
      <4> QED
        BY <4>1, <4>2, <4>3
    <3>2. CASE ~ (k + 1 <= MaxFd)
      BY <3>2
    <3> QED
      BY <3>1, <3>2
  <2>4. S = Nat
    <3> HIDE DEF S
    <3>1. S \subseteq Nat
      BY DEF S
    <3> QED
      BY <2>2, <2>3, <3>1, SetInduction
  <2> QED
    BY <1>0, <2>1, <2>4 DEF Sums
<1>3. Table(file_descriptors)
  BY <1>1 DEF Table
<1>4. Besides
  <2>1. room \in 0 .. Blocks /\ last.call = "none" /\ mounted \in BOOLEAN /\ wild = FALSE
    BY <1>0 DEF Init
  <2> QED
    BY <2>1 DEF Besides
<1>5. TypeOK
  BY <1>3, <1>4, TypeFrom
<1> QED
  BY <1>0, <1>2, <1>3, <1>5 DEF FilesInv, RoomLeft, Init

LEMMA NextInv == ASSUME FilesInv, [Next]_vars PROVE FilesInv'
<1>0. /\ room \in Nat /\ room <= Blocks /\ Blocks \in Nat
      /\ mounted \in BOOLEAN /\ wild \in BOOLEAN /\ Table(file_descriptors)
      /\ last.call \in {"none", "fopen", "fread", "fseek", "fstat", "fclose"}
      /\ room + HeldBy(file_descriptors) <= Blocks
  BY FilesAssumption DEF FilesInv, TypeOK, RoomLeft
<1>1. HeldBy(file_descriptors) \in Nat
  BY <1>0, HeldNat DEF Table
<1> DEFINE Kept == /\ room' \in Nat /\ mounted' \in BOOLEAN /\ wild' \in BOOLEAN
                   /\ last'.call \in {"none", "fopen", "fread", "fseek", "fstat", "fclose"}
                   /\ Table(file_descriptors)' /\ HeldBy(file_descriptors)' \in Nat
                   /\ room' + HeldBy(file_descriptors)' <= Blocks
<1>2. Kept => FilesInv'
  <2>1. SUFFICES ASSUME Kept PROVE FilesInv'
    OBVIOUS
  <2>2. room' \in 0 .. Blocks
    BY <1>0, <2>1
  <2>3. Table(file_descriptors)' /\ Besides'
    BY <2>1, <2>2 DEF Besides
  <2>4. TypeOK'
    BY <2>3, TypeFrom, PTL
  <2> QED
    BY <2>1, <2>4 DEF FilesInv, RoomLeft
<1>3. CASE UNCHANGED vars
  <2>1. Table(file_descriptors)' /\ HeldBy(file_descriptors)' = HeldBy(file_descriptors)
    BY <1>0, <1>3 DEF vars, Table, HeldBy
  <2>2. Kept
    BY <1>0, <1>1, <1>3, <2>1 DEF vars
  <2> QED
    BY <1>2, <2>2
<1>4. ASSUME file_descriptors' = file_descriptors, room' \in Nat, room' <= room,
             mounted' = mounted, wild' \in BOOLEAN,
             last'.call \in {"none", "fopen", "fread", "fseek", "fstat", "fclose"}
      PROVE  FilesInv'
  <2>1. Table(file_descriptors)' /\ HeldBy(file_descriptors)' = HeldBy(file_descriptors)
    BY <1>0, <1>4 DEF Table, HeldBy
  <2>2. Kept
    BY <1>0, <1>1, <1>4, <2>1
  <2> QED
    BY <1>2, <2>2
<1>5. ASSUME NEW path \in Path, FopenEffect(path), file_descriptors' # file_descriptors
      PROVE  FilesInv'
  <2>1. /\ last'.fd \in Fds /\ file_descriptors[last'.fd] = NULL
        /\ \E p \in Privates : Filled(path, last'.fd, p)
        /\ room' \in Nat /\ last'.call = "fopen" /\ wild' = wild /\ mounted' = mounted
    BY <1>5 DEF FopenEffect
  <2>2. PICK p \in Privates : Filled(path, last'.fd, p)
    BY <2>1
  <2>3. /\ Table(file_descriptors)' /\ Cost(p) \in Nat
        /\ HeldBy(file_descriptors)' = HeldBy(file_descriptors) + Cost(p) + 1
    BY <1>0, <2>1, <2>2, FilledHolds
  <2>4. room' + Cost(p) + 1 < room
    BY <2>2 DEF Filled
  <2>5. Kept
    BY <1>0, <1>1, <2>1, <2>3, <2>4
  <2> QED
    BY <1>2, <2>5
<1>6. ASSUME NEW fd \in Int, Emptied(fd), last'.call = "fclose", mounted' = mounted, wild' = wild
      PROVE  FilesInv'
  <2>1. /\ Table(file_descriptors)' /\ Cost(file_descriptors[fd]) \in Nat
        /\ HeldBy(file_descriptors)' + Cost(file_descriptors[fd]) + 1 = HeldBy(file_descriptors)
    BY <1>0, <1>6, EmptiedHolds
  <2>2. room' = room + Cost(file_descriptors[fd]) + 1
    BY <1>6 DEF Emptied
  <2>3. HeldBy(file_descriptors)' \in Nat
    <3>1. (file_descriptors \in [Fds -> Slots])'
      BY <2>1 DEF Table
    <3> QED
      BY <3>1, HeldNat
  <2>4. Kept
    BY <1>0, <1>1, <1>6, <2>1, <2>2, <2>3
  <2> QED
    BY <1>2, <2>4
<1> HIDE DEF Kept
<1>7. CASE Next
  <2>1. CASE \E path \in Path : FopenEffect(path)
    <3>1. PICK path \in Path : FopenEffect(path)
      BY <2>1
    <3>2. CASE file_descriptors' = file_descriptors
      <4>1. /\ room' \in Nat /\ mounted' = mounted /\ wild' = wild /\ last'.call = "fopen"
        BY <3>1 DEF FopenEffect
      <4>2. ~ \E p \in Privates : Filled(path, last'.fd, p) /\ last'.fd \in Fds /\ file_descriptors[last'.fd] = NULL
        BY <1>0, <3>2, PrivateIsNotNull DEF Filled, Table
      <4>3. room' <= room
        BY <1>0, <3>1, <4>1, <4>2 DEF FopenEffect
      <4> QED
        BY <1>0, <1>4, <3>2, <4>1, <4>3
    <3> QED
      BY <1>5, <3>1, <3>2
  <2>2. CASE \E fd \in Int : /\ last'.call = "fclose" /\ mounted' = mounted /\ wild' = wild
                           /\ \/ room' = room /\ file_descriptors' = file_descriptors
                              \/ Emptied(fd)
    <3>1. wild' \in BOOLEAN
      BY <1>0, <2>2
    <3>2. CASE room' = room /\ file_descriptors' = file_descriptors
      BY <1>0, <1>4, <2>2, <3>1, <3>2
    <3> QED
      BY <1>6, <2>2, <3>2
  <2>3. CASE /\ last'.call \in {"fread", "fseek", "fstat"}
             /\ mounted' = mounted /\ wild' \in BOOLEAN
             /\ room' = room /\ file_descriptors' = file_descriptors
             /\ wild' /\ ~ wild => Astray
    BY <1>0, <1>4, <2>3
  <2> QED
    BY <1>7, <2>1, <2>2, <2>3, StepIs
<1> QED
  BY <1>3, <1>7

(***************************************************************************)
(* The inductive invariant holds in every state (file.c, pparser.c).       *)
(***************************************************************************)
THEOREM FilesInvariant == Spec => []FilesInv
<1>1. FilesInv /\ [Next]_vars => FilesInv'
  BY NextInv
<1> QED
  BY InitInv, <1>1, PTL DEF Spec

(***************************************************************************)
(* Type correctness of the descriptor table and the heap's room: fclose    *)
(* never gives back more than fopen took.                                  *)
(***************************************************************************)
THEOREM FilesTypeOK == Spec => []TypeOK
<1>1. FilesInv => TypeOK
  BY DEF FilesInv
<1> QED
  BY FilesInvariant, <1>1, PTL

(***************************************************************************)
(* DescriptorsRight: fopen returns the number of a slot it has filled with *)
(* an item for the whole name, or memory is at its end; a pointer leads    *)
(* astray only in the cases listed there; the last slot stays filled.      *)
(***************************************************************************)
THEOREM FilesDescriptorsRight == Spec => DescriptorsRight
<1> DEFINE A == /\ (last'.call = "fopen" /\ last'.fd # 0) =>
                      \/ /\ last'.fd \notin Open /\ last'.fd \in Open'
                         /\ file_descriptors'[last'.fd].path = Named(last'.path)
                      \/ room' = 0
                /\ (wild' /\ ~ wild) =>
                      \/ last'.call = "fseek" /\ last'.fd \notin Open \ {MaxFd}
                      \/ last'.call = "fread" /\ file_descriptors[last'.fd].kind = "directory"
                      \/ last'.fd \in Open /\ ~ file_descriptors[last'.fd].loaded
                /\ file_descriptors[MaxFd] # NULL
                      => file_descriptors'[MaxFd] = file_descriptors[MaxFd]
<1>1. ASSUME FilesInv, Next PROVE A
  <2>0. file_descriptors \in [Fds -> Slots] /\ MaxFd \in Fds
    BY <1>1, FilesAssumption DEF FilesInv, Table, Fds
  <2>1. ASSUME NEW path \in Path, FopenEffect(path) PROVE A
    <3>1. last'.path = path /\ wild' = wild
      BY <2>1 DEF FopenEffect
    <3>2. CASE file_descriptors' = file_descriptors /\ (last'.fd = 0 \/ room' = 0)
      BY <3>1, <3>2
    <3>3. ASSUME last'.fd \in Fds, file_descriptors[last'.fd] = NULL,
                 NEW p \in Privates, Filled(path, last'.fd, p)
          PROVE  A
      <4>1. file_descriptors'[last'.fd] = p /\ p # NULL /\ p.path = Named(path)
        BY <2>0, <3>3, PrivateIsNotNull DEF Filled
      <4>2. last'.fd \notin Open /\ last'.fd \in Open'
        BY <3>3, <4>1 DEF Open
      <4>3. file_descriptors[MaxFd] # NULL => file_descriptors'[MaxFd] = file_descriptors[MaxFd]
        BY <2>0, <3>3 DEF Filled
      <4> QED
        BY <3>1, <4>1, <4>2, <4>3
    <3> QED
      BY <2>1, <3>2, <3>3 DEF FopenEffect
  <2>2. ASSUME NEW fd \in Int, last'.call = "fclose", wild' = wild,
               (room' = room /\ file_descriptors' = file_descriptors) \/ Emptied(fd)
        PROVE  A
    BY <2>0, <2>2 DEF Emptied
  <2>3. ASSUME last'.call \in {"fread", "fseek", "fstat"},
               file_descriptors' = file_descriptors, wild' /\ ~ wild => Astray
        PROVE  A
    BY <2>3 DEF Astray
  <2> QED
    BY <1>1, <2>1, <2>2, <2>3, StepIs
<1>2. FilesInv /\ [Next]_vars => [A]_vars
  BY <1>1
<1> QED
  BY FilesInvariant, <1>2, PTL DEF Spec, DescriptorsRight

(***************************************************************************)
(* FopenCosts: memory that no descriptor holds grows with every fopen of a *)
(* valid name and stays the same otherwise.                                *)
(***************************************************************************)
THEOREM FilesFopenCosts == Spec => FopenCosts
<1> DEFINE A == LET spent == Blocks - room - HeldBy(file_descriptors)
                    spent2 == Blocks - room' - HeldBy(file_descriptors')
                IN  IF last'.call = "fopen" /\ is_valid_path(last'.path) /\ room > 0
                      THEN spent2 > spent ELSE spent2 = spent
<1>1. ASSUME FilesInv, Next PROVE A
  <2>0. /\ room \in Nat /\ Blocks \in Nat /\ Table(file_descriptors)
        /\ HeldBy(file_descriptors) \in Nat
    BY <1>1, FilesAssumption, HeldNat DEF FilesInv, TypeOK, Table
  <2>1. ASSUME NEW path \in Path, FopenEffect(path) PROVE A
    <3>1. last'.call = "fopen" /\ last'.path = path /\ room' \in Nat
      BY <2>1 DEF FopenEffect
    <3>2. CASE ~ (is_valid_path(path) /\ room > 0)
      <4>1. file_descriptors' = file_descriptors /\ room' = room
        BY <2>1, <3>2 DEF FopenEffect
      <4> QED
        BY <3>1, <3>2, <4>1
    <3>3. CASE /\ is_valid_path(path) /\ room > 0
               /\ file_descriptors' = file_descriptors /\ room' < room
      BY <2>0, <3>1, <3>3
    <3>4. ASSUME is_valid_path(path), room > 0, last'.fd \in Fds,
                 file_descriptors[last'.fd] = NULL,
                 NEW p \in Privates, Filled(path, last'.fd, p)
          PROVE  A
      <4>1. /\ Cost(p) \in Nat
            /\ HeldBy(file_descriptors)' = HeldBy(file_descriptors) + Cost(p) + 1
        BY <2>0, <3>4, FilledHolds
      <4>2. room' + Cost(p) + 1 < room
        BY <3>4 DEF Filled
      <4> QED
        BY <2>0, <3>1, <3>4, <4>1, <4>2
    <3> QED
      BY <2>0, <2>1, <3>2, <3>3, <3>4 DEF FopenEffect
  <2>2. ASSUME NEW fd \in Int, last'.call = "fclose",
               (room' = room /\ file_descriptors' = file_descriptors) \/ Emptied(fd)
        PROVE  A
    <3>1. CASE Emptied(fd)
      <4>1. /\ Table(file_descriptors)' /\ Cost(file_descriptors[fd]) \in Nat
            /\ HeldBy(file_descriptors)' + Cost(file_descriptors[fd]) + 1
                   = HeldBy(file_descriptors)
        BY <2>0, <3>1, EmptiedHolds
      <4>2. room' = room + Cost(file_descriptors[fd]) + 1
        BY <3>1 DEF Emptied
      <4>0. HeldBy(file_descriptors)' \in Nat
        <5>1. (file_descriptors \in [Fds -> Slots])'
          BY <4>1 DEF Table
        <5> QED
          BY <5>1, HeldNat
      <4>3. HeldBy(file_descriptors)' = HeldBy(file_descriptors) - Cost(file_descriptors[fd]) - 1
        BY <2>0, <4>0, <4>1
      <4> QED
        BY <2>0, <2>2, <4>0, <4>1, <4>2, <4>3
    <3>2. CASE room' = room /\ file_descriptors' = file_descriptors
      BY <2>2, <3>2
    <3> QED
      BY <2>2, <3>1, <3>2
  <2>3. ASSUME last'.call \in {"fread", "fseek", "fstat"},
               room' = room, file_descriptors' = file_descriptors
        PROVE  A
    BY <2>3
  <2> QED
    BY <1>1, <2>1, <2>2, <2>3, StepIs
<1>2. FilesInv /\ [Next]_vars => [A]_vars
  BY <1>1
<1> QED
  BY FilesInvariant, <1>2, PTL DEF Spec, FopenCosts

=============================================================================
