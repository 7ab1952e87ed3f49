------------------------------- MODULE Stream -------------------------------
(***************************************************************************)
(* A disk stream (disk/streamer.c) over the sectors of the disk            *)
(* (disk/disk.c).  diskstreamer_read calls itself for what lies beyond the *)
(* sector it has read: one step of the model is one level of that          *)
(* recursion.  The contents of the disk are its addresses, so that a       *)
(* byte tells where it came from.                                          *)
(***************************************************************************)
EXTENDS Integers, Sequences

CONSTANTS SectorSize,   \* RASOS_SECTOR_SIZE
          Sectors,      \* the sectors of the disk
          Word,         \* 2^32
          Totals        \* values of the argument `total' of a read

ASSUME StreamAssumption ==
    /\ SectorSize \in Nat \ {0} /\ Sectors \in Nat \ {0}
    /\ Word \in Nat /\ Word % (2 * SectorSize) = 0 /\ Word > 0
    \* Lengths of type int, to which an offset can be added.
    /\ Totals \subseteq - (Word \div 2) .. (Word \div 2) - SectorSize

VARIABLES pos,      \* stream->pos
          pc,       \* "idle", "reading", or "hung" in disk_read_sector
          total,    \* bytes that are still to be read
          out,      \* bytes read so far
          start,    \* pos and
          asked     \* total at the beginning of the read

stream_vars == <<pos, pc, total, out, start, asked>>

StreamInit == /\ pos = 0 /\ pc = "idle" /\ total = 0 /\ out = <<>>
              /\ start = 0 /\ asked = 0

-----------------------------------------------------------------------------
Half == Word \div 2

\* The value of type int with the bits of n.
ToInt(n) == ((n + Half) % Word) - Half

\* C's division rounds towards zero, and the remainder goes with it.
Sector(p) == IF p >= 0 THEN p \div SectorSize ELSE - ((- p) \div SectorSize)
Offset(p) == p - Sector(p) * SectorSize

\* buf[k] after sector lba has been read; outside buf it may be anything.
Buf(lba, k) == IF k \in 0 .. SectorSize - 1 THEN lba * SectorSize + k ELSE -1

\* Slip: no sector number is too small.
unsigned_slip(lba) == lba < Sectors

\* The controller has no data for a sector that the disk does not have, and
\* disk_read_sector waits for the data for ever.
disk_read_sector(lba) == lba \in 0 .. Sectors - 1

-----------------------------------------------------------------------------
\* Callers compute positions as products of unsigned numbers.
diskstreamer_seek(p) == /\ pc = "idle"
                        /\ pos' = ToInt(p)
                        /\ UNCHANGED <<pc, total, out, start, asked>>

diskstreamer_read(n) == /\ pc = "idle"
                        /\ pc' = "reading"
                        /\ total' = n /\ out' = <<>>
                        /\ start' = pos /\ asked' = n
                        /\ UNCHANGED pos

\* Slip: a read that ends a byte before the sector's end counts as overflow.
overflow_slip == Offset(pos) + total >= SectorSize - 1

IsOverflow == Offset(pos) + total >= SectorSize

BytesInCurrentSector == IF IsOverflow THEN SectorSize - Offset(pos) ELSE total

\* Slip: the rest is one byte too long.
rest_slip(n) == total - n + 1

Rest(n) == total - n
Advance(n) == ToInt(pos + n)

\* One level of diskstreamer_read; the last level is the one that does not
\* overflow its sector.
Level ==
    /\ pc = "reading"
    /\ IF ~ disk_read_sector(Sector(pos))
         THEN pc' = "hung" /\ UNCHANGED <<pos, total, out>>
         ELSE LET n == BytesInCurrentSector IN
              /\ out' = out \o [i \in 1 .. n |-> Buf(Sector(pos), Offset(pos) + i - 1)]
              /\ pos' = Advance(n)
              /\ total' = IF IsOverflow THEN Rest(n) ELSE 0
              /\ pc' = IF IsOverflow THEN "reading" ELSE "idle"
    /\ UNCHANGED <<start, asked>>

StreamNext == \/ \E p \in 0 .. Word - 1 : diskstreamer_seek(p)
              \/ \E n \in Totals : diskstreamer_read(n)
              \/ Level

\* Fairness: the kernel goes on with what it is doing.
StreamSpec == StreamInit /\ [][StreamNext]_stream_vars /\ WF_stream_vars(Level)

-----------------------------------------------------------------------------
(***************************************************************************)
(* Type correctness of a stream and of the call of diskstreamer_read.      *)
(***************************************************************************)
StreamWellFormed ==
    /\ pos \in - Half .. Half - 1 /\ start \in - Half .. Half - 1
    /\ pc \in {"idle", "reading", "hung"}
    /\ total \in Int /\ asked \in Totals \cup {0}
    /\ out \in Seq(-1 .. Sectors * SectorSize - 1)

\* The first position that cannot be reached: the end of the disk, or of int.
End == IF Sectors * SectorSize < Half THEN Sectors * SectorSize ELSE Half

\* A read that stays clear of the end by a byte.
Inside == start >= 0 /\ start + asked < End

(***************************************************************************)
(* Every read inside the disk comes to its end: disk_read_sector waits for *)
(* ever only for a sector outside the disk or beyond the range of int.     *)
(* That may be one no byte was asked for from: a read of the disk's last   *)
(* byte hangs, for the sector after it.                                    *)
(***************************************************************************)
ReadsEnd == (pc = "reading" /\ Inside) ~> (pc = "idle")

Source == INSTANCE ByteSource
    WITH at   <- IF pc = "idle" THEN pos ELSE start,
         want <- asked,
         got  <- IF pc = "idle" THEN out ELSE <<>>,
         busy <- pc # "idle"

(***************************************************************************)
(* However a read falls on the sectors, it returns exactly the bytes asked *)
(* for, in order, and leaves the position behind the last of them.         *)
(***************************************************************************)
ImplementsByteSource == Source!Spec

=============================================================================
