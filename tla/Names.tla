------------------------------- MODULE Names --------------------------------
(***************************************************************************)
(* The names of directory entries (combine_filename_and_ext and            *)
(* remove_padded_spaces in fs/fat/fat16.c, istrncmp and tolower in         *)
(* string/string.c): how the padded name and extension of an entry become  *)
(* the name that a path component is compared with, and what that name     *)
(* should be.  Neither field ends with a NUL on the disk, and the code has *)
(* no other limit.                                                         *)
(***************************************************************************)
EXTENDS Integers, SequencesExt

CONSTANTS NameLen,      \* the length of filename and
          ExtLen,       \* of ext in a directory entry
          Letters,      \* a function from upper case letters to lower case
          Space, NUL    \* the bytes 0x20 and 0x00

ASSUME NamesAssumption == /\ NameLen \in Nat \ {0} /\ ExtLen \in Nat \ {0}
                          /\ Space # NUL /\ {Space, NUL} \subseteq STRING /\ {Space, NUL} \cap DOMAIN Letters = {}

\* An entry has two padded fields without a byte 0, and behind them the
\* bytes up to one that is 0, of which the first is the attribute.
IsEntry(e) == /\ {e.filename, e.ext, e.behind} \subseteq Seq(STRING)
              /\ Len(e.filename) = NameLen /\ Len(e.ext) = ExtLen
              /\ e.filename[1] # Space
              /\ \A field \in {e.filename, e.ext, e.behind} : \A k \in DOMAIN field : field[k] # NUL

\* The bytes of an entry from its first on.
Bytes(e) == e.filename \o e.ext \o e.behind \o <<NUL>>

Ends(byte) == byte \in {NUL, Space}

\* What is copied from a byte on.
remove_padded_spaces(e, from) ==
    LET bytes == Bytes(e)
        stop == CHOOSE k \in from .. Len(bytes) :
                   Ends(bytes[k]) /\ \A j \in from .. k - 1 : ~ Ends(bytes[j])
    IN  SubSeq(bytes, from, stop - 1)

Dot == "."

combine_filename_and_ext(e) ==
    remove_padded_spaces(e, 1)
      \o IF Ends(e.ext[1]) THEN <<>> ELSE <<Dot>> \o remove_padded_spaces(e, NameLen + 1)

tolower(c) == IF c \in DOMAIN Letters THEN Letters[c] ELSE c

\* Slip: only the shorter name is compared.
prefix_slip(s1, s2) ==
    \A k \in DOMAIN s1 \cap DOMAIN s2 : s1[k] = s2[k] \/ tolower(s1[k]) = tolower(s2[k])

\* istrncmp(s1, s2, n) = 0 for names shorter than n.
SameName(s1, s2) ==
    /\ Len(s1) = Len(s2)
    /\ \A k \in DOMAIN s1 : s1[k] = s2[k] \/ tolower(s1[k]) = tolower(s2[k])

-----------------------------------------------------------------------------
\* The name an entry has on a FAT volume: the fields without the spaces at
\* their ends, in either case of their letters.
Trimmed(field) ==
    LET len == CHOOSE n \in 0 .. Len(field) :
                  /\ n = 0 \/ field[n] # Space
                  /\ \A k \in n + 1 .. Len(field) : field[k] = Space
    IN  SubSeq(field, 1, len)

ShortName(e) ==
    Trimmed(e.filename) \o IF Trimmed(e.ext) = <<>> THEN <<>> ELSE <<Dot>> \o Trimmed(e.ext)

LowerCase(s) == [k \in DOMAIN s |-> IF s[k] \in DOMAIN Letters THEN Letters[s[k]] ELSE s[k]]

Full(field) == \A k \in DOMAIN field : field[k] # Space
InnerSpace(field) == Contains(Trimmed(field), Space)

\* The code reads on behind a field: a full filename with an extension, or a
\* full extension whose attribute is neither 0x20 nor 0.
RunsOn(e) == \/ Full(e.filename) /\ Trimmed(e.ext) # <<>>
             \/ Full(e.ext) /\ e.behind # <<>> /\ e.behind[1] # Space

Plain(e) == ~ RunsOn(e) /\ ~ InnerSpace(e.filename) /\ ~ InnerSpace(e.ext)

=============================================================================
