---------------------------- MODULE PagingProofs ----------------------------
(***************************************************************************)
(* Proofs that every frame has one use and that programs and the kernel    *)
(* see what they should through their page directories, for any heap and   *)
(* any programs.  The loops are recursive functions; what they compute is  *)
(* shown by induction, which the first two lemmas give.                    *)
(***************************************************************************)
EXTENDS Paging, FiniteSetTheorems, WellFoundedInduction, TLAPS

-----------------------------------------------------------------------------
(***************************************************************************)
(* Every set of numbers that is not empty has a least element.             *)
(***************************************************************************)
LEMMA Least == ASSUME NEW S, S \subseteq Nat, S # {}
               PROVE  \E n \in S : \A m \in S : n <= m
<1> DEFINE R == {ss \in Nat \X Nat : ss[1] < ss[2]}
<1>1. IsWellFoundedOn(R, Nat)
  BY NatLessThanWellFounded DEF OpToRel
<1>2. PICK n \in S : \A m \in S : ~ (<<m, n>> \in R)
  <2> HIDE DEF R
  <2> QED
    BY <1>1, WFMin
<1>3. ASSUME NEW m \in S, m < n PROVE FALSE
  <2>1. <<m, n>> \in Nat \X Nat /\ <<m, n>>[1] < <<m, n>>[2]
    BY <1>3
  <2>2. <<m, n>> \in R
    BY <2>1
  <2> HIDE DEF R
  <2> QED
    BY <1>2, <2>2
<1>4. \A m \in S : n \in Nat /\ m \in Nat
  OBVIOUS
<1> QED
  BY <1>3, <1>4

(***************************************************************************)
(* A set of numbers with 0 and, with each n, n + 1, has all numbers.       *)
(***************************************************************************)
LEMMA SetInduction == ASSUME NEW S, S \subseteq Nat, 0 \in S, \A n \in S : n + 1 \in S
                      PROVE  S = Nat
<1>1. SUFFICES ASSUME Nat \ S # {} PROVE FALSE
  OBVIOUS
<1>2. PICK n \in Nat \ S : \A m \in Nat \ S : n <= m
  BY <1>1, Least
<1>3. n # 0 /\ n - 1 \in Nat /\ ~ (n <= n - 1)
  BY <1>2
<1>4. n - 1 \in S
  BY <1>2, <1>3
<1> QED
  BY <1>2, <1>4


-----------------------------------------------------------------------------
(***************************************************************************)
(* Division with remainder.                                                *)
(***************************************************************************)
LEMMA Division == ASSUME NEW a \in Nat, NEW d \in Nat \ {0}
                  PROVE  /\ a \div d \in Nat /\ a % d \in 0 .. d - 1
                         /\ a = (a \div d) * d + (a % d)
OBVIOUS

(***************************************************************************)
(* Quotient and remainder are the only ones.                               *)
(***************************************************************************)
LEMMA Quotient == ASSUME NEW q \in Nat, NEW d \in Nat \ {0}, NEW r \in 0 .. d - 1
                  PROVE  (q * d + r) \div d = q /\ (q * d + r) % d = r
OBVIOUS

(***************************************************************************)
(* A product grows with its factors.                                       *)
(***************************************************************************)
LEMMA Grows == ASSUME NEW m \in Nat, NEW n \in Nat, NEW s \in Nat, m <= n
               PROVE  m * s <= n * s /\ (n + 1) * s = n * s + s
OBVIOUS

-----------------------------------------------------------------------------
(***************************************************************************)
(* The constants, as numbers.                                              *)
(***************************************************************************)
LEMMA Numbers == /\ DirEntries \in Nat \ {0} /\ TableEntries \in Nat \ {0}
                 /\ PageSize \in Nat \ {0} /\ PageTotal \in Nat \ {0} /\ Space \in Nat \ {0}
                 /\ PageTotal = DirEntries * TableEntries /\ Space = PageTotal * PageSize
BY PagingAssumption DEF PageTotal, Space

(***************************************************************************)
(* A frame of the heap is a page, neither the first nor the last.          *)
(***************************************************************************)
LEMMA HeapPages == /\ HeapFrames \subseteq Pages /\ 0 \notin HeapFrames
                   /\ \A f \in HeapFrames : f \in Nat /\ f < PageTotal - 1
                   /\ IsFiniteSet(HeapFrames)
<1>1. HeapFrames \subseteq 1 .. PageTotal - 2
  BY PagingAssumption
<1>2. IsFiniteSet(1 .. PageTotal - 2)
  BY Numbers, FS_Interval
<1>3. IsFiniteSet(HeapFrames)
  BY <1>1, <1>2, FS_Subset
<1> QED
  BY <1>1, <1>3, Numbers DEF Pages

(***************************************************************************)
(* Every page has one place in a directory and one in a table.             *)
(***************************************************************************)
LEMMA Places == ASSUME NEW page \in Pages
                PROVE  /\ page \div TableEntries \in 0 .. DirEntries - 1
                       /\ page % TableEntries \in 0 .. TableEntries - 1
                       /\ page = Identity(page \div TableEntries, page % TableEntries)
<1> DEFINE a == page \div TableEntries
<1>1. /\ page \in Nat /\ TableEntries \in Nat \ {0} /\ DirEntries \in Nat \ {0}
      /\ page < DirEntries * TableEntries
  BY Numbers DEF Pages
<1>2. a \in Nat /\ page % TableEntries \in 0 .. TableEntries - 1
      /\ page = a * TableEntries + (page % TableEntries)
  BY <1>1, Division
<1> HIDE DEF a
<1>3. ASSUME DirEntries <= a PROVE FALSE
  <2>1. DirEntries * TableEntries <= a * TableEntries
    BY <1>1, <1>2, <1>3, Grows
  <2>2. a * TableEntries \in Nat /\ DirEntries * TableEntries \in Nat
    BY <1>1, <1>2
  <2> QED
    BY <1>1, <1>2, <2>1, <2>2
<1> QED
  BY <1>1, <1>2, <1>3 DEF a, Identity

(***************************************************************************)
(* And every place is that of a page.                                      *)
(***************************************************************************)
LEMMA Placed == ASSUME NEW i \in 0 .. DirEntries - 1, NEW j \in 0 .. TableEntries - 1
                PROVE  Identity(i, j) \in Pages
<1>1. i \in Nat /\ j \in Nat /\ i + 1 <= DirEntries /\ i + 1 \in Nat /\ j < TableEntries
  BY Numbers
<1>2. (i + 1) * TableEntries <= DirEntries * TableEntries
  BY <1>1, Numbers, Grows
<1>3. (i + 1) * TableEntries = i * TableEntries + TableEntries
  BY <1>1, Numbers, Grows
<1>4. i * TableEntries \in Nat /\ DirEntries * TableEntries \in Nat
  BY <1>1, Numbers
<1> QED
  BY <1>1, <1>2, <1>3, <1>4, Numbers DEF Identity, Pages

-----------------------------------------------------------------------------
Upto(S, f) == {g \in S : g <= f}

(***************************************************************************)
(* The n-th of the elements of a finite set of numbers.                    *)
(***************************************************************************)
LEMMA Ranked ==
    ASSUME NEW F \in SUBSET HeapFrames, NEW n \in Nat \ {0}, n <= Cardinality(F)
    PROVE  \E f \in F : Cardinality(Upto(F, f)) = n
<1> DEFINE S == {k \in Nat : \A E \in SUBSET HeapFrames : Cardinality(E) = k =>
                     \A i \in 1 .. k : \E f \in E : Cardinality(Upto(E, f)) = i}
<1>1. \A E \in SUBSET HeapFrames : IsFiniteSet(E) /\ Cardinality(E) \in Nat /\ E \subseteq Nat
  BY HeapPages, FS_Subset, FS_CardinalityType
<1>2. 0 \in S
  OBVIOUS
<1>3. ASSUME NEW k \in S PROVE k + 1 \in S
  <2>1. SUFFICES ASSUME NEW E \in SUBSET HeapFrames, Cardinality(E) = k + 1,
                        NEW i \in 1 .. k + 1
                 PROVE  \E f \in E : Cardinality(Upto(E, f)) = i
    OBVIOUS
  <2>2. k \in Nat /\ E # {}
    BY <2>1, FS_EmptySet
  <2>3. PICK top \in E : \A f \in E : f <= top
    <3> DEFINE C == {PageTotal - f : f \in E}
    <3>1. C \subseteq Nat /\ C # {}
      BY <2>2, HeapPages, Numbers
    <3> HIDE DEF C
    <3>2. PICK c \in C : \A d \in C : c <= d
      BY <3>1, Least
    <3>3. PICK top \in E : c = PageTotal - top
      BY DEF C
    <3>4. \A f \in E : PageTotal - f \in C
      BY DEF C
    <3>5. \A f \in E : f <= top
      BY <1>1, <3>2, <3>3, <3>4, Numbers
    <3> QED
      BY <3>5
  <2> DEFINE D == E \ {top}
  <2>4. D \in SUBSET HeapFrames /\ Cardinality(D) = k
    <3>1. IsFiniteSet(E) /\ D \in SUBSET HeapFrames
      BY <1>1, <2>1
    <3>2. Cardinality(D) = Cardinality(E) - 1
      BY <3>1, FS_RemoveElement
    <3> HIDE DEF D, S
    <3> QED
      BY <2>1, <2>2, <3>1, <3>2
  <2>5. CASE i = k + 1
    <3>1. Upto(E, top) = E
      BY <2>3 DEF Upto
    <3> QED
      BY <2>1, <2>5, <3>1
  <2>6. CASE i # k + 1
    <3>1. i \in 1 .. k
      BY <2>2, <2>6
    <3> HIDE DEF D
    <3>2. PICK f \in D : Cardinality(Upto(D, f)) = i
      BY <2>4, <3>1
    <3>3. Upto(E, f) = Upto(D, f)
      BY <1>1, <2>3, <3>2 DEF Upto, D
    <3> QED
      BY <3>2, <3>3 DEF D
  <2> QED
    BY <2>5, <2>6
<1>4. S = Nat
  <2> HIDE DEF S
  <2>1. S \subseteq Nat
    BY DEF S
  <2> QED
    BY <1>2, <1>3, <2>1, SetInduction
<1>5. Cardinality(F) \in S
  BY <1>1, <1>4
<1> QED
  BY <1>1, <1>5

(***************************************************************************)
(* What kzalloc gives out, page after page: different free frames, and     *)
(* NULL only when the heap has no more.                                    *)
(***************************************************************************)
LEMMA Frees ==
    ASSUME NEW u
    PROVE  /\ Free(u) = [n \in 1 .. DirEntries + 2 |-> Free(u)[n]]
           /\ \A n \in 1 .. DirEntries + 2 :
                 /\ Free(u)[n] = 0 \/ Free(u)[n] \in HeapFrames \ u
                 /\ Free(u)[n] = 0 <=> Cardinality(HeapFrames \ u) < n
           /\ \A m, n \in 1 .. DirEntries + 2 :
                 m # n /\ Free(u)[m] # 0 => Free(u)[m] # Free(u)[n]
<1> DEFINE free == HeapFrames \ u
           Nth(n) == CHOOSE f \in free : Cardinality(Upto(free, f)) = n
<1>1. Free(u) = [n \in 1 .. DirEntries + 2 |-> IF Cardinality(free) < n THEN 0 ELSE Nth(n)]
  BY DEF Free, Upto
<1>2. free \in SUBSET HeapFrames /\ 0 \notin free
  BY HeapPages
<1>3. Cardinality(free) \in Nat
  BY <1>2, HeapPages, FS_Subset, FS_CardinalityType
<1> HIDE DEF free
<1>4. ASSUME NEW n \in 1 .. DirEntries + 2, ~ (Cardinality(free) < n)
      PROVE  Nth(n) \in free /\ Cardinality(Upto(free, Nth(n))) = n
  <2>1. n \in Nat \ {0} /\ n <= Cardinality(free)
    BY <1>3, <1>4
  <2>2. \E f \in free : Cardinality(Upto(free, f)) = n
    BY <1>2, <2>1, Ranked
  <2> QED
    BY <2>2
<1> HIDE DEF Nth
<1>5. \A n \in 1 .. DirEntries + 2 :
         /\ Free(u)[n] = IF Cardinality(free) < n THEN 0 ELSE Nth(n)
         /\ Free(u)[n] = 0 \/ Free(u)[n] \in free
         /\ Free(u)[n] = 0 <=> Cardinality(free) < n
  BY <1>1, <1>2, <1>4
<1>6. \A m, n \in 1 .. DirEntries + 2 : m # n /\ Free(u)[m] # 0 => Free(u)[m] # Free(u)[n]
  BY <1>4, <1>5
<1>7. Free(u) = [n \in 1 .. DirEntries + 2 |-> Free(u)[n]]
  BY <1>1
<1> QED
  BY <1>5, <1>6, <1>7 DEF free

(***************************************************************************)
(* The first run of free frames is one, if there is any.                   *)
(***************************************************************************)
LEMMA Runs == ASSUME NEW u, NEW n \in Nat \ {0}, Run(u, n) # 0
              PROVE  Run(u, n) \in HeapFrames /\ Run(u, n) .. Run(u, n) + n - 1 \subseteq HeapFrames \ u
<1> DEFINE Fits(f) == f .. f + n - 1 \subseteq HeapFrames \ u
           S == {f \in HeapFrames : Fits(f)}
<1>1. S # {}
  BY DEF Run
<1>2. PICK first \in S : \A g \in S : first <= g
  <2>1. S \subseteq Nat
    BY HeapPages
  <2> HIDE DEF S
  <2> QED
    BY <1>1, <2>1, Least
<1>3. Run(u, n) = CHOOSE f \in HeapFrames : Fits(f) /\ \A g \in HeapFrames : Fits(g) => f <= g
  BY <1>1 DEF Run
<1>4. \E f \in HeapFrames : Fits(f) /\ \A g \in HeapFrames : Fits(g) => f <= g
  BY <1>2
<1>5. Run(u, n) \in HeapFrames /\ Fits(Run(u, n))
  <2> HIDE DEF Fits
  <2> QED
    BY <1>3, <1>4
<1> QED
  BY <1>5

-----------------------------------------------------------------------------
Memory == [HeapFrames -> Content]

\* A directory with tables of its own.
Tabled(m, d) ==
    /\ d \in HeapFrames /\ m[d] \in [0 .. DirEntries - 1 -> Entries]
    /\ \A i \in 0 .. DirEntries - 1 :
          /\ m[d][i].frame \in HeapFrames /\ m[d][i].frame # d
          /\ m[m[d][i].frame] \in [0 .. TableEntries - 1 -> Entries]
          /\ \A j \in 0 .. DirEntries - 1 : m[d][i].frame = m[d][j].frame => i = j

\* From m to n only the tables of directory d have changed.
Changed(m, n, d) ==
    /\ n \in Memory /\ Tabled(n, d) /\ n[d] = m[d]
    /\ \A f \in HeapFrames \ Tables(m, d) : n[f] = m[f]

(***************************************************************************)
(* Such changes add up.                                                    *)
(***************************************************************************)
LEMMA ChangedTwice == ASSUME NEW m, NEW n, NEW o, NEW d, Changed(m, n, d), Changed(n, o, d)
                      PROVE  Changed(m, o, d) /\ Tables(n, d) = Tables(m, d)
BY DEF Changed, Tables

(***************************************************************************)
(* An entry is where it is looked for.                                     *)
(***************************************************************************)
LEMMA Looked == ASSUME NEW m, NEW d, Tabled(m, d), NEW q \in Pages
                PROVE  /\ paging_get_table_entry(m, d, q) \in Entries
                       /\ m[d][q \div TableEntries].frame \in Tables(m, d)
                       /\ q \div TableEntries \in 0 .. DirEntries - 1
                       /\ q % TableEntries \in 0 .. TableEntries - 1
BY Places DEF Tabled, paging_get_table_entry, Tables

(***************************************************************************)
(* paging_set changes what its page leads to, and nothing else.            *)
(***************************************************************************)
LEMMA SetRight ==
    ASSUME NEW m \in Memory, NEW d, Tabled(m, d), NEW page \in Pages, NEW e \in Entries
    PROVE  /\ Changed(m, paging_set(m, d, page, e), d)
           /\ \A q \in Pages : paging_get_table_entry(paging_set(m, d, page, e), d, q)
                                  = IF q = page THEN e ELSE paging_get_table_entry(m, d, q)
<1> DEFINE i == page \div TableEntries
           j == page % TableEntries
           T == m[d][i].frame
           n == paging_set(m, d, page, e)
<1>1. i \in 0 .. DirEntries - 1 /\ j \in 0 .. TableEntries - 1 /\ page = Identity(i, j)
  BY Places
<1>2. /\ T \in HeapFrames /\ T # d /\ d \in HeapFrames /\ T \in Tables(m, d)
      /\ m[T] \in [0 .. TableEntries - 1 -> Entries]
  BY <1>1 DEF Tabled, Tables
<1>3. n = [m EXCEPT ![T] = [m[T] EXCEPT ![j] = e]]
  BY DEF paging_set
<1> HIDE DEF i, j, T, n
<1>4. [m[T] EXCEPT ![j] = e] \in [0 .. TableEntries - 1 -> Entries]
  BY <1>2
<1>5. n \in Memory
  BY <1>2, <1>3, <1>4 DEF Memory, Content
<1>6. n[T] = [m[T] EXCEPT ![j] = e] /\ \A f \in HeapFrames : f # T => n[f] = m[f]
  BY <1>2, <1>3 DEF Memory
<1>7. n[d] = m[d]
  BY <1>2, <1>6
<1>8. Tabled(n, d)
  BY <1>2, <1>4, <1>6, <1>7 DEF Tabled
<1>9. Changed(m, n, d)
  BY <1>2, <1>5, <1>6, <1>7, <1>8 DEF Changed
<1>10. ASSUME NEW q \in Pages
       PROVE  paging_get_table_entry(n, d, q) = IF q = page THEN e ELSE paging_get_table_entry(m, d, q)
  <2> DEFINE a == q \div TableEntries
             b == q % TableEntries
  <2>1. a \in 0 .. DirEntries - 1 /\ b \in 0 .. TableEntries - 1 /\ q = Identity(a, b)
    BY Places
  <2>2. /\ paging_get_table_entry(n, d, q) = n[m[d][a].frame][b]
        /\ paging_get_table_entry(m, d, q) = m[m[d][a].frame][b]
    BY <1>7 DEF paging_get_table_entry
  <2>3. q = page => a = i /\ b = j
    BY DEF i, j
  <2> HIDE DEF a, b
  <2>4. m[d][a].frame \in HeapFrames /\ (m[d][a].frame = T <=> a = i)
    BY <1>1, <2>1 DEF Tabled, T
  <2>5. CASE a = i /\ b = j
    <3>1. q = page /\ m[d][a].frame = T
      BY <1>1, <2>1, <2>5 DEF T
    <3>2. n[T][b] = e
      BY <1>2, <1>6, <2>1, <2>5
    <3> QED
      BY <2>2, <3>1, <3>2
  <2>6. CASE a = i /\ b # j
    <3>1. q # page /\ m[d][a].frame = T
      BY <2>3, <2>6 DEF T
    <3>2. n[T][b] = m[T][b]
      BY <1>2, <1>6, <2>1, <2>6
    <3> QED
      BY <2>2, <3>1, <3>2
  <2>7. CASE a # i
    <3>1. q # page /\ m[d][a].frame # T
      BY <2>3, <2>4, <2>7
    <3> QED
      BY <1>6, <2>2, <2>4, <3>1
  <2> QED
    BY <2>5, <2>6, <2>7
<1> QED
  BY <1>9, <1>10 DEF n

-----------------------------------------------------------------------------
\* Page q is one of count pages from virt on, and leads to entry e.
Hits(virt, phys, count, w, q, e) ==
    \E k \in 0 .. count - 1 : q = (virt + k) % PageTotal /\ e = Entry(phys + k, w)
Misses(virt, count, q) == \A k \in 0 .. count - 1 : q # (virt + k) % PageTotal

\* The memory that paging_map_range leaves after up to c pages.
RangeRun(m, d, virt, phys, w, c, s) ==
    s = [i \in 0 .. c |->
            IF i = 0 THEN m
            ELSE paging_set(s[i - 1], d, (virt + i - 1) % PageTotal, Entry(phys + i - 1, w))]

(***************************************************************************)
(* The loop of paging_map_range has values for every number of pages.      *)
(***************************************************************************)
LEMMA RangeExists == ASSUME NEW m, NEW d, NEW virt, NEW phys, NEW w, NEW c \in Nat
                     PROVE  \E s : RangeRun(m, d, virt, phys, w, c, s)
<1> DEFINE S == {k \in Nat : \E s : RangeRun(m, d, virt, phys, w, k, s)}
<1>1. 0 \in S
  <2>1. RangeRun(m, d, virt, phys, w, 0, [i \in 0 .. 0 |-> m])
    BY DEF RangeRun
  <2> QED
    BY <2>1
<1>2. ASSUME NEW k \in S PROVE k + 1 \in S
  <2>1. PICK s : RangeRun(m, d, virt, phys, w, k, s)
    OBVIOUS
  <2> DEFINE t == [i \in 0 .. k + 1 |->
            IF i = 0 THEN m
            ELSE paging_set(s[i - 1], d, (virt + i - 1) % PageTotal, Entry(phys + i - 1, w))]
  <2>2. \A i \in 0 .. k : t[i] = s[i]
    BY <2>1 DEF RangeRun
  <2>3. k \in Nat /\ \A i \in 0 .. k + 1 : i # 0 => i - 1 \in 0 .. k
    OBVIOUS
  <2>4. RangeRun(m, d, virt, phys, w, k + 1, t)
    BY <2>2, <2>3 DEF RangeRun
  <2> HIDE DEF t
  <2>5. k + 1 \in Nat
    BY <2>3
  <2> QED
    BY <2>4, <2>5
<1>3. S = Nat
  <2> HIDE DEF S
  <2>1. S \subseteq Nat
    BY DEF S
  <2> QED
    BY <1>1, <1>2, <2>1, SetInduction
<1> QED
  BY <1>3

(***************************************************************************)
(* paging_map_range makes its pages lead to one frame after another, and   *)
(* changes nothing else.                                                   *)
(***************************************************************************)
LEMMA RangeRight ==
    ASSUME NEW m \in Memory, NEW d, Tabled(m, d), NEW virt \in Nat, NEW phys \in Nat,
           NEW c \in Nat, phys + c <= PageTotal, NEW w \in BOOLEAN
    PROVE  LET n == paging_map_range(m, d, virt, phys, c, w)
           IN  /\ Changed(m, n, d)
               /\ \A q \in Pages :
                     \/ Hits(virt, phys, c, w, q, paging_get_table_entry(n, d, q))
                     \/ /\ Misses(virt, c, q)
                        /\ paging_get_table_entry(n, d, q) = paging_get_table_entry(m, d, q)
<1> DEFINE s == CHOOSE s : s = [i \in 0 .. c |->
            IF i = 0 THEN m
            ELSE paging_set(s[i - 1], d, (virt + i - 1) % PageTotal, Entry(phys + i - 1, w))]
<1>1. s = [i \in 0 .. c |->
            IF i = 0 THEN m
            ELSE paging_set(s[i - 1], d, (virt + i - 1) % PageTotal, Entry(phys + i - 1, w))]
  <2>1. \E z : RangeRun(m, d, virt, phys, w, c, z)
    BY RangeExists
  <2> QED
    BY <2>1 DEF RangeRun
<1>2. paging_map_range(m, d, virt, phys, c, w) = s[c]
  BY DEF paging_map_range
<1> HIDE DEF s
<1>3. s[0] = m /\ \A k \in 0 .. c - 1 :
          s[k + 1] = paging_set(s[k], d, (virt + k) % PageTotal, Entry(phys + k, w))
  <2>1. \A k \in 0 .. c - 1 : /\ k + 1 \in 0 .. c /\ k + 1 # 0 /\ (k + 1) - 1 = k
                              /\ virt + (k + 1) - 1 = virt + k /\ phys + (k + 1) - 1 = phys + k
    OBVIOUS
  <2> QED
    BY <1>1, <2>1
<1> DEFINE Right(k) ==
              /\ Changed(m, s[k], d)
              /\ \A q \in Pages :
                     \/ Hits(virt, phys, k, w, q, paging_get_table_entry(s[k], d, q))
                     \/ /\ Misses(virt, k, q)
                        /\ paging_get_table_entry(s[k], d, q) = paging_get_table_entry(m, d, q)
           S == {k \in Nat : k <= c => Right(k)}
<1>4. 0 \in S
  <2>1. Changed(m, m, d)
    BY DEF Changed
  <2>2. \A q \in Pages : Misses(virt, 0, q)
    BY DEF Misses
  <2> QED
    BY <1>3, <2>1, <2>2
<1>5. ASSUME NEW k \in S PROVE k + 1 \in S
  <2>1. k \in Nat /\ k + 1 \in Nat
    OBVIOUS
  <2>2. SUFFICES ASSUME k + 1 <= c PROVE Right(k + 1)
    BY <2>1
  <2>3. Right(k)
    BY <2>1, <2>2
  <2> DEFINE p == (virt + k) % PageTotal
             e == Entry(phys + k, w)
  <2>4. p \in Pages
    BY <2>1, Numbers, Division DEF Pages
  <2>5. e \in Entries
    BY <2>1, <2>2, Numbers DEF Entries, Entry, Pages
  <2>6. s[k + 1] = paging_set(s[k], d, p, e)
    BY <1>3, <2>1, <2>2
  <2>7. s[k] \in Memory /\ Tabled(s[k], d)
    BY <2>3 DEF Changed
  <2> HIDE DEF p, e
  <2>8. /\ Changed(s[k], s[k + 1], d)
        /\ \A q \in Pages : paging_get_table_entry(s[k + 1], d, q)
                               = IF q = p THEN e ELSE paging_get_table_entry(s[k], d, q)
    BY <2>4, <2>5, <2>6, <2>7, SetRight
  <2>9. Changed(m, s[k + 1], d)
    BY <2>3, <2>8, ChangedTwice
  <2>10. ASSUME NEW q \in Pages
         PROVE  \/ Hits(virt, phys, k + 1, w, q, paging_get_table_entry(s[k + 1], d, q))
                \/ /\ Misses(virt, k + 1, q)
                   /\ paging_get_table_entry(s[k + 1], d, q) = paging_get_table_entry(m, d, q)
    <3>1. \A i : i \in 0 .. (k + 1) - 1 <=> i \in 0 .. k - 1 \/ i = k
      BY <2>1
    <3>2. CASE q = p
      BY <2>8, <3>1, <3>2 DEF Hits, p, e
    <3>3. CASE q # p
      <4>1. paging_get_table_entry(s[k + 1], d, q) = paging_get_table_entry(s[k], d, q)
        BY <2>8, <3>3
      <4>2. CASE Hits(virt, phys, k, w, q, paging_get_table_entry(s[k], d, q))
        BY <3>1, <4>1, <4>2 DEF Hits
      <4>3. CASE /\ Misses(virt, k, q)
                 /\ paging_get_table_entry(s[k], d, q) = paging_get_table_entry(m, d, q)
        <5>1. Misses(virt, k + 1, q)
          BY <3>1, <3>3, <4>3 DEF Misses, p
        <5> QED
          BY <4>1, <4>3, <5>1
      <4> QED
        BY <2>3, <4>2, <4>3
    <3> QED
      BY <3>2, <3>3
  <2> QED
    BY <2>9, <2>10
<1>6. S = Nat
  <2> HIDE DEF S
  <2>1. S \subseteq Nat
    BY DEF S
  <2> QED
    BY <1>4, <1>5, <2>1, SetInduction
<1>7. Right(c)
  BY <1>6
<1> QED
  BY <1>2, <1>7

-----------------------------------------------------------------------------
(***************************************************************************)
(* An address in the space lies in one of its pages.                       *)
(***************************************************************************)
LEMMA InPage == ASSUME NEW a \in Nat, a < Space
                PROVE  a \div PageSize \in Pages
<1> DEFINE n == a \div PageSize
<1>1. PageSize \in Nat \ {0} /\ PageTotal \in Nat
  BY Numbers
<1>2. n \in Nat /\ a = n * PageSize + (a % PageSize) /\ a % PageSize \in 0 .. PageSize - 1
  BY <1>1, Division
<1> HIDE DEF n
<1>3. ASSUME PageTotal <= n PROVE FALSE
  <2>1. PageTotal * PageSize <= n * PageSize
    BY <1>1, <1>2, <1>3, Grows
  <2>2. n * PageSize \in Nat /\ PageTotal * PageSize \in Nat
    BY <1>1, <1>2
  <2> QED
    BY <1>2, <2>1, <2>2, Numbers
<1> QED
  BY <1>1, <1>2, <1>3 DEF n, Pages

(***************************************************************************)
(* Where a header lies, whatever its fields are.                           *)
(***************************************************************************)
LEMMA HeaderType ==
    ASSUME NEW file \in HeapFrames, NEW h \in Header
    PROVE  /\ VirtStart(h) \in Pages /\ PhysStart(file, h) \in Pages /\ PhysEnd(file, h) \in Pages
           /\ PageCount(file, h) \in Int
           /\ PhysStart(file, h) + PageCount(file, h) = PhysEnd(file, h)
<1>1. /\ h.p_vaddr \in Nat /\ h.p_vaddr < Space
      /\ h.p_offset \in Nat /\ h.p_filesz \in Nat /\ file \in Nat
  BY HeapPages, Numbers DEF Header
<1> DEFINE a == file * PageSize + h.p_offset
           b == (a % Space) + h.p_filesz
           c == (b % Space) + PageSize - 1
<1>2. a \in Nat
  BY <1>1, Numbers
<1> HIDE DEF a
<1>3. a % Space \in 0 .. Space - 1
  BY <1>2, Numbers, Division
<1>4. b \in Nat
  BY <1>1, <1>3, Numbers
<1> HIDE DEF b
<1>5. b % Space \in 0 .. Space - 1
  BY <1>4, Numbers, Division
<1>6. c \in Nat
  BY <1>5, Numbers
<1> HIDE DEF c
<1>7. c \div PageSize \in Nat
  BY <1>6, Numbers, Division
<1>8. (c \div PageSize) % PageTotal \in Pages
  BY <1>7, Numbers, Division DEF Pages
<1>9. PhysEnd(file, h) = (c \div PageSize) % PageTotal
  BY DEF PhysEnd, elf_phdr_phys_address, paging_align_address, c, b, a
<1>10. PhysStart(file, h) = (a % Space) \div PageSize
  BY DEF PhysStart, elf_phdr_phys_address, paging_align_to_lower_page, a
<1>11. a % Space \in Nat /\ a % Space < Space
  BY <1>3, Numbers
<1>12. PhysStart(file, h) \in Pages
  BY <1>10, <1>11, InPage
<1>13. VirtStart(h) \in Pages
  BY <1>1, InPage DEF VirtStart, paging_align_to_lower_page
<1> QED
  BY <1>8, <1>9, <1>12, <1>13, Numbers DEF PageCount, Pages

(***************************************************************************)
(* A program's headers, up to the first that is refused.                   *)
(***************************************************************************)
LEMMA MappedRight ==
    ASSUME NEW file \in HeapFrames, NEW p \in Programs
    PROVE  /\ p.size \in Nat \ {0} /\ Len(p.headers) \in Nat
           /\ DOMAIN p.headers = 1 .. Len(p.headers)
           /\ \A i \in DOMAIN p.headers : p.headers[i] \in Header
           /\ Mapped(file, p) \in 0 .. Len(p.headers)
           /\ \A i \in 1 .. Mapped(file, p) : PageCount(file, p.headers[i]) \in Nat
<1> DEFINE R == Refused(file, p)
<1>1. p.size \in Nat \ {0} /\ p.headers \in Seq(Header)
  BY PagingAssumption
<1>2. /\ Len(p.headers) \in Nat /\ DOMAIN p.headers = 1 .. Len(p.headers)
      /\ \A i \in DOMAIN p.headers : p.headers[i] \in Header
  BY <1>1
<1>3. \A i \in DOMAIN p.headers : i \notin R => PageCount(file, p.headers[i]) \in Nat
  <2>1. \A i \in DOMAIN p.headers : PageCount(file, p.headers[i]) \in Int
    BY <1>2, HeaderType
  <2> QED
    BY <2>1 DEF Refused
<1>4. R \subseteq 1 .. Len(p.headers)
  BY <1>2 DEF Refused
<1> HIDE DEF R
<1>5. CASE R = {}
  <2>1. Mapped(file, p) = Len(p.headers)
    BY <1>5 DEF Mapped, R
  <2> QED
    BY <1>1, <1>2, <1>3, <1>5, <2>1
<1>6. CASE R # {}
  <2>1. R \subseteq Nat
    BY <1>2, <1>4
  <2>2. \E i \in R : \A j \in R : i <= j
    BY <1>6, <2>1, Least
  <2>3. PICK i \in R : (\A j \in R : i <= j) /\ Mapped(file, p) = i - 1
    <3> DEFINE i == CHOOSE i \in R : \A j \in R : i <= j
    <3>1. i \in R /\ \A j \in R : i <= j
      BY <2>2
    <3>2. Mapped(file, p) = i - 1
      BY <1>6 DEF Mapped, R
    <3> HIDE DEF i
    <3> QED
      BY <3>1, <3>2
  <2>4. \A j \in 1 .. i - 1 : j \in DOMAIN p.headers /\ j \notin R
    BY <1>2, <1>4, <2>3
  <2> QED
    BY <1>1, <1>2, <1>3, <1>4, <2>3, <2>4
<1> QED
  BY <1>5, <1>6

(***************************************************************************)
(* When no header was left out, none is refused.                           *)
(***************************************************************************)
LEMMA NoneRefused ==
    ASSUME NEW file \in HeapFrames, NEW p \in Programs, Mapped(file, p) = Len(p.headers)
    PROVE  \A i \in DOMAIN p.headers : PageCount(file, p.headers[i]) \in Nat
BY MappedRight

-----------------------------------------------------------------------------
\* A header of the program in file makes page q lead to entry e.
HeaderHits(file, h, q, e) ==
    Hits(VirtStart(h), PhysStart(file, h), PageCount(file, h), Flags(h), q, e)
HeaderMisses(file, h, q) == Misses(VirtStart(h), PageCount(file, h), q)

\* The memory that process_map_elf leaves after up to c headers.
ElfRun(m, d, file, p, c, s) ==
    s = [i \in 0 .. c |->
            IF i = 0 THEN m
            ELSE paging_map_range(s[i - 1], d, VirtStart(p.headers[i]), PhysStart(file, p.headers[i]),
                                  PageCount(file, p.headers[i]), Flags(p.headers[i]))]

(***************************************************************************)
(* The loop of process_map_elf has values for every number of headers.     *)
(***************************************************************************)
LEMMA ElfExists == ASSUME NEW m, NEW d, NEW file, NEW p, NEW c \in Nat
                   PROVE  \E s : ElfRun(m, d, file, p, c, s)
<1> DEFINE S == {k \in Nat : \E s : ElfRun(m, d, file, p, k, s)}
<1>1. 0 \in S
  <2>1. ElfRun(m, d, file, p, 0, [i \in 0 .. 0 |-> m])
    BY DEF ElfRun
  <2> QED
    BY <2>1
<1>2. ASSUME NEW k \in S PROVE k + 1 \in S
  <2>1. PICK s : ElfRun(m, d, file, p, k, s)
    OBVIOUS
  <2> DEFINE t == [i \in 0 .. k + 1 |->
            IF i = 0 THEN m
            ELSE paging_map_range(s[i - 1], d, VirtStart(p.headers[i]), PhysStart(file, p.headers[i]),
                                  PageCount(file, p.headers[i]), Flags(p.headers[i]))]
  <2>2. \A i \in 0 .. k : t[i] = s[i]
    BY <2>1 DEF ElfRun
  <2>3. k \in Nat /\ \A i \in 0 .. k + 1 : i # 0 => i - 1 \in 0 .. k
    OBVIOUS
  <2>4. ElfRun(m, d, file, p, k + 1, t)
    BY <2>2, <2>3 DEF ElfRun
  <2> HIDE DEF t
  <2>5. k + 1 \in Nat
    BY <2>3
  <2> QED
    BY <2>4, <2>5
<1>3. S = Nat
  <2> HIDE DEF S
  <2>1. S \subseteq Nat
    BY DEF S
  <2> QED
    BY <1>1, <1>2, <2>1, SetInduction
<1> QED
  BY <1>3

(***************************************************************************)
(* process_map_elf makes the pages of a header lead to where one of the    *)
(* headers wants them, and leaves all the others.                          *)
(***************************************************************************)
LEMMA ElfRight ==
    ASSUME NEW m \in Memory, NEW d, Tabled(m, d), NEW file \in HeapFrames, NEW p \in Programs
    PROVE  LET n == process_map_elf(m, d, file, p)
           IN  /\ Changed(m, n, d)
               /\ \A q \in Pages :
                     \/ \E i \in 1 .. Mapped(file, p) :
                           HeaderHits(file, p.headers[i], q, paging_get_table_entry(n, d, q))
                     \/ /\ \A i \in 1 .. Mapped(file, p) : HeaderMisses(file, p.headers[i], q)
                        /\ paging_get_table_entry(n, d, q) = paging_get_table_entry(m, d, q)
<1> DEFINE c == Mapped(file, p)
           s == CHOOSE s : s = [i \in 0 .. c |->
            IF i = 0 THEN m
            ELSE paging_map_range(s[i - 1], d, VirtStart(p.headers[i]), PhysStart(file, p.headers[i]),
                                  PageCount(file, p.headers[i]), Flags(p.headers[i]))]
<1>1. /\ c \in Nat /\ c <= Len(p.headers)
      /\ \A i \in 1 .. c : i \in DOMAIN p.headers /\ p.headers[i] \in Header
                           /\ PageCount(file, p.headers[i]) \in Nat
  BY MappedRight
<1>2. process_map_elf(m, d, file, p) = s[c]
  BY DEF process_map_elf
<1> HIDE DEF c
<1>3. s = [i \in 0 .. c |->
            IF i = 0 THEN m
            ELSE paging_map_range(s[i - 1], d, VirtStart(p.headers[i]), PhysStart(file, p.headers[i]),
                                  PageCount(file, p.headers[i]), Flags(p.headers[i]))]
  <2>1. \E z : ElfRun(m, d, file, p, c, z)
    BY <1>1, ElfExists
  <2> QED
    BY <2>1 DEF ElfRun
<1> HIDE DEF s
<1>4. s[0] = m /\ \A k \in 0 .. c - 1 :
          s[k + 1] = paging_map_range(s[k], d, VirtStart(p.headers[k + 1]),
                                      PhysStart(file, p.headers[k + 1]),
                                      PageCount(file, p.headers[k + 1]), Flags(p.headers[k + 1]))
  <2>1. \A k \in 0 .. c - 1 : k + 1 \in 0 .. c /\ k + 1 # 0 /\ (k + 1) - 1 = k
    BY <1>1
  <2> QED
    BY <1>1, <1>3, <2>1
<1> DEFINE Right(k) ==
              /\ Changed(m, s[k], d)
              /\ \A q \in Pages :
                     \/ \E i \in 1 .. k :
                           HeaderHits(file, p.headers[i], q, paging_get_table_entry(s[k], d, q))
                     \/ /\ \A i \in 1 .. k : HeaderMisses(file, p.headers[i], q)
                        /\ paging_get_table_entry(s[k], d, q) = paging_get_table_entry(m, d, q)
           S == {k \in Nat : k <= c => Right(k)}
<1>5. 0 \in S
  <2>1. Changed(m, m, d)
    BY DEF Changed
  <2> QED
    BY <1>4, <2>1
<1>6. ASSUME NEW k \in S PROVE k + 1 \in S
  <2>1. k \in Nat /\ k + 1 \in Nat
    OBVIOUS
  <2>2. SUFFICES ASSUME k + 1 <= c PROVE Right(k + 1)
    BY <2>1
  <2>3. Right(k)
    BY <1>1, <2>1, <2>2
  <2> DEFINE h == p.headers[k + 1]
             n == PageCount(file, h)
  <2>4. h \in Header /\ n \in Nat
    BY <1>1, <2>1, <2>2
  <2>5. s[k + 1] = paging_map_range(s[k], d, VirtStart(h), PhysStart(file, h), n, Flags(h))
    BY <1>1, <1>4, <2>1, <2>2
  <2> HIDE DEF h
  <2>6. /\ VirtStart(h) \in Nat /\ PhysStart(file, h) \in Nat /\ Flags(h) \in BOOLEAN
        /\ PhysStart(file, h) + n <= PageTotal
    BY <2>4, HeaderType, Numbers DEF Pages, Flags, Header
  <2> HIDE DEF n
  <2>7. s[k] \in Memory /\ Tabled(s[k], d)
    BY <2>3 DEF Changed
  <2>8. /\ Changed(s[k], s[k + 1], d)
        /\ \A q \in Pages :
              \/ Hits(VirtStart(h), PhysStart(file, h), n, Flags(h), q,
                      paging_get_table_entry(s[k + 1], d, q))
              \/ /\ Misses(VirtStart(h), n, q)
                 /\ paging_get_table_entry(s[k + 1], d, q) = paging_get_table_entry(s[k], d, q)
    BY <2>4, <2>5, <2>6, <2>7, RangeRight
  <2>9. Changed(m, s[k + 1], d)
    BY <2>3, <2>8, ChangedTwice
  <2>10. ASSUME NEW q \in Pages
         PROVE  \/ \E i \in 1 .. k + 1 :
                     HeaderHits(file, p.headers[i], q, paging_get_table_entry(s[k + 1], d, q))
                \/ /\ \A i \in 1 .. k + 1 : HeaderMisses(file, p.headers[i], q)
                   /\ paging_get_table_entry(s[k + 1], d, q) = paging_get_table_entry(m, d, q)
    <3> DEFINE e == paging_get_table_entry(s[k + 1], d, q)
    <3>1. \A i : i \in 1 .. k + 1 <=> i \in 1 .. k \/ i = k + 1
      BY <2>1
    <3>2. CASE HeaderHits(file, h, q, e)
      BY <3>1, <3>2 DEF h
    <3>3. CASE HeaderMisses(file, h, q) /\ e = paging_get_table_entry(s[k], d, q)
      BY <2>3, <3>1, <3>3 DEF h
    <3>4. \/ HeaderHits(file, h, q, e)
          \/ HeaderMisses(file, h, q) /\ e = paging_get_table_entry(s[k], d, q)
      BY <2>8 DEF HeaderHits, HeaderMisses, n
    <3> QED
      BY <3>2, <3>3, <3>4
  <2> QED
    BY <2>9, <2>10
<1>7. S = Nat
  <2> HIDE DEF S
  <2>1. S \subseteq Nat
    BY DEF S
  <2> QED
    BY <1>5, <1>6, <2>1, SetInduction
<1>8. Right(c)
  BY <1>1, <1>7
<1> QED
  BY <1>2, <1>8 DEF c

-----------------------------------------------------------------------------
\* A directory, its tables and chunk, made of frames that were free in u and
\* m: every page leads to itself.
Made(u, m, n, w) ==
    /\ n.directory \in HeapFrames \ u /\ n.chunk \in HeapFrames \ u /\ n.directory # n.chunk
    /\ Tabled(n.mem, n.directory)
    /\ Tables(n.mem, n.directory) \subseteq HeapFrames \ u
    /\ n.chunk \notin Tables(n.mem, n.directory)
    /\ n.used = u \cup {n.directory, n.chunk} \cup Tables(n.mem, n.directory)
    /\ n.mem[n.chunk] = Data
    /\ \A f \in HeapFrames \ ({n.directory, n.chunk} \cup Tables(n.mem, n.directory)) : n.mem[f] = m[f]
    /\ \A q \in Pages : paging_get_table_entry(n.mem, n.directory, q) = Entry(q, w)

\* The frames in u hold in n what they hold in m.
SameIn(u, m, n) == \A f \in u : n[f] = m[f]

(***************************************************************************)
(* What paging_new_4gb makes, and what it leaves when the heap has not     *)
(* enough for it.                                                          *)
(***************************************************************************)
LEMMA NewRight ==
    ASSUME NEW u \in SUBSET HeapFrames, NEW m \in Memory, NEW w \in BOOLEAN
    PROVE  LET n == paging_new_4gb(u, m, w)
           IN  /\ n.mem \in Memory /\ n.used \subseteq HeapFrames
               /\ SameIn(u, m, n.mem)
               /\ n.chunk # 0 => Made(u, m, n, w)
               /\ (n.chunk = 0 /\ n.directory # 0) => paging_free_4gb(n.used, n.mem, n.directory, 0) = u
               /\ n.directory = 0 => n.chunk = 0 /\ HeapFrames \subseteq u /\ n.used = u
               /\ n.chunk = 0 => Cardinality(HeapFrames \ u) < DirEntries + 2
<1> DEFINE dir == Free(u)[1]
           chunk == Free(u)[DirEntries + 2]
           table == [i \in 0 .. DirEntries - 1 |-> Free(u)[2 + i]]
           tables == {table[i] : i \in DOMAIN table} \ {0}
           Dir == [i \in DOMAIN table |-> Entry(table[i], TRUE)]
           Table(i) == [j \in 0 .. TableEntries - 1 |-> Entry(Identity(i, j), w)]
           n == paging_new_4gb(u, m, w)
<1> DEFINE content(f) == CASE f = dir -> Dir
                           [] f = chunk -> Data
                           [] f \in tables -> LET i == CHOOSE i \in DOMAIN table : table[i] = f IN Table(i)
                           [] OTHER -> m[f]
<1>1. n = [directory |-> dir, chunk |-> chunk, used |-> u \cup tables \cup ({dir, chunk} \ {0}),
           mem |-> [f \in HeapFrames |-> content(f)]]
  BY DEF paging_new_4gb
<1>2. /\ 1 \in 1 .. DirEntries + 2 /\ DirEntries + 2 \in 1 .. DirEntries + 2
      /\ \A i \in 0 .. DirEntries - 1 : /\ 2 + i \in 1 .. DirEntries + 2
                                        /\ 2 + i # 1 /\ 2 + i # DirEntries + 2 /\ 2 + i < DirEntries + 2
      /\ 1 # DirEntries + 2 /\ 1 < DirEntries + 2
      /\ \A i, j \in 0 .. DirEntries - 1 : i # j => 2 + i # 2 + j
  BY Numbers
<1>3. Cardinality(HeapFrames \ u) \in Nat
  BY HeapPages, FS_Subset, FS_CardinalityType
<1>4. \A i \in 1 .. DirEntries + 2 : /\ Free(u)[i] = 0 \/ Free(u)[i] \in HeapFrames \ u
                                     /\ Free(u)[i] = 0 <=> Cardinality(HeapFrames \ u) < i
  BY Frees
<1>5. \A i, j \in 1 .. DirEntries + 2 : i # j /\ Free(u)[i] # 0 => Free(u)[i] # Free(u)[j]
  BY Frees
<1>6. /\ dir = 0 \/ dir \in HeapFrames \ u
      /\ chunk = 0 \/ chunk \in HeapFrames \ u
      /\ DOMAIN table = 0 .. DirEntries - 1
      /\ \A i \in 0 .. DirEntries - 1 : table[i] = 0 \/ table[i] \in HeapFrames \ u
  BY <1>2, <1>4
<1>7. /\ chunk # 0 => dir # 0 /\ \A i \in 0 .. DirEntries - 1 : table[i] # 0
      /\ chunk = 0 => Cardinality(HeapFrames \ u) < DirEntries + 2
      /\ dir = 0 => Cardinality(HeapFrames \ u) < 1
  <2>1. \A i \in 1 .. DirEntries + 2 : i < DirEntries + 2 /\ Free(u)[i] = 0 => chunk = 0
    <3>1. SUFFICES ASSUME NEW i \in 1 .. DirEntries + 2, i < DirEntries + 2, Free(u)[i] = 0
                   PROVE  chunk = 0
      OBVIOUS
    <3>2. Cardinality(HeapFrames \ u) < i
      BY <1>4, <3>1
    <3>3. Cardinality(HeapFrames \ u) < DirEntries + 2
      BY <1>3, <3>1, <3>2, Numbers
    <3> QED
      BY <1>2, <1>4, <3>3
  <2>2. \A i \in 0 .. DirEntries - 1 : table[i] = Free(u)[2 + i]
    OBVIOUS
  <2> QED
    BY <1>2, <1>4, <2>1, <2>2
<1>8. /\ dir # 0 => dir # chunk /\ \A i \in 0 .. DirEntries - 1 : table[i] # dir
      /\ chunk # 0 => \A i \in 0 .. DirEntries - 1 : table[i] # chunk
      /\ \A i, j \in 0 .. DirEntries - 1 : i # j /\ table[i] # 0 => table[i] # table[j]
  <2>1. \A i \in 0 .. DirEntries - 1 : table[i] = Free(u)[2 + i]
    OBVIOUS
  <2> QED
    BY <1>2, <1>5, <2>1
<1> HIDE DEF dir, chunk, table
<1>9. tables \subseteq HeapFrames \ u
      /\ \A f \in tables : \E i \in 0 .. DirEntries - 1 : table[i] = f
  BY <1>6
<1>10. Dir \in [0 .. DirEntries - 1 -> Entries]
  <2>1. 0 \in Pages
    BY Numbers DEF Pages
  <2>2. \A i \in 0 .. DirEntries - 1 : table[i] \in Pages
    BY <1>6, <2>1, HeapPages
  <2> QED
    BY <1>6, <2>2 DEF Entries, Entry
<1>11. \A i \in 0 .. DirEntries - 1 : Table(i) \in [0 .. TableEntries - 1 -> Entries]
  BY Placed DEF Entries, Entry
<1>12. ASSUME NEW f \in HeapFrames
       PROVE  /\ f = dir => content(f) = Dir
              /\ (f = chunk /\ f # dir) => content(f) = Data
              /\ f \notin tables \cup {dir, chunk} => content(f) = m[f]
              /\ (f \in tables /\ f # dir /\ f # chunk) =>
                    \E i \in 0 .. DirEntries - 1 : table[i] = f /\ content(f) = Table(i)
  <2> HIDE DEF Dir, Table
  <2>1. ASSUME f \in tables
        PROVE  LET i == CHOOSE i \in DOMAIN table : table[i] = f
               IN  i \in 0 .. DirEntries - 1 /\ table[i] = f
    <3>1. \E i \in DOMAIN table : table[i] = f
      BY <1>6, <1>9, <2>1
    <3> QED
      BY <1>6, <3>1
  <2> DEFINE k == CHOOSE i \in DOMAIN table : table[i] = f
  <2>2. /\ f = dir => f # chunk /\ f \notin tables
        /\ f = chunk => f \notin tables
    BY <1>6, <1>8, <1>9, HeapPages
  <2>3. /\ f = dir => content(f) = Dir
        /\ (f = chunk /\ f # dir) => content(f) = Data
    <3> HIDE DEF tables, k
    <3> QED
      BY <2>2
  <2>4. f \notin tables \cup {dir, chunk} => content(f) = m[f]
    <3> HIDE DEF tables
    <3> QED
      OBVIOUS
  <2>5. f \in tables /\ f # dir /\ f # chunk => content(f) = Table(k)
    <3> HIDE DEF tables
    <3> QED
      OBVIOUS
  <2>6. f \in tables => k \in 0 .. DirEntries - 1 /\ table[k] = f
    BY <2>1
  <2> HIDE DEF tables, k, content
  <2> QED
    BY <2>3, <2>4, <2>5, <2>6
<1> HIDE DEF content, Dir, Table
<1>13. \A f \in HeapFrames : f # 0 /\ content(f) \in Content
  <2>1. \A f \in HeapFrames : m[f] \in Content
    BY DEF Memory
  <2> QED
    BY <1>10, <1>11, <1>12, <2>1, HeapPages DEF Content
<1>14. /\ n.directory = dir /\ n.chunk = chunk
       /\ n.used = u \cup tables \cup ({dir, chunk} \ {0})
       /\ n.mem = [f \in HeapFrames |-> content(f)]
  BY <1>1
<1> HIDE DEF n
<1>15. n.mem \in Memory /\ \A f \in HeapFrames : n.mem[f] = content(f)
  BY <1>13, <1>14 DEF Memory
<1>16. n.used \subseteq HeapFrames
  BY <1>6, <1>9, <1>14
<1>17. SameIn(u, m, n.mem)
  BY <1>6, <1>9, <1>12, <1>15, HeapPages DEF SameIn
<1>18. ASSUME dir # 0
       PROVE  /\ n.mem[dir] = Dir
              /\ Tables(n.mem, dir) = {table[i] : i \in 0 .. DirEntries - 1}
              /\ \A i \in 0 .. DirEntries - 1 : n.mem[dir][i].frame = table[i]
  <2>1. n.mem[dir] = Dir
    BY <1>6, <1>12, <1>15, <1>18
  <2>2. \A i \in 0 .. DirEntries - 1 : Dir[i].frame = table[i]
    BY <1>6 DEF Dir, Entry
  <2> QED
    BY <2>1, <2>2 DEF Tables
<1>19. ASSUME dir = 0
       PROVE  chunk = 0 /\ HeapFrames \subseteq u /\ n.used = u
  <2>1. Cardinality(HeapFrames \ u) = 0 /\ IsFiniteSet(HeapFrames \ u)
    BY <1>3, <1>7, <1>19, HeapPages, FS_Subset
  <2>2. HeapFrames \ u = {}
    BY <2>1, FS_EmptySet
  <2>3. tables = {} /\ chunk = 0
    BY <1>6, <1>9, <2>2
  <2> QED
    BY <1>14, <1>19, <2>2, <2>3
<1>20. ASSUME chunk = 0, dir # 0
       PROVE  paging_free_4gb(n.used, n.mem, dir, 0) = u
  <2>1. n.used = u \cup tables \cup {dir}
    BY <1>14, <1>20
  <2>2. Tables(n.mem, dir) \ {0} = tables /\ tables \cap u = {} /\ dir \notin u /\ 0 \notin u
    BY <1>6, <1>9, <1>18, <1>20, HeapPages
  <2> HIDE DEF tables
  <2>3. \A f \in Tables(n.mem, dir) : f = 0 \/ f \in tables
    BY <2>2
  <2> QED
    BY <2>1, <2>2, <2>3 DEF paging_free_4gb
<1>21. ASSUME chunk # 0 PROVE Made(u, m, n, w)
  <2>1. /\ dir # 0 /\ \A i \in 0 .. DirEntries - 1 : table[i] # 0 /\ table[i] \in HeapFrames \ u
        /\ dir \in HeapFrames \ u /\ chunk \in HeapFrames \ u /\ dir # chunk
    BY <1>6, <1>7, <1>8, <1>21
  <2>2. tables = {table[i] : i \in 0 .. DirEntries - 1} /\ Tables(n.mem, dir) = tables
    BY <1>6, <1>18, <2>1
  <2>3. \A i \in 0 .. DirEntries - 1 : n.mem[table[i]] = Table(i)
    <3>1. SUFFICES ASSUME NEW i \in 0 .. DirEntries - 1 PROVE content(table[i]) = Table(i)
      BY <1>15, <2>1
    <3>2. table[i] \in tables /\ table[i] # dir /\ table[i] # chunk /\ table[i] \in HeapFrames
      BY <1>8, <1>21, <2>1, <2>2
    <3>3. PICK k \in 0 .. DirEntries - 1 : table[k] = table[i] /\ content(table[i]) = Table(k)
      BY <1>12, <3>2
    <3>4. k = i
      BY <1>8, <2>1, <3>3
    <3> QED
      BY <3>3, <3>4
  <2>4. Tabled(n.mem, dir)
    BY <1>8, <1>10, <1>11, <1>18, <2>1, <2>3 DEF Tabled
  <2>5. /\ Tables(n.mem, dir) \subseteq HeapFrames \ u /\ chunk \notin Tables(n.mem, dir)
        /\ n.used = u \cup {dir, chunk} \cup Tables(n.mem, dir)
    BY <1>8, <1>9, <1>14, <1>21, <2>1, <2>2
  <2>6. n.mem[chunk] = Data
    BY <1>12, <1>15, <2>1
  <2>7. \A f \in HeapFrames \ ({dir, chunk} \cup Tables(n.mem, dir)) : n.mem[f] = m[f]
    BY <1>12, <1>15, <2>2
  <2>8. ASSUME NEW q \in Pages
        PROVE  paging_get_table_entry(n.mem, dir, q) = Entry(q, w)
    <3> DEFINE i == q \div TableEntries
               j == q % TableEntries
    <3>1. i \in 0 .. DirEntries - 1 /\ j \in 0 .. TableEntries - 1 /\ q = Identity(i, j)
      BY Places
    <3>2. paging_get_table_entry(n.mem, dir, q) = n.mem[n.mem[dir][i].frame][j]
      BY DEF paging_get_table_entry
    <3> HIDE DEF i, j
    <3>3. n.mem[n.mem[dir][i].frame][j] = Table(i)[j]
      BY <1>18, <2>1, <2>3, <3>1
    <3> QED
      BY <3>1, <3>2, <3>3 DEF Table
  <2> HIDE DEF tables
  <2> QED
    BY <1>14, <2>1, <2>4, <2>5, <2>6, <2>7, <2>8 DEF Made
<1> QED
  BY <1>7, <1>14, <1>15, <1>16, <1>17, <1>19, <1>20, <1>21 DEF n

-----------------------------------------------------------------------------
\* Where the pages of a task lead: to its stack, where one of its headers
\* wants them, or to themselves.
TaskMap(m, t) ==
    \A q \in Pages :
        LET e == paging_get_table_entry(m, t.directory, q) IN
        IF q \in StackRange THEN e = Entry(t.stack + (q - StackPage), TRUE)
        ELSE \/ \E i \in DOMAIN t.program.headers : HeaderHits(t.file, t.program.headers[i], q, e)
             \/ /\ \A i \in DOMAIN t.program.headers : HeaderMisses(t.file, t.program.headers[i], q)
                /\ e = Entry(q, FALSE)

TaskOK(m, t) ==
    /\ Tabled(m, t.directory)
    /\ Mapped(t.file, t.program) = Len(t.program.headers)
    /\ TaskMap(m, t)

KernelOK(m, d) ==
    /\ Tabled(m, d)
    /\ \A q \in Pages : paging_get_table_entry(m, d, q) = Entry(q, TRUE)

\* The inductive invariant.
IInv == /\ TypeOK /\ FramesApart
        /\ ~ wild => KernelOK(mem, kernel) /\ \A t \in tasks : TaskOK(mem, t)

-----------------------------------------------------------------------------
(***************************************************************************)
(* A directory has as many tables as entries.                              *)
(***************************************************************************)
LEMMA TableCount == ASSUME NEW m, NEW d, Tabled(m, d)
                    PROVE  Cardinality({d} \cup Tables(m, d)) = DirEntries + 1
<1> DEFINE S == 0 .. DirEntries
           T == {d} \cup Tables(m, d)
           f == [i \in S |-> IF i = DirEntries THEN d ELSE m[d][i].frame]
<1>1. DirEntries \in Nat /\ \A i \in S : i # DirEntries => i \in 0 .. DirEntries - 1
  BY Numbers
<1>2. f \in [S -> T] /\ \A x \in T : \E i \in S : f[i] = x
  BY <1>1 DEF Tables
<1>3. \A i, j \in S : f[i] = f[j] => i = j
  BY <1>1 DEF Tabled
<1>4. f \in Bijection(S, T)
  <2> HIDE DEF f, S, T
  <2> QED
    BY <1>2, <1>3 DEF Bijection, Injection, Surjection, IsInjective
<1>5. IsFiniteSet(S) /\ Cardinality(S) = DirEntries + 1
  BY <1>1, FS_Interval
<1>6. ExistsBijection(S, T)
  BY <1>4 DEF ExistsBijection
<1> HIDE DEF S, T
<1>7. Cardinality(T) = Cardinality(S)
  BY <1>5, <1>6, FS_Bijection
<1> QED
  BY <1>5, <1>7 DEF T

(***************************************************************************)
(* A directory whose frames keep their contents stays what it is.          *)
(***************************************************************************)
LEMMA Kept == ASSUME NEW m, NEW n, NEW d, Tabled(m, d), n[d] = m[d],
                     \A f \in Tables(m, d) : n[f] = m[f]
              PROVE  /\ Tabled(n, d) /\ Tables(n, d) = Tables(m, d)
                     /\ \A q \in Pages : paging_get_table_entry(n, d, q) = paging_get_table_entry(m, d, q)
<1>1. Tables(n, d) = Tables(m, d)
  BY DEF Tables
<1>2. \A i \in 0 .. DirEntries - 1 : m[d][i].frame \in Tables(m, d)
  BY DEF Tables
<1>3. Tabled(n, d)
  BY <1>2 DEF Tabled
<1>4. ASSUME NEW q \in Pages
      PROVE  paging_get_table_entry(n, d, q) = paging_get_table_entry(m, d, q)
  BY Looked DEF paging_get_table_entry
<1> QED
  BY <1>1, <1>3, <1>4

LEMMA KernelKept == ASSUME NEW m, NEW n, NEW d, KernelOK(m, d), n[d] = m[d],
                           \A f \in Tables(m, d) : n[f] = m[f]
                    PROVE  KernelOK(n, d)
<1>1. Tabled(m, d) /\ \A q \in Pages : paging_get_table_entry(m, d, q) = Entry(q, TRUE)
  BY DEF KernelOK
<1>2. /\ Tabled(n, d)
      /\ \A q \in Pages : paging_get_table_entry(n, d, q) = paging_get_table_entry(m, d, q)
  BY <1>1, Kept
<1> QED
  BY <1>1, <1>2 DEF KernelOK

LEMMA TaskKept == ASSUME NEW m, NEW n, NEW t, TaskOK(m, t), n[t.directory] = m[t.directory],
                         \A f \in Tables(m, t.directory) : n[f] = m[f]
                  PROVE  TaskOK(n, t)
<1>1. /\ Tabled(n, t.directory)
      /\ \A q \in Pages : paging_get_table_entry(n, t.directory, q) = paging_get_table_entry(m, t.directory, q)
  BY Kept DEF TaskOK
<1>2. TaskMap(n, t)
  BY <1>1 DEF TaskOK, TaskMap
<1> QED
  BY <1>1, <1>2 DEF TaskOK

(***************************************************************************)
(* The four uses of a task's frames.                                       *)
(***************************************************************************)
LEMMA Shares == ASSUME NEW t
                PROVE  /\ Share(t)[1] = {t.chunk} /\ Share(t)[2] = TableFrames(t.directory)
                       /\ Share(t)[3] = FileFrames(t) /\ Share(t)[4] = StackFrames(t)
                       /\ 1 .. 4 = {1, 2, 3, 4}
BY DEF Share

(***************************************************************************)
(* Nothing changes for the owners of frames as long as tables keep their   *)
(* contents.                                                               *)
(***************************************************************************)
LEMMA SameShares ==
    ASSUME IInv, ~ wild, UNCHANGED kernel,
           \A f \in Owned \ others : mem'[f] = mem[f]
    PROVE  /\ KernelOK(mem', kernel') /\ TableFrames(kernel)' = TableFrames(kernel)
           /\ \A t \in tasks : TaskOK(mem', t) /\ Share(t)' = Share(t)
<1>1. TableFrames(kernel) \subseteq Owned \ others
  BY DEF IInv, FramesApart, Owned
<1>2. \A t \in tasks : TableFrames(t.directory) \subseteq Owned \ others
  <2>1. SUFFICES ASSUME NEW t \in tasks PROVE TableFrames(t.directory) \subseteq Owned \ others
    OBVIOUS
  <2>2. Share(t)[2] = TableFrames(t.directory) /\ 2 \in 1 .. 4
    BY Shares
  <2>3. Share(t)[2] \subseteq Owned
    BY <2>2 DEF Owned
  <2>4. Share(t)[2] \cap others = {}
    BY <2>2 DEF IInv, FramesApart
  <2> QED
    BY <2>2, <2>3, <2>4
<1>3. KernelOK(mem', kernel') /\ TableFrames(kernel)' = TableFrames(kernel)
  <2>1. mem'[kernel] = mem[kernel] /\ \A f \in Tables(mem, kernel) : mem'[f] = mem[f]
    BY <1>1 DEF TableFrames
  <2>2. KernelOK(mem', kernel)
    BY <2>1, KernelKept DEF IInv
  <2>3. Tables(mem', kernel) = Tables(mem, kernel)
    BY <2>1, Kept DEF IInv, KernelOK
  <2> QED
    BY <2>2, <2>3 DEF TableFrames
<1>4. ASSUME NEW t \in tasks PROVE TaskOK(mem', t) /\ Share(t)' = Share(t)
  <2>1. mem'[t.directory] = mem[t.directory] /\ \A f \in Tables(mem, t.directory) : mem'[f] = mem[f]
    BY <1>2 DEF TableFrames
  <2>2. TaskOK(mem', t)
    BY <2>1, TaskKept DEF IInv
  <2>3. Tables(mem', t.directory) = Tables(mem, t.directory)
    BY <2>1, Kept DEF IInv, TaskOK
  <2> QED
    BY <2>2, <2>3 DEF Share, TableFrames, FileFrames, StackFrames
<1> QED
  BY <1>3, <1>4


-----------------------------------------------------------------------------
(***************************************************************************)
(* In the beginning there is the kernel's directory, and nothing else.     *)
(***************************************************************************)
LEMMA InitInv == Init => IInv
<1> SUFFICES ASSUME Init PROVE IInv
  OBVIOUS
<1> DEFINE m == [f \in HeapFrames |-> Data]
           k == paging_new_4gb({}, m, TRUE)
<1>1. /\ used = k.used /\ mem = k.mem /\ kernel = k.directory
      /\ tasks = {} /\ others = {} /\ wild = FALSE
  BY DEF Init
<1>2. m \in Memory /\ \A f \in HeapFrames : m[f] = Data
  BY DEF Memory, Content
<1> HIDE DEF m
<1>3. HeapFrames \ {} = HeapFrames /\ Cardinality(HeapFrames) \in Nat
  BY HeapPages, FS_CardinalityType
<1>4. k.mem \in Memory /\ k.used \subseteq HeapFrames /\ k.chunk # 0 /\ Made({}, m, k, TRUE)
  <2>1. {} \in SUBSET HeapFrames
    OBVIOUS
  <2>2. ~ (Cardinality(HeapFrames) < DirEntries + 2)
    BY <1>3, PagingAssumption
  <2>3. k.chunk = 0 => Cardinality(HeapFrames \ {}) < DirEntries + 2
    BY <1>2, <2>1, NewRight
  <2>4. k.mem \in Memory /\ k.used \subseteq HeapFrames /\ (k.chunk # 0 => Made({}, m, k, TRUE))
    BY <1>2, <2>1, NewRight
  <2> QED
    BY <1>3, <2>2, <2>3, <2>4
<1> HIDE DEF k
<1>5. Owned = TableFrames(kernel) /\ TableFrames(kernel) = {k.directory} \cup Tables(k.mem, k.directory)
  BY <1>1 DEF Owned, TableFrames
<1>6. TypeOK
  BY <1>1, <1>4 DEF TypeOK, Made, Memory
<1>7. used = {k.directory, k.chunk} \cup Tables(k.mem, k.directory) /\ mem[k.chunk] = Data
  BY <1>1, <1>4 DEF Made
<1>8. FramesApart
  BY <1>1, <1>5, <1>7 DEF FramesApart
<1>9. KernelOK(mem, kernel)
  BY <1>1, <1>4 DEF KernelOK, Made
<1> QED
  BY <1>1, <1>6, <1>8, <1>9 DEF IInv

-----------------------------------------------------------------------------
(***************************************************************************)
(* The rest of the kernel takes a frame that had no use.                   *)
(***************************************************************************)
LEMMA TakeOtherInv == IInv /\ TakeOther => IInv'
<1> SUFFICES ASSUME IInv, TakeOther PROVE IInv'
  OBVIOUS
<1> DEFINE f == First(used)
<1>1. /\ ~ wild /\ f # 0 /\ used' = used \cup {f} /\ others' = others \cup {f}
      /\ mem' = [mem EXCEPT ![f] = Data] /\ UNCHANGED <<kernel, tasks, wild>>
  BY DEF TakeOther
<1>2. f \in HeapFrames \ used
  <2>1. 1 \in 1 .. DirEntries + 2
    BY Numbers
  <2> QED
    BY <1>1, <2>1, Frees DEF First
<1> HIDE DEF f
<1>3. TypeOK /\ FramesApart /\ Owned \subseteq used /\ f \notin Owned
  BY <1>1, <1>2 DEF IInv, FramesApart
<1>4. mem' \in Memory /\ mem'[f] = Data /\ \A g \in HeapFrames \ {f} : mem'[g] = mem[g]
  BY <1>1, <1>2, <1>3 DEF TypeOK, Memory, Content
<1>5. \A g \in Owned : mem'[g] = mem[g]
  BY <1>3, <1>4 DEF TypeOK
<1>6. /\ KernelOK(mem', kernel') /\ TableFrames(kernel)' = TableFrames(kernel)
      /\ \A t \in tasks : TaskOK(mem', t) /\ Share(t)' = Share(t)
  BY <1>1, <1>5, SameShares
<1>7. Owned' = Owned \cup {f}
  BY <1>1, <1>6 DEF Owned
<1>8. TypeOK'
  BY <1>1, <1>2, <1>3, <1>4 DEF TypeOK, Memory
<1>9. \A t \in tasks, i \in 1 .. 4 : Share(t)[i] \subseteq Owned
  BY DEF Owned
<1>10. TableFrames(kernel) \subseteq Owned
  BY DEF Owned
<1>11. FramesApart'
  <2>1. ~ wild'
    BY <1>1
  <2>2. Owned' \subseteq used'
    BY <1>1, <1>3, <1>7
  <2>3. TableFrames(kernel)' \cap others' = {}
    BY <1>1, <1>3, <1>6, <1>10 DEF FramesApart
  <2>4. \A t \in tasks', i \in 1 .. 4 : Share(t)'[i] \cap (TableFrames(kernel)' \cup others') = {}
    BY <1>1, <1>3, <1>6, <1>9 DEF FramesApart
  <2>5. \A t, u \in tasks', i, j \in 1 .. 4 : t # u \/ i # j => Share(t)'[i] \cap Share(u)'[j] = {}
    BY <1>1, <1>3, <1>6 DEF FramesApart
  <2>6. \A t \in tasks' : Cardinality(TableFrames(t.directory)') = DirEntries + 1
    BY <1>1, <1>6, TableCount DEF TableFrames, TaskOK
  <2>7. \A g \in used' \ Owned' : mem'[g] = Data
    BY <1>1, <1>3, <1>4, <1>7 DEF FramesApart, TypeOK
  <2> QED
    BY <2>1, <2>2, <2>3, <2>4, <2>5, <2>6, <2>7 DEF FramesApart
<1> QED
  BY <1>1, <1>6, <1>8, <1>11 DEF IInv

(***************************************************************************)
(* And gives it back.                                                      *)
(***************************************************************************)
LEMMA FreeOtherInv == IInv /\ FreeOther => IInv'
<1> SUFFICES ASSUME IInv, FreeOther PROVE IInv'
  OBVIOUS
<1>1. PICK f \in others : used' = used \ {f} /\ others' = others \ {f}
  BY DEF FreeOther
<1>2. ~ wild /\ UNCHANGED <<mem, kernel, tasks, wild>>
  BY DEF FreeOther
<1>3. TypeOK /\ FramesApart
  BY DEF IInv
<1>4. /\ KernelOK(mem', kernel') /\ TableFrames(kernel)' = TableFrames(kernel)
      /\ \A t \in tasks : TaskOK(mem', t) /\ Share(t)' = Share(t)
  BY <1>2, SameShares
<1>5. f \notin TableFrames(kernel) /\ \A t \in tasks, i \in 1 .. 4 : f \notin Share(t)[i]
  BY <1>1, <1>2, <1>3 DEF FramesApart
<1>6. Owned' = Owned \ {f}
  BY <1>1, <1>2, <1>4, <1>5 DEF Owned
<1>7. TypeOK'
  <2>1. f # kernel
    BY <1>5 DEF TableFrames
  <2> QED
    BY <1>1, <1>2, <1>3, <2>1 DEF TypeOK
<1>8. FramesApart'
  <2>1. ~ wild'
    BY <1>2
  <2>2. Owned' \subseteq used'
    BY <1>1, <1>2, <1>3, <1>6 DEF FramesApart
  <2>3. TableFrames(kernel)' \cap others' = {}
    BY <1>1, <1>2, <1>3, <1>4 DEF FramesApart
  <2>4. \A t \in tasks', i \in 1 .. 4 : Share(t)'[i] \cap (TableFrames(kernel)' \cup others') = {}
    BY <1>1, <1>2, <1>3, <1>4 DEF FramesApart
  <2>5. \A t, u \in tasks', i, j \in 1 .. 4 : t # u \/ i # j => Share(t)'[i] \cap Share(u)'[j] = {}
    BY <1>2, <1>3, <1>4 DEF FramesApart
  <2>6. \A t \in tasks' : Cardinality(TableFrames(t.directory)') = DirEntries + 1
    BY <1>2, <1>4, TableCount DEF TableFrames, TaskOK
  <2>7. \A g \in used' \ Owned' : mem'[g] = Data
    BY <1>1, <1>2, <1>3, <1>6 DEF FramesApart
  <2> QED
    BY <2>1, <2>2, <2>3, <2>4, <2>5, <2>6, <2>7 DEF FramesApart
<1> QED
  BY <1>2, <1>4, <1>7, <1>8 DEF IInv

-----------------------------------------------------------------------------
(***************************************************************************)
(* The invariant stands when all that happens is that frames without a use *)
(* are taken, or hold something else.                                      *)
(***************************************************************************)
LEMMA NothingNew ==
    ASSUME IInv, ~ wild, UNCHANGED <<kernel, tasks, others, wild>>,
           used \subseteq used', used' \subseteq HeapFrames, mem' \in Memory,
           \A f \in used : mem'[f] = mem[f], \A f \in used' \ used : mem'[f] = Data
    PROVE  IInv'
<1>1. TypeOK /\ FramesApart /\ Owned \subseteq used
  BY DEF IInv, FramesApart
<1>2. /\ KernelOK(mem', kernel') /\ TableFrames(kernel)' = TableFrames(kernel)
      /\ \A u \in tasks : TaskOK(mem', u) /\ Share(u)' = Share(u)
  BY <1>1, SameShares
<1>3. Owned' = Owned
  BY <1>2 DEF Owned
<1>4. TypeOK'
  BY <1>1 DEF TypeOK, Memory
<1>5. FramesApart'
  <2>1. ~ wild' /\ Owned' \subseteq used' /\ TableFrames(kernel)' \cap others' = {}
    BY <1>1, <1>2, <1>3 DEF FramesApart
  <2>2. \A u \in tasks', i \in 1 .. 4 : Share(u)'[i] \cap (TableFrames(kernel)' \cup others') = {}
    BY <1>1, <1>2 DEF FramesApart
  <2>3. \A u, v \in tasks', i, j \in 1 .. 4 : u # v \/ i # j => Share(u)'[i] \cap Share(v)'[j] = {}
    BY <1>1, <1>2 DEF FramesApart
  <2>4. \A u \in tasks' : Cardinality(TableFrames(u.directory)') = DirEntries + 1
    BY <1>2, TableCount DEF TableFrames, TaskOK
  <2>5. \A g \in used' \ Owned' : mem'[g] = Data
    BY <1>1, <1>3 DEF FramesApart
  <2> QED
    BY <2>1, <2>2, <2>3, <2>4, <2>5 DEF FramesApart
<1> QED
  BY <1>2, <1>4, <1>5 DEF IInv

-----------------------------------------------------------------------------
(***************************************************************************)
(* Tables through which every page leads to the same are the same.         *)
(***************************************************************************)
LEMMA SameTables ==
    ASSUME NEW m, NEW n, NEW d, Tabled(m, d), Tabled(n, d), n[d] = m[d],
           \A q \in Pages : paging_get_table_entry(n, d, q) = paging_get_table_entry(m, d, q)
    PROVE  \A f \in Tables(m, d) : n[f] = m[f]
<1> SUFFICES ASSUME NEW i \in 0 .. DirEntries - 1 PROVE n[m[d][i].frame] = m[m[d][i].frame]
  BY DEF Tables
<1> DEFINE f == m[d][i].frame
<1>1. m[f] \in [0 .. TableEntries - 1 -> Entries] /\ n[f] \in [0 .. TableEntries - 1 -> Entries]
  BY DEF Tabled
<1>2. ASSUME NEW j \in 0 .. TableEntries - 1 PROVE n[f][j] = m[f][j]
  <2> DEFINE q == Identity(i, j)
  <2>1. q \in Pages
    BY Placed
  <2>2. q \div TableEntries = i /\ q % TableEntries = j
    <3>1. i \in Nat
      BY Numbers
    <3> QED
      BY <3>1, Numbers, Quotient DEF Identity
  <2> HIDE DEF q
  <2> QED
    BY <2>1, <2>2 DEF paging_get_table_entry
<1> HIDE DEF f
<1>3. n[f] = m[f]
  <2> DEFINE J == 0 .. TableEntries - 1
  <2>1. n[f] = [j \in J |-> n[f][j]] /\ m[f] = [j \in J |-> m[f][j]]
    BY <1>1
  <2> QED
    BY <1>2, <2>1
<1> QED
  BY <1>3 DEF f

(***************************************************************************)
(* A borrowed page is put back: nothing is left of copy_string_from_task   *)
(* but the buffer's contents.                                              *)
(***************************************************************************)
LEMMA CopyRight ==
    ASSUME IInv, NEW t \in tasks, copy_string_from_task(t)
    PROVE  /\ mem' \in Memory
           /\ \E b \in HeapFrames \ used :
                 mem'[b] = Data /\ \A f \in HeapFrames \ {b} : mem'[f] = mem[f]
<1> DEFINE b == First(used)
           d == t.directory
           saved == paging_get_table_entry(mem, d, b)
           e == Entry(b, TRUE)
           m1 == [mem EXCEPT ![b] = Data]
           m2 == paging_set(m1, d, b, e)
<1>1. ~ wild /\ b # 0 /\ mem' = paging_set(m2, d, b, saved)
  BY DEF copy_string_from_task, Restore
<1>2. b \in HeapFrames \ used
  <2>1. 1 \in 1 .. DirEntries + 2
    BY Numbers
  <2> QED
    BY <1>1, <2>1, Frees DEF First
<1>3. TypeOK /\ Owned \subseteq used /\ TaskOK(mem, t)
  BY <1>1 DEF IInv, FramesApart
<1>4. TableFrames(d) \subseteq Owned
  <2>1. Share(t)[2] = TableFrames(t.directory) /\ 2 \in 1 .. 4
    BY Shares
  <2> QED
    BY <2>1 DEF Owned
<1>5. b \in Pages /\ e \in Entries
  BY <1>2, HeapPages DEF Entry, Entries
<1>6. Tabled(mem, d) /\ saved \in Entries
  BY <1>3, <1>5, Looked DEF TaskOK
<1> HIDE DEF b, e
<1>7. m1 \in Memory /\ m1[b] = Data /\ \A f \in HeapFrames \ {b} : m1[f] = mem[f]
  BY <1>2, <1>3 DEF TypeOK, Memory, Content
<1> HIDE DEF m1
<1>8. Tabled(m1, d) /\ Tables(m1, d) = Tables(mem, d) /\ m1[d] = mem[d]
      /\ (\A f \in Tables(mem, d) : m1[f] = mem[f])
      /\ \A q \in Pages : paging_get_table_entry(m1, d, q) = paging_get_table_entry(mem, d, q)
  <2>1. TableFrames(d) \subseteq HeapFrames \ {b}
    BY <1>2, <1>3, <1>4 DEF TypeOK
  <2>2. m1[d] = mem[d] /\ \A f \in Tables(mem, d) : m1[f] = mem[f]
    BY <1>7, <2>1 DEF TableFrames
  <2> QED
    BY <1>6, <2>2, Kept
<1>9. /\ Changed(m1, m2, d)
      /\ \A q \in Pages : paging_get_table_entry(m2, d, q)
                            = IF q = b THEN e ELSE paging_get_table_entry(m1, d, q)
  BY <1>5, <1>7, <1>8, SetRight
<1> HIDE DEF m2, saved
<1>10. m2 \in Memory /\ Tabled(m2, d)
  BY <1>9 DEF Changed
<1>11. /\ Changed(m2, mem', d)
       /\ \A q \in Pages : paging_get_table_entry(mem', d, q)
                             = IF q = b THEN saved ELSE paging_get_table_entry(m2, d, q)
  BY <1>1, <1>5, <1>6, <1>10, SetRight
<1>12. Changed(m1, mem', d)
  BY <1>9, <1>11, ChangedTwice
<1>13. \A q \in Pages : paging_get_table_entry(mem', d, q) = paging_get_table_entry(mem, d, q)
  BY <1>8, <1>9, <1>11 DEF saved
<1>14. mem' \in Memory /\ Tabled(mem', d) /\ mem'[d] = mem[d]
       /\ \A f \in HeapFrames \ Tables(mem, d) : mem'[f] = m1[f]
  BY <1>8, <1>12 DEF Changed
<1>15. \A f \in Tables(mem, d) : mem'[f] = mem[f]
  BY <1>6, <1>13, <1>14, SameTables
<1>16. b \notin Tables(mem, d)
  BY <1>2, <1>3, <1>4 DEF TableFrames
<1> QED
  BY <1>2, <1>7, <1>14, <1>15, <1>16

LEMMA CopyInv == ASSUME IInv, NEW t \in tasks, copy_string_from_task(t) PROVE IInv'
<1>1. ~ wild /\ UNCHANGED <<used, kernel, tasks, others, wild>>
  BY DEF copy_string_from_task
<1>2. mem' \in Memory /\ used' = used /\ used \subseteq HeapFrames
  BY <1>1, CopyRight DEF IInv, TypeOK
<1>3. PICK b \in HeapFrames \ used : mem'[b] = Data /\ \A f \in HeapFrames \ {b} : mem'[f] = mem[f]
  BY CopyRight
<1> QED
  BY <1>1, <1>2, <1>3, NothingNew

-----------------------------------------------------------------------------
(***************************************************************************)
(* And when a task is added whose frames had no use.                       *)
(***************************************************************************)
LEMMA NewTask ==
    ASSUME IInv, ~ wild, UNCHANGED <<kernel, others, wild>>,
           NEW n \in [directory : HeapFrames, chunk : HeapFrames, file : HeapFrames,
                      stack : HeapFrames, program : Programs],
           tasks' = tasks \cup {n}, TaskOK(mem', n), mem' \in Memory,
           \A f \in used : mem'[f] = mem[f], used' \subseteq HeapFrames,
           used' = used \cup UNION {Share(n)'[i] : i \in 1 .. 4},
           \A i \in 1 .. 4 : Share(n)'[i] \cap used = {},
           \A i, j \in 1 .. 4 : i # j => Share(n)'[i] \cap Share(n)'[j] = {}
    PROVE  IInv'
<1>1. TypeOK /\ FramesApart /\ Owned \subseteq used
  BY DEF IInv, FramesApart
<1>2. /\ KernelOK(mem', kernel') /\ TableFrames(kernel)' = TableFrames(kernel)
      /\ \A u \in tasks : TaskOK(mem', u) /\ Share(u)' = Share(u)
  BY <1>1, SameShares
<1>3. Owned' = Owned \cup UNION {Share(n)'[i] : i \in 1 .. 4}
  <2>1. \A x : x \in Owned <=> \/ x \in TableFrames(kernel) \/ x \in others
                              \/ \E t \in tasks, i \in 1 .. 4 : x \in Share(t)[i]
    BY DEF Owned
  <2>2. \A x : x \in Owned' <=> \/ x \in TableFrames(kernel)' \/ x \in others'
                               \/ \E t \in tasks', i \in 1 .. 4 : x \in Share(t)'[i]
    BY DEF Owned
  <2>3. ASSUME NEW x
        PROVE  (\E t \in tasks', i \in 1 .. 4 : x \in Share(t)'[i])
                  <=> \/ \E t \in tasks, i \in 1 .. 4 : x \in Share(t)[i]
                      \/ \E i \in 1 .. 4 : x \in Share(n)'[i]
    BY <1>2
  <2>4. \A x : x \in UNION {Share(n)'[i] : i \in 1 .. 4} <=> \E i \in 1 .. 4 : x \in Share(n)'[i]
    OBVIOUS
  <2>5. \A x : x \in Owned' <=> x \in Owned \/ x \in UNION {Share(n)'[i] : i \in 1 .. 4}
    BY <1>2, <2>1, <2>2, <2>3, <2>4
  <2> QED
    BY <2>5
<1>4. TypeOK'
  BY <1>1 DEF TypeOK, Memory
<1>5. \A t \in tasks, i \in 1 .. 4 : Share(t)[i] \subseteq used
  BY <1>1 DEF Owned
<1>6. TableFrames(kernel) \cup others \subseteq used
  BY <1>1 DEF Owned
<1>7. FramesApart'
  <2>1. ~ wild' /\ Owned' \subseteq used' /\ TableFrames(kernel)' \cap others' = {}
    BY <1>1, <1>2, <1>3 DEF FramesApart
  <2>2. \A u \in tasks', i \in 1 .. 4 : Share(u)'[i] \cap (TableFrames(kernel)' \cup others') = {}
    BY <1>1, <1>2, <1>6 DEF FramesApart
  <2>3. \A u, v \in tasks', i, j \in 1 .. 4 : u # v \/ i # j => Share(u)'[i] \cap Share(v)'[j] = {}
    <3>1. \A u, v \in tasks, i, j \in 1 .. 4 : u # v \/ i # j => Share(u)'[i] \cap Share(v)'[j] = {}
      BY <1>1, <1>2 DEF FramesApart
    <3>2. \A u \in tasks, i, j \in 1 .. 4 : Share(u)'[i] \cap Share(n)'[j] = {}
      BY <1>2, <1>5
    <3> QED
      BY <3>1, <3>2
  <2>4. \A u \in tasks' : Cardinality(TableFrames(u.directory)') = DirEntries + 1
    BY <1>2, TableCount DEF TableFrames, TaskOK
  <2>5. \A g \in used' \ Owned' : mem'[g] = Data
    BY <1>1, <1>3 DEF FramesApart
  <2> QED
    BY <2>1, <2>2, <2>3, <2>4, <2>5 DEF FramesApart
<1> QED
  BY <1>2, <1>4, <1>7 DEF IInv

-----------------------------------------------------------------------------
(***************************************************************************)
(* A directory made by paging_new_4gb, with the headers and the stack of a *)
(* program mapped, is one that the program expects.                        *)
(***************************************************************************)
LEMMA TaskMade ==
    ASSUME NEW t, t.file \in HeapFrames, t.program \in Programs, t.stack \in HeapFrames,
           t.stack + StackPages - 1 \in HeapFrames,
           NEW m \in Memory, Tabled(m, t.directory),
           \A q \in Pages : paging_get_table_entry(m, t.directory, q) = Entry(q, FALSE),
           Mapped(t.file, t.program) = Len(t.program.headers)
    PROVE  LET mapped == process_map_elf(m, t.directory, t.file, t.program)
               all == paging_map_range(mapped, t.directory, StackPage, t.stack, StackPages, TRUE)
           IN  TaskOK(all, t) /\ Changed(m, all, t.directory)
<1> DEFINE d == t.directory
           mapped == process_map_elf(m, d, t.file, t.program)
           all == paging_map_range(mapped, d, StackPage, t.stack, StackPages, TRUE)
           N == DOMAIN t.program.headers
<1>1. 1 .. Mapped(t.file, t.program) = N
  BY MappedRight
<1>2. /\ Changed(m, mapped, d)
      /\ \A q \in Pages :
            LET e == paging_get_table_entry(mapped, d, q) IN
            \/ \E i \in N : HeaderHits(t.file, t.program.headers[i], q, e)
            \/ (\A i \in N : HeaderMisses(t.file, t.program.headers[i], q)) /\ e = Entry(q, FALSE)
  BY <1>1, ElfRight
<1> HIDE DEF mapped, N
<1>3. mapped \in Memory /\ Tabled(mapped, d)
  BY <1>2 DEF Changed
<1>4. /\ StackPage \in Nat /\ StackPages \in Nat /\ t.stack \in Nat
      /\ StackPage + StackPages <= PageTotal /\ t.stack + StackPages <= PageTotal
      /\ PageTotal \in Nat \ {0}
  <2>1. /\ StackPage \in Nat /\ StackPages \in Nat /\ StackPage + StackPages <= PageTotal
        /\ PageTotal \in Nat \ {0}
    BY PagingAssumption, Numbers
  <2>2. t.stack \in Nat /\ t.stack + StackPages - 1 < PageTotal - 1
    BY HeapPages
  <2> QED
    BY <2>1, <2>2
<1>5. /\ Changed(mapped, all, d)
      /\ \A q \in Pages :
            LET e == paging_get_table_entry(all, d, q) IN
            \/ Hits(StackPage, t.stack, StackPages, TRUE, q, e)
            \/ Misses(StackPage, StackPages, q) /\ e = paging_get_table_entry(mapped, d, q)
  <2>1. ASSUME NEW w \in BOOLEAN
        PROVE  LET n == paging_map_range(mapped, d, StackPage, t.stack, StackPages, w)
               IN  /\ Changed(mapped, n, d)
                   /\ \A q \in Pages :
                         LET e == paging_get_table_entry(n, d, q) IN
                         \/ Hits(StackPage, t.stack, StackPages, w, q, e)
                         \/ Misses(StackPage, StackPages, q) /\ e = paging_get_table_entry(mapped, d, q)
    BY <1>3, <1>4, RangeRight
  <2>2. TRUE \in BOOLEAN
    OBVIOUS
  <2> QED
    BY <2>1, <2>2, Zenon
<1> HIDE DEF all
<1>6. Changed(m, all, d)
  BY <1>2, <1>5, ChangedTwice
<1>7. \A k \in 0 .. StackPages - 1 : (StackPage + k) % PageTotal = StackPage + k
  BY <1>4
<1>8. ASSUME NEW q \in Pages, NEW e, Hits(StackPage, t.stack, StackPages, TRUE, q, e)
      PROVE  q \in StackRange /\ e = Entry(t.stack + (q - StackPage), TRUE)
  <2>1. PICK k \in 0 .. StackPages - 1 : q = (StackPage + k) % PageTotal /\ e = Entry(t.stack + k, TRUE)
    BY <1>8 DEF Hits
  <2>2. q = StackPage + k /\ q - StackPage = k
    BY <1>4, <1>7, <2>1
  <2>3. q \in StackRange
    BY <1>4, <2>1, <2>2 DEF StackRange
  <2>4. t.stack + (q - StackPage) = t.stack + k
    BY <2>2
  <2> QED
    BY <2>1, <2>3, <2>4
<1>9. ASSUME NEW q \in Pages, Misses(StackPage, StackPages, q)
      PROVE  q \notin StackRange
  <2>1. SUFFICES ASSUME q \in StackRange PROVE FALSE
    OBVIOUS
  <2>2. q - StackPage \in 0 .. StackPages - 1 /\ StackPage + (q - StackPage) = q
    BY <1>4, <2>1 DEF StackRange
  <2> QED
    BY <1>7, <1>9, <2>2 DEF Misses
<1>10. TaskMap(all, t)
  <2> SUFFICES ASSUME NEW q \in Pages
               PROVE  LET e == paging_get_table_entry(all, d, q) IN
                      IF q \in StackRange THEN e = Entry(t.stack + (q - StackPage), TRUE)
                      ELSE \/ \E i \in N : HeaderHits(t.file, t.program.headers[i], q, e)
                           \/ /\ \A i \in N : HeaderMisses(t.file, t.program.headers[i], q)
                              /\ e = Entry(q, FALSE)
    BY DEF TaskMap, N
  <2> DEFINE e == paging_get_table_entry(all, d, q)
  <2>1. CASE Hits(StackPage, t.stack, StackPages, TRUE, q, e)
    BY <1>8, <2>1
  <2>2. CASE Misses(StackPage, StackPages, q) /\ e = paging_get_table_entry(mapped, d, q)
    BY <1>2, <1>9, <2>2
  <2> QED
    BY <1>5, <2>1, <2>2
<1> QED
  BY <1>6, <1>10 DEF TaskOK, Changed, mapped, all

(***************************************************************************)
(* What a program's file and stack are given, and what is left elsewhere.  *)
(***************************************************************************)
LEMMA Given ==
    ASSUME NEW u \in SUBSET HeapFrames, NEW n \in Nat \ {0}, Run(u, n) # 0
    PROVE  LET f == Run(u, n)
               F == f .. f + n - 1
           IN  f \in F /\ f + n - 1 \in F /\ F \subseteq HeapFrames \ u
<1> DEFINE f == Run(u, n)
<1>1. f \in HeapFrames /\ f .. f + n - 1 \subseteq HeapFrames \ u
  BY Runs
<1>2. f \in Nat
  BY <1>1, HeapPages
<1> HIDE DEF f
<1> QED
  BY <1>1, <1>2 DEF f

(***************************************************************************)
(* The same for the directory of a task.                                   *)
(***************************************************************************)
LEMMA NewTaskTables ==
    ASSUME NEW u \in SUBSET HeapFrames, NEW m \in Memory
    PROVE  LET n == paging_new_4gb(u, m, FALSE)
           IN  /\ n.mem \in Memory /\ n.used \subseteq HeapFrames
               /\ SameIn(u, m, n.mem)
               /\ n.chunk # 0 => Made(u, m, n, FALSE)
               /\ (n.chunk = 0 /\ n.directory # 0) => paging_free_4gb(n.used, n.mem, n.directory, 0) = u
               /\ n.directory = 0 => n.chunk = 0 /\ HeapFrames \subseteq u /\ n.used = u
<1>1. FALSE \in BOOLEAN
  OBVIOUS
<1>2. LET n == paging_new_4gb(u, m, FALSE)
      IN  n.mem \in Memory /\ n.used \subseteq HeapFrames
  BY <1>1, NewRight
<1>3. LET n == paging_new_4gb(u, m, FALSE)
      IN  SameIn(u, m, n.mem)
  BY <1>1, NewRight
<1>4. LET n == paging_new_4gb(u, m, FALSE)
      IN  n.chunk # 0 => Made(u, m, n, FALSE)
  BY <1>1, NewRight
<1>5. LET n == paging_new_4gb(u, m, FALSE)
      IN  /\ (n.chunk = 0 /\ n.directory # 0) => paging_free_4gb(n.used, n.mem, n.directory, 0) = u
          /\ n.directory = 0 => n.chunk = 0 /\ HeapFrames \subseteq u /\ n.used = u
  BY <1>1, NewRight
<1> QED
  BY <1>2, <1>3, <1>4, <1>5

(***************************************************************************)
(* Where a directory has no table, a change of its tables changes nothing. *)
(***************************************************************************)
LEMMA ChangedApart ==
    ASSUME NEW m, NEW n, NEW d, Changed(m, n, d), NEW u \in SUBSET HeapFrames,
           Tables(m, d) \subseteq HeapFrames \ u
    PROVE  n \in Memory /\ Tables(n, d) = Tables(m, d) /\ \A f \in u : n[f] = m[f]
<1>1. n \in Memory /\ Tables(n, d) = Tables(m, d)
  BY DEF Changed, Tables
<1>2. \A f \in u : f \in HeapFrames \ Tables(m, d)
  OBVIOUS
<1> QED
  BY <1>1, <1>2 DEF Changed

(***************************************************************************)
(* A load keeps the invariant, whatever it runs out of.                    *)
(***************************************************************************)
LEMMA LoadInv == ASSUME IInv, NEW p \in Programs, Load(p) PROVE IInv'
<1> DEFINE file   == Run(used, p.size)
           F      == file .. file + p.size - 1
           u1     == used \cup F
           stack  == Run(u1, StackPages)
           S      == stack .. stack + StackPages - 1
           u2     == u1 \cup S
           m1     == [f \in HeapFrames |-> IF f \in u1 \ used THEN Data ELSE mem[f]]
           m2     == [f \in HeapFrames |-> IF f \in u2 \ used THEN Data ELSE mem[f]]
           d      == paging_new_4gb(u2, m2, FALSE)
           mapped == process_map_elf(d.mem, d.directory, file, p)
           all    == paging_map_range(mapped, d.directory, StackPage, stack, StackPages, TRUE)
           task   == [directory |-> d.directory, chunk |-> d.chunk,
                      file |-> file, stack |-> stack, program |-> p]
<1> DEFINE NoFile == file = 0 /\ UNCHANGED <<used, mem, tasks, wild>>
           NoStack == file # 0 /\ stack = 0 /\ used' = u1 /\ mem' = m1 /\ UNCHANGED <<tasks, wild>>
           NoTables == /\ file # 0 /\ stack # 0 /\ d.chunk = 0
                       /\ mem' = d.mem
                       /\ wild' = (d.directory = 0)
                       /\ used' = IF d.directory = 0 THEN d.used
                                  ELSE paging_free_4gb(d.used, d.mem, d.directory, 0)
                       /\ UNCHANGED tasks
           Stopped == /\ file # 0 /\ stack # 0 /\ d.chunk # 0 /\ Mapped(file, p) < Len(p.headers)
                      /\ mem' = mapped
                      /\ used' = paging_free_4gb(d.used, mapped, d.directory, d.chunk)
                      /\ UNCHANGED <<tasks, wild>>
           Loaded == /\ file # 0 /\ stack # 0 /\ d.chunk # 0 /\ Mapped(file, p) = Len(p.headers)
                     /\ mem' = all /\ used' = d.used
                     /\ tasks' = tasks \cup {task}
                     /\ UNCHANGED wild
<1>1. /\ ~ wild /\ UNCHANGED <<kernel, others>>
      /\ NoFile \/ NoStack \/ NoTables \/ Stopped \/ Loaded
  BY DEF Load
<1>2. p.size \in Nat \ {0} /\ StackPages \in Nat \ {0}
  BY PagingAssumption
<1>3. TypeOK /\ used \subseteq HeapFrames /\ mem \in Memory
  BY DEF IInv, TypeOK, Memory
<1>4. file # 0 => file \in F /\ F \subseteq HeapFrames \ used
  BY <1>2, <1>3, Given
<1>5. u1 \in SUBSET HeapFrames /\ stack # 0 =>
         stack \in S /\ stack + StackPages - 1 \in S /\ S \subseteq HeapFrames \ u1
  BY <1>2, Given
<1>6. /\ m1 \in Memory /\ m2 \in Memory
      /\ \A f \in used : m1[f] = mem[f] /\ m2[f] = mem[f]
      /\ \A f \in HeapFrames : (f \in u1 \ used => m1[f] = Data) /\ (f \in u2 \ used => m2[f] = Data)
  <2> HIDE DEF u1, u2
  <2> QED
    BY <1>3 DEF Memory, Content
<1> HIDE DEF file, stack, F, S, m1, m2
<1>7. CASE NoFile
  BY <1>1, <1>3, <1>7, NothingNew
<1>8. CASE NoStack
  <2>1. used' = u1 /\ mem' = m1 /\ file # 0 /\ tasks' = tasks /\ wild' = wild
    BY <1>8
  <2>2. used \subseteq u1 /\ u1 \subseteq HeapFrames
    BY <1>3, <1>4, <2>1
  <2> HIDE DEF u1
  <2>3. \A f \in u1 \ used : m1[f] = Data
    BY <1>6, <2>2
  <2> QED
    BY <1>1, <1>6, <2>1, <2>2, <2>3, NothingNew
<1>9. ASSUME file # 0, stack # 0
      PROVE  /\ file \in HeapFrames /\ stack \in HeapFrames /\ stack + StackPages - 1 \in HeapFrames
             /\ u2 \in SUBSET HeapFrames /\ used \subseteq u2
             /\ F \cap used = {} /\ S \cap used = {} /\ F \cap S = {}
  BY <1>3, <1>4, <1>5, <1>9
<1> DEFINE T == Tables(d.mem, d.directory)
<1>10. ASSUME file # 0, stack # 0
       PROVE  /\ d.mem \in Memory /\ d.used \subseteq HeapFrames
              /\ SameIn(u2, m2, d.mem)
              /\ d.chunk # 0 => Made(u2, m2, d, FALSE)
              /\ (d.chunk = 0 /\ d.directory # 0) => paging_free_4gb(d.used, d.mem, d.directory, 0) = u2
              /\ d.directory = 0 => d.chunk = 0 /\ HeapFrames \subseteq u2 /\ d.used = u2
  <2>1. u2 \in SUBSET HeapFrames /\ m2 \in Memory
    BY <1>6, <1>9, <1>10
  <2> HIDE DEF u2
  <2> QED
    BY <2>1, NewTaskTables
<1> HIDE DEF d
<1>11. ASSUME file # 0, stack # 0
       PROVE  /\ \A f \in used : d.mem[f] = mem[f]
              /\ \A f \in u2 \ used : d.mem[f] = Data
  BY <1>6, <1>9, <1>10, <1>11 DEF SameIn
<1> HIDE DEF u2
<1>12. CASE NoTables
  <2>1. CASE d.directory # 0
    <3>1. file # 0 /\ stack # 0 /\ d.chunk = 0 /\ mem' = d.mem /\ wild' = FALSE /\ tasks' = tasks
      BY <1>12, <2>1
    <3>2. used' = u2
      BY <1>10, <1>12, <2>1, <3>1
    <3>3. used \subseteq used' /\ used' \subseteq HeapFrames /\ mem' \in Memory
      BY <1>9, <1>10, <3>1, <3>2
    <3>4. (\A f \in used : mem'[f] = mem[f]) /\ (\A f \in used' \ used : mem'[f] = Data)
      BY <1>11, <3>1, <3>2
    <3>5. wild' = wild
      BY <1>1, <1>3, <3>1 DEF TypeOK
    <3> QED
      BY <1>1, <3>1, <3>3, <3>4, <3>5, NothingNew
  <2>2. CASE d.directory = 0
    <3>1. wild' = TRUE /\ used' = u2 /\ mem' \in Memory /\ HeapFrames \subseteq u2 /\ tasks' = tasks
      BY <1>10, <1>12, <2>2
    <3>2. TypeOK'
      BY <1>1, <1>3, <1>9, <1>12, <3>1 DEF TypeOK, Memory
    <3> QED
      BY <3>1, <3>2 DEF IInv, FramesApart
  <2> QED
    BY <2>1, <2>2
<1>13. ASSUME file # 0, stack # 0, d.chunk # 0
       PROVE  /\ d.directory \in HeapFrames \ u2 /\ d.chunk \in HeapFrames \ u2
              /\ d.directory # d.chunk /\ d.chunk \notin T
              /\ T \subseteq HeapFrames \ u2 /\ d.directory \notin T
              /\ d.used = u2 \cup {d.directory, d.chunk} \cup T
              /\ Tabled(d.mem, d.directory)
              /\ \A q \in Pages : paging_get_table_entry(d.mem, d.directory, q) = Entry(q, FALSE)
  <2>1. Made(u2, m2, d, FALSE)
    BY <1>10, <1>13
  <2>2. d.directory \notin T
    BY <2>1 DEF Made, Tabled, Tables
  <2> QED
    BY <2>1, <2>2 DEF Made
<1>14. CASE Stopped
  <2>1. Changed(d.mem, mapped, d.directory)
    BY <1>9, <1>10, <1>13, <1>14, ElfRight
  <2> HIDE DEF mapped
  <2>2. Tables(mapped, d.directory) = T /\ mapped \in Memory
        /\ \A f \in u2 : mapped[f] = d.mem[f]
    <3>1. u2 \in SUBSET HeapFrames /\ Tables(d.mem, d.directory) \subseteq HeapFrames \ u2
      BY <1>9, <1>13, <1>14
    <3> QED
      BY <2>1, <3>1, ChangedApart
  <2>3. used' = u2
    BY <1>13, <1>14, <2>2 DEF paging_free_4gb
  <2> QED
    BY <1>1, <1>9, <1>11, <1>14, <2>2, <2>3, NothingNew
<1>15. CASE Loaded
  <2>1. PICK t : t = task
    OBVIOUS
  <2>15. /\ t.file = file /\ t.stack = stack /\ t.program = p
         /\ t.directory = d.directory /\ t.chunk = d.chunk
         /\ t \in [directory : HeapFrames, chunk : HeapFrames, file : HeapFrames,
                   stack : HeapFrames, program : Programs]
    BY <1>9, <1>13, <1>15, <2>1
  <2>16. tasks' = tasks \cup {t}
    BY <1>15, <2>1
  <2> HIDE DEF task
  <2>2. TaskOK(all, t) /\ Changed(d.mem, all, d.directory)
    <3> HIDE DEF mapped, all
    <3>1. /\ t.file \in HeapFrames /\ t.program \in Programs /\ t.stack \in HeapFrames
          /\ t.stack + StackPages - 1 \in HeapFrames /\ d.mem \in Memory
          /\ Mapped(t.file, t.program) = Len(t.program.headers)
      BY <1>9, <1>10, <1>15, <2>15
    <3>2. /\ Tabled(d.mem, t.directory)
          /\ \A q \in Pages : paging_get_table_entry(d.mem, t.directory, q) = Entry(q, FALSE)
      BY <1>13, <1>15, <2>15
    <3>3. LET mp == process_map_elf(d.mem, t.directory, t.file, t.program)
              al == paging_map_range(mp, t.directory, StackPage, t.stack, StackPages, TRUE)
          IN  TaskOK(al, t) /\ Changed(d.mem, al, t.directory)
      BY <3>1, <3>2, TaskMade
    <3> QED
      BY <2>15, <3>3 DEF mapped, all
  <2> HIDE DEF all
  <2>3. mem' = all /\ Tables(mem', d.directory) = T /\ mem' \in Memory
        /\ \A f \in u2 : mem'[f] = d.mem[f]
    <3>1. u2 \in SUBSET HeapFrames /\ Tables(d.mem, d.directory) \subseteq HeapFrames \ u2
      BY <1>9, <1>13, <1>15
    <3>2. mem' = all
      BY <1>15
    <3> QED
      BY <2>2, <3>1, <3>2, ChangedApart
  <2>4. /\ Share(t)'[1] = {d.chunk} /\ Share(t)'[2] = {d.directory} \cup T
        /\ Share(t)'[3] = F /\ Share(t)'[4] = S
    BY <2>15, <2>3 DEF Share, TableFrames, FileFrames, StackFrames, F, S
  <2>5. 1 .. 4 = {1, 2, 3, 4} /\ {Share(t)'[i] : i \in 1 .. 4} = {Share(t)'[i] : i \in {1, 2, 3, 4}}
    OBVIOUS
  <2>6. UNION {Share(t)'[i] : i \in 1 .. 4} = {d.chunk} \cup ({d.directory} \cup T) \cup F \cup S
    BY <2>4, <2>5
  <2>7. used' = used \cup UNION {Share(t)'[i] : i \in 1 .. 4}
    BY <1>13, <1>15, <2>6 DEF u2
  <2>8. /\ {d.chunk} \cap used = {} /\ ({d.directory} \cup T) \cap used = {}
        /\ F \cap used = {} /\ S \cap used = {}
    BY <1>9, <1>13, <1>15
  <2>9. /\ {d.chunk} \cap ({d.directory} \cup T) = {} /\ {d.chunk} \cap F = {} /\ {d.chunk} \cap S = {}
        /\ ({d.directory} \cup T) \cap F = {} /\ ({d.directory} \cup T) \cap S = {} /\ F \cap S = {}
    BY <1>9, <1>13, <1>15 DEF u2
  <2>10. \A i \in 1 .. 4 : Share(t)'[i] \cap used = {}
    BY <2>4, <2>5, <2>8
  <2>11. \A i, j \in 1 .. 4 : i # j => Share(t)'[i] \cap Share(t)'[j] = {}
    BY <2>4, <2>5, <2>9
  <2>12. \A f \in used : mem'[f] = mem[f]
    BY <1>9, <1>11, <1>15, <2>3
  <2>13. used' \subseteq HeapFrames
    BY <1>10, <1>15
  <2>14. TaskOK(mem', t) /\ tasks' = tasks \cup {t} /\ UNCHANGED <<kernel, others, wild>>
    BY <1>1, <1>15, <2>2, <2>3, <2>16
  <2> QED
    BY <1>1, <2>15, <2>3, <2>7, <2>10, <2>11, <2>12, <2>13, <2>14, NewTask
<1> QED
  BY <1>1, <1>7, <1>8, <1>12, <1>14, <1>15

-----------------------------------------------------------------------------
(***************************************************************************)
(* The inductive invariant holds at first, and every step keeps it.        *)
(***************************************************************************)
LEMMA NextInv == IInv /\ [Next]_vars => IInv'
<1> SUFFICES ASSUME IInv, [Next]_vars PROVE IInv'
  OBVIOUS
<1>1. ASSUME NEW p \in Programs, Load(p) PROVE IInv'
  BY <1>1, LoadInv
<1>2. ASSUME NEW t \in tasks, copy_string_from_task(t) PROVE IInv'
  BY <1>2, CopyInv
<1>3. CASE TakeOther
  BY <1>3, TakeOtherInv
<1>4. CASE FreeOther
  BY <1>4, FreeOtherInv
<1>5. CASE UNCHANGED vars
  <2>1. UNCHANGED <<used, mem, kernel, tasks, others, wild>>
    BY <1>5 DEF vars
  <2>2. CASE ~ wild
    <3>1. mem \in Memory /\ used \subseteq HeapFrames
      BY DEF IInv, TypeOK, Memory
    <3> QED
      BY <2>1, <2>2, <3>1, NothingNew
  <2>3. CASE wild
    <3>1. TypeOK'
      BY <2>1 DEF IInv, TypeOK
    <3> QED
      BY <2>1, <2>3, <3>1 DEF IInv, FramesApart
  <2> QED
    BY <2>2, <2>3
<1> QED
  BY <1>1, <1>2, <1>3, <1>4, <1>5 DEF Next

(***************************************************************************)
(* The inductive invariant of Paging: besides types and frames, while no   *)
(* wrong directory has been followed, the kernel's tables lead everywhere  *)
(* to itself, and those of each task to its stack, to where one of its     *)
(* headers wants them, or to themselves.                                   *)
(***************************************************************************)
THEOREM PagingInvariant == Spec => []IInv
<1>1. Init => IInv
  BY InitInv
<1>2. IInv /\ [Next]_vars => IInv'
  BY NextInv
<1> QED
  BY <1>1, <1>2, PTL DEF Spec

(***************************************************************************)
(* Frames, tables and tasks are always what they should be, for any heap   *)
(* and any programs, even those no linker would make.                      *)
(***************************************************************************)
THEOREM PagingTypeOK == Spec => []TypeOK
<1>1. IInv => TypeOK
  BY DEF IInv
<1> QED
  BY <1>1, PagingInvariant, PTL

(***************************************************************************)
(* Every frame of a directory, a table, a program, a stack or the rest of  *)
(* the kernel is in use, and has one use only; a load that fails gives     *)
(* back all that paging_new_4gb had got.                                   *)
(***************************************************************************)
THEOREM PagingFramesApart == Spec => []FramesApart
<1>1. IInv => FramesApart
  BY DEF IInv
<1> QED
  BY <1>1, PagingInvariant, PTL

-----------------------------------------------------------------------------
(***************************************************************************)
(* Quotient and remainder are the only ones, of any number.                *)
(***************************************************************************)
LEMMA QuotientInt == ASSUME NEW q \in Int, NEW d \in Nat \ {0}, NEW r \in 0 .. d - 1
                     PROVE  (q * d + r) \div d = q
OBVIOUS

(***************************************************************************)
(* Whole pages go through a division.                                      *)
(***************************************************************************)
LEMMA Pull == ASSUME NEW n \in Nat, NEW a \in Nat, NEW d \in Nat \ {0}
              PROVE  (n * d + a) \div d = n + a \div d
<1> DEFINE q == a \div d
           r == a % d
<1>1. q \in Nat /\ r \in 0 .. d - 1 /\ a = q * d + r
  BY Division
<1> HIDE DEF q, r
<1>2. n + q \in Nat /\ n * d + a = (n + q) * d + r
  BY <1>1
<1>3. ((n + q) * d + r) \div d = n + q
  BY <1>1, <1>2, Quotient
<1> QED
  BY <1>2, <1>3 DEF q

(***************************************************************************)
(* Division keeps the order.                                               *)
(***************************************************************************)
LEMMA DivMonotone == ASSUME NEW a \in Nat, NEW b \in Nat, NEW d \in Nat \ {0}, a <= b
                     PROVE  a \div d <= b \div d
OBVIOUS

(***************************************************************************)
(* What is below n pages begins below n.                                   *)
(***************************************************************************)
LEMMA Below == ASSUME NEW q \in Int, NEW d \in Nat \ {0}, NEW r \in Nat, NEW n \in Nat,
                      q * d + r < n * d
               PROVE  q < n
<1>1. SUFFICES ASSUME n <= q PROVE FALSE
  OBVIOUS
<1>2. n * d <= q * d /\ n * d \in Nat /\ q * d \in Nat
  BY <1>1, Grows
<1> QED
  BY <1>2

(***************************************************************************)
(* Rounding up stays below whole pages.                                    *)
(***************************************************************************)
LEMMA Above == ASSUME NEW a \in Nat, NEW d \in Nat \ {0}, NEW n \in Nat, a <= n * d
               PROVE  (a + d - 1) \div d <= n
<1> DEFINE b == a + d - 1
           q == b \div d
           r == b % d
<1>1. b \in Nat /\ n * d \in Nat /\ b < n * d + d
  OBVIOUS
<1>2. q \in Nat /\ r \in 0 .. d - 1 /\ b = q * d + r
  BY <1>1, Division
<1>3. (n + 1) * d = n * d + d /\ n + 1 \in Nat
  BY Grows
<1> HIDE DEF q, r, b
<1>4. q < n + 1
  BY <1>1, <1>2, <1>3, Below
<1> QED
  BY <1>2, <1>4 DEF q, b

-----------------------------------------------------------------------------
(***************************************************************************)
(* A header inside its file is where the file has it: nothing wraps.       *)
(***************************************************************************)
LEMMA HeaderPlace ==
    ASSUME NEW file \in HeapFrames, NEW p \in Programs, Inside(p),
           file + p.size - 1 \in HeapFrames, NEW i \in DOMAIN p.headers
    PROVE  LET h == p.headers[i]
           IN  /\ h.p_offset \in Nat /\ h.p_vaddr \in Nat /\ h.p_filesz \in Nat
               /\ h.p_vaddr + h.p_filesz <= Space
               /\ PhysStart(file, h) = file + h.p_offset \div PageSize
               /\ PhysEnd(file, h) = file + (h.p_offset + h.p_filesz + PageSize - 1) \div PageSize
               /\ PhysEnd(file, h) <= file + p.size
<1> DEFINE h == p.headers[i]
           off == h.p_offset
           size == h.p_filesz
           end == off + size
<1>1. h \in Header /\ p.size \in Nat \ {0}
  BY MappedRight
<1>2. off \in Nat /\ size \in Nat /\ h.p_vaddr \in Nat /\ file \in Nat /\ PageSize \in Nat \ {0}
      /\ PageTotal \in Nat /\ file + p.size < PageTotal
  <2>1. file \in Nat /\ file + p.size - 1 < PageTotal - 1
    BY HeapPages
  <2> QED
    BY <1>1, <2>1, Numbers DEF Header
<1>3. end <= p.size * PageSize /\ h.p_vaddr + size <= Space
  BY DEF Inside
<1> HIDE DEF h
<1>4. (file + p.size) * PageSize = file * PageSize + p.size * PageSize
      /\ file * PageSize \in Nat /\ p.size * PageSize \in Nat /\ file + p.size + 1 \in Nat
  BY <1>1, <1>2
<1>5. (file + p.size) * PageSize < Space
  <2>1. (file + p.size + 1) * PageSize <= PageTotal * PageSize
    BY <1>1, <1>2, <1>4, Grows
  <2>2. (file + p.size + 1) * PageSize = (file + p.size) * PageSize + PageSize
    BY <1>1, <1>2, Grows
  <2>3. (file + p.size) * PageSize \in Nat /\ Space = PageTotal * PageSize /\ Space \in Nat
    BY <1>1, <1>2, <1>4, Numbers
  <2> QED
    BY <1>2, <2>1, <2>2, <2>3
<1>6. /\ file * PageSize + off \in Nat /\ file * PageSize + off < Space
      /\ file * PageSize + off + size \in Nat /\ file * PageSize + off + size < Space
      /\ Space \in Nat \ {0}
  BY <1>2, <1>3, <1>4, <1>5, Numbers
<1>7. /\ (file * PageSize + off) % Space = file * PageSize + off
      /\ (file * PageSize + off + size) % Space = file * PageSize + off + size
  BY <1>6
<1>8. PhysStart(file, h) = file + off \div PageSize
  <2>1. PhysStart(file, h) = (file * PageSize + off) \div PageSize
    BY <1>7 DEF PhysStart, elf_phdr_phys_address, paging_align_to_lower_page
  <2> QED
    BY <1>2, <2>1, Pull
<1> DEFINE up == (end + PageSize - 1) \div PageSize
<1>9. up \in Nat /\ up <= p.size
  <2>1. end + PageSize - 1 \in Nat /\ end \in Nat
    BY <1>2
  <2>2. up \in Nat
    BY <1>2, <2>1, Division
  <2> QED
    BY <1>1, <1>2, <1>3, <2>1, <2>2, Above
<1>10. PhysEnd(file, h) = file + up
  <2>1. PhysEnd(file, h) = ((file * PageSize + off + size + PageSize - 1) \div PageSize) % PageTotal
    BY <1>7 DEF PhysEnd, elf_phdr_phys_address, paging_align_address
  <2>2. file * PageSize + off + size + PageSize - 1 = file * PageSize + (end + PageSize - 1)
        /\ end + PageSize - 1 \in Nat
    BY <1>2, <1>4
  <2>3. (file * PageSize + off + size + PageSize - 1) \div PageSize = file + up
    <3> DEFINE b == end + PageSize - 1
    <3>1. b \in Nat /\ file * PageSize + off + size + PageSize - 1 = file * PageSize + b
      BY <2>2
    <3> HIDE DEF b
    <3>2. (file * PageSize + b) \div PageSize = file + b \div PageSize
      BY <1>2, <3>1, Pull
    <3> QED
      BY <3>1, <3>2 DEF b
  <2>4. file + up \in Nat /\ file + up < PageTotal
    BY <1>1, <1>2, <1>9
  <2>5. (file + up) % PageTotal = file + up
    BY <1>2, <2>4
  <2> QED
    BY <2>1, <2>3, <2>5
<1>11. /\ off \in Nat /\ h.p_vaddr \in Nat /\ size \in Nat
       /\ h.p_vaddr + size <= Space
       /\ PhysStart(file, h) = file + off \div PageSize
       /\ PhysEnd(file, h) = file + (off + size + PageSize - 1) \div PageSize
       /\ PhysEnd(file, h) <= file + p.size
  BY <1>1, <1>2, <1>3, <1>8, <1>9, <1>10
<1> QED
  BY <1>11 DEF h

(***************************************************************************)
(* And when it is congruent, the pages mapped for it are its own.          *)
(***************************************************************************)
LEMMA HeaderRange ==
    ASSUME NEW file \in HeapFrames, NEW p \in Programs, Inside(p), Congruent(p),
           file + p.size - 1 \in HeapFrames, NEW i \in DOMAIN p.headers
    PROVE  LET h == p.headers[i]
           IN  /\ HeaderPages(h) = VirtStart(h) .. VirtStart(h) + PageCount(file, h) - 1
               /\ PageCount(file, h) \in Int
               /\ \A k \in 0 .. PageCount(file, h) - 1 :
                     (VirtStart(h) + k) % PageTotal = VirtStart(h) + k
<1> DEFINE h == p.headers[i]
           v == h.p_vaddr
           o == h.p_offset
           s == h.p_filesz
           n == v \div PageSize
           a == o \div PageSize
           c == o % PageSize
           m == (c + s + PageSize - 1) \div PageSize
           r == (c + s + PageSize - 1) % PageSize
<1>1. /\ o \in Nat /\ v \in Nat /\ s \in Nat /\ v + s <= Space
      /\ PhysStart(file, h) = file + a
      /\ PhysEnd(file, h) = file + (o + s + PageSize - 1) \div PageSize
  BY HeaderPlace
<1>2. v % PageSize = c
  BY DEF Congruent
<1>3. HeaderPages(h) = n .. (v + s - 1) \div PageSize /\ VirtStart(h) = n
      /\ PageCount(file, h) = PhysEnd(file, h) - PhysStart(file, h)
  BY DEF HeaderPages, VirtStart, paging_align_to_lower_page, PageCount
<1> HIDE DEF h
<1>4. PageSize \in Nat \ {0} /\ PageTotal \in Nat \ {0} /\ Space = PageTotal * PageSize
      /\ file \in Nat
  BY Numbers, HeapPages
<1>5. n \in Nat /\ a \in Nat /\ c \in 0 .. PageSize - 1
      /\ v = n * PageSize + c /\ o = a * PageSize + c
  BY <1>1, <1>2, <1>4, Division
<1>6. c + s + PageSize - 1 \in Nat
  BY <1>1, <1>4, <1>5
<1>7. m \in Nat /\ r \in 0 .. PageSize - 1 /\ c + s + PageSize - 1 = m * PageSize + r
  BY <1>4, <1>6, Division
<1> HIDE DEF n, a, c, r
<1>8. PageCount(file, h) = m
  <2>1. o + s + PageSize - 1 = a * PageSize + (c + s + PageSize - 1)
    BY <1>1, <1>4, <1>5
  <2>2. (o + s + PageSize - 1) \div PageSize = a + m
    <3> DEFINE b == c + s + PageSize - 1
    <3>1. b \in Nat /\ o + s + PageSize - 1 = a * PageSize + b
      BY <1>6, <2>1
    <3> HIDE DEF b
    <3>2. (a * PageSize + b) \div PageSize = a + b \div PageSize
      BY <1>4, <1>5, <3>1, Pull
    <3> QED
      BY <3>1, <3>2 DEF b
  <2> HIDE DEF m
  <2> QED
    BY <1>1, <1>3, <1>4, <1>5, <1>7, <2>2
<1> HIDE DEF m, v, s, o
<1> DEFINE x == n + m - 1
<1>9. x \in Int /\ v + s - 1 = x * PageSize + r
  BY <1>1, <1>4, <1>5, <1>7
<1>10. (v + s - 1) \div PageSize = x
  BY <1>4, <1>7, <1>9, QuotientInt
<1>11. x < PageTotal
  <2>1. x * PageSize + r < PageTotal * PageSize
    <3>1. v + s - 1 < Space
      BY <1>1, <1>4, Numbers
    <3> QED
      BY <1>4, <1>9, <3>1
  <2> HIDE DEF x
  <2> QED
    BY <1>4, <1>7, <1>9, <2>1, Below
<1>12. \A k \in 0 .. m - 1 : (n + k) % PageTotal = n + k
  <2>1. SUFFICES ASSUME NEW k \in 0 .. m - 1 PROVE (n + k) % PageTotal = n + k
    OBVIOUS
  <2>2. n + k \in Nat /\ n + k < PageTotal
    BY <1>4, <1>5, <1>7, <1>11
  <2> QED
    BY <1>4, <2>2
<1>13. /\ HeaderPages(h) = VirtStart(h) .. VirtStart(h) + PageCount(file, h) - 1
       /\ PageCount(file, h) \in Int
       /\ \A k \in 0 .. PageCount(file, h) - 1 :
             (VirtStart(h) + k) % PageTotal = VirtStart(h) + k
  BY <1>3, <1>7, <1>8, <1>10, <1>12
<1> QED
  BY <1>13 DEF h

-----------------------------------------------------------------------------
(***************************************************************************)
(* Tables lead everywhere in the kernel's directory to itself.             *)
(***************************************************************************)
LEMMA KernelRight == IInv => KernelIdentity
<1> SUFFICES ASSUME IInv, ~ wild PROVE KernelIdentity
  BY DEF KernelIdentity
<1>1. Tabled(mem, kernel) /\ \A q \in Pages : paging_get_table_entry(mem, kernel, q) = Entry(q, TRUE)
  BY DEF IInv, KernelOK
<1>2. 0 \in 0 .. DirEntries - 1 /\ 0 \in 0 .. TableEntries - 1 /\ DOMAIN Data = {}
  BY Numbers DEF Data
<1>3. mem[kernel] # Data
  <2>1. 0 \in DOMAIN mem[kernel]
    BY <1>1, <1>2 DEF Tabled
  <2> QED
    BY <1>2, <2>1
<1>4. ASSUME NEW f \in Tables(mem, kernel) PROVE f \in HeapFrames /\ mem[f] # Data
  <2>1. f \in HeapFrames /\ mem[f] \in [0 .. TableEntries - 1 -> Entries]
    BY <1>1, <1>4 DEF Tabled, Tables
  <2>2. 0 \in DOMAIN mem[f]
    BY <1>2, <2>1
  <2> QED
    BY <1>2, <2>1, <2>2
<1> QED
  BY <1>1, <1>3, <1>4 DEF KernelIdentity, Leads

(***************************************************************************)
(* What every task has, as long as no wrong directory has been followed.   *)
(***************************************************************************)
LEMMA TaskFrames ==
    ASSUME IInv, ~ wild, NEW t \in tasks
    PROVE  /\ t.file \in HeapFrames /\ t.stack \in HeapFrames /\ t.program \in Programs
           /\ t.file + t.program.size - 1 \in HeapFrames
           /\ t.program.size \in Nat \ {0} /\ t.file \in Nat /\ t.stack \in Nat
           /\ \A i \in DOMAIN t.program.headers : PageCount(t.file, t.program.headers[i]) \in Nat
           /\ TaskMap(mem, t)
<1>1. t.file \in HeapFrames /\ t.stack \in HeapFrames /\ t.program \in Programs
  BY DEF IInv, TypeOK
<1>2. t.file \in Nat /\ t.stack \in Nat /\ t.program.size \in Nat \ {0}
  BY <1>1, HeapPages, MappedRight
<1>3. t.file + t.program.size - 1 \in FileFrames(t)
  BY <1>2 DEF FileFrames
<1>4. FileFrames(t) \subseteq HeapFrames
  <2>1. Share(t)[3] = FileFrames(t) /\ 3 \in 1 .. 4
    BY Shares
  <2>2. FileFrames(t) \subseteq Owned
    BY <2>1 DEF Owned
  <2> QED
    BY <2>2 DEF IInv, TypeOK, FramesApart
<1>5. Mapped(t.file, t.program) = Len(t.program.headers) /\ TaskMap(mem, t)
  BY DEF IInv, TaskOK
<1> QED
  BY <1>1, <1>2, <1>3, <1>4, <1>5, NoneRefused

(***************************************************************************)
(* A page that a header hits is one of the header's, and leads to its file.*)
(***************************************************************************)
LEMMA HitRight ==
    ASSUME IInv, ~ wild, NEW t \in tasks, Inside(t.program), NEW i \in DOMAIN t.program.headers,
           NEW q \in Pages, NEW e, HeaderHits(t.file, t.program.headers[i], q, e)
    PROVE  LET h == t.program.headers[i]
           IN  /\ e.frame \in FileFrames(t) /\ e.writable = h.writable
               /\ Congruent(t.program) => q \in HeaderPages(h) /\ e.frame = t.file + (q - Shift(h))
<1> DEFINE h == t.program.headers[i]
           c == PageCount(t.file, h)
           v == VirtStart(h)
           p == PhysStart(t.file, h)
<1>1. /\ t.file \in HeapFrames /\ t.program \in Programs /\ t.file + t.program.size - 1 \in HeapFrames
      /\ t.program.size \in Nat \ {0} /\ t.file \in Nat /\ c \in Nat
  BY TaskFrames
<1>2. h.p_offset \in Nat /\ p = t.file + h.p_offset \div PageSize /\ PhysEnd(t.file, h) <= t.file + t.program.size
  BY <1>1, HeaderPlace
<1>3. v \in Pages /\ p \in Pages /\ PhysEnd(t.file, h) \in Pages /\ p + c = PhysEnd(t.file, h)
  BY <1>1, MappedRight, HeaderType
<1>4. PICK k \in 0 .. c - 1 : q = (v + k) % PageTotal /\ e = Entry(p + k, h.writable)
  BY DEF HeaderHits, Hits, Flags
<1>5. e.frame = p + k /\ e.writable = h.writable
  BY <1>4 DEF Entry
<1>6. v \in Nat /\ p \in Nat /\ PhysEnd(t.file, h) \in Nat /\ h.p_offset \div PageSize \in Nat
  <2>1. \A x \in Pages : x \in Nat
    BY Numbers DEF Pages
  <2>2. h.p_offset \div PageSize \in Nat
    BY <1>2, Numbers, Division
  <2> QED
    BY <1>3, <2>1, <2>2
<1>7. Congruent(t.program) =>
         /\ HeaderPages(h) = v .. v + c - 1
         /\ \A j \in 0 .. c - 1 : (v + j) % PageTotal = v + j
  BY <1>1, HeaderRange
<1>8. Shift(h) = v - h.p_offset \div PageSize
  BY DEF Shift
<1> HIDE DEF h, c, v, p
<1>9. e.frame \in FileFrames(t)
  BY <1>1, <1>2, <1>3, <1>4, <1>5, <1>6 DEF FileFrames
<1>10. ASSUME Congruent(t.program) PROVE q \in HeaderPages(h) /\ e.frame = t.file + (q - Shift(h))
  <2>1. q = v + k
    BY <1>4, <1>7, <1>10
  <2>2. q \in HeaderPages(h)
    BY <1>1, <1>4, <1>6, <1>7, <1>10, <2>1
  <2> DEFINE o == h.p_offset \div PageSize
  <2>3. o \in Nat /\ e.frame = t.file + o + k /\ q - Shift(h) = (v + k) - (v - o)
    BY <1>2, <1>5, <1>6, <1>8, <2>1
  <2> HIDE DEF o
  <2>4. e.frame = t.file + (q - Shift(h))
    BY <1>1, <1>4, <1>6, <2>3
  <2> QED
    BY <2>2, <2>4
<1> QED
  BY <1>5, <1>9, <1>10 DEF h

(***************************************************************************)
(* A page of a header is one that the header does not miss.                *)
(***************************************************************************)
LEMMA MissRight ==
    ASSUME IInv, ~ wild, NEW t \in tasks, Inside(t.program), Congruent(t.program),
           NEW i \in DOMAIN t.program.headers,
           NEW q, q \in HeaderPages(t.program.headers[i])
    PROVE  q \in Pages /\ ~ HeaderMisses(t.file, t.program.headers[i], q)
<1> DEFINE h == t.program.headers[i]
           c == PageCount(t.file, h)
           v == VirtStart(h)
<1>1. /\ t.file \in HeapFrames /\ t.program \in Programs /\ t.file + t.program.size - 1 \in HeapFrames
      /\ c \in Nat
  BY TaskFrames
<1>2. /\ q \in v .. v + c - 1
      /\ \A j \in 0 .. c - 1 : (v + j) % PageTotal = v + j
  BY <1>1, HeaderRange
<1>3. v \in Pages
  BY <1>1, MappedRight, HeaderType
<1>4. HeaderMisses(t.file, h, q) <=> \A k \in 0 .. c - 1 : q # (v + k) % PageTotal
  BY DEF HeaderMisses, Misses
<1> HIDE DEF h, c, v
<1>5. v \in Nat /\ q - v \in 0 .. c - 1 /\ q = v + (q - v)
  BY <1>1, <1>2, <1>3, Numbers DEF Pages
<1>6. q = (v + (q - v)) % PageTotal
  BY <1>2, <1>5
<1>7. q \in Pages
  <2>1. v + (q - v) \in Nat
    BY <1>5
  <2> HIDE DEF Pages
  <2>2. (v + (q - v)) % PageTotal \in 0 .. PageTotal - 1
    BY <2>1, Numbers, Division
  <2> QED
    BY <1>6, <2>2 DEF Pages
<1> QED
  BY <1>4, <1>5, <1>6, <1>7 DEF h

-----------------------------------------------------------------------------
(***************************************************************************)
(* A byte of a header is found at its address.                             *)
(***************************************************************************)
LEMMA ByteRight ==
    ASSUME IInv, ~ wild, NEW t \in tasks, Inside(t.program), Congruent(t.program), Separate(t.program),
           NEW i \in DOMAIN t.program.headers, NEW k \in 0 .. t.program.headers[i].p_filesz - 1
    PROVE  LET h == t.program.headers[i]
               v == h.p_vaddr + k
           IN  Leads(t.directory, v \div PageSize).frame * PageSize + (v % PageSize)
                  = t.file * PageSize + h.p_offset + k
<1> DEFINE h == t.program.headers[i]
           v == h.p_vaddr + k
           q == v \div PageSize
           e == paging_get_table_entry(mem, t.directory, q)
<1>1. /\ t.file \in HeapFrames /\ t.program \in Programs /\ t.file + t.program.size - 1 \in HeapFrames
      /\ t.file \in Nat /\ TaskMap(mem, t)
  BY TaskFrames
<1>2. h.p_offset \in Nat /\ h.p_vaddr \in Nat /\ h.p_filesz \in Nat
  BY <1>1, HeaderPlace
<1>3. HeaderPages(h) = h.p_vaddr \div PageSize .. (h.p_vaddr + h.p_filesz - 1) \div PageSize
      /\ Shift(h) = h.p_vaddr \div PageSize - h.p_offset \div PageSize
      /\ h.p_vaddr % PageSize = h.p_offset % PageSize
  BY DEF HeaderPages, Shift, VirtStart, paging_align_to_lower_page, Congruent
<1>4. k \in Nat /\ k <= h.p_filesz - 1
  BY <1>2
<1>5. h.p_filesz - 1 \in Nat
  BY <1>2, <1>4
<1> DEFINE last == h.p_vaddr + h.p_filesz - 1
<1>6. PageSize \in Nat \ {0} /\ v \in Nat /\ last \in Nat /\ h.p_vaddr <= v /\ v <= last
  BY <1>2, <1>4, Numbers
<1>7. q \in HeaderPages(h)
  <2> HIDE DEF v, last, h
  <2>1. q \in Nat /\ h.p_vaddr \div PageSize \in Nat /\ last \div PageSize \in Nat
    BY <1>2, <1>6, Division
  <2>2. h.p_vaddr \div PageSize <= q /\ q <= last \div PageSize
    BY <1>2, <1>6, DivMonotone
  <2>3. HeaderPages(h) = h.p_vaddr \div PageSize .. last \div PageSize
    BY <1>3 DEF last
  <2> HIDE DEF q
  <2> QED
    BY <2>1, <2>2, <2>3
<1>8. q \in Pages /\ ~ HeaderMisses(t.file, h, q)
  BY <1>7, MissRight
<1>9. q \notin StackRange
  BY <1>7 DEF Separate
<1> HIDE DEF q
<1>10. PICK j \in DOMAIN t.program.headers : HeaderHits(t.file, t.program.headers[j], q, e)
  BY <1>1, <1>8, <1>9 DEF TaskMap
<1>11. q \in HeaderPages(t.program.headers[j]) /\ e.frame = t.file + (q - Shift(t.program.headers[j]))
  BY <1>8, <1>10, HitRight
<1>12. Shift(t.program.headers[j]) = Shift(h)
  BY <1>7, <1>11 DEF Separate
<1> HIDE DEF h, v
<1>13. e.frame = t.file + (q - (h.p_vaddr \div PageSize - h.p_offset \div PageSize))
  BY <1>3, <1>11, <1>12
<1> DEFINE n == h.p_vaddr \div PageSize
           a == h.p_offset \div PageSize
           r == h.p_offset % PageSize
           s == v % PageSize
<1>14. /\ n \in Nat /\ a \in Nat /\ r \in Nat /\ h.p_vaddr = n * PageSize + r
       /\ h.p_offset = a * PageSize + r
  <2> HIDE DEF s
  <2>1. n \in Nat /\ h.p_vaddr % PageSize = r /\ h.p_vaddr = n * PageSize + (h.p_vaddr % PageSize)
    BY <1>2, <1>3, <1>6, Division
  <2>2. a \in Nat /\ r \in 0 .. PageSize - 1 /\ h.p_offset = a * PageSize + r
    BY <1>2, <1>6, Division
  <2> HIDE DEF n, a, r
  <2>3. r \in Nat
    BY <2>2
  <2> QED
    BY <2>1, <2>2, <2>3
<1>15. q \in Nat /\ s \in Nat /\ v = q * PageSize + s
  <2>1. v \div PageSize \in Nat /\ s \in 0 .. PageSize - 1 /\ v = (v \div PageSize) * PageSize + s
    BY <1>6, Division
  <2> HIDE DEF s
  <2>2. s \in Nat
    BY <2>1
  <2> QED
    BY <2>1, <2>2 DEF q
<1> HIDE DEF n, a, r, s, e
<1>16. e.frame = t.file + (q - (n - a))
  BY <1>13 DEF n, a
<1>17. e.frame * PageSize + s = t.file * PageSize + h.p_offset + k
  <2>1. (t.file + (q - (n - a))) * PageSize
           = t.file * PageSize + q * PageSize - n * PageSize + a * PageSize
    BY <1>1, <1>6, <1>14, <1>15
  <2>2. v = h.p_vaddr + k
    BY DEF v
  <2>3. /\ t.file * PageSize \in Int /\ q * PageSize \in Int /\ n * PageSize \in Int
        /\ a * PageSize \in Int
    BY <1>1, <1>6, <1>14, <1>15
  <2> QED
    BY <1>4, <1>6, <1>14, <1>15, <1>16, <2>1, <2>2, <2>3
<1> QED
  BY <1>17 DEF s, e, q, v, h, Leads

(***************************************************************************)
(* Stack and headers are seen where the program expects them.              *)
(***************************************************************************)
LEMMA SegmentsRight == IInv => SegmentsVisible
<1> SUFFICES ASSUME IInv, ~ wild, NEW t \in tasks
             PROVE  /\ \A k \in 0 .. StackPages - 1 :
                          Leads(t.directory, StackPage + k) = Entry(t.stack + k, TRUE)
                    /\ (Inside(t.program) /\ Congruent(t.program) /\ Separate(t.program)) =>
                          \A i \in DOMAIN t.program.headers :
                              LET h == t.program.headers[i] IN
                              \A k \in 0 .. h.p_filesz - 1 :
                                  LET v == h.p_vaddr + k
                                  IN  Leads(t.directory, v \div PageSize).frame * PageSize + (v % PageSize)
                                        = t.file * PageSize + h.p_offset + k
  BY DEF SegmentsVisible
<1>1. ASSUME NEW k \in 0 .. StackPages - 1
      PROVE  Leads(t.directory, StackPage + k) = Entry(t.stack + k, TRUE)
  <2> DEFINE q == StackPage + k
  <2>1. StackPages \in Nat /\ StackPage \in Nat /\ StackPage + StackPages <= PageTotal
        /\ PageTotal \in Nat
    BY PagingAssumption, Numbers
  <2>2. q \in Pages /\ q \in StackRange /\ q - StackPage = k
    BY <2>1 DEF Pages, StackRange
  <2> HIDE DEF q
  <2>3. paging_get_table_entry(mem, t.directory, q) = Entry(t.stack + (q - StackPage), TRUE)
    BY <2>2, TaskFrames DEF TaskMap
  <2> QED
    BY <2>2, <2>3 DEF Leads, q
<1> QED
  BY <1>1, ByteRight

(***************************************************************************)
(* What a program can write is its own.                                    *)
(***************************************************************************)
LEMMA WritesRight == IInv => WritesStayOwn
<1> SUFFICES ASSUME IInv, ~ wild, NEW t \in tasks, NEW q \in Pages, Inside(t.program),
                    Leads(t.directory, q).writable
             PROVE  LET e == Leads(t.directory, q) IN
                    \/ e.frame \in StackFrames(t)
                    \/ /\ e.frame \in FileFrames(t)
                       /\ Congruent(t.program) =>
                             \E i \in DOMAIN t.program.headers :
                                 /\ t.program.headers[i].writable
                                 /\ q \in HeaderPages(t.program.headers[i])
  BY DEF WritesStayOwn
<1> DEFINE e == paging_get_table_entry(mem, t.directory, q)
<1>1. Leads(t.directory, q) = e /\ e.writable
  BY DEF Leads
<1>2. TaskMap(mem, t) /\ t.stack \in Nat
  BY TaskFrames
<1> HIDE DEF e
<1>3. CASE q \in StackRange
  <2>1. e.frame = t.stack + (q - StackPage)
    <3>1. e = Entry(t.stack + (q - StackPage), TRUE)
      BY <1>2, <1>3 DEF TaskMap, e
    <3> QED
      BY <3>1 DEF Entry
  <2>2. StackPages \in Nat /\ StackPage \in Nat
    BY PagingAssumption
  <2>3. q - StackPage \in 0 .. StackPages - 1
    BY <1>3, <2>2 DEF StackRange
  <2>4. e.frame \in StackFrames(t)
    BY <1>2, <2>1, <2>2, <2>3 DEF StackFrames
  <2> QED
    BY <1>1, <2>4
<1>4. CASE q \notin StackRange
  <2>1. e # Entry(q, FALSE)
    BY <1>1 DEF Entry
  <2>2. PICK i \in DOMAIN t.program.headers : HeaderHits(t.file, t.program.headers[i], q, e)
    BY <1>2, <1>4, <2>1 DEF TaskMap, e
  <2>3. /\ e.frame \in FileFrames(t) /\ e.writable = t.program.headers[i].writable
        /\ Congruent(t.program) => q \in HeaderPages(t.program.headers[i])
    BY <2>2, HitRight
  <2> QED
    BY <1>1, <2>3
<1> QED
  BY <1>3, <1>4

(***************************************************************************)
(* The rest is where the kernel put it.                                    *)
(***************************************************************************)
LEMMA RestRight == IInv => RestIdentity
<1> SUFFICES ASSUME IInv, ~ wild, NEW t \in tasks, Inside(t.program), Congruent(t.program),
                    NEW q \in Pages \ OwnPages(t.program)
             PROVE  Leads(t.directory, q) = Entry(q, FALSE)
  BY DEF RestIdentity
<1> DEFINE e == paging_get_table_entry(mem, t.directory, q)
<1>1. q \notin StackRange /\ \A i \in DOMAIN t.program.headers : q \notin HeaderPages(t.program.headers[i])
  BY DEF OwnPages
<1>2. TaskMap(mem, t)
  BY TaskFrames
<1>3. \A i \in DOMAIN t.program.headers : ~ HeaderHits(t.file, t.program.headers[i], q, e)
  BY <1>1, HitRight
<1>4. e = Entry(q, FALSE)
  BY <1>1, <1>2, <1>3 DEF TaskMap
<1> QED
  BY <1>4 DEF Leads

(***************************************************************************)
(* The page directories do for programs and for the kernel what they are   *)
(* for, whatever is loaded, fails to load or is copied: every address of   *)
(* the kernel stays its own; a program that a linker made finds its stack  *)
(* and each byte of its headers where it expects them; what it can write   *)
(* is its own; and the rest is where the kernel put it.                    *)
(***************************************************************************)
THEOREM PagingMappings == Spec => []Mappings
<1>1. IInv => Mappings
  BY KernelRight, SegmentsRight, WritesRight, RestRight DEF Mappings
<1> QED
  BY <1>1, PagingInvariant, PTL
=============================================================================
