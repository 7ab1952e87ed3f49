---------------------------- MODULE ConsoleProofs ---------------------------
(***************************************************************************)
(* Theorems about the two ends of the console.  The keyboard: the way of a *)
(* key press to the program, for every size of the ring buffer and any     *)
(* number of key presses.  The display: for every size of the screen and   *)
(* every width of the counters.                                            *)
(***************************************************************************)
EXTENDS Keyboard, Display, TLAPS

(***************************************************************************)
(* Arithmetic of the ring.                                                 *)
(***************************************************************************)
LEMMA Multiple == ASSUME NEW a \in Int, NEW b \in Nat \ {0}
                  PROVE  ~ (0 < a * b /\ a * b < b)
<1>1. CASE a <= 0
  <2>1. (0 - a) * b >= 0
    BY <1>1
  <2>2. QED
    BY <2>1
<1>2. CASE a >= 1
  <2>1. (a - 1) * b >= 0
    BY <1>2
  <2>2. QED
    BY <2>1
<1>3. QED
  BY <1>1, <1>2

(***************************************************************************)
(* Two numbers that are less than Size apart have different slots.         *)
(***************************************************************************)
LEMMA Apart == ASSUME NEW m \in Nat, NEW n \in Nat, m < n, n < m + Size
               PROVE  m % Size # n % Size
<1>1. Size \in Nat \ {0}
  BY KeyboardAssumption
<1>2. PICK a \in Int : m = a * Size + (m % Size)
  <2>1. m = (m \div Size) * Size + (m % Size) /\ m \div Size \in Int
    BY <1>1
  <2>2. QED
    BY <2>1
<1>3. PICK b \in Int : n = b * Size + (n % Size)
  <2>1. n = (n \div Size) * Size + (n % Size) /\ n \div Size \in Int
    BY <1>1
  <2>2. QED
    BY <2>1
<1>4. ASSUME m % Size = n % Size PROVE FALSE
  <2>1. n - m = (b - a) * Size
    BY <1>1, <1>2, <1>3, <1>4
  <2>2. 0 < (b - a) * Size /\ (b - a) * Size < Size
    BY <1>1, <2>1
  <2>3. QED
    BY <1>1, <2>2, Multiple
<1>5. QED
  BY <1>4

(***************************************************************************)
(* A remainder is the only number of its range that differs by a multiple. *)
(***************************************************************************)
LEMMA Remainder == ASSUME NEW n \in Int, NEW a \in Int, NEW s \in Slot, n = a * Size + s
                   PROVE  n % Size = s
<1>1. Size \in Nat \ {0} /\ s \in 0 .. Size - 1
  BY KeyboardAssumption DEF Slot
<1>2. n = (n \div Size) * Size + (n % Size) /\ n \div Size \in Int /\ n % Size \in 0 .. Size - 1
  BY <1>1
<1>3. PICK b \in Int, r \in 0 .. Size - 1 : b = n \div Size /\ r = n % Size /\ n = b * Size + r
  BY <1>2
<1>4. (a - b) * Size = r - s /\ (b - a) * Size = s - r
  BY <1>1, <1>3
<1>5. ~ (0 < r - s /\ r - s < Size) /\ ~ (0 < s - r /\ s - r < Size)
  BY <1>1, <1>4, Multiple
<1>6. QED
  BY <1>1, <1>3, <1>5

(***************************************************************************)
(* Slots are slots, and Advance goes to the next one.                      *)
(***************************************************************************)
LEMMA NextSlot == ASSUME NEW n \in Nat
                  PROVE  /\ n % Size \in Slot
                         /\ Advance(n % Size) = (n + 1) % Size
<1>1. Size \in Nat \ {0}
  BY KeyboardAssumption
<1>2. n = (n \div Size) * Size + (n % Size) /\ n \div Size \in Int /\ n % Size \in Slot
  BY <1>1 DEF Slot
<1>3. PICK a \in Int, r \in Slot : r = n % Size /\ n = a * Size + r
  BY <1>2
<1>4. CASE r + 1 >= Size
  <2>1. n + 1 = (a + 1) * Size + 0 /\ 0 \in Slot
    BY <1>1, <1>3, <1>4 DEF Slot
  <2>2. (n + 1) % Size = 0
    BY <2>1, Remainder
  <2>3. QED
    BY <1>2, <1>3, <1>4, <2>2 DEF Advance
<1>5. CASE r + 1 < Size
  <2>1. n + 1 = a * Size + (r + 1) /\ r + 1 \in Slot
    BY <1>1, <1>3, <1>5 DEF Slot
  <2>2. (n + 1) % Size = r + 1
    BY <2>1, Remainder
  <2>3. QED
    BY <1>1, <1>2, <1>3, <1>5, <2>2 DEF Advance, Slot
<1>6. QED
  BY <1>1, <1>3, <1>4, <1>5 DEF Slot

(***************************************************************************)
(* The ring closes after Size slots.                                       *)
(***************************************************************************)
LEMMA Around == ASSUME NEW n \in Nat
                PROVE  (n + Size) % Size = n % Size
<1>1. Size \in Nat \ {0}
  BY KeyboardAssumption
<1>2. n = (n \div Size) * Size + (n % Size) /\ n \div Size \in Int /\ n % Size \in Slot
  BY <1>1 DEF Slot
<1>3. PICK a \in Int, r \in Slot : r = n % Size /\ n = a * Size + r
  BY <1>2
<1>4. PICK b \in Int : n + Size = b * Size + r
  <2>1. n + Size = (a + 1) * Size + r /\ a + 1 \in Int
    BY <1>1, <1>3 DEF Slot
  <2>2. QED
    BY <2>1
<1>5. PICK m \in Int : m = n + Size
  BY <1>1
<1>6. m % Size = r
  BY <1>4, <1>5, Remainder
<1>7. QED
  BY <1>3, <1>5, <1>6

(***************************************************************************)
(* Counting slots from a slot.                                             *)
(***************************************************************************)
LEMMA SlotSum == ASSUME NEW n \in Nat, NEW i \in Nat
                 PROVE  ((n % Size) + i) % Size = (n + i) % Size
<1>1. Size \in Nat \ {0}
  BY KeyboardAssumption
<1>2. n = (n \div Size) * Size + (n % Size) /\ n \div Size \in Int /\ n % Size \in Slot
  BY <1>1 DEF Slot
<1>3. PICK a \in Int, r \in Slot : r = n % Size /\ n = a * Size + r
  BY <1>2
<1>4. r + i = ((r + i) \div Size) * Size + ((r + i) % Size) /\ (r + i) \div Size \in Int /\ (r + i) % Size \in Slot
  BY <1>1 DEF Slot
<1>5. PICK b \in Int, t \in Slot : t = (r + i) % Size /\ r + i = b * Size + t
  BY <1>4
<1>6. n + i = (a + b) * Size + t
  <2>1. (a + b) * Size = a * Size + b * Size /\ a * Size \in Int /\ b * Size \in Int
    BY <1>1
  <2>2. r \in Int /\ t \in Int
    BY DEF Slot
  <2>3. QED
    BY <1>3, <1>5, <2>1, <2>2
<1>7. (n + i) % Size = t
  BY <1>6, Remainder
<1>8. QED
  BY <1>3, <1>5, <1>7

(***************************************************************************)
(* How many calls of keyboard_pop come before the one that looks at slot s.*)
(***************************************************************************)
LEMMA Distance == ASSUME NEW s \in Slot, NEW h \in Slot
                  PROVE  (s + Size - h) % Size = IF s >= h THEN s - h ELSE s + Size - h
<1>1. Size \in Nat \ {0}
  BY KeyboardAssumption
<1>2. CASE s >= h
  <2>1. s + Size - h = 1 * Size + (s - h) /\ s - h \in Slot
    BY <1>1, <1>2 DEF Slot
  <2>2. s + Size - h \in Int
    BY <1>1 DEF Slot
  <2>3. (s + Size - h) % Size = s - h
    BY <2>1, <2>2, Remainder
  <2>4. QED
    BY <1>2, <2>3
<1>3. CASE s < h
  <2>1. s + Size - h = 0 * Size + (s + Size - h) /\ s + Size - h \in Slot
    BY <1>1, <1>3 DEF Slot
  <2>2. ~ (s >= h)
    BY <1>1, <1>3 DEF Slot
  <2>3. (s + Size - h) % Size = s + Size - h
    BY <2>1, Remainder DEF Slot
  <2>4. QED
    BY <2>2, <2>3
<1>4. QED
  BY <1>1, <1>2, <1>3 DEF Slot

-----------------------------------------------------------------------------
(***************************************************************************)
(* The inductive invariant.  Order: every byte on its way is a key press   *)
(* of its own, behind all that were stored before it.  Ring: the buffer    *)
(* holds the last Size stored key presses, each in its place, except those *)
(* that were returned.  Fifo: what was returned is the beginning of what   *)
(* was stored.                                                             *)
(***************************************************************************)
Distinct == \A i, j \in 1 .. Len(pressed) : pressed[i] = pressed[j] => i = j

\* In the sequence p, a comes before b; and k is in it.
Before(p, a, b) == \E i, j \in 1 .. Len(p) : i < j /\ p[i] = a /\ p[j] = b
Made(p, k) == \E i \in 1 .. Len(p) : p[i] = k

OnWire == {j \in 1 .. Len(wire) : wire[j] # Release}

Fresh == irq /\ out # Release

Order ==
    /\ Distinct
    /\ \A i \in 1 .. Len(pushed) : Made(pressed, pushed[i])
    /\ \A i, j \in 1 .. Len(pushed) : i < j => Before(pressed, pushed[i], pushed[j])
    /\ Fresh => /\ Made(pressed, out)
                /\ \A i \in 1 .. Len(pushed) : Before(pressed, pushed[i], out)
    /\ \A j \in OnWire : /\ Made(pressed, wire[j])
                         /\ \A i \in 1 .. Len(pushed) : Before(pressed, pushed[i], wire[j])
                         /\ Fresh => Before(pressed, out, wire[j])
                         /\ \A i \in OnWire : i < j => Before(pressed, wire[i], wire[j])

\* The stored key presses that no newer one has displaced.
Recent == {i \in 1 .. Len(pushed) : i > Len(pushed) - Size}

Ring ==
    /\ tail = Len(pushed) % Size
    /\ \A i \in Recent : buffer[(i - 1) % Size] = pushed[i] \/ pushed[i] \in Got
    /\ \A s \in Slot : buffer[s] # NoKey =>
          \E i \in Recent : s = (i - 1) % Size /\ buffer[s] = pushed[i]
    /\ Stored \cap Got = {}
    /\ Got \subseteq ToSet(pushed)

Polls == \A s \in Slot : buffer[s] # NoKey =>
            waits[s] + (IF s >= head THEN s - head ELSE s + Size - head) < Size

Fifo ==
    ~ starved /\ Lost = {} =>
        /\ Len(got) <= Len(pushed) /\ Len(pushed) <= Len(got) + Size
        /\ head = Len(got) % Size
        /\ \A i \in 1 .. Len(got) : got[i] = pushed[i]
        /\ \A i \in Len(got) + 1 .. Len(pushed) : buffer[(i - 1) % Size] = pushed[i]

KeysInv == TypeOK /\ Order /\ Ring /\ Polls /\ Fifo

(***************************************************************************)
(* The process starts with an empty buffer and a quiet keyboard.           *)
(***************************************************************************)
LEMMA InitInv == Init => KeysInv
<1> SUFFICES ASSUME Init PROVE KeysInv
  OBVIOUS
<1> USE DEF Init
<1>1. Size \in Nat \ {0} /\ 0 \in Slot
  BY KeyboardAssumption DEF Slot
<1>2. TypeOK
  BY <1>1, KeyboardAssumption DEF TypeOK
<1>3. Order
  BY DEF Order, Distinct, OnWire, Fresh
<1>4. Got = {} /\ Stored = {} /\ ToSet(pushed) = {}
  BY DEF Got, Stored, ToSet
<1>5. 0 % Size = 0
  BY <1>1
<1>6. Ring
  BY <1>4, <1>5 DEF Ring, Recent
<1>7. Polls /\ Fifo
  BY <1>1, <1>5 DEF Polls, Fifo
<1> QED
  BY <1>2, <1>3, <1>6, <1>7 DEF KeysInv

(***************************************************************************)
(* The ring buffer and the histories of its keys.                          *)
(***************************************************************************)
LEMMA RingKept ==
    ASSUME KeysInv, UNCHANGED <<buffer, head, tail, pushed, got, starved, waits>>
    PROVE  Ring' /\ Polls' /\ Fifo'
<1>1. Stored' = Stored /\ Got' = Got /\ Lost' = Lost /\ Recent' = Recent
  BY DEF Stored, Got, Lost, Recent
<1>2. Ring /\ Polls /\ Fifo
  BY DEF KeysInv
<1> QED
  BY <1>1, <1>2 DEF Ring, Polls, Fifo

(***************************************************************************)
(* A new key press comes after all others.                                 *)
(***************************************************************************)
LEMMA KeyPressInv == ASSUME KeysInv, NEW k \in Key, KeyPress(k) PROVE KeysInv'
<1> USE DEF KeysInv
<1>1. /\ k \notin ToSet(pressed) /\ Len(wire) < MaxWire
      /\ wire' = Append(wire, k) /\ pressed' = Append(pressed, k)
      /\ UNCHANGED <<out, full, irq, buffer, head, tail, pushed, got, starved, waits>>
  BY DEF KeyPress
<1>2. wire \in Seq(Key \cup {Release}) /\ pressed \in Seq(Key) /\ k # Release
  BY KeyboardAssumption DEF TypeOK
<1>3. TypeOK'
  BY <1>1, <1>2, KeyboardAssumption DEF TypeOK
<1>4. /\ Len(pressed') = Len(pressed) + 1 /\ pressed'[Len(pressed) + 1] = k
      /\ \A i \in 1 .. Len(pressed) : pressed'[i] = pressed[i] /\ pressed[i] # k
      /\ Len(wire') = Len(wire) + 1 /\ wire'[Len(wire) + 1] = k
      /\ \A i \in 1 .. Len(wire) : wire'[i] = wire[i]
  BY <1>1, <1>2 DEF ToSet
<1>5. Len(pressed) \in Nat /\ Len(wire) \in Nat
  BY <1>2
<1>6. \A a, b : Before(pressed, a, b) => Before(pressed', a, b)
  BY <1>4, <1>5 DEF Before
<1>7. ASSUME NEW a, Made(pressed, a) PROVE Made(pressed', a) /\ Before(pressed', a, k)
  <2>1. PICK i \in 1 .. Len(pressed) : pressed[i] = a
    BY <1>7 DEF Made
  <2>2. i \in 1 .. Len(pressed') /\ Len(pressed) + 1 \in 1 .. Len(pressed') /\ i < Len(pressed) + 1
    BY <1>4, <1>5
  <2>3. pressed'[i] = a /\ pressed'[Len(pressed) + 1] = k
    BY <1>4, <2>1
  <2> QED
    BY <2>2, <2>3 DEF Made, Before
<1>8. Distinct'
  BY <1>4, <1>5 DEF Order, Distinct
<1>9. OnWire' = OnWire \cup {Len(wire) + 1} /\ Fresh' = Fresh
  BY <1>1, <1>2, <1>4, <1>5 DEF OnWire, Fresh
<1>10. Made(pressed', k)
  BY <1>4, <1>5 DEF Made
<1>11. \A j \in OnWire : wire'[j] = wire[j] /\ j < Len(wire) + 1 /\ ~ (Len(wire) + 1 < j)
  BY <1>4, <1>5 DEF OnWire
<1>12. ASSUME NEW j \in OnWire'
       PROVE  /\ Made(pressed', wire'[j])
              /\ \A i \in 1 .. Len(pushed) : Before(pressed', pushed[i], wire'[j])
              /\ Fresh => Before(pressed', out, wire'[j])
              /\ \A i \in OnWire' : i < j => Before(pressed', wire'[i], wire'[j])
  <2>1. CASE j \in OnWire
    BY <1>6, <1>7, <1>9, <1>11, <2>1 DEF Order
  <2>2. CASE j = Len(wire) + 1
    <3>1. wire'[j] = k /\ \A i \in OnWire' : i < j => i \in OnWire
      BY <1>4, <1>5, <1>9, <2>2
    <3> QED
      BY <1>7, <1>10, <1>11, <3>1 DEF Order
  <2> QED
    BY <1>9, <2>1, <2>2
<1>13. Order'
  BY <1>1, <1>6, <1>7, <1>8, <1>9, <1>12 DEF Order
<1> QED
  BY <1>1, <1>3, <1>13, RingKept

(***************************************************************************)
(* A byte that is no key press.                                            *)
(***************************************************************************)
LEMMA KeyReleaseInv == ASSUME KeysInv, KeyRelease PROVE KeysInv'
<1> USE DEF KeysInv
<1>1. /\ Len(wire) < MaxWire /\ wire' = Append(wire, Release)
      /\ UNCHANGED <<out, full, irq, buffer, head, tail, pressed, pushed, got, starved, waits>>
  BY DEF KeyRelease
<1>2. wire \in Seq(Key \cup {Release})
  BY DEF TypeOK
<1>3. TypeOK'
  BY <1>1, <1>2, KeyboardAssumption DEF TypeOK
<1>4. OnWire' = OnWire /\ (\A j \in OnWire : wire'[j] = wire[j]) /\ Fresh' = Fresh
  BY <1>1, <1>2 DEF OnWire, Fresh
<1>5. Order'
  BY <1>1, <1>4 DEF Order, Distinct
<1> QED
  BY <1>1, <1>3, <1>5, RingKept

(***************************************************************************)
(* The next byte becomes the one that is served: what stays in the         *)
(* keyboard is behind it.                                                  *)
(***************************************************************************)
LEMMA Shift ==
    ASSUME KeysInv, wire # <<>>, out' = Head(wire), wire' = Tail(wire)
    PROVE  /\ out' \in Key \cup {Release} /\ wire' \in Seq(Key \cup {Release})
           /\ Len(wire') = Len(wire) - 1
           /\ out' # Release => 1 \in OnWire /\ out' = wire[1]
           /\ \A j \in OnWire' : j + 1 \in OnWire /\ 1 < j + 1 /\ wire'[j] = wire[j + 1]
<1>1. wire \in Seq(Key \cup {Release}) /\ Len(wire) \in Nat /\ Len(wire) # 0
  BY DEF KeysInv, TypeOK
<1>2. out' = wire[1] /\ 1 \in 1 .. Len(wire)
  BY <1>1
<1>3. /\ wire' \in Seq(Key \cup {Release}) /\ Len(wire') = Len(wire) - 1
      /\ \A j \in 1 .. Len(wire') : wire'[j] = wire[j + 1] /\ j + 1 \in 1 .. Len(wire) /\ 1 < j + 1
  BY <1>1
<1> QED
  BY <1>1, <1>2, <1>3 DEF OnWire

(***************************************************************************)
(* The controller hands over a byte.                                       *)
(***************************************************************************)
LEMMA RefillInv == ASSUME KeysInv, Refill PROVE KeysInv'
<1> USE DEF KeysInv
<1>1. /\ wire # <<>> /\ out' = Head(wire) /\ wire' = Tail(wire)
      /\ full' = TRUE /\ irq' = TRUE
      /\ UNCHANGED <<buffer, head, tail, pressed, pushed, got, starved, waits>>
  BY DEF Refill
<1>2. /\ out' \in Key \cup {Release} /\ wire' \in Seq(Key \cup {Release})
      /\ Len(wire') = Len(wire) - 1
      /\ out' # Release => 1 \in OnWire /\ out' = wire[1]
      /\ \A j \in OnWire' : j + 1 \in OnWire /\ 1 < j + 1 /\ wire'[j] = wire[j + 1]
  BY <1>1, Shift
<1>3. Len(wire) \in Nat
  BY DEF TypeOK
<1>4. TypeOK'
  BY <1>1, <1>2, <1>3, KeyboardAssumption DEF TypeOK
<1>5. \A i, j \in OnWire' : i < j => i + 1 < j + 1
  BY DEF OnWire
<1>6. Fresh' = (out' # Release)
  BY <1>1 DEF Fresh
<1>7. Order'
  <2>1. pressed' = pressed /\ pushed' = pushed
    BY <1>1
  <2>2. Distinct' /\ (\A i \in 1 .. Len(pushed) : Made(pressed, pushed[i]))
        /\ \A i, j \in 1 .. Len(pushed) : i < j => Before(pressed, pushed[i], pushed[j])
    BY <2>1 DEF Order, Distinct
  <2>3. ASSUME out' # Release
        PROVE  /\ Made(pressed, out')
               /\ \A i \in 1 .. Len(pushed) : Before(pressed, pushed[i], out')
    BY <1>2, <2>3 DEF Order
  <2>4. ASSUME NEW j \in OnWire'
        PROVE  /\ Made(pressed, wire'[j])
               /\ \A i \in 1 .. Len(pushed) : Before(pressed, pushed[i], wire'[j])
               /\ out' # Release => Before(pressed, out', wire'[j])
               /\ \A i \in OnWire' : i < j => Before(pressed, wire'[i], wire'[j])
    <3>1. j + 1 \in OnWire /\ 1 < j + 1 /\ wire'[j] = wire[j + 1]
      BY <1>2
    <3>2. /\ Made(pressed, wire[j + 1])
          /\ \A i \in 1 .. Len(pushed) : Before(pressed, pushed[i], wire[j + 1])
          /\ \A i \in OnWire : i < j + 1 => Before(pressed, wire[i], wire[j + 1])
      BY <3>1 DEF Order
    <3>3. \A i \in OnWire' : i < j => Before(pressed, wire'[i], wire'[j])
      BY <1>2, <1>5, <3>1, <3>2
    <3>4. out' # Release => Before(pressed, out', wire'[j])
      BY <1>2, <3>1, <3>2
    <3> QED
      BY <3>1, <3>2, <3>3, <3>4
  <2> QED
    BY <1>6, <2>1, <2>2, <2>3, <2>4 DEF Order
<1> QED
  BY <1>1, <1>4, <1>7, RingKept

(***************************************************************************)
(* Two slots never hold the same key press, and none that was displaced.   *)
(***************************************************************************)
LEMMA OneSlot ==
    ASSUME KeysInv, NEW s \in Slot, NEW t \in Slot, buffer[s] # NoKey, buffer[s] = buffer[t]
    PROVE  s = t
<1>1. PICK i \in Recent : s = (i - 1) % Size /\ buffer[s] = pushed[i]
  BY DEF KeysInv, Ring
<1>2. PICK j \in Recent : t = (j - 1) % Size /\ buffer[t] = pushed[j]
  BY DEF KeysInv, Ring
<1>3. i \in 1 .. Len(pushed) /\ j \in 1 .. Len(pushed) /\ pushed[i] = pushed[j]
  BY <1>1, <1>2 DEF Recent
<1>4. ASSUME NEW k, Before(pressed, k, k) PROVE FALSE
  BY <1>4 DEF Before, KeysInv, Order, Distinct, TypeOK
<1>5. i = j
  BY <1>3, <1>4 DEF KeysInv, Order
<1> QED
  BY <1>1, <1>2, <1>5

(***************************************************************************)
(* A byte that is still to be served is not stored yet.                    *)
(***************************************************************************)
LEMMA FreshIsNew == ASSUME KeysInv, Fresh PROVE out \notin ToSet(pushed)
<1>1. ASSUME NEW k, Before(pressed, k, k) PROVE FALSE
  BY <1>1 DEF Before, KeysInv, Order, Distinct, TypeOK
<1>2. ASSUME out \in ToSet(pushed) PROVE FALSE
  <2>1. pushed \in Seq(Key)
    BY DEF KeysInv, TypeOK
  <2>2. PICK i \in 1 .. Len(pushed) : out = pushed[i]
    BY <1>2, <2>1 DEF ToSet
  <2>3. Before(pressed, out, out)
    BY <2>2 DEF KeysInv, Order
  <2> QED
    BY <1>1, <2>3
<1> QED
  BY <1>2

(***************************************************************************)
(* The handler reads twice; what it stores, if anything, is the first      *)
(* byte.                                                                   *)
(***************************************************************************)
LEMMA HandlerOrder ==
    ASSUME KeysInv, irq, SecondRead, UNCHANGED pressed,
           pushed' = pushed \/ (out # Release /\ pushed' = Append(pushed, out))
    PROVE  Order'
<1> USE DEF KeysInv
<1>1. pushed \in Seq(Key) /\ Len(pushed) \in Nat /\ out \in Key \cup {Release}
  BY DEF TypeOK
<1>2. \A i \in 1 .. Len(pushed') :
         \/ i \in 1 .. Len(pushed) /\ pushed'[i] = pushed[i]
         \/ i = Len(pushed) + 1 /\ pushed'[i] = out /\ out # Release
  BY <1>1
<1>3. \A i \in 1 .. Len(pushed') : Made(pressed, pushed'[i])
  BY <1>2 DEF Order, Fresh
<1>4. ASSUME NEW i \in 1 .. Len(pushed'), NEW j \in 1 .. Len(pushed'), i < j
      PROVE  Before(pressed, pushed'[i], pushed'[j])
  <2>1. i \in 1 .. Len(pushed) /\ pushed'[i] = pushed[i]
    BY <1>1, <1>2, <1>4
  <2> QED
    BY <1>2, <1>4, <2>1 DEF Order, Fresh
<1>5. Distinct'
  BY DEF Order, Distinct
<1>6. ASSUME NEW j \in OnWire
      PROVE  \A i \in 1 .. Len(pushed') : Before(pressed, pushed'[i], wire[j])
  BY <1>2 DEF Order, Fresh
<1>7. CASE irq' = FALSE /\ full' = FALSE /\ UNCHANGED <<wire, out>>
  <2>1. ~ Fresh' /\ OnWire' = OnWire
    BY <1>7 DEF Fresh, OnWire
  <2> QED
    BY <1>3, <1>4, <1>5, <1>6, <1>7, <2>1 DEF Order
<1>8. CASE wire # <<>> /\ out' = Head(wire) /\ wire' = Tail(wire)
  <2>1. /\ out' # Release => 1 \in OnWire /\ out' = wire[1]
        /\ \A j \in OnWire' : j + 1 \in OnWire /\ 1 < j + 1 /\ wire'[j] = wire[j + 1]
    BY <1>8, Shift
  <2>2. \A i, j \in OnWire' : i < j => i + 1 < j + 1
    BY DEF OnWire
  <2>3. Fresh' => out' # Release
    BY DEF Fresh
  <2> QED
    BY <1>3, <1>4, <1>5, <1>6, <2>1, <2>2, <2>3 DEF Order
<1> QED
  BY <1>7, <1>8 DEF SecondRead

(***************************************************************************)
(* keyboard_push.                                                          *)
(***************************************************************************)
LEMMA PushRing ==
    ASSUME KeysInv, NEW c \in Key, c \notin ToSet(pushed), keyboard_push(c),
           UNCHANGED <<head, got, starved>>
    PROVE  Ring' /\ Polls' /\ Fifo'
<1> DEFINE n == Len(pushed)
<1> USE DEF KeysInv
<1>1. /\ Size \in Nat \ {0} /\ n \in Nat /\ pushed \in Seq(Key) /\ c # NoKey
      /\ buffer \in [Slot -> Key \cup {NoKey}] /\ waits \in [Slot -> Nat] /\ head \in Slot
  BY KeyboardAssumption DEF TypeOK
<1>2. tail = n % Size /\ tail \in Slot
  BY <1>1, NextSlot DEF Ring
<1>3. /\ pushed' = Append(pushed, c) /\ Len(pushed') = n + 1 /\ pushed'[n + 1] = c
      /\ \A i \in 1 .. n : pushed'[i] = pushed[i]
      /\ buffer'[tail] = c /\ \A s \in Slot \ {tail} : buffer'[s] = buffer[s]
      /\ tail' = (n + 1) % Size
      /\ waits'[tail] = 0 /\ \A s \in Slot \ {tail} : waits'[s] = waits[s]
      /\ head' = head /\ got' = got /\ starved' = starved
  BY <1>1, <1>2, NextSlot DEF keyboard_push
<1>4. ASSUME NEW i \in 1 .. n, i > n + 1 - Size
      PROVE  i \in Recent /\ (i - 1) % Size \in Slot \ {tail}
  <2>1. i - 1 \in Nat /\ i - 1 < n /\ n < (i - 1) + Size
    BY <1>1, <1>4
  <2> QED
    BY <1>1, <1>2, <1>4, <2>1, Apart, NextSlot DEF Recent
<1>5. \A i \in Recent' : i = n + 1 \/ (i \in 1 .. n /\ i > n + 1 - Size)
  BY <1>1, <1>3 DEF Recent
<1>6. ASSUME NEW i \in Recent, (i - 1) % Size # tail
      PROVE  i \in Recent'
  <2>1. i \in 1 .. n /\ i > n - Size
    BY <1>6 DEF Recent
  <2>2. ASSUME i = n + 1 - Size PROVE FALSE
    <3>1. i - 1 \in Nat /\ n = (i - 1) + Size
      BY <1>1, <2>1, <2>2
    <3> QED
      BY <1>2, <1>6, <3>1, Around
  <2> QED
    BY <1>1, <1>3, <2>1, <2>2 DEF Recent
<1>7. n + 1 \in Recent' /\ ((n + 1) - 1) % Size = tail
  BY <1>1, <1>2, <1>3 DEF Recent
<1>8. Got' = Got
  BY <1>3 DEF Got
<1>9. \A i \in Recent' : buffer'[(i - 1) % Size] = pushed'[i] \/ pushed'[i] \in Got'
  BY <1>3, <1>4, <1>5, <1>7, <1>8 DEF Ring
<1>10. ASSUME NEW s \in Slot, buffer'[s] # NoKey
       PROVE  \E i \in Recent' : s = (i - 1) % Size /\ buffer'[s] = pushed'[i]
  <2>1. CASE s = tail
    BY <1>3, <1>7, <2>1
  <2>2. CASE s # tail
    <3>1. PICK i \in Recent : s = (i - 1) % Size /\ buffer[s] = pushed[i]
      BY <1>3, <1>10, <2>2 DEF Ring
    <3>2. i \in 1 .. n
      BY DEF Recent
    <3> QED
      BY <1>3, <1>6, <2>2, <3>1, <3>2
  <2> QED
    BY <2>1, <2>2
<1>11. ToSet(pushed') = ToSet(pushed) \cup {c}
  <2>1. DOMAIN pushed = 1 .. n /\ DOMAIN pushed' = 1 .. n + 1
    BY <1>1, <1>3
  <2>2. \A i \in 1 .. n + 1 : i \in 1 .. n \/ i = n + 1
    BY <1>1
  <2>3. n + 1 \in 1 .. n + 1 /\ \A i \in 1 .. n : i \in 1 .. n + 1
    BY <1>1
  <2> QED
    BY <1>3, <2>1, <2>2, <2>3 DEF ToSet
<1>12. Stored' = ({buffer[s] : s \in Slot \ {tail}} \ {NoKey}) \cup {c}
  <2> DEFINE Kept == {buffer[s] : s \in Slot \ {tail}} \ {NoKey}
  <2>1. ASSUME NEW k \in Stored' PROVE k \in Kept \cup {c}
    <3>1. PICK s \in Slot : k = buffer'[s] /\ k # NoKey
      BY DEF Stored
    <3>2. CASE s = tail
      BY <1>3, <3>1, <3>2
    <3>3. CASE s # tail
      BY <1>3, <3>1, <3>3
    <3> QED
      BY <3>2, <3>3
  <2>2. Kept \subseteq Stored'
    <3>1. ASSUME NEW s \in Slot \ {tail}, buffer[s] # NoKey PROVE buffer[s] \in Stored'
      BY <1>3, <3>1 DEF Stored
    <3> QED
      BY <3>1
  <2>3. c \in Stored'
    BY <1>1, <1>2, <1>3 DEF Stored
  <2> QED
    BY <2>1, <2>2, <2>3
<1>13. Ring'
  <2>1. Stored \cap Got = {} /\ Got \subseteq ToSet(pushed)
    BY DEF Ring
  <2>2. {buffer[s] : s \in Slot \ {tail}} \ {NoKey} \subseteq Stored
    BY DEF Stored
  <2>3. Stored' \cap Got' = {} /\ Got' \subseteq ToSet(pushed')
    BY <1>8, <1>11, <1>12, <2>1, <2>2
  <2> QED
    BY <1>3, <1>9, <1>10, <2>3 DEF Ring
<1>14. Polls'
  <2>1. ASSUME NEW s \in Slot, buffer'[s] # NoKey
        PROVE  waits'[s] + (IF s >= head THEN s - head ELSE s + Size - head) < Size
    <3>1. CASE s = tail
      BY <1>1, <1>3, <3>1 DEF Slot
    <3>2. CASE s # tail
      BY <1>3, <2>1, <3>2 DEF Polls
    <3> QED
      BY <3>1, <3>2
  <2> QED
    BY <1>3, <2>1 DEF Polls
<1>15. ASSUME ~ starved', Lost' = {}
       PROVE  /\ ~ starved /\ Lost = {}
              /\ n < Len(got) + Size
  <2>1. Lost = {}
    BY <1>8, <1>11, <1>12, <1>15 DEF Lost, Stored
  <2>2. ~ starved
    BY <1>3, <1>15
  <2>3. /\ Len(got) <= n /\ n <= Len(got) + Size /\ Len(got) \in Nat
        /\ \A i \in Len(got) + 1 .. n : buffer[(i - 1) % Size] = pushed[i]
    BY <2>1, <2>2 DEF Fifo, TypeOK
  <2>4. ASSUME n = Len(got) + Size PROVE FALSE
    <3>1. Len(got) + 1 \in Len(got) + 1 .. n /\ Len(got) + 1 \in 1 .. n
      BY <1>1, <2>3, <2>4
    <3>2. buffer[tail] = pushed[Len(got) + 1]
      BY <1>2, <2>3, <2>4, <3>1, Around
    <3>3. /\ buffer[tail] \in ToSet(pushed) /\ buffer[tail] # c /\ buffer[tail] # NoKey
      BY <1>1, <3>1, <3>2, KeyboardAssumption DEF ToSet
    <3>4. buffer[tail] \notin Got
      BY <1>2, <3>3 DEF Ring, Stored
    <3>5. buffer[tail] \notin Stored'
      BY <1>2, <1>12, <3>3, OneSlot
    <3> QED
      BY <1>8, <1>11, <1>15, <3>3, <3>4, <3>5 DEF Lost
  <2> QED
    BY <1>1, <2>1, <2>2, <2>3, <2>4
<1>16. Fifo'
  <2> SUFFICES ASSUME ~ starved', Lost' = {}
               PROVE  /\ Len(got') <= Len(pushed') /\ Len(pushed') <= Len(got') + Size
                      /\ head' = Len(got') % Size
                      /\ \A i \in 1 .. Len(got') : got'[i] = pushed'[i]
                      /\ \A i \in Len(got') + 1 .. Len(pushed') : buffer'[(i - 1) % Size] = pushed'[i]
    BY DEF Fifo
  <2>1. /\ n < Len(got) + Size
        /\ Len(got) <= n /\ Len(got) \in Nat /\ head = Len(got) % Size
        /\ \A i \in 1 .. Len(got) : got[i] = pushed[i]
        /\ \A i \in Len(got) + 1 .. n : buffer[(i - 1) % Size] = pushed[i]
    BY <1>15 DEF Fifo, TypeOK
  <2>2. \A i \in 1 .. Len(got) : i \in 1 .. n
    BY <1>1, <2>1
  <2>3. ASSUME NEW i \in Len(got) + 1 .. n + 1
        PROVE  buffer'[(i - 1) % Size] = pushed'[i]
    <3>1. CASE i = n + 1
      BY <1>3, <1>7, <3>1
    <3>2. CASE i \in Len(got) + 1 .. n
      <4>1. i \in 1 .. n /\ i > n + 1 - Size
        BY <1>1, <2>1, <3>2
      <4> QED
        BY <1>3, <1>4, <2>1, <3>2, <4>1
    <3> QED
      BY <1>1, <2>1, <3>1, <3>2
  <2>4. Len(got) <= n + 1 /\ n + 1 <= Len(got) + Size
    BY <1>1, <2>1
  <2>5. \A i \in 1 .. Len(got') : got'[i] = pushed'[i]
    BY <1>3, <2>1, <2>2
  <2> QED
    BY <1>3, <2>1, <2>3, <2>4, <2>5
<1> QED
  BY <1>13, <1>14, <1>16

(***************************************************************************)
(* The keyboard's handler.                                                 *)
(***************************************************************************)
LEMMA HandlerInv == ASSUME KeysInv, qwerty_keyboard_handle_interrupt PROVE KeysInv'
<1> USE DEF KeysInv
<1>1. irq /\ SecondRead /\ UNCHANGED <<head, pressed, got, starved>>
  BY DEF qwerty_keyboard_handle_interrupt
<1>2. out' \in Key \cup {Release} /\ wire' \in Seq(Key \cup {Release}) /\ Len(wire') <= MaxWire
  <2>1. Len(wire) \in Nat /\ Len(wire) <= MaxWire
    BY DEF TypeOK
  <2> QED
    BY <1>1, <2>1, Shift, KeyboardAssumption DEF SecondRead, TypeOK
<1>3. full' \in BOOLEAN /\ irq' \in BOOLEAN
  BY <1>1 DEF SecondRead
<1>4. CASE UNCHANGED <<buffer, tail, pushed, waits>>
  <2>1. TypeOK'
    BY <1>1, <1>2, <1>3, <1>4 DEF TypeOK
  <2>2. Order'
    BY <1>1, <1>4, HandlerOrder
  <2> QED
    BY <1>1, <1>4, <2>1, <2>2, RingKept
<1>5. CASE out # Release /\ keyboard_push(out)
  <2>1. out \in Key /\ out \notin ToSet(pushed)
    BY <1>1, <1>5, FreshIsNew DEF TypeOK, Fresh
  <2>2. tail \in Slot /\ tail' \in Slot
    <3>1. Len(pushed) \in Nat
      BY DEF TypeOK
    <3> QED
      BY <1>5, <3>1, NextSlot DEF Ring, keyboard_push
  <2>3. TypeOK'
    BY <1>1, <1>2, <1>3, <1>5, <2>1, <2>2 DEF TypeOK, keyboard_push
  <2>4. Order'
    BY <1>1, <1>5, HandlerOrder DEF keyboard_push
  <2> QED
    BY <1>1, <1>5, <2>1, <2>3, <2>4, PushRing
<1>6. \/ UNCHANGED <<buffer, tail, pushed, waits>>
      \/ out # Release /\ keyboard_push(out)
  BY DEF qwerty_keyboard_handle_interrupt, qwerty_keyboard_scancode_to_char
<1> QED
  BY <1>4, <1>5, <1>6

(***************************************************************************)
(* keyboard_pop, on an empty slot and on a key.                            *)
(***************************************************************************)
LEMMA PopInv == ASSUME KeysInv, keyboard_pop PROVE KeysInv'
<1> DEFINE k == buffer[head]
           n == Len(pushed)
<1> USE DEF KeysInv
<1>1. /\ Size \in Nat \ {0} /\ n \in Nat /\ head \in Slot /\ got \in Seq(Key) /\ Len(got) \in Nat
      /\ buffer \in [Slot -> Key \cup {NoKey}] /\ waits \in [Slot -> Nat]
  BY KeyboardAssumption DEF TypeOK
<1>2. /\ buffer' = [buffer EXCEPT ![head] = NoKey]
      /\ head' = Advance(head)
      /\ got' = IF k = NoKey THEN got ELSE Append(got, k)
      /\ starved' = (starved \/ k = NoKey)
      /\ waits' = [s \in Slot |-> IF buffer'[s] = NoKey THEN 0 ELSE waits[s] + 1]
      /\ UNCHANGED <<wire, out, full, irq, tail, pressed, pushed>>
  BY DEF keyboard_pop
<1>3. /\ buffer'[head] = NoKey /\ \A s \in Slot \ {head} : buffer'[s] = buffer[s]
      /\ head' = IF head = Size - 1 THEN 0 ELSE head + 1
      /\ head' \in Slot
  BY <1>1, <1>2 DEF Advance, Slot
<1>4. TypeOK'
  <2>1. got' \in Seq(Key)
    BY <1>1, <1>2
  <2>2. starved' \in BOOLEAN
    BY <1>2
  <2>3. buffer' \in [Slot -> Key \cup {NoKey}] /\ waits' \in [Slot -> Nat]
    BY <1>1, <1>2
  <2> QED
    BY <1>2, <1>3, <2>1, <2>2, <2>3 DEF TypeOK
<1>5. Order'
  BY <1>2 DEF Order, Distinct, OnWire, Fresh
<1>6. Got' = IF k = NoKey THEN Got ELSE Got \cup {k}
  <2>1. CASE k = NoKey
    BY <1>2, <2>1 DEF Got
  <2>2. CASE k # NoKey
    <3>1. /\ Len(got') = Len(got) + 1 /\ got'[Len(got) + 1] = k
          /\ \A i \in 1 .. Len(got) : got'[i] = got[i]
      BY <1>1, <1>2, <2>2
    <3>2. DOMAIN got = 1 .. Len(got) /\ DOMAIN got' = 1 .. Len(got) + 1
      BY <1>1, <1>2, <2>2
    <3>3. /\ \A i \in 1 .. Len(got) + 1 : i \in 1 .. Len(got) \/ i = Len(got) + 1
          /\ Len(got) + 1 \in 1 .. Len(got) + 1 /\ \A i \in 1 .. Len(got) : i \in 1 .. Len(got) + 1
      BY <1>1
    <3> QED
      BY <2>2, <3>1, <3>2, <3>3 DEF Got, ToSet
  <2> QED
    BY <2>1, <2>2
<1>7. Stored' = Stored \ {k}
  <2>1. ASSUME NEW x \in Stored' PROVE x \in Stored \ {k}
    <3>1. PICK s \in Slot : x = buffer'[s] /\ x # NoKey
      BY DEF Stored
    <3>2. s # head /\ x = buffer[s]
      BY <1>3, <3>1
    <3>3. x # k
      BY <1>1, <3>1, <3>2, OneSlot
    <3> QED
      BY <3>1, <3>2, <3>3 DEF Stored
  <2>2. ASSUME NEW x \in Stored \ {k} PROVE x \in Stored'
    <3>1. PICK s \in Slot : x = buffer[s] /\ x # NoKey /\ s # head
      BY DEF Stored
    <3> QED
      BY <1>3, <3>1 DEF Stored
  <2> QED
    BY <2>1, <2>2
<1>8. k # NoKey => k \in Stored /\ k \in ToSet(pushed)
  <2>1. ASSUME k # NoKey PROVE \E i \in Recent : k = pushed[i]
    BY <1>1, <2>1 DEF Ring
  <2>2. DOMAIN pushed = 1 .. n
    BY DEF TypeOK
  <2> QED
    BY <1>1, <2>1, <2>2 DEF Stored, Recent, ToSet
<1>9. Recent' = Recent /\ pushed' = pushed /\ tail' = tail
  BY <1>2 DEF Recent
<1>10. ASSUME NEW i \in Recent PROVE (i - 1) % Size \in Slot
  <2>1. i - 1 \in Nat
    BY <1>1 DEF Recent
  <2> QED
    BY <2>1, NextSlot
<1>11. ASSUME NEW i \in Recent
       PROVE  buffer'[(i - 1) % Size] = pushed[i] \/ pushed[i] \in Got'
  <2>1. CASE pushed[i] \in Got
    BY <1>6, <2>1
  <2>2. CASE buffer[(i - 1) % Size] = pushed[i] /\ (i - 1) % Size # head
    BY <1>3, <1>10, <2>2
  <2>3. CASE buffer[(i - 1) % Size] = pushed[i] /\ (i - 1) % Size = head
    <3>1. pushed[i] # NoKey
      BY KeyboardAssumption DEF Recent, TypeOK
    <3> QED
      BY <1>6, <2>3, <3>1
  <2> QED
    BY <2>1, <2>2, <2>3 DEF Ring
<1>12. ASSUME NEW s \in Slot, buffer'[s] # NoKey
       PROVE  \E i \in Recent : s = (i - 1) % Size /\ buffer'[s] = pushed[i]
  BY <1>3, <1>12 DEF Ring
<1>13. Stored' \cap Got' = {} /\ Got' \subseteq ToSet(pushed)
  BY <1>6, <1>7, <1>8 DEF Ring
<1>14. Ring'
  BY <1>9, <1>11, <1>12, <1>13 DEF Ring
<1>15. Polls'
  <2>1. ASSUME NEW s \in Slot, buffer'[s] # NoKey
        PROVE  waits'[s] + (IF s >= head' THEN s - head' ELSE s + Size - head') < Size
    <3>1. s # head /\ buffer[s] # NoKey /\ waits'[s] = waits[s] + 1 /\ waits[s] \in Nat
      BY <1>1, <1>2, <1>3, <2>1
    <3>2. waits[s] + (IF s >= head THEN s - head ELSE s + Size - head) < Size
      BY <3>1 DEF Polls
    <3>3. /\ head \in Int /\ Size \in Int /\ s \in Int /\ waits[s] \in Int
          /\ head' = (IF head = Size - 1 THEN 0 ELSE head + 1)
          /\ 0 <= s /\ s < Size /\ 0 <= head /\ head < Size
      BY <1>1, <1>3, <3>1 DEF Slot
    <3> QED
      BY <3>1, <3>2, <3>3
  <2> QED
    BY <2>1 DEF Polls
<1>16. Fifo'
  <2> SUFFICES ASSUME ~ starved', Lost' = {}
               PROVE  /\ Len(got') <= n /\ n <= Len(got') + Size
                      /\ head' = Len(got') % Size
                      /\ \A i \in 1 .. Len(got') : got'[i] = pushed[i]
                      /\ \A i \in Len(got') + 1 .. n : buffer'[(i - 1) % Size] = pushed[i]
    BY <1>9 DEF Fifo
  <2>1. k # NoKey /\ ~ starved
    BY <1>2
  <2>2. Lost = {}
    <3>1. Stored' \cup Got' = Stored \cup Got
      BY <1>6, <1>7, <1>8, <2>1
    <3> QED
      BY <1>9, <3>1 DEF Lost
  <2>3. /\ Len(got) <= n /\ n <= Len(got) + Size
        /\ head = Len(got) % Size
        /\ \A i \in 1 .. Len(got) : got[i] = pushed[i]
        /\ \A i \in Len(got) + 1 .. n : buffer[(i - 1) % Size] = pushed[i]
    BY <2>1, <2>2 DEF Fifo
  <2>4. Len(got) < n
    <3>1. PICK i \in Recent : head = (i - 1) % Size /\ k = pushed[i]
      BY <1>1, <2>1 DEF Ring
    <3>2. i \in 1 .. n
      BY DEF Recent
    <3>3. k \notin Got
      BY <1>8, <2>1 DEF Ring
    <3>4. ASSUME i <= Len(got) PROVE FALSE
      <4>1. i \in 1 .. Len(got) /\ DOMAIN got = 1 .. Len(got)
        BY <1>1, <3>2, <3>4
      <4>2. got[i] = k
        BY <2>3, <3>1, <4>1
      <4> QED
        BY <3>3, <4>1, <4>2 DEF Got, ToSet
    <3> QED
      BY <1>1, <3>2, <3>4
  <2>5. Len(got) + 1 \in Len(got) + 1 .. n /\ ((Len(got) + 1) - 1) % Size = head
    BY <1>1, <2>3, <2>4
  <2>6. k = pushed[Len(got) + 1]
    BY <2>3, <2>5
  <2>7. /\ Len(got') = Len(got) + 1 /\ got'[Len(got) + 1] = k
        /\ \A i \in 1 .. Len(got) : got'[i] = got[i]
    BY <1>1, <1>2, <2>1
  <2>8. head' = (Len(got) + 1) % Size
    BY <1>1, <1>2, <2>3, NextSlot
  <2>9. ASSUME NEW i \in Len(got) + 2 .. n
        PROVE  buffer'[(i - 1) % Size] = pushed[i]
    <3>1. i - 1 \in Nat /\ Len(got) < i - 1 /\ i - 1 < Len(got) + Size /\ i \in Len(got) + 1 .. n
      <4>1. n <= Len(got) + Size
        BY <2>3
      <4> QED
        BY <1>1, <4>1
    <3>2. (i - 1) % Size # head /\ (i - 1) % Size \in Slot
      BY <1>1, <2>3, <3>1, Apart, NextSlot
    <3> QED
      BY <1>3, <2>3, <3>1, <3>2
  <2>10. ASSUME NEW i \in 1 .. Len(got) + 1 PROVE got'[i] = pushed[i]
    <3>1. CASE i = Len(got) + 1
      BY <2>6, <2>7, <3>1
    <3>2. CASE i \in 1 .. Len(got)
      BY <2>3, <2>7, <3>2
    <3> QED
      BY <1>1, <3>1, <3>2
  <2>11. /\ Len(got') <= n /\ n <= Len(got') + Size /\ Len(got') + 1 = Len(got) + 2
    BY <1>1, <2>3, <2>4, <2>7
  <2> QED
    BY <2>7, <2>8, <2>9, <2>10, <2>11
<1> QED
  BY <1>4, <1>5, <1>14, <1>15, <1>16

-----------------------------------------------------------------------------
(***************************************************************************)
(* Every step keeps the invariant.                                         *)
(***************************************************************************)
THEOREM KeyboardInvariant == Spec => []KeysInv
<1>1. ASSUME KeysInv, UNCHANGED vars PROVE KeysInv'
  <2>1. TypeOK' /\ Order'
    BY <1>1 DEF vars, KeysInv, TypeOK, Order, Distinct, OnWire, Fresh
  <2> QED
    BY <1>1, <2>1, RingKept DEF vars, KeysInv
<1>2. KeysInv /\ [Next]_vars => KeysInv'
  BY <1>1, KeyPressInv, KeyReleaseInv, RefillInv, HandlerInv, PopInv DEF Next
<1> QED
  BY <1>2, InitInv, PTL DEF Spec

(***************************************************************************)
(* The indices of keyboard_push and keyboard_pop stay inside the buffer,   *)
(* whatever its size.                                                      *)
(***************************************************************************)
THEOREM KeyboardTypeOK == Spec => []TypeOK
<1>1. KeysInv => TypeOK
  BY DEF KeysInv
<1> QED
  BY <1>1, KeyboardInvariant, PTL

(***************************************************************************)
(* A stored key is returned by one of the next Size calls of getkey unless *)
(* it is overwritten, and the last Size stored keys never are.             *)
(***************************************************************************)
THEOREM KeyboardSoonReturned == Spec => []SoonReturned
<1>1. ASSUME KeysInv PROVE SoonReturned
  <2> USE <1>1 DEF KeysInv
  <2>1. ASSUME NEW s \in Slot, buffer[s] # NoKey
        PROVE  waits[s] + ((s + Size - head) % Size) < Size
    <3>1. head \in Slot
      BY DEF TypeOK
    <3>2. waits[s] + (IF s >= head THEN s - head ELSE s + Size - head) < Size
      BY <2>1 DEF Polls
    <3> QED
      BY <3>1, <3>2, Distance
  <2>2. ASSUME NEW k \in Lost, NEW i \in 1 .. Len(pushed), pushed[i] = k
        PROVE  i <= Len(pushed) - Size
    <3>1. Len(pushed) \in Nat /\ Size \in Nat \ {0} /\ k # NoKey
      BY <2>2, KeyboardAssumption DEF TypeOK
    <3>2. ASSUME i \in Recent PROVE FALSE
      <4>1. (i - 1) % Size \in Slot
        <5>1. i - 1 \in Nat
          BY <3>1
        <5> QED
          BY <5>1, NextSlot
      <4>2. buffer[(i - 1) % Size] = k \/ k \in Got
        BY <2>2, <3>2 DEF Ring
      <4>3. buffer[(i - 1) % Size] = k => k \in Stored
        BY <3>1, <4>1 DEF Stored
      <4> QED
        BY <4>2, <4>3 DEF Lost
    <3> QED
      BY <3>1, <3>2 DEF Recent
  <2> QED
    BY <2>1, <2>2 DEF SoonReturned
<1> QED
  BY <1>1, KeyboardInvariant, PTL

(***************************************************************************)
(* Keys are stored in the order in which they were pressed, and returned   *)
(* in the order in which they were stored until getkey meets an empty slot *)
(* or a key is overwritten.                                                *)
(***************************************************************************)
THEOREM KeyboardInOrder == Spec => []InOrder
<1>1. ASSUME KeysInv PROVE PushedInOrder
  <2> USE <1>1 DEF KeysInv
  <2> DEFINE f == [i \in 1 .. Len(pushed) |-> CHOOSE m \in 1 .. Len(pressed) : pressed[m] = pushed[i]]
  <2>1. ASSUME NEW i \in 1 .. Len(pushed)
        PROVE  f[i] \in 1 .. Len(pressed) /\ pressed[f[i]] = pushed[i]
    <3>1. \E m \in 1 .. Len(pressed) : pressed[m] = pushed[i]
      BY DEF Order, Made
    <3> QED
      BY <3>1
  <2>2. ASSUME NEW i \in 1 .. Len(pushed), NEW j \in 1 .. Len(pushed), i < j
        PROVE  f[i] < f[j]
    <3>1. PICK a, b \in 1 .. Len(pressed) : a < b /\ pressed[a] = pushed[i] /\ pressed[b] = pushed[j]
      BY <2>2 DEF Order, Before
    <3>2. f[i] = a /\ f[j] = b
      BY <2>1, <3>1 DEF Order, Distinct
    <3> QED
      BY <3>1, <3>2
  <2>3. f \in [1 .. Len(pushed) -> 1 .. Len(pressed)]
    BY <2>1
  <2> HIDE DEF f
  <2> QED
    BY <2>1, <2>2, <2>3 DEF PushedInOrder
<1>2. ASSUME KeysInv, ~ starved, Lost = {}
      PROVE  /\ IsPrefix(got, pushed)
             /\ \A i \in 1 .. Len(pushed) - Len(got) :
                   buffer[(head + i - 1) % Size] = pushed[Len(got) + i]
  <2>1. /\ Len(got) <= Len(pushed) /\ head = Len(got) % Size
        /\ \A i \in 1 .. Len(got) : got[i] = pushed[i]
        /\ \A i \in Len(got) + 1 .. Len(pushed) : buffer[(i - 1) % Size] = pushed[i]
    BY <1>2 DEF KeysInv, Fifo
  <2>2. /\ got \in Seq(Key) /\ pushed \in Seq(Key) /\ Len(got) \in Nat /\ Len(pushed) \in Nat
        /\ head \in Slot /\ head \in Int
    BY <1>2 DEF KeysInv, TypeOK, Slot
  <2>3. IsPrefix(got, pushed)
    <3> DEFINE a == SubSeq(got, 1, Len(got))
               b == SubSeq(pushed, 1, Len(got))
    <3>1. /\ a \in Seq(Key) /\ Len(a) = Len(got)
          /\ \A i \in 1 .. Len(got) : a[i] = got[i]
      BY <2>2
    <3>2. /\ b \in Seq(Key) /\ Len(b) = Len(got)
          /\ \A i \in 1 .. Len(got) : b[i] = pushed[i]
      BY <2>1, <2>2
    <3>3. a = b
      <4>1. a = [i \in 1 .. Len(got) |-> a[i]] /\ b = [i \in 1 .. Len(got) |-> b[i]]
        BY <3>1, <3>2
      <4>2. \A i \in 1 .. Len(got) : a[i] = b[i]
        BY <2>1, <3>1, <3>2
      <4> HIDE DEF a, b
      <4> QED
        BY <4>1, <4>2
    <3> QED
      BY <2>1, <3>3 DEF IsPrefix
  <2>4. ASSUME NEW i \in 1 .. Len(pushed) - Len(got)
        PROVE  buffer[(head + i - 1) % Size] = pushed[Len(got) + i]
    <3>1. i - 1 \in Nat /\ Len(got) + i \in Len(got) + 1 .. Len(pushed)
      BY <2>1, <2>2
    <3>2. head + i - 1 = head + (i - 1) /\ (Len(got) + i) - 1 = Len(got) + (i - 1)
      BY <2>2, <3>1
    <3>3. (head + (i - 1)) % Size = (Len(got) + (i - 1)) % Size
      BY <2>1, <2>2, <3>1, SlotSum
    <3>4. buffer[((Len(got) + i) - 1) % Size] = pushed[Len(got) + i]
      BY <2>1, <3>1
    <3> QED
      BY <3>2, <3>3, <3>4
  <2> QED
    BY <2>3, <2>4
<1>3. KeysInv => InOrder
  BY <1>1, <1>2 DEF InOrder
<1> QED
  BY <1>3, KeyboardInvariant, PTL

-----------------------------------------------------------------------------
(***************************************************************************)
(* How far a key has come, from what the buffer and the histories say.     *)
(***************************************************************************)
LEMMA StatusValue ==
    ASSUME NEW k \in Key
    PROVE  Status[k] = IF k \in Stored THEN "stored" ELSE IF k \in Got THEN "returned"
                       ELSE IF k \in ToSet(pushed) THEN "lost" ELSE "new"
BY DEF Status

(***************************************************************************)
(* What storing a key does to the sets of keys.                            *)
(***************************************************************************)
LEMMA PushSets ==
    ASSUME KeysInv, NEW c \in Key, c \notin ToSet(pushed), keyboard_push(c), UNCHANGED got
    PROVE  /\ Stored' = (Stored \ {buffer[tail]}) \cup {c}
           /\ Got' = Got
           /\ ToSet(pushed') = ToSet(pushed) \cup {c}
           /\ Stored \subseteq ToSet(pushed)
<1> USE DEF KeysInv
<1>1. /\ pushed \in Seq(Key) /\ Len(pushed) \in Nat /\ c # NoKey /\ tail \in Slot
      /\ buffer \in [Slot -> Key \cup {NoKey}]
  BY KeyboardAssumption DEF TypeOK
<1>2. /\ buffer'[tail] = c /\ \A s \in Slot \ {tail} : buffer'[s] = buffer[s]
      /\ pushed' = Append(pushed, c)
  BY <1>1 DEF keyboard_push
<1>3. ToSet(pushed') = ToSet(pushed) \cup {c}
  <2>1. /\ DOMAIN pushed = 1 .. Len(pushed) /\ DOMAIN pushed' = 1 .. Len(pushed) + 1
        /\ pushed'[Len(pushed) + 1] = c /\ \A i \in 1 .. Len(pushed) : pushed'[i] = pushed[i]
    BY <1>1, <1>2
  <2>2. /\ \A i \in 1 .. Len(pushed) + 1 : i \in 1 .. Len(pushed) \/ i = Len(pushed) + 1
        /\ Len(pushed) + 1 \in 1 .. Len(pushed) + 1
        /\ \A i \in 1 .. Len(pushed) : i \in 1 .. Len(pushed) + 1
    BY <1>1
  <2> QED
    BY <2>1, <2>2 DEF ToSet
<1>4. Stored \subseteq ToSet(pushed)
  <2>1. ASSUME NEW s \in Slot, buffer[s] # NoKey PROVE buffer[s] \in ToSet(pushed)
    <3>1. PICK i \in Recent : buffer[s] = pushed[i]
      BY <2>1 DEF Ring
    <3> QED
      BY <1>1, <3>1 DEF Recent, ToSet
  <2> QED
    BY <2>1 DEF Stored
<1>5. ASSUME NEW x \in Stored' PROVE x \in (Stored \ {buffer[tail]}) \cup {c}
  <2>1. PICK s \in Slot : x = buffer'[s] /\ x # NoKey
    BY DEF Stored
  <2>2. CASE s = tail
    BY <1>2, <2>1, <2>2
  <2>3. CASE s # tail
    <3>1. x = buffer[s]
      BY <1>2, <2>1, <2>3
    <3>2. x # buffer[tail]
      BY <1>1, <2>1, <2>3, <3>1, OneSlot
    <3> QED
      BY <2>1, <3>1, <3>2 DEF Stored
  <2> QED
    BY <2>2, <2>3
<1>6. ASSUME NEW x \in Stored \ {buffer[tail]} PROVE x \in Stored'
  <2>1. PICK s \in Slot : x = buffer[s] /\ x # NoKey /\ s # tail
    BY DEF Stored
  <2> QED
    BY <1>2, <2>1 DEF Stored
<1>7. c \in Stored'
  BY <1>1, <1>2 DEF Stored
<1>8. Got' = Got
  BY DEF Got
<1> QED
  BY <1>3, <1>4, <1>5, <1>6, <1>7, <1>8

(***************************************************************************)
(* keyboard_push stores a new key and displaces no more than one.          *)
(***************************************************************************)
LEMMA PushStores ==
    ASSUME KeysInv, NEW c \in Key, c \notin ToSet(pushed), keyboard_push(c), UNCHANGED got
    PROVE  Delivery!Next
<1> DEFINE v == buffer[tail]
<1>1. /\ Stored' = (Stored \ {v}) \cup {c} /\ Got' = Got
      /\ ToSet(pushed') = ToSet(pushed) \cup {c} /\ Stored \subseteq ToSet(pushed)
  BY PushSets
<1>2. Got \subseteq ToSet(pushed) /\ Stored \cap Got = {} /\ v \in Key \cup {NoKey}
  BY DEF KeysInv, Ring, TypeOK
<1>3. v # NoKey => v \in Stored
  BY DEF Stored, KeysInv, TypeOK
<1>4. Status[c] = "new"
  BY <1>1, <1>2, StatusValue
<1>5. ASSUME NEW j \in Key
      PROVE  Status'[j] = IF j = c THEN "stored"
                          ELSE IF j = v THEN "lost"
                          ELSE Status[j]
  <2>1. Status'[j] = IF j \in Stored' THEN "stored" ELSE IF j \in Got' THEN "returned"
                     ELSE IF j \in ToSet(pushed') THEN "lost" ELSE "new"
    BY DEF Status
  <2>2. CASE j = c
    BY <1>1, <2>1, <2>2
  <2>3. CASE j # c /\ j = v
    <3>1. v # NoKey
      BY <2>3, KeyboardAssumption
    <3>2. j \notin Stored' /\ j \notin Got' /\ j \in ToSet(pushed')
      BY <1>1, <1>2, <1>3, <2>3, <3>1
    <3> QED
      BY <2>1, <2>3, <3>2
  <2>4. CASE j # c /\ j # v
    <3>1. /\ (j \in Stored') = (j \in Stored) /\ (j \in Got') = (j \in Got)
          /\ (j \in ToSet(pushed')) = (j \in ToSet(pushed))
      BY <1>1, <2>4
    <3> QED
      BY <2>1, <2>4, <3>1, StatusValue
  <2> QED
    BY <2>2, <2>3, <2>4
<1>6. CASE v = NoKey
  <2>1. Status' = [j \in Key |-> IF j = c THEN "stored" ELSE IF j \in {} THEN "lost" ELSE Status[j]]
    <3>1. \A j \in Key : j # v
      BY <1>6, KeyboardAssumption
    <3> QED
      BY <1>5, <3>1 DEF Status
  <2>2. Delivery!Store(c, {})
    BY <1>4, <2>1 DEF Delivery!Store
  <2> QED
    BY <2>2 DEF Delivery!Next
<1>7. CASE v # NoKey
  <2>1. Status' = [j \in Key |-> IF j = c THEN "stored" ELSE IF j \in {v} THEN "lost" ELSE Status[j]]
    BY <1>5 DEF Status
  <2>2. v \in Key /\ Status[v] = "stored"
    BY <1>2, <1>3, <1>7, StatusValue
  <2>3. Delivery!Store(c, {v})
    BY <1>4, <2>1, <2>2 DEF Delivery!Store
  <2> QED
    BY <2>2, <2>3 DEF Delivery!Next
<1> QED
  BY <1>6, <1>7

(***************************************************************************)
(* keyboard_pop returns the key at the head, if there is one.              *)
(***************************************************************************)
LEMMA PopReturns ==
    ASSUME KeysInv, keyboard_pop
    PROVE  Delivery!Next \/ UNCHANGED Status
<1> DEFINE k == buffer[head]
<1>1. /\ head \in Slot /\ buffer \in [Slot -> Key \cup {NoKey}]
      /\ got \in Seq(Key) /\ Len(got) \in Nat
  BY DEF KeysInv, TypeOK
<1>2. /\ buffer'[head] = NoKey /\ \A s \in Slot \ {head} : buffer'[s] = buffer[s]
      /\ got' = IF k = NoKey THEN got ELSE Append(got, k)
      /\ pushed' = pushed
  BY <1>1 DEF keyboard_pop
<1>3. CASE k = NoKey
  <2>1. buffer' = buffer /\ got' = got
    BY <1>1, <1>2, <1>3 DEF keyboard_pop
  <2>2. Status' = Status
    BY <1>2, <2>1 DEF Status, Stored, Got
  <2> QED
    BY <2>2
<1>4. CASE k # NoKey
  <2>1. k \in Key /\ k \in Stored /\ Stored \cap Got = {}
    BY <1>1, <1>4 DEF Stored, KeysInv, Ring
  <2>2. Got' = Got \cup {k}
    <3>1. /\ DOMAIN got = 1 .. Len(got) /\ DOMAIN got' = 1 .. Len(got) + 1
          /\ got'[Len(got) + 1] = k /\ \A i \in 1 .. Len(got) : got'[i] = got[i]
      BY <1>1, <1>2, <1>4
    <3>2. /\ \A i \in 1 .. Len(got) + 1 : i \in 1 .. Len(got) \/ i = Len(got) + 1
          /\ Len(got) + 1 \in 1 .. Len(got) + 1 /\ \A i \in 1 .. Len(got) : i \in 1 .. Len(got) + 1
      BY <1>1
    <3> QED
      BY <3>1, <3>2 DEF Got, ToSet
  <2>3. Stored' = Stored \ {k}
    <3>1. ASSUME NEW x \in Stored' PROVE x \in Stored \ {k}
      <4>1. PICK s \in Slot : x = buffer'[s] /\ x # NoKey
        BY DEF Stored
      <4>2. s # head /\ x = buffer[s]
        BY <1>2, <4>1
      <4>3. x # k
        BY <1>1, <4>1, <4>2, OneSlot
      <4> QED
        BY <4>1, <4>2, <4>3 DEF Stored
    <3>2. ASSUME NEW x \in Stored \ {k} PROVE x \in Stored'
      <4>1. PICK s \in Slot : x = buffer[s] /\ x # NoKey /\ s # head
        BY DEF Stored
      <4> QED
        BY <1>2, <4>1 DEF Stored
    <3> QED
      BY <3>1, <3>2
  <2>4. Status[k] = "stored"
    BY <2>1, StatusValue
  <2>5. ASSUME NEW j \in Key
        PROVE  Status'[j] = IF j = k THEN "returned" ELSE Status[j]
    <3>1. Status'[j] = IF j \in Stored' THEN "stored" ELSE IF j \in Got' THEN "returned"
                       ELSE IF j \in ToSet(pushed') THEN "lost" ELSE "new"
      BY DEF Status
    <3>2. CASE j = k
      BY <2>2, <2>3, <3>1, <3>2
    <3>3. CASE j # k
      <4>1. (j \in Stored') = (j \in Stored) /\ (j \in Got') = (j \in Got)
        BY <2>2, <2>3, <3>3
      <4> QED
        BY <1>2, <3>1, <3>3, <4>1, StatusValue
    <3> QED
      BY <3>2, <3>3
  <2>6. Status' = [Status EXCEPT ![k] = "returned"]
    BY <2>5 DEF Status
  <2> QED
    BY <2>1, <2>4, <2>6 DEF Delivery!Next, Delivery!Return
<1> QED
  BY <1>3, <1>4

(***************************************************************************)
(* Handler, ring buffer and system call implement the steps of             *)
(* KeyDelivery, for every size of the buffer: a key press is stored and    *)
(* returned at most once, and only a newer one displaces it.  (This is the *)
(* safety part of ImplementsDelivery.)                                     *)
(***************************************************************************)
THEOREM KeyboardDelivers == Spec => Delivery!Init /\ [][Delivery!Next]_Status
<1>1. Init => Delivery!Init
  <2> SUFFICES ASSUME Init PROVE Delivery!Init
    OBVIOUS
  <2>1. Stored = {} /\ Got = {} /\ ToSet(pushed) = {}
    BY DEF Init, Stored, Got, ToSet
  <2>2. \A k \in Key : Status[k] = "new"
    BY <2>1, StatusValue
  <2> QED
    BY <2>2 DEF Delivery!Init, Status
<1>2. ASSUME KeysInv, [Next]_vars
      PROVE  [Delivery!Next]_Status
  <2>1. ASSUME UNCHANGED <<buffer, got, pushed>> PROVE UNCHANGED Status
    BY <2>1 DEF Status, Stored, Got
  <2>2. CASE qwerty_keyboard_handle_interrupt
    <3>1. \/ UNCHANGED <<buffer, got, pushed>>
          \/ irq /\ out # Release /\ keyboard_push(out) /\ UNCHANGED got
      BY <2>2 DEF qwerty_keyboard_handle_interrupt, qwerty_keyboard_scancode_to_char
    <3>2. CASE irq /\ out # Release /\ keyboard_push(out) /\ UNCHANGED got
      <4>1. out \in Key /\ out \notin ToSet(pushed)
        BY <1>2, <3>2, FreshIsNew DEF KeysInv, TypeOK, Fresh
      <4> QED
        BY <1>2, <3>2, <4>1, PushStores
    <3> QED
      BY <2>1, <3>1, <3>2
  <2>3. CASE keyboard_pop
    BY <1>2, <2>3, PopReturns
  <2>4. CASE (\E k \in Key : KeyPress(k)) \/ KeyRelease \/ Refill \/ UNCHANGED vars
    BY <2>1, <2>4 DEF KeyPress, KeyRelease, Refill, vars
  <2> QED
    BY <1>2, <2>2, <2>3, <2>4 DEF Next
<1> QED
  BY <1>1, <1>2, KeyboardInvariant, PTL DEF Spec

-----------------------------------------------------------------------------
(***************************************************************************)
(* The display.                                                            *)
(***************************************************************************)

(***************************************************************************)
(* The values of the two counters: any row, and a column of the screen or  *)
(* the one that terminal_backspace leaves behind at the start of a line.   *)
(***************************************************************************)
Counter == 0 .. Word - 1
Column  == 0 .. Width - 1 \cup {Word - 1}

(***************************************************************************)
(* `++' on a uint16_t counter of the cursor.                               *)
(***************************************************************************)
LEMMA IncValue ==
    ASSUME NEW n \in Counter
    PROVE  Inc(n) = IF n = Word - 1 THEN 0 ELSE n + 1
<1>1. CASE n = Word - 1
  BY <1>1, DisplayAssumption DEF Inc, Counter
<1>2. CASE n # Word - 1
  BY <1>2, DisplayAssumption DEF Inc, Counter
<1>3. QED
  BY <1>1, <1>2

(***************************************************************************)
(* `--' on a uint16_t counter of the cursor.                               *)
(***************************************************************************)
LEMMA DecValue ==
    ASSUME NEW n \in Counter
    PROVE  Dec(n) = IF n = 0 THEN Word - 1 ELSE n - 1
<1>1. CASE n = 0
  BY <1>1, DisplayAssumption DEF Dec, Counter
<1>2. CASE n # 0
  <2>1. n + Word - 1 = Word + (n - 1) /\ n - 1 \in 0 .. Word - 1
    BY <1>2, DisplayAssumption DEF Counter
  <2>2. (Word + (n - 1)) % Word = n - 1
    BY <2>1, DisplayAssumption
  <2>3. QED
    BY <1>2, <2>1, <2>2 DEF Dec
<1>3. QED
  BY <1>1, <1>2

(***************************************************************************)
(* terminal_putchar writes to the screen for a place of the screen.        *)
(***************************************************************************)
LEMMA OffsetOnScreen ==
    ASSUME NEW y \in 0 .. Height - 1, NEW x \in 0 .. Width - 1
    PROVE  Offset(x, y) \in Cell
<1>1. (Height - 1 - y) * Width >= 0 /\ y * Width >= 0
  BY DisplayAssumption
<1>2. (Height - 1 - y) * Width = Width * Height - Width - y * Width
  BY DisplayAssumption
<1>3. y * Width \in Int /\ Width * Height \in Int
  BY DisplayAssumption
<1>4. QED
  BY <1>1, <1>2, <1>3, DisplayAssumption DEF Offset, Cell

(***************************************************************************)
(* Where the cursor goes after a character.                                *)
(***************************************************************************)
LEMMA NextCursor ==
    ASSUME NEW y \in Counter, NEW x \in Counter
    PROVE  next_cursor(y, x) =
              IF x = Word - 1 THEN <<y, 0>>
              ELSE IF x + 1 >= Width THEN <<IF y = Word - 1 THEN 0 ELSE y + 1, 0>>
              ELSE <<y, x + 1>>
BY IncValue, DisplayAssumption DEF next_cursor, Counter

(***************************************************************************)
(* Where terminal_backspace writes its blank.                              *)
(***************************************************************************)
LEMMA BlankPlace ==
    ASSUME row \in Counter, col \in Counter
    PROVE  BlankAt = IF col = 0 THEN <<IF row = 0 THEN Word - 1 ELSE row - 1, Width - 1>>
                     ELSE <<row, col - 1>>
BY DecValue, DisplayAssumption DEF BlankAt, Counter

(***************************************************************************)
(* Where terminal_backspace leaves the cursor, at the start of a line, on  *)
(* the screen, and in the column it left behind at the start of a line.    *)
(***************************************************************************)
LEMMA BackspacePlace ==
    ASSUME row \in Counter, col \in Column, row # 0 \/ col # 0
    PROVE  backspace_end(BlankAt) =
              IF col = 0 THEN <<row, Word - 1>>
              ELSE IF col = Word - 1 THEN <<IF row = Word - 1 THEN 0 ELSE row + 1, Word - 1>>
              ELSE <<row, col - 1>>
<1>1. col \in Counter /\ Width \in Counter /\ Word - 1 # 0
  BY DisplayAssumption DEF Column, Counter
<1>2. CASE col = 0
  <2>1. row # 0 /\ row - 1 \in Counter /\ Width - 1 \in Counter /\ Width - 1 # Word - 1
    BY <1>2, DisplayAssumption DEF Counter
  <2>2. BlankAt = <<row - 1, Width - 1>>
    BY <1>1, <1>2, <2>1, BlankPlace
  <2>3. next_cursor(row - 1, Width - 1) = <<row, 0>>
    BY <2>1, NextCursor, DisplayAssumption DEF Counter
  <2>4. Dec(0) = Word - 1
    BY DecValue, DisplayAssumption DEF Counter
  <2>5. QED
    BY <1>2, <2>2, <2>3, <2>4 DEF backspace_end
<1>3. CASE col # 0
  <2>1. BlankAt = <<row, col - 1>> /\ col - 1 \in Counter /\ col - 1 # Word - 1
    BY <1>1, <1>3, BlankPlace, DisplayAssumption DEF Counter
  <2>2. CASE col = Word - 1
    <3>1. next_cursor(row, col - 1) = <<IF row = Word - 1 THEN 0 ELSE row + 1, 0>>
      BY <2>1, <2>2, NextCursor, DisplayAssumption DEF Counter
    <3>2. Dec(0) = Word - 1
      BY DecValue, DisplayAssumption DEF Counter
    <3>3. QED
      BY <1>3, <2>1, <2>2, <3>1, <3>2 DEF backspace_end
  <2>3. CASE col # Word - 1
    <3>1. col \in 1 .. Width - 1
      BY <1>3, <2>3, DisplayAssumption DEF Column
    <3>2. next_cursor(row, col - 1) = <<row, col>>
      BY <2>1, <3>1, NextCursor, DisplayAssumption DEF Counter
    <3>3. Dec(col) = col - 1
      BY <1>1, <1>3, DecValue DEF Counter
    <3>4. QED
      BY <1>3, <2>1, <2>3, <3>2, <3>3 DEF backspace_end
  <2>4. QED
    BY <2>2, <2>3
<1>4. QED
  BY <1>2, <1>3
-----------------------------------------------------------------------------
(***************************************************************************)
(* The inductive invariant: TerminalTypeOK; the column the wrap-around     *)
(* leaves is only met after a backspace at a line's start; and after a     *)
(* character the cursor is the one terminal_writechar moved to from there. *)
(***************************************************************************)
OnlyJoined == col = Word - 1 => joined

TypedAt(y, x) == /\ typed = <<y, x>>
                 /\ offset = Offset(x, y)
                 /\ <<row, col>> = next_cursor(y, x)

AfterTyped == typed = NoCursor \/ \E y \in Counter, x \in Column : TypedAt(y, x)

Rows == ~ below => row < Height

DisplayInv == TerminalTypeOK /\ OnlyJoined /\ Rows /\ OnScreen /\ AfterTyped

(***************************************************************************)
(* terminal_init leaves the cursor in the corner.                          *)
(***************************************************************************)
LEMMA TerminalInitInv == TerminalInit => DisplayInv
<1> SUFFICES ASSUME TerminalInit PROVE DisplayInv
  OBVIOUS
<1>1. row = 0 /\ col = 0 /\ offset = Nowhere /\ typed = NoCursor
  BY DEF TerminalInit
<1>2. below \in BOOLEAN /\ joined \in BOOLEAN
  BY DEF TerminalInit
<1>3. TerminalTypeOK
  BY <1>1, <1>2, DisplayAssumption DEF TerminalTypeOK, Nowhere
<1>4. OnlyJoined /\ Rows /\ OnScreen /\ AfterTyped
  BY <1>1, DisplayAssumption DEF OnlyJoined, Rows, OnScreen, AfterTyped
<1> QED
  BY <1>3, <1>4 DEF DisplayInv

(***************************************************************************)
(* A character: terminal_writechar.                                        *)
(***************************************************************************)
LEMMA PutcharInv == DisplayInv /\ putchar => DisplayInv'
<1> SUFFICES ASSUME DisplayInv, putchar PROVE DisplayInv'
  OBVIOUS
<1> USE DEF DisplayInv
<1>1. row \in Counter /\ col \in Column /\ col \in Counter
  BY DisplayAssumption DEF TerminalTypeOK, Counter, Column
<1>2. <<row', col'>> = next_cursor(row, col) /\ below' = (below \/ row' >= Height)
  <2>1. next_cursor(row, col) = <<next_cursor(row, col)[1], next_cursor(row, col)[2]>>
    BY DEF next_cursor
  <2>2. QED
    BY <2>1 DEF putchar, Move
<1>3. row' \in Counter /\ col' \in 0 .. Width - 1
  BY <1>1, <1>2, NextCursor, DisplayAssumption DEF Counter, Column
<1>4. offset' = Offset(col, row) /\ typed' = <<row, col>> /\ joined' = joined
  BY DEF putchar
<1>5. offset' \in Int
  BY <1>1, <1>4, DisplayAssumption DEF Offset, Counter
<1>6. TerminalTypeOK'
  BY <1>2, <1>3, <1>4, <1>5, DisplayAssumption DEF TerminalTypeOK, Counter
<1>7. /\ below' \in BOOLEAN
      /\ ~ below' => ~ below /\ ~ (row' >= Height)
  BY <1>2
<1>8. OnlyJoined' /\ Rows'
  BY <1>3, <1>7, DisplayAssumption DEF OnlyJoined, Rows, Counter
<1>9. ASSUME ~ below', ~ joined' PROVE offset' \in Cell /\ col' < Width
  <2>1. ~ below /\ ~ joined
    BY <1>4, <1>7, <1>9
  <2>2. row < Height /\ col < Width
    BY <2>1 DEF OnScreen, Rows
  <2>3. row \in 0 .. Height - 1 /\ col \in 0 .. Width - 1
    BY <1>1, <2>2, DisplayAssumption DEF Counter
  <2>4. QED
    BY <1>3, <1>4, <2>3, OffsetOnScreen, DisplayAssumption
<1>10. AfterTyped'
  BY <1>1, <1>2, <1>4 DEF AfterTyped, TypedAt
<1> QED
  BY <1>6, <1>8, <1>9, <1>10 DEF OnScreen

(***************************************************************************)
(* A newline.                                                              *)
(***************************************************************************)
LEMMA NewlineInv == DisplayInv /\ newline => DisplayInv'
<1> SUFFICES ASSUME DisplayInv, newline PROVE DisplayInv'
  OBVIOUS
<1> USE DEF DisplayInv
<1>1. row' = Inc(row) /\ col' = 0 /\ below' = (below \/ row' >= Height)
  BY DEF newline, Move
<1>2. row' \in Counter
  BY <1>1, IncValue, DisplayAssumption DEF TerminalTypeOK, Counter
<1>3. typed' = NoCursor /\ offset' = offset /\ joined' = joined
  BY DEF newline
<1>4. /\ below' \in BOOLEAN
      /\ ~ below' => ~ below /\ ~ (row' >= Height)
  BY <1>1
<1>5. TerminalTypeOK'
  BY <1>1, <1>2, <1>3, <1>4, DisplayAssumption DEF TerminalTypeOK, Counter
<1>6. OnlyJoined' /\ Rows' /\ AfterTyped'
  BY <1>1, <1>2, <1>3, <1>4, DisplayAssumption DEF OnlyJoined, Rows, AfterTyped, Counter
<1>7. ASSUME ~ below', ~ joined' PROVE offset' \in Cell \cup {Nowhere} /\ col' < Width
  <2>1. ~ below /\ ~ joined
    BY <1>3, <1>4, <1>7
  <2>2. QED
    BY <1>1, <1>3, <2>1, DisplayAssumption DEF OnScreen
<1> QED
  BY <1>5, <1>6, <1>7 DEF OnScreen

(***************************************************************************)
(* A backspace that does something: where it writes and what it leaves.    *)
(***************************************************************************)
LEMMA BackspaceInv == DisplayInv /\ terminal_backspace => DisplayInv'
<1> SUFFICES ASSUME DisplayInv, terminal_backspace PROVE DisplayInv'
  OBVIOUS
<1> USE DEF DisplayInv
<1>1. row \in Counter /\ col \in Column /\ col \in Counter
  BY DisplayAssumption DEF TerminalTypeOK, Counter, Column
<1>2. CASE row = 0 /\ col = 0
  <2>1. UNCHANGED <<row, col, offset, below, joined>> /\ typed' = NoCursor
    BY <1>2 DEF terminal_backspace
  <2>2. QED
    BY <2>1 DEF TerminalTypeOK, OnlyJoined, Rows, OnScreen, AfterTyped
<1>3. CASE row # 0 \/ col # 0
  <2>1. /\ offset' = Offset(BlankAt[2], BlankAt[1])
        /\ row' = backspace_end(BlankAt)[1] /\ col' = backspace_end(BlankAt)[2]
        /\ below' = (below \/ row' >= Height)
        /\ joined' = (joined \/ col = 0)
        /\ typed' = NoCursor
    BY <1>3 DEF terminal_backspace, Move
  <2>2. row' \in Counter /\ col' \in Column /\ (col # 0 /\ col # Word - 1 => col' = col - 1)
    BY <1>1, <1>3, <2>1, BackspacePlace, DisplayAssumption DEF Counter, Column
  <2>3. BlankAt[1] \in Int /\ BlankAt[2] \in Int
    BY <1>1, BlankPlace, DisplayAssumption DEF Counter
  <2>4. /\ below' \in BOOLEAN /\ joined' \in BOOLEAN
        /\ ~ below' => ~ below /\ ~ (row' >= Height)
        /\ ~ joined' => ~ joined /\ col # 0
    BY <2>1
  <2>5. offset' \in Int
    BY <2>1, <2>3, DisplayAssumption DEF Offset
  <2>6. TerminalTypeOK'
    BY <2>2, <2>4, <2>5, DisplayAssumption DEF TerminalTypeOK, Counter, Column
  <2>7. OnlyJoined'
    <3>1. ASSUME col' = Word - 1 PROVE col = 0 \/ joined
      BY <1>1, <2>2, <3>1, DisplayAssumption DEF OnlyJoined, Counter
    <3>2. QED
      BY <2>1, <3>1 DEF OnlyJoined
  <2>8. Rows' /\ AfterTyped'
    BY <2>1, <2>2, <2>4, DisplayAssumption DEF Rows, AfterTyped, Counter
  <2>9. ASSUME ~ below', ~ joined' PROVE offset' \in Cell /\ col' < Width
    <3>1. ~ below /\ ~ joined /\ col # 0
      BY <2>4, <2>9
    <3>2. row < Height /\ col < Width
      BY <3>1 DEF OnScreen, Rows
    <3>3. row \in 0 .. Height - 1 /\ col \in 1 .. Width - 1
      BY <1>1, <3>1, <3>2, DisplayAssumption DEF Counter
    <3>4. BlankAt = <<row, col - 1>>
      BY <1>1, <3>3, BlankPlace
    <3>5. col # Word - 1 /\ col - 1 \in 0 .. Width - 1
      BY <3>3, DisplayAssumption
    <3>6. QED
      BY <2>1, <2>2, <3>3, <3>4, <3>5, OffsetOnScreen, DisplayAssumption
  <2>10. QED
    BY <2>6, <2>7, <2>8, <2>9 DEF OnScreen
<1> QED
  BY <1>2, <1>3

(***************************************************************************)
(* Every step of terminal_print keeps the invariant.                       *)
(***************************************************************************)
THEOREM DisplayInvariant == TerminalSpec => []DisplayInv
<1>1. DisplayInv /\ UNCHANGED terminal_vars => DisplayInv'
  BY DEF terminal_vars, DisplayInv, TerminalTypeOK, OnlyJoined, Rows, OnScreen, AfterTyped, TypedAt
<1>2. DisplayInv /\ [TerminalNext]_terminal_vars => DisplayInv'
  BY <1>1, PutcharInv, NewlineInv, BackspaceInv DEF TerminalNext
<1> QED
  BY <1>2, TerminalInitInv, PTL DEF TerminalSpec

(***************************************************************************)
(* The cursor is always two uint16_t values, the column one of the screen  *)
(* or the wrapped-around one.                                              *)
(***************************************************************************)
THEOREM DisplayTypeOK == TerminalSpec => []TerminalTypeOK
<1>1. DisplayInv => TerminalTypeOK
  BY DEF DisplayInv
<1> QED
  BY <1>1, DisplayInvariant, PTL

(***************************************************************************)
(* On every screen, terminal_putchar writes to the screen's part of video  *)
(* memory, until the text runs off the last row or a backspace is printed  *)
(* at the start of a line.                                                 *)
(***************************************************************************)
THEOREM DisplayOnScreen == TerminalSpec => []OnScreen
<1>1. DisplayInv => OnScreen
  BY DEF DisplayInv
<1> QED
  BY <1>1, DisplayInvariant, PTL

(***************************************************************************)
(* A backspace undoes the character before it, and takes the cursor back   *)
(* to no earlier line.                                                     *)
(***************************************************************************)
THEOREM DisplayBackspace == TerminalSpec => BackspaceUndoes
<1> DEFINE A == terminal_backspace =>
                  /\ typed # NoCursor /\ typed[2] + 1 < Width
                       => <<row', col'>> = typed /\ offset' = offset
                  /\ row' >= row \/ row = Word - 1
<1>1. ASSUME DisplayInv, terminal_backspace PROVE A
  <2>1. row \in Counter /\ col \in Column /\ col \in Counter
    BY <1>1, DisplayAssumption DEF DisplayInv, TerminalTypeOK, Counter, Column
  <2>2. CASE row = 0 /\ col = 0
    <3>1. row' = 0 /\ row' >= row
      BY <1>1, <2>2 DEF terminal_backspace
    <3>2. ASSUME typed # NoCursor PROVE ~ (typed[2] + 1 < Width)
      <4>1. PICK y \in Counter, x \in Column : TypedAt(y, x)
        BY <1>1, <3>2 DEF DisplayInv, AfterTyped
      <4>2. x \in Counter /\ <<0, 0>> = next_cursor(y, x) /\ typed[2] = x
        BY <2>2, <4>1, DisplayAssumption DEF TypedAt, Counter, Column
      <4>3. x = Word - 1 \/ x + 1 >= Width
        BY <4>2, NextCursor DEF Counter
      <4> QED
        BY <4>2, <4>3, DisplayAssumption DEF Counter
    <3> QED
      BY <3>1, <3>2
  <2>3. CASE row # 0 \/ col # 0
    <3>1. /\ offset' = Offset(BlankAt[2], BlankAt[1])
          /\ row' = backspace_end(BlankAt)[1] /\ col' = backspace_end(BlankAt)[2]
      BY <1>1, <2>3 DEF terminal_backspace, Move
    <3>2. row' >= row \/ row = Word - 1
      BY <2>1, <2>3, <3>1, BackspacePlace DEF Counter
    <3>3. ASSUME typed # NoCursor, typed[2] + 1 < Width
          PROVE  <<row', col'>> = typed /\ offset' = offset
      <4>1. PICK y \in Counter, x \in Column : TypedAt(y, x)
        BY <1>1, <3>3 DEF DisplayInv, AfterTyped
      <4>2. typed = <<y, x>> /\ typed[2] = x /\ offset = Offset(x, y)
        BY <4>1 DEF TypedAt
      <4>3. x \in 0 .. Width - 2 /\ x \in Counter
        BY <3>3, <4>2, DisplayAssumption DEF Column, Counter
      <4>4. row = y /\ col = x + 1
        BY <4>1, <4>3, NextCursor, DisplayAssumption DEF TypedAt
      <4>5. col # 0 /\ col # Word - 1 /\ col - 1 = x
        BY <4>3, <4>4, DisplayAssumption
      <4>6. BlankAt = <<y, x>> /\ backspace_end(BlankAt) = <<y, x>>
        BY <2>1, <4>4, <4>5, BlankPlace, BackspacePlace
      <4> QED
        BY <3>1, <4>2, <4>6
    <3> QED
      BY <3>2, <3>3
  <2> QED
    BY <2>2, <2>3
<1>2. DisplayInv /\ [TerminalNext]_terminal_vars => [A]_terminal_vars
  BY <1>1
<1> QED
  BY <1>2, DisplayInvariant, PTL DEF TerminalSpec, BackspaceUndoes

=============================================================================
