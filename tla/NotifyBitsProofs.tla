-------------------------- MODULE NotifyBitsProofs --------------------------
(***************************************************************************)
(* Facts about % on positions, shared by the proofs about the rings, and   *)
(* what bumping, marking and clearing do to a notify word, for every width *)
(* of the sequence.                                                        *)
(***************************************************************************)
EXTENDS NotifyBits, TLAPS

\* What \div and % return, for the positions and capacities of the rings.
LEMMA DivMod ==
  ASSUME NEW a \in Nat, NEW n \in Nat \ {0}
  PROVE  /\ a % n \in 0 .. (n - 1)
         /\ a \div n \in Nat
         /\ a = n * (a \div n) + (a % n)
  OBVIOUS

\* The remainder is the only r below n that division can leave.
LEMMA ModUnique ==
  ASSUME NEW n \in Nat \ {0}, NEW q \in Int, NEW r \in 0 .. (n - 1)
  PROVE  (n * q + r) % n = r
  OBVIOUS

\* Two positions less than one lap apart have different indexes.  The rings
\* compare indexes only, so everything about full, empty and overwriting rests
\* on this.
LEMMA ModInjective ==
  ASSUME NEW n \in Nat \ {0}, NEW a \in Nat, NEW b \in Nat,
         a <= b, b < a + n, a % n = b % n
  PROVE  a = b
<1> DEFINE qa == a \div n  qb == b \div n
<1>1. qa \in Nat /\ qb \in Nat /\ a = n * qa + (a % n) /\ b = n * qb + (a % n)
  BY DivMod, Zenon
<1>2. a % n \in 0 .. (n - 1)
  BY DivMod
<1> HIDE DEF qa, qb
<1>3. b - a = n * (qb - qa)
  BY <1>1, <1>2
<1>4. qb - qa < 1
  <2> SUFFICES ASSUME qb - qa >= 1 PROVE FALSE
    BY <1>1
  <2>1. n * (qb - qa) >= n
    BY <1>1
  <2> QED BY <2>1, <1>3
<1>5. qb - qa > -1
  <2> SUFFICES ASSUME qb - qa <= -1 PROVE FALSE
    BY <1>1
  <2>1. n * (qb - qa) <= -n
    BY <1>1
  <2> QED BY <2>1, <1>3
<1>6. qb - qa = 0
  BY <1>1, <1>4, <1>5
<1> QED BY <1>1, <1>6

\* Adding a whole number of slots (or laps) does not move an index.
LEMMA ModAdd ==
  ASSUME NEW n \in Nat \ {0}, NEW a \in Nat, NEW b \in Nat, b % n = 0
  PROVE  (a + b) % n = a % n
<1> DEFINE qa == a \div n  qb == b \div n  r == a % n
<1>1. qa \in Nat /\ qb \in Nat /\ r \in 0 .. (n - 1) /\ a = n * qa + r /\ b = n * qb
  BY DivMod
<1> HIDE DEF qa, qb, r
<1>2. a + b = n * (qa + qb) + r
  BY <1>1
<1>3. qa + qb \in Int
  BY <1>1
<1>4. (n * (qa + qb) + r) % n = r
  BY <1>1, <1>3, ModUnique
<1> QED BY <1>2, <1>4 DEF r

\* n slots of equal size end at a slot boundary.
LEMMA ModMultiple ==
  ASSUME NEW n \in Nat \ {0}, NEW k \in Nat
  PROVE  (k * n) % n = 0 /\ k * n \in Nat
<1>1. (n * k + 0) % n = 0
  BY ModUnique
<1>2. n * k + 0 = k * n
  OBVIOUS
<1> QED BY <1>1, <1>2

-----------------------------------------------------------------------------
\* bump_notify_word and the two flag operations stay within the word.
LEMMA WordsClosed ==
  ASSUME NEW raw \in NotifyWords
  PROVE  /\ bump_notify_word(raw) \in NotifyWords
         /\ SetWaiter(raw) \in NotifyWords
         /\ ClearWaiter(raw) \in NotifyWords
<1>1. 2 * SeqMod \in Nat \ {0} /\ raw + 1 \in Nat
  BY SeqModAssumption DEF NotifyWords
<1>2. (raw + 1) % (2 * SeqMod) \in 0 .. (2 * SeqMod - 1)
  BY <1>1, DivMod
<1> QED
  BY <1>2, SeqModAssumption
  DEF NotifyWords, bump_notify_word, SetWaiter, ClearWaiter, HasWaiter, notify_waiter_bit

\* Adding the modulus, or a number below it, in a remainder.
LEMMA SmallMod ==
  ASSUME NEW n \in Nat \ {0}, NEW r \in 0 .. (n - 1)
  PROVE  r % n = r /\ (r + n) % n = r
<1>1. (n * 0 + r) % n = r /\ (n * 1 + r) % n = r
  BY ModUnique
<1>2. n * 0 + r = r /\ n * 1 + r = r + n
  OBVIOUS
<1> QED BY <1>1, <1>2

\* A remainder may be taken before adding.
LEMMA ModPlusOne ==
  ASSUME NEW n \in Nat \ {0}, NEW a \in Nat
  PROVE  (a + 1) % n = ((a % n) + 1) % n
<1> DEFINE r == a % n  q == a \div n
<1>1. r \in 0 .. (n - 1) /\ q \in Nat /\ a = n * q + r
  BY DivMod, Zenon
<1> HIDE DEF r, q
<1> DEFINE m == q * n  b == r + 1
<1>2. m \in Nat /\ m % n = 0 /\ b \in Nat
  BY <1>1, ModMultiple
<1>3. b + m = a + 1
  BY <1>1
<1> HIDE DEF m, b
<1>4. (b + m) % n = b % n
  BY <1>2, ModAdd, Zenon
<1> QED BY <1>3, <1>4 DEF r, b

\* The word is its sequence, plus the weight of the flag if that is set.
LEMMA WordParts ==
  ASSUME NEW raw \in NotifyWords
  PROVE  /\ notify_seq_value(raw) \in 0 .. (SeqMod - 1)
         /\ raw = notify_seq_value(raw) + (IF HasWaiter(raw) THEN SeqMod ELSE 0)
<1> USE SeqModAssumption
<1>1. CASE HasWaiter(raw)
  <2> DEFINE s == raw - SeqMod
  <2>1. s \in 0 .. (SeqMod - 1) /\ raw = s + SeqMod
    BY <1>1 DEF HasWaiter, notify_waiter_bit, NotifyWords
  <2>2. (s + SeqMod) % SeqMod = s
    BY <2>1, SmallMod
  <2> QED BY <1>1, <2>1, <2>2 DEF notify_seq_value
<1>2. CASE ~HasWaiter(raw)
  <2>1. raw \in 0 .. (SeqMod - 1)
    BY <1>2 DEF HasWaiter, notify_waiter_bit, NotifyWords
  <2> QED BY <1>2, <2>1, SmallMod DEF notify_seq_value
<1> QED BY <1>1, <1>2

\* Setting and clearing the flag leaves the sequence alone.
LEMMA FlagKeepsSeq ==
  ASSUME NEW raw \in NotifyWords
  PROVE  /\ notify_seq_value(SetWaiter(raw)) = notify_seq_value(raw)
         /\ notify_seq_value(ClearWaiter(raw)) = notify_seq_value(raw)
         /\ HasWaiter(SetWaiter(raw))
<1> USE SeqModAssumption
<1> DEFINE s == notify_seq_value(raw)
<1>1. s \in 0 .. (SeqMod - 1) /\ raw = s + (IF HasWaiter(raw) THEN SeqMod ELSE 0)
  BY WordParts
<1>2. SetWaiter(raw) = s + SeqMod /\ ClearWaiter(raw) = s
  BY <1>1 DEF SetWaiter, ClearWaiter, notify_waiter_bit
<1> HIDE DEF s
<1>3. s % SeqMod = s /\ (s + SeqMod) % SeqMod = s
  BY <1>1, SmallMod
<1>4. HasWaiter(SetWaiter(raw))
  BY <1>1, <1>2 DEF HasWaiter, notify_waiter_bit
<1> QED BY <1>2, <1>3, <1>4 DEF notify_seq_value, s

\* A bump adds one to the sequence, whatever happens to the flag.
LEMMA BumpCounts ==
  ASSUME NEW raw \in NotifyWords
  PROVE  notify_seq_value(bump_notify_word(raw)) = (notify_seq_value(raw) + 1) % SeqMod
<1> USE SeqModAssumption
<1>0. raw \in Nat /\ raw + 1 <= 2 * SeqMod
  BY DEF NotifyWords
<1>1. CASE raw + 1 < 2 * SeqMod
  <2>1. raw + 1 \in 0 .. (2 * SeqMod - 1) /\ 2 * SeqMod \in Nat \ {0}
    BY <1>0, <1>1
  <2>2. (raw + 1) % (2 * SeqMod) = raw + 1
    BY <2>1, SmallMod
  <2> QED BY <1>0, <2>2, ModPlusOne, Zenon DEF bump_notify_word, notify_seq_value
<1>2. CASE raw + 1 = 2 * SeqMod
  <2>1. (1 * (2 * SeqMod)) % (2 * SeqMod) = 0 /\ 2 * SeqMod \in Nat \ {0}
    <3>1. 2 * SeqMod \in Nat \ {0}
      OBVIOUS
    <3> QED BY <3>1, ModMultiple
  <2>2. bump_notify_word(raw) = 0
    BY <1>2, <2>1 DEF bump_notify_word
  <2>3. 0 % SeqMod = 0 /\ (2 * SeqMod) % SeqMod = 0
    BY SmallMod, ModMultiple
  <2>4. (raw + 1) % SeqMod = ((raw % SeqMod) + 1) % SeqMod
    BY <1>0, ModPlusOne, Zenon
  <2> QED BY <1>2, <2>2, <2>3, <2>4 DEF notify_seq_value
<1> QED BY <1>0, <1>1, <1>2

=============================================================================
