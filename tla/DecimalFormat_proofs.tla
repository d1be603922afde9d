------------------------- MODULE DecimalFormat_proofs -------------------------
(***************************************************************************)
(* The text of an amount is the amount, and stays in its buffer, for       *)
(* bytes, amounts, decimals, tickers and buffers of any size.              *)
(***************************************************************************)
EXTENDS DecimalFormat, Numerals_proofs, FiniteSetTheorems, SequenceTheorems,
        TLAPS

(* A function on 1..k is a sequence.                                       *)
LEMMA FunctionIsSequence ==
  ASSUME NEW k \in Nat, NEW S, NEW f \in [1..k -> S]
  PROVE  f \in Seq(S) /\ Len(f) = k
OBVIOUS

(* A joined sequence has the elements of the one, then those of the other. *)
LEMMA Joined ==
  ASSUME NEW D, NEW s \in Seq(D), NEW u \in Seq(D)
  PROVE  /\ s \o u \in Seq(D)
         /\ Len(s \o u) = Len(s) + Len(u)
         /\ \A i \in 1..Len(s) : (s \o u)[i] = s[i]
         /\ \A i \in 1..Len(u) : (s \o u)[Len(s) + i] = u[i]
OBVIOUS

(* A sequence cut out has the elements from the first place to the last.   *)
LEMMA CutOut ==
  ASSUME NEW D, NEW s \in Seq(D), NEW a \in Int, NEW b \in Int,
         1 <= a, a <= b + 1, b <= Len(s)
  PROVE  /\ SubSeq(s, a, b) \in Seq(D)
         /\ Len(SubSeq(s, a, b)) = (b - a) + 1
         /\ \A i \in 1..((b - a) + 1) : SubSeq(s, a, b)[i] = s[(a + i) - 1]
OBVIOUS

(* In which order three are joined makes no difference.                    *)
LEMMA Associated ==
  ASSUME NEW s \in Seq(Nat), NEW t \in Seq(Nat), NEW u \in Seq(Nat)
  PROVE  (s \o t) \o u = s \o (t \o u)
BY ConcatAssociative

(* Sequences that are the same at every place are the same.                *)
LEMMA SameDigits ==
  ASSUME NEW D, NEW s \in Seq(D), NEW E, NEW u \in Seq(E),
         Len(s) = Len(u), \A i \in 1..Len(s) : s[i] = u[i]
  PROVE  s = u
BY SeqEqual

(* The two parts of a joined sequence, cut out of it again.                *)
LEMMA CutApart ==
  ASSUME NEW D, NEW s \in Seq(D), NEW u \in Seq(D)
  PROVE  /\ SubSeq(s \o u, 1, Len(s)) = s
         /\ SubSeq(s \o u, Len(s) + 1, Len(s) + Len(u)) = u
<1> DEFINE t == s \o u
           a == Len(s)
           b == Len(u)
<1>1. /\ a \in Nat /\ b \in Nat /\ t \in Seq(D) /\ Len(t) = a + b
      /\ \A i \in 1..a : t[i] = s[i]
      /\ \A i \in 1..b : t[a + i] = u[i]
  BY Joined
<1> HIDE DEF t, a, b
<1>2. SubSeq(t, 1, a) = s
  <2> DEFINE q == SubSeq(t, 1, a)
  <2>1. 1 \in Int /\ a \in Int /\ 1 <= a + 1 /\ a <= Len(t) /\ (a - 1) + 1 = a
    BY <1>1
  <2>2. /\ q \in Seq(D) /\ Len(q) = a
        /\ \A i \in 1..a : q[i] = t[(1 + i) - 1]
    BY <1>1, <2>1, CutOut
  <2> HIDE DEF q
  <2>3. Len(q) = Len(s) /\ \A i \in 1..Len(q) : q[i] = s[i]
    <3>1. \A i \in 1..a : (1 + i) - 1 = i
      BY <1>1
    <3> QED
      BY <1>1, <2>2, <3>1 DEF a
  <2>4. q = s
    BY <2>2, <2>3, SameDigits
  <2> QED
    BY <2>4 DEF q
<1>3. SubSeq(t, a + 1, a + b) = u
  <2> DEFINE q == SubSeq(t, a + 1, a + b)
  <2>1. /\ a + 1 \in Int /\ a + b \in Int /\ 1 <= a + 1
        /\ a + 1 <= (a + b) + 1 /\ a + b <= Len(t)
        /\ ((a + b) - (a + 1)) + 1 = b
    BY <1>1
  <2>2. /\ q \in Seq(D) /\ Len(q) = b
        /\ \A i \in 1..b : q[i] = t[((a + 1) + i) - 1]
    BY <1>1, <2>1, CutOut
  <2> HIDE DEF q
  <2>3. Len(q) = Len(u) /\ \A i \in 1..Len(q) : q[i] = u[i]
    <3>1. \A i \in 1..b : ((a + 1) + i) - 1 = a + i
      BY <1>1
    <3> QED
      BY <1>1, <2>2, <3>1 DEF b
  <2>4. q = u
    BY <2>2, <2>3, SameDigits
  <2> QED
    BY <2>4 DEF q
<1> QED
  BY <1>2, <1>3 DEF t, a, b

(* What the assumptions say of the widths.                                 *)
LEMMA Widths ==
  /\ BYTE \in Nat /\ BYTE >= 2 /\ LIMB \in Nat /\ LIMB >= 2
  /\ INT256_LENGTH \in Nat /\ LIMBS \in Nat /\ LIMBS >= 1
  /\ INT256_LENGTH = 2 * LIMBS
  /\ TMP_SIZE \in Nat /\ TMP_SIZE >= 2 /\ MAX_TICKER_LEN \in Nat
<1>1. \A x \in Nat : x >= 2 => x * x \in Nat /\ x * x >= 2
  OBVIOUS
<1>2. \A x \in Nat \ {0} : x % 2 = 0 => x \div 2 \in Nat /\ x = 2 * (x \div 2) /\ x \div 2 >= 1
  OBVIOUS
<1> QED
  BY <1>1, <1>2, WidthsAssumption DEF LIMB, LIMBS

(* What a request holds.                                                   *)
LEMMA Requested ==
  ASSUME NEW r \in Requests
  PROVE  /\ r.amount \in Seq(0..(BYTE - 1)) /\ Len(r.amount) <= INT256_LENGTH
         /\ r.decimals \in Nat
<1>1. r \in Request /\ Len(r.amount) <= INT256_LENGTH
  BY RequestsAssumption
<1>2. r.amount \in Seq(0..(BYTE - 1)) /\ r.decimals \in 0..255
  BY <1>1, Zenon DEF Request
<1>3. \A d \in 0..255 : d \in Nat
  OBVIOUS
<1> QED
  BY <1>1, <1>2, <1>3, Zenon

---------------------------------------------------------------------------
(* uint256_to_decimal *)

(* Zeroes in front change nothing.                                         *)
LEMMA RightAligned ==
  ASSUME NEW bytes \in Seq(0..(BYTE - 1)), Len(bytes) <= INT256_LENGTH
  PROVE  /\ right_aligned(bytes) \in Seq(0..(BYTE - 1))
         /\ Len(right_aligned(bytes)) = INT256_LENGTH
         /\ Value(right_aligned(bytes), BYTE) = Value(bytes, BYTE)
<1> DEFINE k == INT256_LENGTH - Len(bytes)
           ra == right_aligned(bytes)
<1>1. /\ k \in Nat /\ k <= INT256_LENGTH /\ INT256_LENGTH \in Nat /\ BYTE \in Nat
      /\ Len(bytes) \in Nat /\ INT256_LENGTH = k + Len(bytes)
      /\ 0 \in 0..(BYTE - 1) /\ bytes \in Seq(Nat)
  BY Widths
<1>2. Zeroes(k) \in Seq(Nat) /\ Len(Zeroes(k)) = k /\ \A i \in 1..k : Zeroes(k)[i] = 0
  BY <1>1 DEF Zeroes
<1>3. ra \in [1..INT256_LENGTH -> 0..(BYTE - 1)]
  <2>1. ASSUME NEW i \in 1..INT256_LENGTH
        PROVE  (IF i > k THEN bytes[i - k] ELSE 0) \in 0..(BYTE - 1)
    <3>1. CASE i > k
      <4>1. i - k \in 1..Len(bytes)
        BY <1>1, <3>1
      <4> QED
        BY <1>1, <3>1, <4>1
    <3> QED
      BY <1>1, <3>1
  <2> QED
    BY <2>1 DEF right_aligned
<1>4. ra \in Seq(0..(BYTE - 1)) /\ Len(ra) = INT256_LENGTH
  <2> HIDE DEF ra
  <2> QED
    BY <1>1, <1>3, FunctionIsSequence
<1>5. ra = Zeroes(k) \o bytes
  <2> DEFINE z == Zeroes(k)
             q == z \o bytes
  <2>1. z \in Seq(Nat) /\ Len(z) = k /\ \A i \in 1..k : z[i] = 0
    BY <1>2
  <2>2. \A i \in 1..INT256_LENGTH : ra[i] = IF i > k THEN bytes[i - k] ELSE 0
    BY DEF right_aligned
  <2> HIDE DEF z, ra, k
  <2>3. q \in Seq(Nat) /\ Len(q) = INT256_LENGTH
    <3>1. q \in Seq(Nat)
      BY <1>1, <2>1
    <3>2. Len(q) = Len(z) + Len(bytes)
      BY <1>1, <2>1
    <3> QED
      BY <1>1, <2>1, <3>1, <3>2
  <2>4. \A i \in 1..k : q[i] = z[i]
    BY <1>1, <2>1
  <2>5. \A i \in 1..Len(bytes) : q[k + i] = bytes[i]
    BY <1>1, <2>1
  <2> HIDE DEF q
  <2>6. ASSUME NEW i \in 1..Len(ra) PROVE ra[i] = q[i]
    <3>1. i \in 1..INT256_LENGTH
      BY <1>4
    <3>2. CASE i > k
      <4>1. i - k \in 1..Len(bytes) /\ k + (i - k) = i
        BY <1>1, <3>1, <3>2
      <4> QED
        BY <2>2, <2>5, <3>1, <3>2, <4>1
    <3>3. CASE ~(i > k)
      <4>1. i \in 1..k
        BY <1>1, <3>1, <3>3
      <4> QED
        BY <2>1, <2>2, <2>4, <3>1, <3>3, <4>1
    <3> QED
      BY <3>2, <3>3
  <2>7. ra = q
    BY <1>4, <2>3, <2>6, SameDigits
  <2> QED
    BY <2>7 DEF q, z
<1> HIDE DEF k, ra
<1>6. Value(ra, BYTE) = Value(Zeroes(k), BYTE) * Power(BYTE, Len(bytes))
                        + Value(bytes, BYTE)
  BY <1>1, <1>2, <1>5, ValueOfConcatenation
<1>7. Value(Zeroes(k), BYTE) = 0
  BY <1>1, <1>2, ValueOfZeroes
<1>8. Value(bytes, BYTE) \in Nat /\ Power(BYTE, Len(bytes)) \in Nat
  BY <1>1, ValueFacts, PowerFacts
<1>9. Value(ra, BYTE) = Value(bytes, BYTE)
  BY <1>6, <1>7, <1>8
<1> QED
  BY <1>4, <1>9 DEF ra

(* Two bytes are a digit of the number in base LIMB.                       *)
LEMMA Limbs ==
  ASSUME NEW bytes \in Seq(0..(BYTE - 1)), Len(bytes) <= INT256_LENGTH
  PROVE  /\ limbs(bytes) \in [1..LIMBS -> 0..(LIMB - 1)]
         /\ Value(limbs(bytes), LIMB) = Value(bytes, BYTE)
<1> DEFINE ra == right_aligned(bytes)
           m == limbs(bytes)
           f == Values(ra, BYTE)
           g == Values(m, LIMB)
           T == {i \in 0..LIMBS : g[i] = f[2 * i]}
<1>1. /\ ra \in Seq(0..(BYTE - 1)) /\ ra \in Seq(Nat) /\ Len(ra) = 2 * LIMBS
      /\ Value(ra, BYTE) = Value(bytes, BYTE) /\ Value(ra, BYTE) = f[2 * LIMBS]
  <2>1. /\ ra \in Seq(0..(BYTE - 1)) /\ Len(ra) = INT256_LENGTH
        /\ Value(ra, BYTE) = Value(bytes, BYTE)
    BY RightAligned
  <2>2. Value(ra, BYTE) = f[INT256_LENGTH]
    BY <2>1 DEF Value
  <2> HIDE DEF ra
  <2>3. ra \in Seq(Nat)
    BY <2>1, Widths
  <2> QED
    BY <2>1, <2>2, <2>3, Widths
<1>2. \A i \in 1..(2 * LIMBS) : ra[i] \in 0..(BYTE - 1)
  <2> HIDE DEF ra
  <2> QED
    BY <1>1, Widths
<1>3. m = [i \in 1..LIMBS |-> BYTE * ra[2 * i - 1] + ra[2 * i]]
  BY DEF limbs
<1> HIDE DEF ra, m
<1>4. ASSUME NEW i \in 1..LIMBS
      PROVE  /\ 2 * i - 1 \in 1..(2 * LIMBS) /\ 2 * i \in 1..(2 * LIMBS)
             /\ BYTE * ra[2 * i - 1] + ra[2 * i] \in 0..(LIMB - 1)
  <2>1. 2 * i - 1 \in 1..(2 * LIMBS) /\ 2 * i \in 1..(2 * LIMBS)
    BY Widths
  <2>2. ra[2 * i - 1] \in 0..(BYTE - 1) /\ ra[2 * i] \in 0..(BYTE - 1)
    BY <1>2, <2>1
  <2>3. ASSUME NEW x \in 0..(BYTE - 1), NEW y \in 0..(BYTE - 1)
        PROVE  BYTE * x + y \in 0..(BYTE * BYTE - 1)
    <3>1. BYTE - 1 - x \in Nat /\ x \in Nat /\ y \in Nat
      BY Widths
    <3>2. PICK e \in Nat : BYTE = x + 1 + e
      BY <3>1, Widths
    <3>3. BYTE * BYTE = BYTE * x + BYTE + BYTE * e
      BY <3>1, <3>2
    <3>4. BYTE * x \in Nat /\ BYTE * e \in Nat
      BY <3>1, Widths
    <3> QED
      BY <3>1, <3>3, <3>4, Widths
  <2> QED
    BY <2>1, <2>2, <2>3 DEF LIMB
<1>5. m \in [1..LIMBS -> 0..(LIMB - 1)]
  BY <1>3, <1>4
<1>6. m \in Seq(0..(LIMB - 1)) /\ m \in Seq(Nat) /\ Len(m) = LIMBS
  <2>1. m \in Seq(0..(LIMB - 1)) /\ Len(m) = LIMBS
    BY <1>5, Widths, FunctionIsSequence
  <2> QED
    BY <2>1, Widths
<1>7. /\ f \in [0..(2 * LIMBS) -> Nat] /\ f[0] = 0
      /\ \A i \in 1..(2 * LIMBS) : f[i] = f[i - 1] * BYTE + ra[i]
  BY <1>1, Widths, ValuesRecursion
<1>8. /\ g \in [0..LIMBS -> Nat] /\ g[0] = 0 /\ Value(m, LIMB) = g[LIMBS]
      /\ \A i \in 1..LIMBS : g[i] = g[i - 1] * LIMB + m[i]
  BY <1>6, Widths, ValuesRecursion DEF Value
<1> HIDE DEF f, g
<1>9. 0 \in T
  BY <1>7, <1>8, Widths
<1>10. ASSUME NEW i \in 1..LIMBS, i - 1 \in T PROVE i \in T
  <2> DEFINE x == g[i - 1]
             a == ra[2 * i - 1]
             b == ra[2 * i]
  <2>1. /\ 2 * i - 1 \in 1..(2 * LIMBS) /\ 2 * i \in 1..(2 * LIMBS)
        /\ (2 * i - 1) - 1 = 2 * (i - 1) /\ i - 1 \in 0..LIMBS
    BY Widths
  <2>2. a \in Nat /\ b \in Nat /\ x \in Nat
    BY <1>2, <1>8, <2>1, Widths
  <2>3. f[2 * i - 1] = x * BYTE + a
    BY <1>7, <1>10, <2>1
  <2>4. f[2 * i] = f[2 * i - 1] * BYTE + b
    BY <1>7, <2>1
  <2>5. g[i] = x * LIMB + (BYTE * a + b)
    BY <1>3, <1>8
  <2> HIDE DEF x, a, b
  <2>6. (x * BYTE + a) * BYTE + b = x * (BYTE * BYTE) + (BYTE * a + b)
    BY <2>2, Widths
  <2>7. g[i] = f[2 * i]
    BY <2>3, <2>4, <2>5, <2>6 DEF LIMB
  <2> QED
    BY <2>7
<1> HIDE DEF T
<1>11. 0..LIMBS \subseteq T
  BY <1>9, <1>10, Widths, UpTo
<1>12. g[LIMBS] = f[2 * LIMBS]
  BY <1>11, Widths DEF T
<1> QED
  BY <1>1, <1>5, <1>8, <1>12 DEF m

(* What a limb and what is carried into it give is split into a limb again *)
(* and a digit.                                                            *)
LEMMA Quotient ==
  ASSUME NEW c \in 0..9, NEW limb \in 0..(LIMB - 1)
  PROVE  /\ (LIMB * c + limb) % 10 \in 0..9
         /\ (LIMB * c + limb) \div 10 \in 0..(LIMB - 1)
         /\ LIMB * c + limb
              = 10 * ((LIMB * c + limb) \div 10) + ((LIMB * c + limb) % 10)
<1> DEFINE v == LIMB * c + limb
<1>1. v \in Nat /\ v < 10 * LIMB
  <2>1. /\ c = 0 \/ c = 1 \/ c = 2 \/ c = 3 \/ c = 4
           \/ c = 5 \/ c = 6 \/ c = 7 \/ c = 8 \/ c = 9
    OBVIOUS
  <2> QED
    BY <2>1, Widths
<1> HIDE DEF v
<1>2. /\ v % 10 \in 0..9 /\ v \div 10 \in Nat
      /\ v = 10 * (v \div 10) + (v % 10)
  BY <1>1
<1>3. v \div 10 < LIMB
  BY <1>1, <1>2, Widths
<1>4. v \div 10 \in 0..(LIMB - 1)
  BY <1>2, <1>3, Widths
<1> QED
  BY <1>2, <1>4 DEF v

(* carries is defined, and what is carried is a digit.                     *)
LEMMA Carries ==
  ASSUME NEW m \in [1..LIMBS -> 0..(LIMB - 1)]
  PROVE  /\ carries(m) \in [0..LIMBS -> 0..9]
         /\ carries(m)[0] = 0
         /\ \A i \in 1..LIMBS :
              carries(m)[i] = (LIMB * carries(m)[i - 1] + m[i]) % 10
<1> DEFINE step == [i \in 1..LIMBS |-> [c \in 0..9 |-> (LIMB * c + m[i]) % 10]]
           C == carries(m)
<1>1. step \in [1..LIMBS -> [0..9 -> 0..9]]
  <2>1. ASSUME NEW i \in 1..LIMBS, NEW c \in 0..9
        PROVE  (LIMB * c + m[i]) % 10 \in 0..9
    <3>1. m[i] \in 0..(LIMB - 1)
      OBVIOUS
    <3> QED
      BY <3>1, Quotient
  <2> QED
    BY <2>1
<1>2. PICK f : Follows(f, LIMBS, 0..9, 0, step)
  <2>1. LIMBS \in Nat /\ 0 \in 0..9
    BY Widths
  <2> HIDE DEF step
  <2> QED
    BY <1>1, <2>1, Recursion, Zenon
<1>3. \A i \in 1..LIMBS : f[i] = (LIMB * f[i - 1] + m[i]) % 10
  <2>1. \A i \in 1..LIMBS : i - 1 \in 0..LIMBS
    BY Widths
  <2> QED
    BY <1>2, <2>1 DEF Follows
<1>4. f = [i \in 0..LIMBS |-> IF i = 0 THEN 0 ELSE (LIMB * f[i - 1] + m[i]) % 10]
  <2>1. f \in [0..LIMBS -> 0..9] /\ f[0] = 0
    BY <1>2 DEF Follows
  <2>2. \A i \in 0..LIMBS : i = 0 \/ i \in 1..LIMBS
    BY Widths
  <2> QED
    BY <1>3, <2>1, <2>2
<1>5. C = [i \in 0..LIMBS |-> IF i = 0 THEN 0 ELSE (LIMB * C[i - 1] + m[i]) % 10]
  BY <1>4, Zenon DEF carries
<1>6. C[0] = 0 /\ \A i \in 1..LIMBS : C[i] = (LIMB * C[i - 1] + m[i]) % 10
  <2>1. 0 \in 0..LIMBS /\ \A i \in 1..LIMBS : i \in 0..LIMBS /\ i # 0
    BY Widths
  <2> HIDE DEF C
  <2> QED
    BY <1>5, <2>1, Zenon
<1>7. \A i \in 1..LIMBS : C[i - 1] \in 0..9 => C[i] \in 0..9
  <2>1. ASSUME NEW i \in 1..LIMBS, C[i - 1] \in 0..9 PROVE C[i] \in 0..9
    <3>1. m[i] \in 0..(LIMB - 1)
      OBVIOUS
    <3>2. (LIMB * C[i - 1] + m[i]) % 10 \in 0..9
      BY <2>1, <3>1, Quotient
    <3> QED
      BY <3>2, <1>6, Zenon
  <2> QED
    BY <2>1
<1>8. \A i \in 0..LIMBS : C[i] \in 0..9
  <2>1. C[0] \in 0..9
    BY <1>6
  <2> HIDE DEF C
  <2> QED
    BY <1>7, <2>1, Widths, RecursionTypes, Zenon
<1>9. C \in [0..LIMBS -> 0..9]
  <2> HIDE DEF C
  <2> QED
    BY <1>5, <1>8, Zenon
<1> QED
  BY <1>6, <1>9

quotients(m) ==
  [i \in 1..LIMBS |-> (LIMB * carries(m)[i - 1] + m[i]) \div 10]

(* The division by ten: the quotient in limbs, the remainder carried out   *)
(* of the last.                                                            *)
LEMMA Division ==
  ASSUME NEW m \in [1..LIMBS -> 0..(LIMB - 1)]
  PROVE  /\ quotients(m) \in [1..LIMBS -> 0..(LIMB - 1)]
         /\ carries(m)[LIMBS] \in 0..9
         /\ Value(m, LIMB) = 10 * Value(quotients(m), LIMB) + carries(m)[LIMBS]
<1> DEFINE C == carries(m)
           q == quotients(m)
           f == Values(m, LIMB)
           g == Values(q, LIMB)
           T == {i \in 0..LIMBS : f[i] = 10 * g[i] + C[i]}
<1>1. /\ C \in [0..LIMBS -> 0..9] /\ C[0] = 0
      /\ \A i \in 1..LIMBS : C[i] = (LIMB * C[i - 1] + m[i]) % 10
  BY Carries
<1>2. q = [i \in 1..LIMBS |-> (LIMB * C[i - 1] + m[i]) \div 10]
  BY DEF quotients
<1> HIDE DEF C, q
<1>3. ASSUME NEW i \in 1..LIMBS
      PROVE  /\ i - 1 \in 0..LIMBS
             /\ C[i - 1] \in 0..9 /\ m[i] \in 0..(LIMB - 1)
             /\ q[i] \in 0..(LIMB - 1)
             /\ LIMB * C[i - 1] + m[i] = 10 * q[i] + C[i]
  <2>1. i - 1 \in 0..LIMBS
    BY Widths
  <2>2. C[i - 1] \in 0..9 /\ m[i] \in 0..(LIMB - 1)
    BY <1>1, <2>1
  <2>3. q[i] = (LIMB * C[i - 1] + m[i]) \div 10
    BY <1>2
  <2>4. C[i] = (LIMB * C[i - 1] + m[i]) % 10
    BY <1>1
  <2> QED
    BY <2>1, <2>2, <2>3, <2>4, Quotient
<1>4. q \in [1..LIMBS -> 0..(LIMB - 1)]
  BY <1>2, <1>3
<1>5. ASSUME NEW d \in [1..LIMBS -> 0..(LIMB - 1)]
      PROVE  /\ Values(d, LIMB) \in [0..LIMBS -> Nat] /\ Values(d, LIMB)[0] = 0
             /\ Value(d, LIMB) = Values(d, LIMB)[LIMBS]
             /\ \A i \in 1..LIMBS : Values(d, LIMB)[i]
                                     = Values(d, LIMB)[i - 1] * LIMB + d[i]
  <2>1. d \in Seq(0..(LIMB - 1)) /\ Len(d) = LIMBS
    BY Widths, FunctionIsSequence
  <2>2. d \in Seq(Nat)
    BY <2>1, Widths
  <2> QED
    BY <2>1, <2>2, Widths, ValuesRecursion DEF Value
<1>6. /\ f \in [0..LIMBS -> Nat] /\ f[0] = 0 /\ Value(m, LIMB) = f[LIMBS]
      /\ \A i \in 1..LIMBS : f[i] = f[i - 1] * LIMB + m[i]
  BY <1>5
<1>7. /\ g \in [0..LIMBS -> Nat] /\ g[0] = 0 /\ Value(q, LIMB) = g[LIMBS]
      /\ \A i \in 1..LIMBS : g[i] = g[i - 1] * LIMB + q[i]
  BY <1>4, <1>5
<1> HIDE DEF f, g
<1>8. 0 \in T
  BY <1>1, <1>6, <1>7, Widths
<1>9. ASSUME NEW i \in 1..LIMBS, i - 1 \in T PROVE i \in T
  <2> DEFINE x == g[i - 1]
             c == C[i - 1]
  <2>1. /\ x \in Nat /\ c \in Nat /\ m[i] \in Nat /\ q[i] \in Nat /\ C[i] \in Nat
        /\ LIMB * c + m[i] = 10 * q[i] + C[i]
    <3>1. i \in 0..LIMBS /\ i - 1 \in 0..LIMBS
      BY Widths
    <3>2. g[i - 1] \in Nat /\ C[i] \in 0..9
      BY <1>1, <1>7, <3>1
    <3>3. /\ C[i - 1] \in 0..9 /\ m[i] \in 0..(LIMB - 1) /\ q[i] \in 0..(LIMB - 1)
          /\ LIMB * C[i - 1] + m[i] = 10 * q[i] + C[i]
      BY <1>3
    <3>4. (\A k \in 0..(LIMB - 1) : k \in Nat) /\ (\A k \in 0..9 : k \in Nat)
      BY Widths
    <3> QED
      BY <3>2, <3>3, <3>4, Zenon
  <2>2. f[i] = (10 * x + c) * LIMB + m[i]
    BY <1>6, <1>9
  <2>3. g[i] = x * LIMB + q[i]
    BY <1>7
  <2> HIDE DEF x, c
  <2>4. (10 * x + c) * LIMB + m[i] = 10 * (x * LIMB) + (LIMB * c + m[i])
    BY <2>1, Widths
  <2>5. x * LIMB \in Nat
    BY <2>1, Widths
  <2>6. f[i] = 10 * (x * LIMB + q[i]) + C[i]
    BY <2>1, <2>2, <2>4, <2>5
  <2> QED
    BY <2>3, <2>6
<1> HIDE DEF T
<1>10. 0..LIMBS \subseteq T
  BY <1>8, <1>9, Widths, UpTo
<1>11. f[LIMBS] = 10 * g[LIMBS] + C[LIMBS]
  BY <1>10, Widths DEF T
<1>12. C[LIMBS] \in 0..9
  BY <1>1, Widths
<1> QED
  BY <1>4, <1>6, <1>7, <1>11, <1>12 DEF C, q

(* The ticker and the space behind it leave a byte of the buffer at least. *)
LEMMA PrefixFits ==
  ASSUME request \in Requests
  PROVE  /\ request.size \in Nat
         /\ request.decimals \in Nat
         /\ prefix \in Nat
         /\ targetLength \in Nat
         /\ targetLength = request.size - prefix - 1
<1>1. /\ request \in Request
      /\ request.size >= MAX_TICKER_LEN + 2
  BY RequestsAssumption
<1>2. /\ request.size \in Nat
      /\ request.decimals \in 0..255
      /\ request.ticker_len \in 0..MAX_TICKER_LEN
  BY <1>1, Zenon DEF Request
<1> HIDE DEF Request
<1> QED
  BY <1>1, <1>2, WidthsAssumption DEF prefix, targetLength

(* adjustDecimals puts as many characters as it asked room for, with the   *)
(* NUL behind them, or fewer.                                              *)
LEMMA AdjustedLength ==
  ASSUME NEW S, NEW src \in Seq(S), NEW decimals \in Nat, src # << 0 >>
  PROVE  /\ adjusted(src, decimals) \in Seq(S \cup {0, DOT})
         /\ Len(adjusted(src, decimals)) + 1 <= space_needed(src, decimals)
<1> DEFINE T == S \cup {0, DOT}
<1>1. src \in Seq(T) /\ Len(src) \in Nat
  OBVIOUS
<1>2. CASE Len(src) <= decimals
  <2>1. decimals - Len(src) \in Nat
    BY <1>1, <1>2
  <2>2. /\ Zeroes(decimals - Len(src)) \in Seq(T)
        /\ Len(Zeroes(decimals - Len(src))) = decimals - Len(src)
    BY <2>1 DEF Zeroes
  <2>3. /\ << 0, DOT >> \in Seq(T)
        /\ Len(<< 0, DOT >>) = 2
    OBVIOUS
  <2> QED
    BY <1>1, <1>2, <2>1, <2>2, <2>3 DEF adjusted, space_needed
<1>3. CASE ~(Len(src) <= decimals)
  <2> DEFINE delta == Len(src) - decimals
             point == IF decimals # 0 THEN << DOT >> ELSE << >>
  <2>1. delta \in 0..Len(src)
    BY <1>1, <1>3
  <2>2. /\ SubSeq(src, 1, delta) \in Seq(T)
        /\ Len(SubSeq(src, 1, delta)) = delta
    BY <1>1, <2>1
  <2>3. /\ SubSeq(src, delta + 1, Len(src)) \in Seq(T)
        /\ Len(SubSeq(src, delta + 1, Len(src))) = Len(src) - delta
    BY <1>1, <2>1
  <2>4. point \in Seq(T) /\ Len(point) \in {0, 1}
    <3>1. << DOT >> \in Seq(T) /\ Len(<< DOT >>) = 1
      OBVIOUS
    <3>2. << >> \in Seq(T) /\ Len(<< >>) = 0
      OBVIOUS
    <3> QED
      BY <3>1, <3>2
  <2>5. adjusted(src, decimals)
          = SubSeq(src, 1, delta) \o point \o SubSeq(src, delta + 1, Len(src))
    BY <1>3 DEF adjusted
  <2>6. space_needed(src, decimals) = Len(src) + 2
    BY <1>1, <1>3 DEF space_needed
  <2>7. \A head, tail \in Seq(T) :
          /\ head \o point \o tail \in Seq(T)
          /\ Len(head \o point \o tail) = Len(head) + Len(point) + Len(tail)
    BY <2>4
  <2>8. /\ adjusted(src, decimals) \in Seq(T)
        /\ Len(adjusted(src, decimals)) = delta + Len(point) + (Len(src) - delta)
    BY <2>2, <2>3, <2>5, <2>7
  <2>9. Len(adjusted(src, decimals)) <= Len(src) + 1
    <3>1. \A length, d, p, l \in Int :
            l \in {0, 1} /\ length = d + l + (p - d) => length <= p + 1
      OBVIOUS
    <3>2. Len(adjusted(src, decimals)) \in Int
      BY <2>8
    <3> QED
      BY <1>1, <2>1, <2>4, <2>8, <3>1, <3>2
  <2> QED
    BY <1>1, <2>6, <2>8, <2>9
<1> QED
  BY <1>2, <1>3

---------------------------------------------------------------------------
(* The inductive invariant. *)

(* The loop of uint256_to_decimal ends when the number is zero.            *)
LEMMA AllZeroes ==
  ASSUME NEW m \in [1..LIMBS -> 0..(LIMB - 1)]
  PROVE  /\ Value(m, LIMB) \in Nat
         /\ allzeroes(m) => Value(m, LIMB) = 0
         /\ ~allzeroes(m) => Value(m, LIMB) >= 1
<1>1. m \in Seq(0..(LIMB - 1)) /\ Len(m) = LIMBS
  BY Widths, FunctionIsSequence
<1>2. m \in Seq(Nat)
  BY <1>1, Widths
<1>3. LIMB \in Nat \ {0}
  BY Widths
<1>4. ASSUME allzeroes(m) PROVE Value(m, LIMB) = 0
  <2>1. \A i \in 1..Len(m) : m[i] = 0
    BY <1>1, <1>4 DEF allzeroes
  <2> QED
    BY <1>2, <1>3, <2>1, ValueOfZeroes
<1>5. ASSUME ~allzeroes(m) PROVE Value(m, LIMB) >= 1
  <2>1. PICK i \in 1..Len(m) : m[i] # 0
    BY <1>1, <1>5 DEF allzeroes
  <2> QED
    BY <1>2, <1>3, <2>1, ValuesPositive
<1> QED
  BY <1>2, <1>3, <1>4, <1>5, ValueFacts

(* tmp_buffer has room for the digits of any amount asked for.             *)
LEMMA AmountBound ==
  ASSUME request \in Requests
  PROVE  Amount \in Nat /\ Amount < Power(10, TMP_SIZE - 1)
<1> DEFINE a == request.amount
<1>1. a \in Seq(0..(BYTE - 1)) /\ Len(a) <= INT256_LENGTH
  BY Requested
<1>2. a \in Seq(Nat) /\ Len(a) \in Nat /\ Len(a) \in 0..INT256_LENGTH
  BY <1>1, Widths
<1> HIDE DEF a
<1>3. Value(a, BYTE) < Power(BYTE, Len(a)) /\ Value(a, BYTE) \in Nat
  BY <1>1, <1>2, Widths, ValueBound, ValueFacts
<1>4. Power(BYTE, Len(a)) <= Power(BYTE, INT256_LENGTH)
  <2>1. BYTE \in Nat \ {0} /\ INT256_LENGTH \in Nat
    BY Widths
  <2> QED
    BY <1>2, <2>1, PowerGrows
<1>5. /\ Power(BYTE, Len(a)) \in Nat /\ Power(BYTE, INT256_LENGTH) \in Nat
      /\ Power(10, TMP_SIZE - 1) \in Nat
  <2>1. BYTE \in Nat /\ INT256_LENGTH \in Nat /\ TMP_SIZE - 1 \in Nat /\ 10 \in Nat
    BY Widths
  <2> QED
    BY <1>2, <2>1, PowerFacts, Zenon
<1> QED
  BY <1>3, <1>4, <1>5, TmpSizeAssumption DEF Amount, a

(* A single digit stands for itself.                                       *)
LEMMA ValueOfDigit ==
  ASSUME NEW d \in Nat, NEW base \in Nat
  PROVE  Value(<< d >>, base) = d
<1> DEFINE s == << d >>
           f == Values(s, base)
<1>1. s \in Seq(Nat) /\ Len(s) = 1 /\ s[1] = d
  OBVIOUS
<1> HIDE DEF s
<1>2. f[0] = 0 /\ \A i \in 1..1 : f[i] = f[i - 1] * base + s[i]
  BY <1>1, ValuesRecursion
<1>3. f[1] = 0 * base + d
  BY <1>1, <1>2
<1>4. Value(s, base) = f[1]
  BY <1>1 DEF Value
<1> QED
  BY <1>3, <1>4 DEF s

(* Before the first division the limbs are the amount.                     *)
LEMMA InvariantInit == Init => IInv
<1> SUFFICES ASSUME Init PROVE IInv
  OBVIOUS
<1>1. /\ request \in Requests /\ n = limbs(request.amount)
      /\ out = << >> /\ text = << >> /\ phase = "digits"
  BY DEF Init
<1>2. /\ n \in [1..LIMBS -> 0..(LIMB - 1)]
      /\ Value(n, LIMB) = Amount
  BY <1>1, Requested, Limbs DEF Amount
<1>3. pos \in 1..TMP_SIZE
  BY <1>1, Widths DEF pos
<1>4. TypeOK
  BY <1>1, <1>2, <1>3 DEF TypeOK, Phases
<1>5. DigitsSoFar
  <2>1. Len(out) = 0 /\ out \in Seq(Nat) /\ Power(10, 0) = 1
    BY <1>1, PowerFacts
  <2>2. Value(out, 10) = 0
    BY <2>1, ValueFacts
  <2>3. Value(n, LIMB) \in Nat
    BY <1>2, AllZeroes
  <2> QED
    BY <1>2, <2>1, <2>2, <2>3 DEF DigitsSoFar
<1>6. DigitsWhole
  BY <1>1 DEF DigitsWhole
<1>7. TextPlaced
  BY <1>1 DEF TextPlaced
<1>8. TextReadsBack /\ TextIsCanonical
  BY <1>1 DEF TextReadsBack, TextIsCanonical
<1> QED
  BY <1>4, <1>5, <1>6, <1>7, <1>8 DEF IInv

(* What the invariant says of the digits, as it is used below.             *)
LEMMA DigitsNow ==
  ASSUME IInv
  PROVE  /\ request \in Requests
         /\ n \in [1..LIMBS -> 0..(LIMB - 1)]
         /\ out \in Seq(0..9) /\ out \in Seq(Nat) /\ Len(out) \in Nat
         /\ Value(n, LIMB) \in Nat /\ Value(out, 10) \in Nat
         /\ Power(10, Len(out)) \in Nat
         /\ Value(n, LIMB) * Power(10, Len(out)) + Value(out, 10) = Amount
<1>1. request \in Requests /\ n \in [1..LIMBS -> 0..(LIMB - 1)] /\ out \in Seq(0..9)
  BY DEF IInv, TypeOK
<1>2. out \in Seq(Nat) /\ Len(out) \in Nat
  BY <1>1
<1>3. /\ Value(n, LIMB) \in Nat /\ Value(out, 10) \in Nat
      /\ Power(10, Len(out)) \in Nat
  BY <1>1, <1>2, AllZeroes, ValueFacts, PowerFacts
<1> QED
  BY <1>1, <1>2, <1>3 DEF IInv, DigitsSoFar

(* A digit goes from the number to the front of those written; there is    *)
(* room for it, as the number is not yet zero.                             *)
LEMMA NextDigit == IInv /\ next_digit => IInv'
<1> SUFFICES ASSUME IInv, next_digit PROVE IInv'
  OBVIOUS
<1> DEFINE d == carries(n)[LIMBS]
           P == Power(10, Len(out))
           v == Value(n, LIMB)
           w == Value(n', LIMB)
           x == Value(out, 10)
<1>1. /\ request \in Requests
      /\ n \in [1..LIMBS -> 0..(LIMB - 1)]
      /\ out \in Seq(0..9) /\ out \in Seq(Nat) /\ Len(out) \in Nat
      /\ v \in Nat /\ x \in Nat /\ P \in Nat
      /\ v * P + x = Amount
  BY DigitsNow
<1>2. pos \in 1..TMP_SIZE /\ pos # 0
  BY Widths DEF IInv, TypeOK
<1>3. /\ phase = "digits" /\ phase' = "digits" /\ ~allzeroes(n)
      /\ n' = quotients(n)
      /\ out' = << d >> \o out
      /\ request' = request /\ text' = text
  BY <1>2, Zenon DEF next_digit, quotients
<1>4. /\ n' \in [1..LIMBS -> 0..(LIMB - 1)] /\ d \in 0..9 /\ v = 10 * w + d
      /\ w \in Nat
  BY <1>1, <1>3, Division, AllZeroes
<1>5. v >= 1
  BY <1>1, <1>3, AllZeroes
<1> HIDE DEF d, P, v, w, x
<1>6. /\ << d >> \in Seq(0..9) /\ << d >> \in Seq(Nat)
      /\ out' \in Seq(0..9) /\ Len(out') = Len(out) + 1 /\ out'[1] = d
  BY <1>1, <1>3, <1>4
<1>7. Len(out) < TMP_SIZE - 1
  <2>1. P <= Amount
    <3>1. \A k, l, q \in Nat : k >= 1 => l <= k * l + q
      OBVIOUS
    <3> QED
      BY <1>1, <1>5, <3>1
  <2>2. Amount \in Nat /\ Amount < Power(10, TMP_SIZE - 1)
    BY <1>1, AmountBound
  <2>3. SUFFICES ASSUME TMP_SIZE - 1 <= Len(out) PROVE FALSE
    BY <1>1, Widths
  <2>4. TMP_SIZE - 1 \in 0..Len(out) /\ TMP_SIZE - 1 \in Nat /\ 10 \in Nat \ {0}
    BY <1>1, <2>3, Widths
  <2>5. Power(10, TMP_SIZE - 1) <= P /\ Power(10, TMP_SIZE - 1) \in Nat
    BY <1>1, <2>4, PowerGrows, PowerFacts DEF P
  <2> QED
    BY <1>1, <2>1, <2>2, <2>5
<1>8. TypeOK'
  <2>1. pos' \in 1..TMP_SIZE
    BY <1>1, <1>6, <1>7, Widths DEF pos
  <2> QED
    BY <1>1, <1>3, <1>4, <1>6, <2>1 DEF IInv, TypeOK, Phases
<1>9. DigitsSoFar'
  <2>1. Value(out', 10) = d * P + x
    <3>1. Value(<< d >>, 10) = d
      BY <1>4, ValueOfDigit
    <3>2. 10 \in Nat
      OBVIOUS
    <3>3. Value(<< d >> \o out, 10)
            = Value(<< d >>, 10) * Power(10, Len(out)) + Value(out, 10)
      BY <1>1, <1>6, <3>2, ValueOfConcatenation
    <3> QED
      BY <1>3, <3>1, <3>3, Zenon DEF P, x
  <2>2. Power(10, Len(out')) = 10 * P
    BY <1>1, <1>6, PowerFacts DEF P
  <2>3. w * (10 * P) + (d * P + x) = (10 * w + d) * P + x
    BY <1>1, <1>4
  <2>4. Amount' = Amount
    BY <1>3 DEF Amount
  <2>5. w * Power(10, Len(out')) + Value(out', 10) = Amount'
    BY <1>1, <1>4, <2>1, <2>2, <2>3, <2>4
  <2> QED
    BY <2>5 DEF DigitsSoFar, w
<1>10. DigitsWhole'
  <2>1. ASSUME allzeroes(n') PROVE d # 0
    <3>1. w = 0
      BY <1>4, <2>1, AllZeroes DEF w
    <3> QED
      BY <1>4, <1>5, <3>1
  <2>2. text' = << >>
    BY <1>3 DEF IInv, DigitsWhole
  <2>3. allzeroes(n)' => out'[1] # 0
    BY <1>6, <2>1 DEF allzeroes
  <2> QED
    BY <1>3, <2>2, <2>3 DEF DigitsWhole
<1>11. TextPlaced' /\ TextReadsBack' /\ TextIsCanonical'
  BY <1>3 DEF TextPlaced, TextReadsBack, TextIsCanonical
<1> QED
  BY <1>8, <1>9, <1>10, <1>11 DEF IInv

(* Nothing is left of the number: the digits are all of it.                *)
LEMMA Uint256ToDecimal == IInv /\ uint256_to_decimal => IInv'
<1> SUFFICES ASSUME IInv, uint256_to_decimal PROVE IInv'
  OBVIOUS
<1>1. /\ phase = "digits" /\ allzeroes(n) /\ phase' = "adjust"
      /\ out' = IF out = << >> THEN << 0 >> ELSE out
      /\ request' = request /\ n' = n /\ text' = text
  BY DEF uint256_to_decimal
<1>2. /\ request \in Requests /\ n \in [1..LIMBS -> 0..(LIMB - 1)]
      /\ out \in Seq(0..9) /\ out \in Seq(Nat) /\ Len(out) \in Nat
      /\ Value(out, 10) \in Nat /\ Power(10, Len(out)) \in Nat
      /\ Value(n, LIMB) * Power(10, Len(out)) + Value(out, 10) = Amount
  BY DigitsNow
<1>3. Value(n, LIMB) = 0
  BY <1>1, <1>2, AllZeroes
<1>4. Value(out, 10) = Amount
  BY <1>2, <1>3
<1>5. /\ out' \in Seq(0..9) /\ pos' \in 1..TMP_SIZE /\ Value(out', 10) = Amount
      /\ out' \in Seq(Nat) /\ Len(out') \in Nat
  <2>1. CASE out = << >>
    <3>1. out' = << 0 >> /\ out' \in Seq(0..9) /\ Len(out') = 1
      BY <1>1, <2>1
    <3>2. Value(out', 10) = 0
      BY <3>1, ValueOfDigit
    <3>3. Value(out, 10) = 0
      BY <1>2, <2>1, ValueFacts
    <3>4. pos' \in 1..TMP_SIZE
      BY <3>1, Widths DEF pos
    <3> QED
      BY <1>4, <3>1, <3>2, <3>3, <3>4
  <2>2. CASE out # << >>
    <3>1. out' = out /\ pos' = pos /\ pos \in 1..TMP_SIZE
      BY <1>1, <2>2 DEF pos, IInv, TypeOK
    <3> QED
      BY <1>2, <1>4, <3>1
  <2> QED
    BY <2>1, <2>2
<1>6. TypeOK'
  BY <1>1, <1>2, <1>5 DEF IInv, TypeOK, Phases
<1>7. DigitsSoFar'
  <2>1. Amount' = Amount /\ Value(n', LIMB) = 0
    BY <1>1, <1>3 DEF Amount
  <2>2. Power(10, Len(out')) \in Nat /\ Value(out', 10) \in Nat
    BY <1>5, PowerFacts, ValueFacts
  <2> QED
    BY <1>5, <2>1, <2>2 DEF DigitsSoFar
<1>8. DigitsWhole'
  <2>1. allzeroes(n)'
    BY <1>1 DEF allzeroes
  <2>2. out' = << 0 >> \/ (out' # << >> /\ out'[1] # 0)
    BY <1>1 DEF IInv, DigitsWhole
  <2> QED
    BY <1>1, <2>1, <2>2 DEF DigitsWhole
<1>9. TextPlaced' /\ TextReadsBack' /\ TextIsCanonical'
  BY <1>1 DEF TextPlaced, TextReadsBack, TextIsCanonical
<1> QED
  BY <1>6, <1>7, <1>8, <1>9 DEF IInv

---------------------------------------------------------------------------
(* Texts with and without a point. *)

(* Digits can stand in a text, and none is taken for the point.            *)
LEMMA DigitsOfText ==
  ASSUME NEW s \in Seq(0..9)
  PROVE  /\ s \in Seq(Nat) /\ s \in Seq(0..DOT) /\ Len(s) \in Nat
         /\ \A i \in 1..Len(s) : s[i] \in 0..9 /\ s[i] # DOT
BY DEF DOT

(* The digits and the point of a text are numbers.                         *)
LEMMA DigitsAndPoint ==
  ASSUME NEW s \in Seq(0..DOT)
  PROVE  s \in Seq(Nat)
BY DEF DOT

(* A text of two parts and a point: there is one point, where it was put,  *)
(* and without it the two parts follow each other.                         *)
PointBetween(t, whole, frac) ==
  /\ t \in Seq(0..DOT) /\ Len(t) = Len(whole) + 1 + Len(frac)
  /\ \A i \in 1..Len(whole) : t[i] = whole[i]
  /\ t[Len(whole) + 1] = DOT
  /\ \A i \in 1..Len(frac) : t[Len(whole) + 1 + i] = frac[i]
  /\ {i \in 1..Len(t) : t[i] = DOT} = {Len(whole) + 1}
  /\ RemoveAt(t, Len(whole) + 1) = whole \o frac

(* That is how a text with a point is made.                                *)
LEMMA Pointed ==
  ASSUME NEW whole \in Seq(0..9), NEW frac \in Seq(0..9),
         NEW t, t = whole \o << DOT >> \o frac
  PROVE  PointBetween(t, whole, frac)
<1> DEFINE D == 0..DOT
           w == Len(whole)
           p == w + 1
           k == Len(frac)
           u == whole \o << DOT >>
           v == << DOT >> \o frac
<1>1. whole \in Seq(D) /\ frac \in Seq(D) /\ w \in Nat /\ k \in Nat
  BY DigitsOfText
<1>2. << DOT >> \in Seq(D) /\ Len(<< DOT >>) = 1 /\ << DOT >>[1] = DOT
  BY DEF DOT
<1>3. \A i \in 1..w : whole[i] # DOT
  BY DigitsOfText
<1>4. \A i \in 1..k : frac[i] # DOT
  BY DigitsOfText
<1> HIDE DEF D
<1>5. /\ u \in Seq(D) /\ Len(u) = p
      /\ \A i \in 1..w : u[i] = whole[i]
      /\ \A i \in 1..1 : u[w + i] = << DOT >>[i]
  BY <1>1, <1>2, Joined
<1>6. v \in Seq(D) /\ Len(v) = 1 + k
  BY <1>1, <1>2, Joined
<1>7. u[p] = DOT
  BY <1>2, <1>5
<1>8. t = u \o frac
  OBVIOUS
<1> HIDE DEF u
<1>9. /\ t \in Seq(D) /\ Len(t) = p + k
      /\ \A i \in 1..p : t[i] = u[i]
      /\ \A i \in 1..k : t[p + i] = frac[i]
  BY <1>1, <1>5, <1>8, Joined
<1>10. t = whole \o v
  BY <1>1, <1>2, <1>8 DEF u
<1> HIDE DEF w, k, v
<1>11. (\A i \in 1..w : t[i] = whole[i]) /\ t[p] = DOT
  <2>1. p \in 1..p /\ \A i \in 1..w : i \in 1..p
    BY <1>1
  <2> HIDE DEF p
  <2>2. t[p] = DOT
    BY <1>7, <1>9, <2>1
  <2>3. \A i \in 1..w : t[i] = whole[i]
    BY <1>5, <1>9, <2>1
  <2> QED
    BY <2>2, <2>3
<1>12. {i \in 1..Len(t) : t[i] = DOT} = {p}
  <2>1. ASSUME NEW i \in 1..(p + k), t[i] = DOT PROVE i = p
    <3>1. CASE i < p
      <4>1. i \in 1..w
        BY <1>1, <3>1
      <4> QED
        BY <1>3, <1>11, <2>1, <4>1
    <3>2. CASE i > p
      <4>1. i - p \in 1..k /\ p + (i - p) = i
        BY <1>1, <3>2
      <4> QED
        BY <1>4, <1>9, <2>1, <4>1
    <3> QED
      BY <1>1, <3>1, <3>2
  <2>2. p \in 1..(p + k)
    BY <1>1
  <2> QED
    BY <1>9, <1>11, <2>1, <2>2
<1>13. RemoveAt(t, p) = whole \o frac
  <2>1. SubSeq(t, 1, w) = whole
    BY <1>1, <1>6, <1>10, CutApart DEF w
  <2>2. SubSeq(t, p + 1, p + k) = frac
    BY <1>1, <1>5, <1>8, CutApart DEF k
  <2>3. p - 1 = w
    BY <1>1
  <2> HIDE DEF p
  <2> QED
    BY <1>9, <2>1, <2>2, <2>3 DEF RemoveAt
<1> QED
  BY <1>9, <1>11, <1>12, <1>13 DEF D, w, k, PointBetween

(* The scan stops at the first of the zeroes the text ends with.           *)
LEMMA LastZero ==
  ASSUME NEW s \in Seq(Nat), NEW start \in Nat \ {0}
  PROVE  /\ lastZeroOffset(s, start) \in Nat
         /\ lastZeroOffset(s, start) = 0 =>
              Len(s) < start \/ s[Len(s)] # 0
         /\ lastZeroOffset(s, start) # 0 =>
              /\ lastZeroOffset(s, start) \in start..Len(s)
              /\ \A i \in lastZeroOffset(s, start)..Len(s) : s[i] = 0
              /\ \/ lastZeroOffset(s, start) = start
                 \/ s[lastZeroOffset(s, start) - 1] # 0
<1> DEFINE N == Len(s)
           next(i, v) == IF i < start \/ s[i] # 0 THEN 0
                         ELSE IF v = 0 THEN i ELSE v
           step == [i \in 1..N |-> [v \in Nat |-> next(i, v)]]
           last == CHOOSE l : l = [i \in 0..N |->
                     IF i < start \/ s[i] # 0 THEN 0
                     ELSE IF l[i - 1] = 0 THEN i ELSE l[i - 1]]
           Scanned(i) ==
             /\ last[i] = 0 => i < start \/ s[i] # 0
             /\ last[i] # 0 =>
                  /\ last[i] \in start..i
                  /\ \A j \in last[i]..i : s[j] = 0
                  /\ last[i] = start \/ s[last[i] - 1] # 0
           T == {i \in 0..N : last[i] \in Nat /\ Scanned(i)}
<1>1. N \in Nat /\ start \in Nat /\ start >= 1
  OBVIOUS
<1>2. step \in [1..N -> [Nat -> Nat]]
  OBVIOUS
<1>3. PICK f : Follows(f, N, Nat, 0, step)
  <2>1. 0 \in Nat
    OBVIOUS
  <2> HIDE DEF step, N
  <2> QED
    BY <1>1, <1>2, <2>1, Recursion, Zenon
<1>4. \A i \in 1..N : f[i] = next(i, f[i - 1])
  <2>1. \A i \in 1..N : i - 1 \in 0..N
    BY <1>1
  <2> QED
    BY <1>3, <2>1 DEF Follows
<1>5. f = [i \in 0..N |-> IF i < start \/ s[i] # 0 THEN 0
                          ELSE IF f[i - 1] = 0 THEN i ELSE f[i - 1]]
  <2>1. f \in [0..N -> Nat] /\ f[0] = 0
    BY <1>3 DEF Follows
  <2>2. \A i \in 0..N : i = 0 \/ i \in 1..N
    BY <1>1
  <2> QED
    BY <1>1, <1>4, <2>1, <2>2
<1>6. last = [i \in 0..N |-> IF i < start \/ s[i] # 0 THEN 0
                             ELSE IF last[i - 1] = 0 THEN i ELSE last[i - 1]]
  BY <1>5, Zenon
<1>7. lastZeroOffset(s, start) = last[N]
  BY Zenon DEF lastZeroOffset
<1> HIDE DEF last
<1>8. last[0] = 0
  <2>1. 0 \in 0..N /\ 0 < start
    BY <1>1
  <2> HIDE DEF N
  <2> QED
    BY <1>6, <2>1
<1>9. \A i \in 1..N : last[i] = next(i, last[i - 1])
  <2>1. \A i \in 1..N : i \in 0..N
    BY <1>1
  <2> HIDE DEF N
  <2> QED
    BY <1>6, <2>1, Zenon
<1>10. 0 \in T
  BY <1>1, <1>8
<1>11. ASSUME NEW i \in 1..N, i - 1 \in T PROVE i \in T
  <2> DEFINE v == last[i - 1]
  <2>1. /\ v \in Nat /\ Scanned(i - 1) /\ last[i] = next(i, v)
        /\ i \in Nat /\ i >= 1
    BY <1>9, <1>11
  <2>2. CASE i < start \/ s[i] # 0
    <3>1. last[i] = 0
      BY <2>1, <2>2
    <3> QED
      BY <1>1, <2>2, <3>1
  <2>3. CASE ~(i < start \/ s[i] # 0) /\ v = 0
    <3>1. last[i] = i /\ i >= start /\ s[i] = 0
      BY <1>1, <2>1, <2>3
    <3>2. i - 1 < start \/ s[i - 1] # 0
      BY <2>1, <2>3
    <3>3. last[i] = start \/ s[last[i] - 1] # 0
      BY <1>1, <2>1, <3>1, <3>2
    <3>4. \A j \in i..i : j = i
      BY <2>1
    <3>5. last[i] \in start..i /\ \A j \in last[i]..i : s[j] = 0
      BY <1>1, <2>1, <3>1, <3>4
    <3> QED
      BY <2>1, <3>1, <3>3, <3>5
  <2>4. CASE ~(i < start \/ s[i] # 0) /\ v # 0
    <3>1. last[i] = v /\ i >= start /\ s[i] = 0
      BY <1>1, <2>1, <2>4
    <3>2. /\ v \in start..(i - 1)
          /\ \A j \in v..(i - 1) : s[j] = 0
          /\ v = start \/ s[v - 1] # 0
      BY <2>1, <2>4
    <3>3. \A j \in v..i : j = i \/ j \in v..(i - 1)
      BY <2>1
    <3>4. v \in start..i /\ \A j \in v..i : s[j] = 0
      BY <1>1, <2>1, <3>1, <3>2, <3>3
    <3> HIDE DEF v
    <3> QED
      BY <2>1, <2>4, <3>1, <3>2, <3>4
  <2> QED
    BY <2>2, <2>3, <2>4
<1> HIDE DEF T
<1>12. 0..N \subseteq T
  BY <1>1, <1>10, <1>11, UpTo
<1>13. last[N] \in Nat /\ Scanned(N)
  <2>1. N \in T
    BY <1>1, <1>12
  <2> QED
    BY <2>1 DEF T
<1> QED
  BY <1>7, <1>13

---------------------------------------------------------------------------
(* What adjustDecimals makes of the digits: the part before the point and  *)
(* the decimals, all of them written out.                                  *)
WholePart(src, decimals) ==
  IF Len(src) <= decimals THEN << 0 >> ELSE SubSeq(src, 1, Len(src) - decimals)
DecimalPart(src, decimals) ==
  IF Len(src) <= decimals THEN Zeroes(decimals - Len(src)) \o src
  ELSE SubSeq(src, (Len(src) - decimals) + 1, Len(src))

(* A number with fewer digits than decimals: zeroes in front of it.        *)
LEMMA AdjustedSmall ==
  ASSUME NEW src \in Seq(0..9), src # << >>, src[1] # 0,
         NEW decimals \in Nat, Len(src) <= decimals
  PROVE  LET w == WholePart(src, decimals)
             f == DecimalPart(src, decimals)
         IN  /\ w \in Seq(0..9) /\ f \in Seq(0..9)
             /\ Len(w) = 1 /\ Len(f) = decimals /\ w[1] = 0
             /\ f[(decimals - Len(src)) + 1] # 0
             /\ Value(w \o f, 10) = Value(src, 10)
             /\ adjusted(src, decimals) = w \o << DOT >> \o f
<1> DEFINE k == Len(src)
           z == Zeroes(decimals - k)
           w == WholePart(src, decimals)
           f == DecimalPart(src, decimals)
           D == 0..9
<1>1. k \in Nat /\ k >= 1 /\ decimals - k \in Nat
  OBVIOUS
<1>2. z \in Seq(D) /\ Len(z) = decimals - k /\ \A i \in 1..Len(z) : z[i] = 0
  BY <1>1 DEF Zeroes
<1>3. w = << 0 >> /\ f = z \o src
  BY DEF WholePart, DecimalPart
<1>4. w \in Seq(D) /\ Len(w) = 1 /\ w[1] = 0
  BY <1>3
<1> HIDE DEF z, w, f
<1>5. /\ f \in Seq(D) /\ Len(f) = Len(z) + Len(src)
      /\ \A i \in 1..Len(src) : f[Len(z) + i] = src[i]
  <2> HIDE DEF D
  <2>1. src \in Seq(D)
    BY DEF D
  <2> QED
    BY <1>2, <1>3, <2>1, Joined
<1>6. Len(f) = decimals /\ f[(decimals - k) + 1] # 0
  BY <1>1, <1>2, <1>5
<1>7. /\ w \in Seq(Nat) /\ z \in Seq(Nat) /\ src \in Seq(Nat) /\ 10 \in Nat
  BY <1>2, <1>4, DigitsOfText
<1>8. w \o f = (w \o z) \o src
  <2>1. (w \o z) \o src = w \o (z \o src)
    BY <1>7, Associated
  <2> QED
    BY <1>3, <2>1, Zenon
<1>9. w \o z \in Seq(Nat)
  BY <1>7
<1>10. Value(w, 10) = 0 /\ Value(z, 10) = 0
  <2>1. Value(<< 0 >>, 10) = 0
    BY ValueOfDigit
  <2> QED
    BY <1>2, <1>3, <1>7, <2>1, ValueOfZeroes
<1>11. Value(w \o z, 10) = 0
  <2>1. Value(w \o z, 10) = Value(w, 10) * Power(10, Len(z)) + Value(z, 10)
    BY <1>7, ValueOfConcatenation
  <2>2. Power(10, Len(z)) \in Nat
    BY <1>1, <1>2, PowerFacts
  <2> QED
    BY <1>10, <2>1, <2>2
<1>12. Value(w \o f, 10) = 0 * Power(10, Len(src)) + Value(src, 10)
  <2>1. Value((w \o z) \o src, 10)
          = Value(w \o z, 10) * Power(10, Len(src)) + Value(src, 10)
    BY <1>7, <1>9, ValueOfConcatenation, Zenon
  <2> QED
    BY <1>8, <1>11, <2>1, Zenon
<1>13. Value(w \o f, 10) = Value(src, 10)
  <2>1. Power(10, Len(src)) \in Nat /\ Value(src, 10) \in Nat
    BY <1>1, <1>7, PowerFacts, ValueFacts
  <2> QED
    BY <1>12, <2>1
<1>14. adjusted(src, decimals) = w \o << DOT >> \o f
  <2>1. adjusted(src, decimals) = << 0, DOT >> \o z \o src
    BY DEF adjusted, z
  <2>2. << 0, DOT >> \in Seq(Nat)
    BY DEF DOT
  <2>3. << 0, DOT >> = << 0 >> \o << DOT >>
    OBVIOUS
  <2>4. (<< 0, DOT >> \o z) \o src = << 0, DOT >> \o (z \o src)
    BY <1>7, <2>2, Associated
  <2> QED
    BY <1>3, <2>1, <2>3, <2>4, Zenon
<1> QED
  BY <1>4, <1>5, <1>6, <1>13, <1>14 DEF w, f, k

(* A number with more digits than decimals: its first ones are whole.      *)
LEMMA AdjustedLarge ==
  ASSUME NEW src \in Seq(0..9), src # << >>, src[1] # 0,
         NEW decimals \in Nat, ~(Len(src) <= decimals)
  PROVE  LET w == WholePart(src, decimals)
             f == DecimalPart(src, decimals)
         IN  /\ w \in Seq(0..9) /\ f \in Seq(0..9)
             /\ Len(w) = Len(src) - decimals /\ Len(w) >= 1
             /\ Len(f) = decimals /\ w[1] # 0
             /\ w \o f = src
             /\ adjusted(src, decimals)
                  = IF decimals = 0 THEN w ELSE w \o << DOT >> \o f
<1> DEFINE k == Len(src)
           a == k - decimals
           w == WholePart(src, decimals)
           f == DecimalPart(src, decimals)
           D == 0..9
<1>1. k \in Nat /\ a \in Nat /\ a >= 1 /\ a <= k /\ (k - (a + 1)) + 1 = decimals
  OBVIOUS
<1>2. w = SubSeq(src, 1, a) /\ f = SubSeq(src, a + 1, k)
  BY DEF WholePart, DecimalPart
<1> HIDE DEF a, w, f
<1>3. /\ w \in Seq(D) /\ Len(w) = a
      /\ \A i \in 1..a : w[i] = src[i]
  <2>1. (a - 1) + 1 = a /\ 1 <= a + 1 /\ 1 \in Int /\ a \in Int /\ a <= Len(src)
    BY <1>1
  <2> HIDE DEF D
  <2>2. src \in Seq(D)
    BY DEF D
  <2>3. /\ w \in Seq(D) /\ Len(w) = a
        /\ \A i \in 1..a : w[i] = src[(1 + i) - 1]
    BY <1>2, <2>1, <2>2, CutOut
  <2>4. \A i \in 1..a : (1 + i) - 1 = i
    BY <1>1
  <2> QED
    BY <2>3, <2>4
<1>4. /\ f \in Seq(D) /\ Len(f) = decimals
      /\ \A i \in 1..decimals : f[i] = src[a + i]
  <2>1. /\ 1 <= a + 1 /\ a + 1 <= k + 1 /\ a + 1 \in Int /\ k \in Int
        /\ k <= Len(src)
    BY <1>1
  <2> HIDE DEF D
  <2>2. src \in Seq(D)
    BY DEF D
  <2>3. /\ f \in Seq(D) /\ Len(f) = decimals
        /\ \A i \in 1..decimals : f[i] = src[((a + 1) + i) - 1]
    BY <1>1, <1>2, <2>1, <2>2, CutOut
  <2>4. \A i \in 1..decimals : ((a + 1) + i) - 1 = a + i
    BY <1>1
  <2> QED
    BY <2>3, <2>4
<1>5. w[1] # 0
  BY <1>1, <1>3
<1>6. w \o f = src
  <2> DEFINE q == w \o f
  <2>1. /\ q \in Seq(D) /\ Len(q) = a + decimals
        /\ \A i \in 1..a : q[i] = w[i]
        /\ \A i \in 1..decimals : q[a + i] = f[i]
    <3> HIDE DEF D
    <3>1. w \in Seq(D) /\ f \in Seq(D) /\ Len(w) = a /\ Len(f) = decimals
      BY <1>3, <1>4
    <3>2. q \in Seq(D) /\ Len(q) = a + decimals
      <4>1. q \in Seq(D)
        BY <3>1
      <4>2. Len(q) = Len(w) + Len(f)
        BY <3>1, Joined
      <4> QED
        BY <3>1, <4>1, <4>2
    <3>3. \A i \in 1..a : q[i] = w[i]
      BY <3>1
    <3>4. \A i \in 1..decimals : q[a + i] = f[i]
      BY <3>1
    <3> QED
      BY <3>2, <3>3, <3>4
  <2>2. Len(q) = Len(src)
    BY <1>1, <2>1
  <2>3. ASSUME NEW i \in 1..Len(q) PROVE q[i] = src[i]
    <3>1. i \in 1..a \/ (i - a \in 1..decimals /\ a + (i - a) = i)
      BY <1>1, <2>1
    <3>2. CASE i \in 1..a
      BY <1>3, <2>1, <3>2
    <3>3. CASE i - a \in 1..decimals /\ a + (i - a) = i
      <4>1. q[a + (i - a)] = f[i - a] /\ f[i - a] = src[a + (i - a)]
        BY <1>4, <2>1, <3>3
      <4> QED
        BY <3>3, <4>1
    <3> QED
      BY <3>1, <3>2, <3>3
  <2> HIDE DEF q
  <2>4. q = src
    BY <2>1, <2>2, <2>3, SameDigits
  <2> QED
    BY <2>4 DEF q
<1>7. adjusted(src, decimals)
        = w \o (IF decimals # 0 THEN << DOT >> ELSE << >>) \o f
  BY <1>2 DEF adjusted, a
<1>8. CASE decimals = 0
  <2>1. f = << >>
    BY <1>4, <1>8
  <2>2. adjusted(src, decimals) = w \o << >> \o << >>
    BY <1>7, <1>8, <2>1
  <2>3. adjusted(src, decimals) = w
    BY <1>3, <2>2
  <2> QED
    BY <1>1, <1>3, <1>4, <1>5, <1>6, <1>8, <2>3 DEF w, f, a
<1>9. CASE decimals # 0
  BY <1>1, <1>3, <1>4, <1>5, <1>6, <1>7, <1>9 DEF w, f, a
<1> QED
  BY <1>8, <1>9

(* In either case there is a whole part and the decimals asked for, and    *)
(* together they are the number.                                           *)
LEMMA Adjusted ==
  ASSUME NEW src \in Seq(0..9), src # << >>, src[1] # 0,
         NEW decimals \in Nat
  PROVE  LET w == WholePart(src, decimals)
             f == DecimalPart(src, decimals)
         IN  /\ w \in Seq(0..9) /\ f \in Seq(0..9)
             /\ Len(w) >= 1 /\ Len(f) = decimals
             /\ w[1] = 0 => Len(w) = 1
             /\ Value(w \o f, 10) = Value(src, 10)
             /\ adjusted(src, decimals)
                  = IF decimals = 0 THEN w ELSE w \o << DOT >> \o f
<1>1. CASE Len(src) <= decimals
  <2>1. decimals # 0
    BY <1>1
  <2> QED
    BY <1>1, <2>1, AdjustedSmall
<1>2. CASE ~(Len(src) <= decimals)
  BY <1>2, AdjustedLarge
<1> QED
  BY <1>1, <1>2

(* What is left of a text once the zeroes at its end are cut off: the      *)
(* point and the first l decimals, or the part before the point.           *)
Shortened(w, f, l) ==
  IF l = 0 THEN w ELSE w \o << DOT >> \o SubSeq(f, 1, l)

(* Everything behind the l-th decimal is zero, and that one is not.        *)
LastKept(f, l) ==
  /\ l \in 0..Len(f)
  /\ \A i \in (l + 1)..Len(f) : f[i] = 0
  /\ l # 0 => f[l] # 0

(* A text cut off behind a decimal.                                        *)
LEMMA Cut ==
  ASSUME NEW w \in Seq(0..9), NEW f \in Seq(0..9), NEW l \in 1..Len(f)
  PROVE  SubSeq(w \o << DOT >> \o f, 1, Len(w) + 1 + l)
           = w \o << DOT >> \o SubSeq(f, 1, l)
<1> DEFINE D == 0..DOT
           g == SubSeq(f, 1, l)
           t == w \o << DOT >> \o f
           c == w \o << DOT >> \o g
           m == Len(w) + 1 + l
           q == SubSeq(t, 1, m)
           a == Len(w)
           b == Len(f)
<1>1. g \in Seq(0..9) /\ Len(g) = l /\ \A i \in 1..l : g[i] = f[i]
  OBVIOUS
<1>2. a \in Nat /\ b \in Nat /\ l \in Nat /\ l >= 1 /\ l <= b
  OBVIOUS
<1> HIDE DEF g
<1>3. /\ t \in Seq(D) /\ Len(t) = a + 1 + b
      /\ \A i \in 1..a : t[i] = w[i]
      /\ t[a + 1] = DOT
      /\ \A i \in 1..b : t[a + 1 + i] = f[i]
  <2>1. PointBetween(t, w, f)
    BY Pointed
  <2> HIDE DEF t
  <2> QED
    BY <2>1 DEF PointBetween
<1>4. /\ c \in Seq(D) /\ Len(c) = a + 1 + Len(g)
      /\ \A i \in 1..a : c[i] = w[i]
      /\ c[a + 1] = DOT
      /\ \A i \in 1..Len(g) : c[a + 1 + i] = g[i]
  <2>1. PointBetween(c, w, g)
    BY <1>1, Pointed
  <2> HIDE DEF c
  <2> QED
    BY <2>1 DEF PointBetween
<1> HIDE DEF D, t, c, a, b
<1>5. m = a + 1 + l
  BY DEF a
<1> HIDE DEF m
<1>6. /\ q \in Seq(D) /\ Len(q) = m
      /\ \A i \in 1..m : q[i] = t[i]
  <2>1. m \in Int /\ 1 <= m + 1 /\ m <= Len(t) /\ (m - 1) + 1 = m
    BY <1>2, <1>3, <1>5
  <2>2. /\ q \in Seq(D) /\ Len(q) = m
        /\ \A i \in 1..m : q[i] = t[(1 + i) - 1]
    BY <1>3, <2>1, CutOut
  <2>3. \A i \in 1..m : (1 + i) - 1 = i
    BY <1>2, <1>5
  <2> HIDE DEF q
  <2> QED
    BY <2>2, <2>3
<1> HIDE DEF q
<1>7. ASSUME NEW i \in 1..Len(q) PROVE q[i] = c[i]
  <2>1. i \in 1..m /\ q[i] = t[i]
    BY <1>6
  <2>2. CASE i <= a
    <3>1. i \in 1..a
      BY <1>2, <2>1, <2>2
    <3> QED
      BY <1>3, <1>4, <2>1, <3>1
  <2>3. CASE i = a + 1
    BY <1>3, <1>4, <2>1, <2>3
  <2>4. CASE i > a + 1
    <3>1. /\ i - (a + 1) \in 1..l /\ i - (a + 1) \in 1..b
          /\ a + 1 + (i - (a + 1)) = i
      BY <1>2, <1>5, <2>1, <2>4
    <3>2. t[i] = f[i - (a + 1)]
      BY <1>3, <3>1
    <3>3. c[i] = g[i - (a + 1)]
      BY <1>1, <1>4, <3>1
    <3> QED
      BY <1>1, <2>1, <3>1, <3>2, <3>3
  <2> QED
    BY <1>2, <1>5, <2>1, <2>2, <2>3, <2>4
<1>8. q = c
  BY <1>1, <1>4, <1>5, <1>6, <1>7, SameDigits
<1> QED
  BY <1>8 DEF q, c, t, g, m

(* The zeroes cut off are those at the end of the decimals, wherever the   *)
(* scan began, and the point with them if there is nothing else behind it. *)
LEMMA Stripping ==
  ASSUME NEW w \in Seq(0..9), NEW f \in Seq(0..9), Len(w) >= 1, Len(f) >= 1,
         NEW s, s = w \o << DOT >> \o f,
         NEW start \in (Len(w) + 2)..Len(s),
         start = Len(w) + 2 \/ s[start] # 0
  PROVE  \E l \in 0..Len(f) :
           /\ stripped(s, lastZeroOffset(s, start)) = Shortened(w, f, l)
           /\ LastKept(f, l)
<1> DEFINE z == lastZeroOffset(s, start)
           p == Len(w) + 1
           k == Len(f)
<1>1. /\ s \in Seq(0..DOT) /\ Len(s) = p + k
      /\ \A i \in 1..(p - 1) : s[i] = w[i]
      /\ s[p] = DOT
      /\ \A i \in 1..k : s[p + i] = f[i]
  <2>1. (Len(w) + 1) - 1 = Len(w)
    OBVIOUS
  <2>2. PointBetween(s, w, f)
    BY Pointed
  <2> QED
    BY <2>1, <2>2 DEF PointBetween
<1>2. /\ p \in Nat /\ p >= 2 /\ k \in Nat /\ k >= 1
      /\ start \in Nat \ {0} /\ start \in (p + 1)..(p + k)
      /\ start = p + 1 \/ s[start] # 0
  BY <1>1
<1>3. s \in Seq(Nat)
  BY <1>1, DigitsAndPoint
<1>4. /\ z \in Nat
      /\ z = 0 => Len(s) < start \/ s[Len(s)] # 0
      /\ z # 0 =>
           /\ z \in start..Len(s)
           /\ \A i \in z..Len(s) : s[i] = 0
           /\ z = start \/ s[z - 1] # 0
  BY <1>2, <1>3, LastZero
<1>5. \A l \in 1..k : SubSeq(s, 1, p + l) = w \o << DOT >> \o SubSeq(f, 1, l)
  BY Cut
<1>6. SubSeq(s, 1, p - 1) = w
  <2>1. << DOT >> \in Seq(0..DOT) /\ w \in Seq(0..DOT) /\ f \in Seq(0..DOT)
    BY DigitsOfText DEF DOT
  <2>2. s = w \o (<< DOT >> \o f)
    <3> DEFINE dot == << DOT >>
    <3>1. w \in Seq(Nat) /\ f \in Seq(Nat) /\ dot \in Seq(Nat)
      BY <2>1, DigitsOfText DEF DOT
    <3> HIDE DEF dot
    <3>2. (w \o dot) \o f = w \o (dot \o f)
      BY <3>1, Associated
    <3> QED
      BY <3>2, Zenon DEF dot
  <2> DEFINE v == << DOT >> \o f
  <2>3. v \in Seq(0..DOT)
    BY <2>1
  <2> HIDE DEF v
  <2>4. SubSeq(w \o v, 1, Len(w)) = w
    BY <2>1, <2>3, CutApart
  <2>5. (Len(w) + 1) - 1 = Len(w)
    BY <2>1
  <2> QED
    BY <2>2, <2>4, <2>5 DEF v
<1>7. SubSeq(f, 1, k) = f
  OBVIOUS
<1>8. s = w \o << DOT >> \o f /\ DOT # 0
  BY DEF DOT
<1> HIDE DEF z, p, k
<1>9. CASE z = 0
  <2>1. s[p + k] # 0 /\ k \in 1..k
    <3>1. ~(p + k < start) /\ k \in 1..k
      BY <1>2
    <3>2. Len(s) = p + k /\ (Len(s) < start \/ s[Len(s)] # 0)
      BY <1>1, <1>4, <1>9
    <3> QED
      BY <3>1, <3>2
  <2>2. LastKept(f, k)
    <3>1. f[k] # 0
      BY <1>1, <2>1
    <3> QED
      BY <1>2, <3>1 DEF LastKept, k
  <2>3. stripped(s, z) = s
    BY <1>9 DEF stripped
  <2>4. Shortened(w, f, k) = s
    <3>1. k # 0
      BY <1>2
    <3> QED
      BY <1>7, <1>8, <3>1, Zenon DEF Shortened
  <2>5. k \in 0..Len(f)
    BY <2>2 DEF LastKept
  <2> QED
    BY <2>2, <2>3, <2>4, <2>5, Zenon DEF z
<1>10. CASE z # 0 /\ s[z - 1] = DOT
  <2>1. z = p + 1
    <3>1. ASSUME z > p + 1 PROVE FALSE
      <4>1. z = start \/ s[z - 1] # 0
        BY <1>4, <1>10
      <4>2. (z - 1) - p \in 1..k /\ p + ((z - 1) - p) = z - 1
        BY <1>1, <1>2, <1>4, <1>10, <3>1
      <4>3. s[z - 1] = f[(z - 1) - p]
        BY <1>1, <4>2
      <4>4. f[(z - 1) - p] # DOT
        BY <4>2, DigitsOfText DEF k
      <4> QED
        BY <1>10, <4>3, <4>4
    <3> QED
      BY <1>1, <1>2, <1>4, <1>10, <3>1
  <2>2. stripped(s, z) = w
    <3>1. z - 2 = p - 1
      BY <1>2, <2>1
    <3> QED
      BY <1>6, <1>10, <3>1 DEF stripped
  <2>3. ASSUME NEW i \in 1..k PROVE f[i] = 0
    <3>1. p + i \in z..Len(s)
      BY <1>1, <1>2, <2>1
    <3> QED
      BY <1>1, <1>4, <1>10, <3>1
  <2>4. LastKept(f, 0)
    BY <1>2, <2>3 DEF LastKept, k
  <2>5. Shortened(w, f, 0) = w /\ 0 \in 0..Len(f)
    BY <1>2 DEF Shortened, k
  <2> QED
    BY <2>2, <2>4, <2>5 DEF z
<1>11. CASE z # 0 /\ s[z - 1] # DOT
  <2> DEFINE l == (z - 1) - p
  <2>1. z # p + 1
    <3>1. (p + 1) - 1 = p
      BY <1>2
    <3> QED
      BY <1>1, <1>11, <3>1
  <2>2. /\ z \in (p + 1)..(p + k) /\ z >= start
        /\ \A i \in z..(p + k) : s[i] = 0
        /\ z = start \/ s[z - 1] # 0
    <3>1. /\ z \in start..Len(s) /\ \A i \in z..Len(s) : s[i] = 0
          /\ z = start \/ s[z - 1] # 0
      BY <1>4, <1>11
    <3>2. Len(s) = p + k /\ z \in start..(p + k)
      BY <1>1, <3>1
    <3>3. z \in (p + 1)..(p + k) /\ z >= start
      BY <1>2, <3>2
    <3> QED
      BY <3>1, <3>2, <3>3
  <2>3. /\ l \in 1..k /\ p + l = z - 1
    BY <1>2, <2>1, <2>2
  <2>4. s[z - 1] # 0
    <3>1. CASE z = start
      <4>1. s[start] = 0
        BY <1>2, <2>2, <3>1
      <4> QED
        BY <1>2, <2>1, <3>1, <4>1
    <3> QED
      BY <2>2, <3>1
  <2>5. f[l] # 0
    BY <1>1, <2>3, <2>4
  <2>6. ASSUME NEW i \in (l + 1)..k PROVE f[i] = 0
    <3>1. p + i \in z..(p + k) /\ i \in 1..k
      BY <1>2, <2>2, <2>3
    <3> QED
      BY <1>1, <2>2, <3>1
  <2> HIDE DEF l
  <2>7. stripped(s, z) = w \o << DOT >> \o SubSeq(f, 1, l)
    BY <1>5, <1>11, <2>3 DEF stripped
  <2>8. LastKept(f, l)
    <3>1. l \in 0..k
      BY <1>2, <2>3
    <3> QED
      BY <2>5, <2>6, <3>1 DEF LastKept, k
  <2>9. Shortened(w, f, l) = stripped(s, z)
    <3>1. l # 0
      BY <1>2, <2>3
    <3> QED
      BY <2>7, <3>1 DEF Shortened
  <2>10. l \in 0..Len(f)
    BY <2>8 DEF LastKept
  <2> QED
    BY <2>8, <2>9, <2>10 DEF z
<1> QED
  BY <1>9, <1>10, <1>11

(* The digits that are kept, with as many powers of ten as there were      *)
(* zeroes cut off, stand for the same number.                              *)
LEMMA ValueKept ==
  ASSUME NEW w \in Seq(0..9), NEW f \in Seq(0..9), NEW l, LastKept(f, l)
  PROVE  Value(w \o SubSeq(f, 1, l), 10) * Power(10, Len(f) - l)
           = Value(w \o f, 10)
<1> DEFINE k == Len(f)
           g == SubSeq(f, 1, l)
           h == SubSeq(f, l + 1, k)
           a == w \o g
<1>1. k \in Nat /\ l \in 0..k /\ \A i \in (l + 1)..k : f[i] = 0
  BY DEF LastKept
<1>2. /\ w \in Seq(Nat) /\ f \in Seq(Nat)
  BY DigitsOfText
<1> HIDE DEF k
<1>3. g \in Seq(Nat) /\ Len(g) = l /\ \A i \in 1..l : g[i] = f[i]
  BY <1>1, <1>2 DEF k
<1>4. /\ h \in Seq(Nat) /\ Len(h) = k - l
      /\ \A i \in 1..(k - l) : h[i] = f[l + i]
  <2>1. /\ l + 1 \in Int /\ k \in Int /\ 1 <= l + 1 /\ l + 1 <= k + 1
        /\ k <= Len(f) /\ (k - (l + 1)) + 1 = k - l
    BY <1>1 DEF k
  <2>2. /\ h \in Seq(Nat) /\ Len(h) = k - l
        /\ \A i \in 1..(k - l) : h[i] = f[((l + 1) + i) - 1]
    BY <1>2, <2>1, CutOut
  <2>3. \A i \in 1..(k - l) : ((l + 1) + i) - 1 = l + i
    BY <1>1
  <2> HIDE DEF h
  <2> QED
    BY <2>2, <2>3
<1> HIDE DEF g, h
<1>5. g \o h = f
  <2> DEFINE q == g \o h
  <2>0. /\ g \in Seq(Nat) /\ h \in Seq(Nat)
        /\ Len(g) = l /\ Len(h) = k - l
    BY <1>3, <1>4
  <2>1. q \in Seq(Nat) /\ Len(q) = l + (k - l)
    <3>1. q \in Seq(Nat)
      BY <2>0
    <3>2. Len(q) = Len(g) + Len(h)
      BY <2>0, Joined
    <3> QED
      BY <2>0, <3>1, <3>2
  <2>2. \A i \in 1..l : q[i] = g[i]
    BY <2>0
  <2>3. \A i \in 1..(k - l) : q[l + i] = h[i]
    BY <2>0
  <2> HIDE DEF q
  <2>4. Len(q) = Len(f)
    BY <1>1, <2>1 DEF k
  <2>5. ASSUME NEW i \in 1..Len(q) PROVE q[i] = f[i]
    <3>1. i \in 1..l \/ (i - l \in 1..(k - l) /\ l + (i - l) = i)
      BY <1>1, <2>1
    <3>2. CASE i \in 1..l
      BY <1>3, <2>2, <3>2
    <3>3. CASE i - l \in 1..(k - l) /\ l + (i - l) = i
      <4>1. q[l + (i - l)] = h[i - l] /\ h[i - l] = f[l + (i - l)]
        BY <1>4, <2>3, <3>3
      <4> QED
        BY <3>3, <4>1
    <3> QED
      BY <3>1, <3>2, <3>3
  <2>6. q = f
    BY <1>2, <2>1, <2>4, <2>5, SameDigits
  <2> QED
    BY <2>6 DEF q
<1>6. a \in Seq(Nat)
  BY <1>2, <1>3
<1>7. a \o h = w \o f
  <2>1. a \o h = w \o (g \o h)
    BY <1>2, <1>3, <1>4
  <2> QED
    BY <1>5, <2>1
<1> HIDE DEF a
<1>8. Value(h, 10) = 0
  <2>1. ASSUME NEW i \in 1..Len(h) PROVE h[i] = 0
    <3>1. l + i \in (l + 1)..k /\ i \in 1..(k - l)
      BY <1>1, <1>4
    <3> QED
      BY <1>1, <1>4, <3>1
  <2> QED
    BY <1>4, <2>1, ValueOfZeroes
<1>9. Value(a \o h, 10) = Value(a, 10) * Power(10, k - l) + 0
  <2>1. Value(a \o h, 10) = Value(a, 10) * Power(10, Len(h)) + Value(h, 10)
    BY <1>4, <1>6, ValueOfConcatenation
  <2> QED
    BY <1>4, <1>8, <2>1
<1>10. Value(a, 10) * Power(10, k - l) \in Nat
  <2>1. Value(a, 10) \in Nat /\ Power(10, k - l) \in Nat
    <3>1. k - l \in Nat /\ 10 \in Nat
      BY <1>1
    <3> QED
      BY <1>6, <3>1, ValueFacts, PowerFacts
  <2>2. \A x, y \in Nat : x * y \in Nat
    OBVIOUS
  <2> QED
    BY <2>1, <2>2
<1>11. Value(w \o f, 10) = Value(a, 10) * Power(10, k - l)
  BY <1>7, <1>9, <1>10
<1> QED
  BY <1>11 DEF a, g, k

(* The zeroes are cut off the decimals of the amount and of nothing else:  *)
(* the scan begins behind the point, or at the first digit of the amount.  *)
LEMMA Stripped ==
  ASSUME out \in Seq(0..9), out # << >>, out[1] # 0,
         NEW d \in Nat, d = request.decimals, text = adjusted(out, d)
  PROVE  \E l \in 0..d :
           /\ stripped(text, lastZeroOffset(text, startOffset))
                = Shortened(WholePart(out, d), DecimalPart(out, d), l)
           /\ LastKept(DecimalPart(out, d), l)
<1> DEFINE w == WholePart(out, d)
           f == DecimalPart(out, d)
           k == Len(out)
<1>1. /\ w \in Seq(0..9) /\ f \in Seq(0..9)
      /\ Len(w) >= 1 /\ Len(f) = d
      /\ text = IF d = 0 THEN w ELSE w \o << DOT >> \o f
  BY Adjusted
<1>2. k \in Nat /\ k >= 1 /\ Len(w) \in Nat
  BY <1>1
<1>3. CASE d = 0
  <2>1. text = w /\ Len(w) = k
    <3>1. ~(k <= d)
      BY <1>2, <1>3
    <3>2. Len(w) = k - d
      BY <3>1, AdjustedLarge
    <3> QED
      BY <1>1, <1>2, <1>3, <3>2
  <2>2. startOffset = k + 1
    BY <1>2, <1>3 DEF startOffset
  <2>3. text \in Seq(Nat) /\ k + 1 \in Nat \ {0}
    BY <1>1, <1>2, <2>1, DigitsOfText
  <2> HIDE DEF w, f, k
  <2>4. lastZeroOffset(text, startOffset) = 0
    <3>1. lastZeroOffset(text, k + 1) # 0
            => lastZeroOffset(text, k + 1) \in (k + 1)..Len(text)
      BY <2>3, LastZero
    <3>2. (k + 1)..Len(text) = {}
      BY <1>2, <2>1
    <3> QED
      BY <2>2, <3>1, <3>2
  <2>5. stripped(text, lastZeroOffset(text, startOffset)) = w
    BY <2>1, <2>4 DEF stripped
  <2>6. Shortened(w, f, 0) = w
    BY DEF Shortened
  <2>7. LastKept(f, 0) /\ 0 \in 0..d
    BY <1>1, <1>3 DEF LastKept
  <2> QED
    BY <2>5, <2>6, <2>7 DEF w, f
<1>4. CASE d # 0
  <2>1. text = w \o << DOT >> \o f /\ d >= 1
    BY <1>1, <1>4
  <2>2. PointBetween(text, w, f)
    BY <1>1, <2>1, Pointed
  <2>3. /\ Len(text) = Len(w) + 1 + d
        /\ \A i \in 1..d : text[Len(w) + 1 + i] = f[i]
    BY <1>1, <2>2 DEF PointBetween
  <2>4. /\ startOffset \in (Len(w) + 2)..Len(text)
        /\ startOffset = Len(w) + 2 \/ text[startOffset] # 0
    <3>1. CASE k <= d
      <4>1. Len(w) = 1 /\ f[(d - k) + 1] # 0
        BY <3>1, AdjustedSmall
      <4>2. startOffset = Len(w) + 1 + ((d - k) + 1)
        BY <1>2, <2>3, <3>1, <4>1 DEF startOffset
      <4>3. (d - k) + 1 \in 1..d
        BY <1>2, <3>1
      <4>4. text[startOffset] # 0
        BY <2>3, <4>1, <4>2, <4>3
      <4> HIDE DEF w, f
      <4>5. startOffset \in (Len(w) + 2)..Len(text)
        BY <1>2, <2>3, <4>2, <4>3
      <4> QED
        BY <4>4, <4>5
    <3>2. CASE ~(k <= d)
      <4>1. Len(w) = k - d
        BY <3>2, AdjustedLarge
      <4>2. startOffset = (k - d) + 1 + 1
        BY <1>4, <3>2 DEF startOffset
      <4> HIDE DEF w, f, k
      <4>3. startOffset = Len(w) + 2
        BY <1>2, <4>1, <4>2
      <4>4. startOffset \in (Len(w) + 2)..Len(text)
        BY <1>2, <2>1, <2>3, <4>3
      <4> QED
        BY <4>3, <4>4
    <3> QED
      BY <3>1, <3>2
  <2>5. Len(f) >= 1
    BY <1>1, <2>1
  <2> HIDE DEF w, f, k
  <2>6. \E l \in 0..Len(f) :
          /\ stripped(text, lastZeroOffset(text, startOffset)) = Shortened(w, f, l)
          /\ LastKept(f, l)
    BY <1>1, <2>1, <2>4, <2>5, Stripping
  <2> QED
    BY <1>1, <2>6 DEF w, f
<1> QED
  BY <1>3, <1>4

(* What such a text shows: the amount, in the one way of writing it.       *)
LEMMA Shown ==
  ASSUME NEW w \in Seq(0..9), NEW f \in Seq(0..9), NEW l, LastKept(f, l),
         Len(w) >= 1, w[1] = 0 => Len(w) = 1,
         text' = Shortened(w, f, l), Len(f) = request'.decimals,
         Value(w \o f, 10) = Amount'
  PROVE  text' \in Seq(0..DOT) /\ TextReadsBack' /\ TextIsCanonical'
<1> DEFINE g == SubSeq(f, 1, l)
           d == request'.decimals
<1>1. l \in Nat /\ l <= Len(f) /\ Len(f) \in Nat /\ (l # 0 => f[l] # 0)
  BY DEF LastKept
<1>2. g \in Seq(0..9) /\ Len(g) = l /\ \A i \in 1..l : g[i] = f[i]
  BY <1>1
<1>3. Value(w \o g, 10) * Power(10, Len(f) - l) = Amount'
  BY ValueKept
<1>4. Len(w) \in Nat /\ \A i \in 1..Len(w) : w[i] # DOT
  BY DigitsOfText
<1> HIDE DEF g
<1>5. CASE l = 0
  <2>1. text' = w /\ w \o g = w
    BY <1>2, <1>5 DEF Shortened
  <2>2. Points' = {}
    BY <1>4, <2>1 DEF Points
  <2>3. Fraction' = 0 /\ Digits' = w
    BY <2>1, <2>2 DEF Fraction, Digits
  <2>4. Cardinality(Points') <= 1
    <3>1. Cardinality({}) = 0
      BY FS_EmptySet
    <3> QED
      BY <2>2, <3>1
  <2>5. TextReadsBack'
    <3>1. d \in Nat /\ Len(f) - l = d - 0
      BY <1>1, <1>5
    <3>2. Value(Digits', 10) * Power(10, d - Fraction') = Amount'
      BY <1>3, <2>1, <2>3, <3>1
    <3>3. Fraction' <= d
      BY <2>3, <3>1
    <3>4. text' # << >>
      BY <2>1
    <3> QED
      BY <2>4, <3>2, <3>3, <3>4 DEF TextReadsBack
  <2>6. TextIsCanonical'
    <3>1. text'[1] # DOT
      BY <1>4, <2>1
    <3>2. ~(text'[1] = 0 /\ Len(text') > 1)
      BY <2>1
    <3> QED
      BY <2>2, <3>1, <3>2 DEF TextIsCanonical
  <2>7. text' \in Seq(0..DOT)
    BY <2>1, DigitsOfText
  <2> QED
    BY <2>5, <2>6, <2>7
<1>6. CASE l # 0
  <2> DEFINE p == Len(w) + 1
  <2>1. text' = w \o << DOT >> \o g
    BY <1>6 DEF Shortened, g
  <2>2. PointBetween(text', w, g)
    BY <1>2, <2>1, Pointed
  <2>3. /\ text' \in Seq(0..DOT) /\ Len(text') = p + l
        /\ \A i \in 1..Len(w) : text'[i] = w[i]
        /\ text'[p] = DOT
        /\ \A i \in 1..l : text'[p + i] = g[i]
        /\ {i \in 1..Len(text') : text'[i] = DOT} = {p}
        /\ RemoveAt(text', p) = w \o g
    BY <1>2, <2>2 DEF PointBetween
  <2>4. p \in Nat /\ p >= 2 /\ Len(w) = p - 1
    BY <1>4
  <2> HIDE DEF p
  <2>5. Points' = {p}
    BY <2>3 DEF Points
  <2>6. Point' = p
    BY <2>5 DEF Point
  <2>7. Fraction' = l /\ Digits' = w \o g
    <3>1. Points' # {}
      BY <2>5
    <3>2. Fraction' = Len(text') - Point' /\ Digits' = RemoveAt(text', Point')
      BY <3>1 DEF Fraction, Digits
    <3> QED
      BY <1>1, <2>3, <2>4, <2>6, <3>2
  <2>8. Cardinality(Points') <= 1
    <3>1. Cardinality({p}) = 1
      BY FS_Singleton
    <3> QED
      BY <2>5, <3>1
  <2>9. TextReadsBack'
    <3>1. Value(Digits', 10) * Power(10, d - Fraction') = Amount'
      BY <1>3, <2>7
    <3>2. Fraction' <= d
      BY <1>1, <2>7
    <3>3. text' # << >>
      BY <1>1, <2>3, <2>4
    <3> QED
      BY <2>8, <3>1, <3>2, <3>3 DEF TextReadsBack
  <2>10. TextIsCanonical'
    <3>1. text'[1] = w[1] /\ text'[1] # DOT
      BY <1>4, <2>3, <2>4
    <3>2. ASSUME text'[1] = 0 PROVE text'[2] = DOT
      <4>1. p = 2
        BY <2>4, <3>1, <3>2
      <4> QED
        BY <2>3, <4>1
    <3>3. text'[Len(text')] \notin {0, DOT}
      <4>1. l \in 1..l /\ l \in 1..Len(f)
        BY <1>1, <1>6
      <4>2. text'[Len(text')] = f[l]
        BY <1>2, <2>3, <4>1
      <4>3. f[l] # DOT
        BY <4>1, DigitsOfText
      <4> QED
        BY <1>1, <1>6, <4>2, <4>3
    <3> QED
      BY <3>1, <3>2, <3>3 DEF TextIsCanonical
  <2> QED
    BY <2>3, <2>9, <2>10
<1> QED
  BY <1>5, <1>6

---------------------------------------------------------------------------
(* The two steps that write the text. *)

(* adjustDecimals: the text is refused, is "0", or waits for its zeroes to *)
(* be cut off.                                                             *)
LEMMA AdjustDecimals == IInv /\ adjustDecimals => IInv'
<1> SUFFICES ASSUME IInv, adjustDecimals PROVE IInv'
  OBVIOUS
<1> DEFINE d == request.decimals
           room == space_needed(out, d)
<1>1. /\ phase = "adjust" /\ request' = request /\ n' = n /\ out' = out
      /\ IF targetLength < room
           THEN phase' = "overflow" /\ text' = text
           ELSE IF out = << 0 >>
             THEN phase' = "done" /\ text' = << 0 >>
             ELSE phase' = "strip" /\ text' = adjusted(out, d)
  BY DEF adjustDecimals
<1>2. /\ request \in Requests /\ out \in Seq(0..9) /\ text \in Seq(0..DOT)
      /\ n \in [1..LIMBS -> 0..(LIMB - 1)] /\ pos \in 1..TMP_SIZE
      /\ allzeroes(n) /\ (out = << 0 >> \/ (out # << >> /\ out[1] # 0))
  BY <1>1 DEF IInv, TypeOK, DigitsWhole
<1>3. d \in Nat /\ targetLength \in Nat /\ room \in Nat
  <2>1. d \in Nat /\ targetLength \in Nat
    BY <1>2, PrefixFits
  <2>2. Len(out) \in Nat
    BY <1>2
  <2> QED
    BY <2>1, <2>2 DEF space_needed
<1>4. /\ targetLength' = targetLength /\ pos' = pos /\ allzeroes(n)'
      /\ Amount' = Amount /\ request'.decimals = d
  BY <1>1, <1>2 DEF targetLength, prefix, pos, allzeroes, Amount
<1>5. DigitsSoFar'
  BY <1>1, <1>4 DEF IInv, DigitsSoFar
<1>6. phase' # "digits" /\ DigitsWhole'
  BY <1>1, <1>2, <1>4 DEF DigitsWhole
<1> HIDE DEF d, room
<1>7. space_needed(out', request'.decimals) = room
  BY <1>1, <1>4 DEF room
<1>8. request' \in Requests /\ n' \in [1..LIMBS -> 0..(LIMB - 1)]
      /\ out' \in Seq(0..9) /\ pos' \in 1..TMP_SIZE /\ phase' \in Phases
  BY <1>1, <1>2, <1>4 DEF Phases
<1>9. CASE targetLength < room
  <2>1. phase' = "overflow" /\ text' = text
    BY <1>1, <1>9
  <2>2. TypeOK'
    BY <1>2, <1>8, <2>1 DEF TypeOK
  <2>3. TextPlaced'
    BY <1>4, <1>7, <1>9, <2>1 DEF TextPlaced
  <2>4. TextReadsBack' /\ TextIsCanonical'
    BY <2>1 DEF TextReadsBack, TextIsCanonical
  <2> QED
    BY <1>5, <1>6, <2>2, <2>3, <2>4 DEF IInv
<1>10. CASE ~(targetLength < room) /\ out = << 0 >>
  <2> DEFINE w == << 0 >>
             f == Zeroes(d)
  <2>1. phase' = "done" /\ text' = w
    BY <1>1, <1>10
  <2>2. TextPlaced'
    <3>1. targetLength' >= space_needed(out', request'.decimals)
      BY <1>3, <1>4, <1>7, <1>10
    <3> QED
      BY <2>1, <3>1 DEF TextPlaced
  <2>3. /\ w \in Seq(0..9) /\ Len(w) = 1
        /\ f \in Seq(0..9) /\ Len(f) = d /\ \A i \in 1..d : f[i] = 0
    BY <1>3 DEF Zeroes
  <2>4. LastKept(f, 0) /\ Shortened(w, f, 0) = w
    BY <1>3, <2>3 DEF LastKept, Shortened
  <2>5. Amount = 0
    <3>1. Value(n, LIMB) = 0
      BY <1>2, AllZeroes
    <3>2. Value(out, 10) = 0
      BY <1>10, ValueOfDigit
    <3>3. /\ Power(10, Len(out)) \in Nat
          /\ Value(n, LIMB) * Power(10, Len(out)) + Value(out, 10) = Amount
      BY DigitsNow
    <3> QED
      BY <3>1, <3>2, <3>3
  <2>6. Value(w \o f, 10) = 0
    <3>1. /\ w \in Seq(Nat) /\ f \in Seq(Nat) /\ w[1] = 0
      BY <2>3, DigitsOfText
    <3>2. Value(w, 10) = 0
      BY ValueOfDigit
    <3>3. Value(f, 10) = 0
      BY <2>3, <3>1, ValueOfZeroes
    <3> HIDE DEF w, f
    <3>4. Value(w \o f, 10) = Value(w, 10) * Power(10, Len(f)) + Value(f, 10)
      BY <3>1, ValueOfConcatenation
    <3>5. Power(10, Len(f)) \in Nat
      BY <1>3, <2>3, PowerFacts
    <3> QED
      BY <3>2, <3>3, <3>4, <3>5
  <2> HIDE DEF w, f
  <2>7. text' \in Seq(0..DOT) /\ TextReadsBack' /\ TextIsCanonical'
    <3>1. Len(w) >= 1 /\ (w[1] = 0 => Len(w) = 1)
      BY <2>3
    <3>2. Value(w \o f, 10) = Amount'
      BY <1>4, <2>5, <2>6
    <3> QED
      BY <1>4, <2>1, <2>3, <2>4, <3>1, <3>2, Shown
  <2>8. TypeOK'
    BY <1>8, <2>7 DEF TypeOK
  <2> QED
    BY <1>5, <1>6, <2>2, <2>7, <2>8 DEF IInv
<1>11. CASE ~(targetLength < room) /\ out # << 0 >>
  <2>1. phase' = "strip" /\ text' = adjusted(out, d)
    BY <1>1, <1>11
  <2>2. TypeOK'
    <3>1. text' \in Seq((0..9) \cup {0, DOT})
      BY <1>2, <1>3, <1>11, <2>1, AdjustedLength
    <3>2. (0..9) \cup {0, DOT} = 0..DOT
      BY DEF DOT
    <3> QED
      BY <1>8, <3>1, <3>2 DEF TypeOK
  <2>3. TextPlaced'
    <3>1. targetLength' >= space_needed(out', request'.decimals)
      BY <1>3, <1>4, <1>7, <1>11
    <3>2. text' = adjusted(out', request'.decimals) /\ out' # << 0 >>
      BY <1>1, <1>4, <1>11, <2>1
    <3> QED
      BY <2>1, <3>1, <3>2 DEF TextPlaced
  <2>4. TextReadsBack' /\ TextIsCanonical'
    BY <2>1 DEF TextReadsBack, TextIsCanonical
  <2> QED
    BY <1>5, <1>6, <2>2, <2>3, <2>4 DEF IInv
<1> QED
  BY <1>9, <1>10, <1>11

(* amountToString: the last byte of out_buffer is the NUL already, and the *)
(* text without its zeroes is the amount.                                  *)
LEMMA AmountToString == IInv /\ amountToString => IInv'
<1> SUFFICES ASSUME IInv, amountToString PROVE IInv'
  OBVIOUS
<1> DEFINE d == request.decimals
           w == WholePart(out, d)
           f == DecimalPart(out, d)
           s == stripped(text, lastZeroOffset(text, startOffset))
<1>1. /\ phase = "strip" /\ phase' = "done" /\ text' = terminated(s)
      /\ request' = request /\ n' = n /\ out' = out
  BY DEF amountToString
<1>2. /\ request \in Requests /\ out \in Seq(0..9)
      /\ n \in [1..LIMBS -> 0..(LIMB - 1)] /\ pos \in 1..TMP_SIZE
      /\ allzeroes(n) /\ (out = << 0 >> \/ (out # << >> /\ out[1] # 0))
  BY <1>1 DEF IInv, TypeOK, DigitsWhole
<1>3. /\ targetLength >= space_needed(out, d)
      /\ out # << 0 >> /\ text = adjusted(out, d)
  BY <1>1 DEF IInv, TextPlaced
<1>4. /\ d \in Nat /\ targetLength \in Nat
      /\ out # << >> /\ out[1] # 0
  BY <1>2, <1>3, PrefixFits
<1>5. /\ w \in Seq(0..9) /\ f \in Seq(0..9)
      /\ Len(w) >= 1 /\ Len(f) = d /\ (w[1] = 0 => Len(w) = 1)
      /\ Value(w \o f, 10) = Value(out, 10)
      /\ text = IF d = 0 THEN w ELSE w \o << DOT >> \o f
  BY <1>2, <1>3, <1>4, Adjusted
<1>6. PICK l \in 0..d : s = Shortened(w, f, l) /\ LastKept(f, l)
  BY <1>2, <1>3, <1>4, Stripped
<1> HIDE DEF w, f
<1>7. s \in Seq(0..DOT) /\ Len(s) <= Len(text) /\ Len(s) \in Nat /\ Len(text) \in Nat
  <2>1. w \in Seq(0..DOT) /\ Len(w) \in Nat
    BY <1>5, DigitsOfText
  <2> HIDE DEF s, d
  <2>2. CASE l = 0
    <3>1. s = w
      BY <1>6, <2>2 DEF Shortened
    <3>2. CASE d = 0
      BY <1>5, <2>1, <3>1, <3>2
    <3>3. CASE d # 0
      <4>1. PointBetween(text, w, f)
        BY <1>5, <3>3, Pointed
      <4>2. Len(text) = Len(w) + 1 + Len(f)
        BY <4>1 DEF PointBetween
      <4> QED
        BY <1>4, <1>5, <2>1, <3>1, <4>2
    <3> QED
      BY <3>2, <3>3
  <2>3. CASE l # 0
    <3> DEFINE g == SubSeq(f, 1, l)
    <3>1. l \in 1..d /\ d # 0
      BY <1>4, <2>3
    <3>2. g \in Seq(0..9) /\ Len(g) = l
      BY <1>5, <3>1
    <3>3. s = w \o << DOT >> \o g
      BY <1>6, <2>3 DEF Shortened
    <3> HIDE DEF g
    <3>4. PointBetween(s, w, g) /\ PointBetween(text, w, f)
      BY <1>5, <3>1, <3>2, <3>3, Pointed
    <3>5. /\ s \in Seq(0..DOT) /\ Len(s) = Len(w) + 1 + Len(g)
          /\ Len(text) = Len(w) + 1 + Len(f)
      BY <3>4 DEF PointBetween
    <3> QED
      BY <1>4, <1>5, <2>1, <3>1, <3>2, <3>5
  <2> QED
    BY <2>2, <2>3
<1>8. text' = s
  <2>1. Len(text) + 1 <= space_needed(out, d)
    BY <1>2, <1>3, <1>4, AdjustedLength
  <2>2. space_needed(out, d) \in Nat
    <3>1. Len(out) \in Nat
      BY <1>2
    <3> QED
      BY <1>4, <3>1 DEF space_needed
  <2> HIDE DEF s, d
  <2>3. Len(s) < targetLength
    BY <1>3, <1>4, <1>7, <2>1, <2>2
  <2>4. text' = SubSeq(s, 1, Len(s))
    BY <1>1, <2>3 DEF terminated
  <2> QED
    BY <1>7, <2>4
<1>9. /\ targetLength' = targetLength /\ pos' = pos /\ allzeroes(n)'
      /\ Amount' = Amount /\ request'.decimals = d
  BY <1>1, <1>2 DEF targetLength, prefix, pos, allzeroes, Amount
<1>10. Value(out, 10) = Amount
  <2>1. Value(n, LIMB) = 0
    BY <1>2, AllZeroes
  <2>2. /\ Power(10, Len(out)) \in Nat /\ Value(out, 10) \in Nat
        /\ Value(n, LIMB) * Power(10, Len(out)) + Value(out, 10) = Amount
    BY DigitsNow
  <2> QED
    BY <2>1, <2>2
<1>11. text' \in Seq(0..DOT) /\ TextReadsBack' /\ TextIsCanonical'
  <2> HIDE DEF s, d
  <2>1. text' = Shortened(w, f, l)
    BY <1>6, <1>8
  <2>2. Value(w \o f, 10) = Amount' /\ Len(f) = request'.decimals
    BY <1>5, <1>9, <1>10
  <2> QED
    BY <1>5, <1>6, <2>1, <2>2, Shown
<1>12. TypeOK'
  BY <1>1, <1>2, <1>9, <1>11 DEF TypeOK, Phases
<1>13. DigitsSoFar' /\ DigitsWhole'
  BY <1>1, <1>2, <1>9 DEF IInv, DigitsSoFar, DigitsWhole
<1>14. TextPlaced'
  BY <1>1, <1>3, <1>9 DEF TextPlaced
<1> QED
  BY <1>11, <1>12, <1>13, <1>14 DEF IInv

(* Every step keeps the invariant.                                         *)
LEMMA InvariantStep == IInv /\ [Next]_vars => IInv'
<1> SUFFICES ASSUME IInv, [Next]_vars PROVE IInv'
  OBVIOUS
<1>1. CASE UNCHANGED vars
  BY <1>1 DEF vars, IInv, TypeOK, DigitsSoFar, DigitsWhole, TextPlaced,
     TextReadsBack, TextIsCanonical, pos, Amount, allzeroes, targetLength,
     prefix, startOffset, Points, Point, Fraction, Digits
<1> QED
  BY <1>1, NextDigit, Uint256ToDecimal, AdjustDecimals, AmountToString DEF Next

---------------------------------------------------------------------------
(* What tmp_buffer holds has the length of the number.                     *)
LEMMA DigitsCounted ==
  ASSUME IInv, phase # "digits"
  PROVE  NumberOfDigits(Amount) = Len(out) /\ Len(out) \in Nat
<1> DEFINE k == Len(out)
           v == Amount
           Fits(j) == v < Power(10, j) /\ (j = 1 \/ v >= Power(10, j - 1))
<1>1. /\ out \in Seq(0..9) /\ n \in [1..LIMBS -> 0..(LIMB - 1)]
      /\ pos \in 1..TMP_SIZE /\ allzeroes(n)
      /\ out = << 0 >> \/ (out # << >> /\ out[1] # 0)
  BY DEF IInv, TypeOK, DigitsWhole
<1>2. Value(out, 10) = v
  <2>1. Value(n, LIMB) = 0
    BY <1>1, AllZeroes
  <2>2. /\ Power(10, Len(out)) \in Nat /\ Value(out, 10) \in Nat
        /\ Value(n, LIMB) * Power(10, Len(out)) + Value(out, 10) = Amount
    BY DigitsNow
  <2> QED
    BY <2>1, <2>2
<1>3. k \in 1..TMP_SIZE /\ k \in Nat /\ out \in Seq(Nat)
  <2>1. k \in Nat /\ k >= 1 /\ out \in Seq(Nat)
    <3>1. << 0 >> # << >>
      OBVIOUS
    <3>2. out # << >> /\ out \in Seq(0..9)
      BY <1>1, <3>1
    <3> QED
      BY <3>2, DigitsOfText
  <2>2. TMP_SIZE - k \in 1..TMP_SIZE
    BY <1>1 DEF pos
  <2> HIDE DEF k
  <2> QED
    BY <2>1, <2>2, Widths
<1>4. v \in Nat
  BY <1>2, <1>3, ValueFacts
<1> HIDE DEF v
<1>5. v < Power(10, k)
  <2>1. out \in Seq(0..(10 - 1)) /\ 10 \in Nat
    <3>1. 10 - 1 = 9
      OBVIOUS
    <3> QED
      BY <1>1, <3>1
  <2>2. Value(out, 10) < Power(10, Len(out))
    BY <2>1, ValueBound
  <2> QED
    BY <1>2, <2>2
<1>6. k = 1 \/ v >= Power(10, k - 1)
  <2>1. CASE out = << 0 >>
    BY <2>1
  <2>2. CASE out # << >> /\ out[1] # 0
    <3>1. 10 \in Nat \ {0} /\ Len(out) >= 1
      BY <1>3
    <3>2. Value(out, 10) >= Power(10, Len(out) - 1)
      BY <1>3, <2>2, <3>1, LeadingDigit
    <3> QED
      BY <1>2, <3>2
  <2> QED
    BY <1>1, <2>1, <2>2
<1> HIDE DEF k
<1>7. ASSUME NEW j \in 1..TMP_SIZE, Fits(j) PROVE j = k
  <2>1. /\ j \in Nat /\ 10 \in Nat \ {0} /\ 10 \in Nat
        /\ j - 1 \in Nat /\ k - 1 \in Nat
    BY <1>3, Widths
  <2>2. /\ Power(10, j) \in Nat /\ Power(10, k) \in Nat
        /\ Power(10, j - 1) \in Nat /\ Power(10, k - 1) \in Nat
    BY <1>3, <2>1, PowerFacts
  <2>3. CASE j < k
    <3>1. j \in 0..(k - 1) /\ k # 1
      BY <1>3, <2>1, <2>3
    <3>2. Power(10, j) <= Power(10, k - 1)
      BY <2>1, <3>1, PowerGrows
    <3> QED
      BY <1>4, <1>6, <1>7, <2>2, <3>1, <3>2
  <2>4. CASE j > k
    <3>1. k \in 0..(j - 1) /\ j # 1
      BY <1>3, <2>1, <2>4
    <3>2. Power(10, k) <= Power(10, j - 1)
      BY <2>1, <3>1, PowerGrows
    <3> QED
      BY <1>4, <1>5, <1>7, <2>2, <3>1, <3>2
  <2> QED
    BY <1>3, <2>1, <2>3, <2>4
<1>8. k \in 1..TMP_SIZE /\ Fits(k)
  BY <1>3, <1>5, <1>6
<1>9. NumberOfDigits(v) = CHOOSE j \in 1..TMP_SIZE : Fits(j)
  BY DEF NumberOfDigits
<1> HIDE DEF Fits
<1>10. NumberOfDigits(v) = k
  BY <1>7, <1>8, <1>9
<1> QED
  BY <1>3, <1>10 DEF v, k

(* The digits are "0" exactly if the amount is zero.                       *)
LEMMA ZeroWritten ==
  ASSUME IInv, phase # "digits"
  PROVE  Amount = 0 <=> out = << 0 >>
<1>1. /\ out \in Seq(0..9) /\ n \in [1..LIMBS -> 0..(LIMB - 1)]
      /\ allzeroes(n)
      /\ out = << 0 >> \/ (out # << >> /\ out[1] # 0)
  BY DEF IInv, TypeOK, DigitsWhole
<1>2. Value(out, 10) = Amount
  <2>1. Value(n, LIMB) = 0
    BY <1>1, AllZeroes
  <2>2. /\ Power(10, Len(out)) \in Nat /\ Value(out, 10) \in Nat
        /\ Value(n, LIMB) * Power(10, Len(out)) + Value(out, 10) = Amount
    BY DigitsNow
  <2> QED
    BY <2>1, <2>2
<1>3. ASSUME out = << 0 >> PROVE Amount = 0
  <2>1. << 0 >> \in Seq(Nat) /\ 10 \in Nat
    OBVIOUS
  <2>2. \A i \in 1..Len(<< 0 >>) : << 0 >>[i] = 0
    OBVIOUS
  <2>3. Value(<< 0 >>, 10) = 0
    BY <2>1, <2>2, ValueOfZeroes
  <2> QED
    BY <1>2, <1>3, <2>3
<1>4. ASSUME out # << 0 >> PROVE Amount # 0
  <2>1. out # << >> /\ out[1] # 0
    BY <1>1, <1>4
  <2>2. Len(out) \in Nat /\ Len(out) >= 1 /\ out \in Seq(Nat)
    BY <1>1, <2>1, DigitsOfText
  <2>3. 10 \in Nat \ {0} /\ 10 \in Nat /\ Len(out) - 1 \in Nat
    BY <2>2
  <2>4. Value(out, 10) >= Power(10, Len(out) - 1)
    BY <2>1, <2>2, <2>3, LeadingDigit
  <2>5. Power(10, Len(out) - 1) \in Nat /\ Power(10, Len(out) - 1) >= 1
    <3> DEFINE l == Len(out) - 1
    <3>1. l \in Nat /\ 0 \in 0..l
      BY <2>3
    <3> HIDE DEF l
    <3>2. /\ Power(10, l) \in Nat /\ Power(10, 0) = 1
          /\ Power(10, 0) <= Power(10, l)
      BY <2>3, <3>1, PowerFacts, PowerGrows
    <3> QED
      BY <3>2 DEF l
  <2> QED
    BY <1>2, <2>4, <2>5
<1> QED
  BY <1>3, <1>4

(* Refused amounts are refused by adjustDecimals, which asks for the room  *)
(* that the text with all its decimals and the bytes kept free take.       *)
LEMMA Refused == IInv => RefusedIfTooLong
<1> SUFFICES ASSUME IInv, phase = "overflow"
             PROVE  (prefix + WrittenOut) + 1 > request.size - KeptFree
  BY DEF RefusedIfTooLong
<1> DEFINE d == request.decimals
           k == Len(out)
<1>1. /\ request.size \in Nat /\ d \in Nat /\ prefix \in Nat
      /\ targetLength \in Nat /\ targetLength = request.size - prefix - 1
  BY PrefixFits DEF IInv, TypeOK
<1>2. targetLength < space_needed(out, d)
  BY DEF IInv, TextPlaced
<1>3. NumberOfDigits(Amount) = k /\ k \in Nat
  BY DigitsCounted
<1>4. Amount = 0 <=> out = << 0 >>
  BY ZeroWritten
<1>5. /\ WrittenOut = IF out = << 0 >> THEN 1
                      ELSE IF k <= d THEN d + 2
                      ELSE IF d = 0 THEN k ELSE k + 1
      /\ KeptFree = IF out # << 0 >> /\ d = 0 THEN 2 ELSE 1
  BY <1>3, <1>4 DEF WrittenOut, KeptFree
<1>6. space_needed(out, d) = IF out = << 0 >> THEN 2
                             ELSE IF k <= d THEN k + 1 + 2 + (d - k)
                             ELSE k + 1 + 1
  BY DEF space_needed
<1>7. out # << 0 >> => k >= 1
  <2>1. out \in Seq(0..9) /\ (out = << 0 >> \/ (out # << >> /\ out[1] # 0))
    BY DEF IInv, TypeOK, DigitsWhole
  <2> QED
    BY <2>1, DigitsOfText
<1> HIDE DEF d, k
<1>8. /\ space_needed(out, d) <= WrittenOut + KeptFree
      /\ WrittenOut \in Nat /\ KeptFree \in Nat
  BY <1>1, <1>3, <1>5, <1>6, <1>7
<1>9. space_needed(out, d) \in Nat
  BY <1>1, <1>3, <1>6
<1> QED
  BY <1>1, <1>2, <1>8, <1>9

(* What is not refused fits: the longest text asked for this much room.    *)
LEMMA WithinBuffer == IInv => TextWithinBuffer
<1> SUFFICES ASSUME IInv, phase = "strip" \/ (phase = "done" /\ out = << 0 >>)
             PROVE  prefix + Len(text) + 1 <= request.size
  BY DEF TextWithinBuffer
<1>1. /\ request.size \in Nat /\ request.decimals \in Nat
      /\ prefix \in Nat /\ targetLength \in Nat
      /\ targetLength = request.size - prefix - 1
      /\ out \in Seq(0..9)
  BY PrefixFits DEF IInv, TypeOK
<1>2. targetLength >= space_needed(out, request.decimals)
  BY DEF IInv, TextPlaced
<1>3. CASE phase = "strip"
  <2>1. out # << 0 >> /\ text = adjusted(out, request.decimals)
    BY <1>3 DEF IInv, TextPlaced
  <2>2. Len(text) + 1 <= space_needed(out, request.decimals)
    BY <1>1, <2>1, AdjustedLength
  <2>3. Len(text) \in Nat /\ Len(out) \in Nat
    BY <1>1 DEF IInv, TypeOK
  <2>4. space_needed(out, request.decimals) \in Nat
    BY <1>1, <2>3 DEF space_needed
  <2> QED
    BY <1>1, <1>2, <2>2, <2>3, <2>4
<1>4. CASE phase = "done" /\ out = << 0 >>
  <2>1. text = << 0 >> /\ space_needed(out, request.decimals) = 2
    BY <1>4 DEF IInv, TextPlaced, space_needed
  <2>2. Len(text) = 1
    BY <2>1
  <2> QED
    BY <1>1, <1>2, <2>1, <2>2
<1> QED
  BY <1>3, <1>4

---------------------------------------------------------------------------
(* The invariant, for widths, amounts and buffers of any size. *)

(* What is left of the number and the digits written are the amount, with  *)
(* no zero in front; there is room in tmp_buffer for them, and in          *)
(* out_buffer for the text that is not refused.                            *)
THEOREM AmountInvariant == Spec => []IInv
BY InvariantInit, InvariantStep, PTL DEF Spec

(* Limbs keep to their 16 bits, digits are digits, and pos never reaches 0.*)
THEOREM AmountTypes == Spec => []TypeOK
<1>1. IInv => TypeOK
  BY DEF IInv
<1> QED
  BY <1>1, AmountInvariant, PTL

(* The long division of uint256_to_decimal loses and invents no digit.     *)
THEOREM DivisionExact == Spec => []DigitsSoFar
<1>1. IInv => DigitsSoFar
  BY DEF IInv
<1> QED
  BY <1>1, AmountInvariant, PTL

(* The text that amountToString leaves on a screen is the amount.          *)
THEOREM TextIsAmount == Spec => []TextReadsBack
<1>1. IInv => TextReadsBack
  BY DEF IInv
<1> QED
  BY <1>1, AmountInvariant, PTL

(* And there is one way of writing an amount.                              *)
THEOREM TextIsUnique == Spec => []TextIsCanonical
<1>1. IInv => TextIsCanonical
  BY DEF IInv
<1> QED
  BY <1>1, AmountInvariant, PTL

(* adjustDecimals and amountToString check the room a text needs before    *)
(* they write it: whatever the widths, the amount, the ticker and the      *)
(* buffer, no byte of the text is written behind the buffer.               *)
THEOREM TextInBuffer == Spec => []TextWithinBuffer
BY AmountInvariant, WithinBuffer, PTL

(* EXCEPTION_OVERFLOW is only for texts that, with their NUL, leave less   *)
(* than one byte of out_buffer free, or two if there are no decimals.      *)
THEOREM RefusedForLength == Spec => []RefusedIfTooLong
BY AmountInvariant, Refused, PTL

===============================================================================
