--------------------------- MODULE Numerals_proofs ----------------------------
(***************************************************************************)
(* What powers and the values of digits are, for numbers and sequences of  *)
(* any length.                                                             *)
(*                                                                         *)
(* The library's theorems of induction and of recursion take an operator   *)
(* as their parameter, which no prover at hand can instantiate.  Induction *)
(* is therefore on a set (UpTo), by the least number outside of it, and a  *)
(* recursive function exists (Recursion) by induction on its domain.       *)
(***************************************************************************)
EXTENDS Numerals, WellFoundedInduction, TLAPS

(* The order of the naturals as a set of pairs.                            *)
Below == {p \in Nat \X Nat : p[1] < p[2]}

(* There is no infinite descent among the naturals.                        *)
LEMMA NoDescent == IsWellFoundedOn(Below, Nat)
BY NatLessThanWellFounded DEF OpToRel, Below

(* Induction along 0..N: a set that holds 0 and with every number the next *)
(* one holds them all; the least number outside would have one before it.  *)
LEMMA UpTo ==
  ASSUME NEW N \in Nat, NEW T, 0 \in T, \A i \in 1..N : i - 1 \in T => i \in T
  PROVE  0..N \subseteq T
<1> SUFFICES ASSUME NEW k \in 0..N, k \notin T
             PROVE  FALSE
  OBVIOUS
<1> DEFINE Rest == {i \in 0..N : i \notin T}
<1>1. Rest \subseteq Nat /\ Rest # {}
  OBVIOUS
<1> HIDE DEF Rest
<1>2. PICK i \in Rest : \A j \in Rest : << j, i >> \notin Below
  BY <1>1, NoDescent, WFMin, Zenon
<1>3. i \in 1..N /\ i - 1 \in 0..N
  BY DEF Rest
<1>4. << i - 1, i >> \in Below
  BY <1>3 DEF Below
<1>5. i - 1 \in T
  BY <1>2, <1>3, <1>4 DEF Rest
<1> QED
  BY <1>3, <1>5 DEF Rest

(* f is given by its first value and by what each step makes of the value  *)
(* before.                                                                 *)
Follows(f, N, S, a, step) ==
  /\ f \in [0..N -> S]
  /\ f[0] = a
  /\ \A i \in 1..N : f[i] = step[i][f[i - 1]]

(* There is a function with a given first value and a given step.          *)
LEMMA Recursion ==
  ASSUME NEW N \in Nat, NEW S, NEW a \in S, NEW step \in [1..N -> [S -> S]]
  PROVE  \E f : Follows(f, N, S, a, step)
<1> DEFINE T == {m \in 0..N : \E f : Follows(f, m, S, a, step)}
<1>1. 0 \in T
  <2>1. Follows([i \in 0..0 |-> a], 0, S, a, step)
    BY DEF Follows
  <2> QED
    BY <2>1
<1>2. ASSUME NEW m \in 1..N, m - 1 \in T
      PROVE  m \in T
  <2>1. PICK f : Follows(f, m - 1, S, a, step)
    BY <1>2
  <2> DEFINE g == [i \in 0..m |-> IF i = m THEN step[m][f[m - 1]] ELSE f[i]]
  <2>2. f[m - 1] \in S
    BY <2>1 DEF Follows
  <2>3. step[m][f[m - 1]] \in S
    BY <2>2
  <2>4. g \in [0..m -> S] /\ g[0] = a
    <3>1. ASSUME NEW i \in 0..m PROVE g[i] \in S
      BY <2>1, <2>3 DEF Follows
    <3> QED
      BY <2>1, <3>1 DEF Follows
  <2>5. ASSUME NEW i \in 1..m
        PROVE  g[i] = step[i][g[i - 1]]
    <3>1. i - 1 \in 0..m /\ i - 1 # m /\ g[i - 1] = f[i - 1]
      OBVIOUS
    <3>2. CASE i = m
      BY <3>1, <3>2
    <3>3. CASE i # m
      <4>1. i \in 1..(m - 1)
        BY <3>3
      <4>2. g[i] = f[i]
        BY <3>3
      <4>3. f[i] = step[i][f[i - 1]]
        BY <2>1, <4>1 DEF Follows
      <4> QED
        BY <3>1, <4>2, <4>3
    <3> QED
      BY <3>2, <3>3
  <2>6. Follows(g, m, S, a, step)
    BY <2>4, <2>5 DEF Follows
  <2> HIDE DEF g
  <2> QED
    BY <2>6
<1> HIDE DEF T
<1>3. 0..N \subseteq T
  BY <1>1, <1>2, UpTo
<1>4. N \in T
  BY <1>3
<1> QED
  BY <1>4 DEF T

(* A function given by its first value and each from the one before.       *)
LEMMA RecursionTypes ==
  ASSUME NEW N \in Nat, NEW S, NEW f, f[0] \in S,
         \A i \in 1..N : f[i - 1] \in S => f[i] \in S
  PROVE  \A i \in 0..N : f[i] \in S
<1> DEFINE T == {i \in 0..N : f[i] \in S}
<1>1. 0 \in T /\ \A i \in 1..N : i - 1 \in T => i \in T
  OBVIOUS
<1> HIDE DEF T
<1>2. 0..N \subseteq T
  BY <1>1, UpTo
<1> QED
  BY <1>2 DEF T

(* Two functions that start alike and go on alike are alike.               *)
LEMMA SameRecursion ==
  ASSUME NEW N \in Nat, NEW f, NEW g, f[0] = g[0],
         \A i \in 1..N : f[i - 1] = g[i - 1] => f[i] = g[i]
  PROVE  \A i \in 0..N : f[i] = g[i]
<1> DEFINE T == {i \in 0..N : f[i] = g[i]}
<1>1. 0 \in T /\ \A i \in 1..N : i - 1 \in T => i \in T
  OBVIOUS
<1> HIDE DEF T
<1>2. 0..N \subseteq T
  BY <1>1, UpTo
<1> QED
  BY <1>2 DEF T

---------------------------------------------------------------------------
(* Powers and values. *)

(* The function that Power takes the last value of.                        *)
Powers(b, k) == CHOOSE p : p = [i \in 0..k |-> IF i = 0 THEN 1 ELSE b * p[i - 1]]

(* Power is defined by such a function.                                    *)
LEMMA PowersRecursion ==
  ASSUME NEW b \in Nat, NEW k \in Nat
  PROVE  /\ Power(b, k) = Powers(b, k)[k]
         /\ Powers(b, k) \in [0..k -> Nat]
         /\ Powers(b, k)[0] = 1
         /\ \A i \in 1..k : Powers(b, k)[i] = b * Powers(b, k)[i - 1]
<1> DEFINE step == [i \in 1..k |-> [v \in Nat |-> b * v]]
           V == Powers(b, k)
<1>1. step \in [1..k -> [Nat -> Nat]]
  <2>1. ASSUME NEW v \in Nat PROVE b * v \in Nat
    OBVIOUS
  <2> QED
    BY <2>1
<1>2. PICK f : Follows(f, k, Nat, 1, step)
  <2>1. 1 \in Nat
    OBVIOUS
  <2> HIDE DEF step
  <2> QED
    BY <1>1, <2>1, Recursion, Zenon
<1>3. \A i \in 1..k : f[i] = b * f[i - 1]
  <2>1. \A i \in 1..k : i - 1 \in 0..k
    OBVIOUS
  <2> QED
    BY <1>2, <2>1 DEF Follows
<1>4. f = [i \in 0..k |-> IF i = 0 THEN 1 ELSE b * f[i - 1]]
  BY <1>2, <1>3 DEF Follows
<1>5. V = [i \in 0..k |-> IF i = 0 THEN 1 ELSE b * V[i - 1]]
  BY <1>4 DEF Powers
<1>6. V[0] = 1 /\ \A i \in 1..k : V[i] = b * V[i - 1]
  BY <1>5
<1>7. \A i \in 1..k : V[i - 1] \in Nat => V[i] \in Nat
  <2>1. ASSUME NEW i \in 1..k, V[i - 1] \in Nat PROVE V[i] \in Nat
    <3>1. b * V[i - 1] \in Nat
      BY <2>1
    <3> QED
      BY <3>1, <1>6
  <2> QED
    BY <2>1
<1>8. \A i \in 0..k : V[i] \in Nat
  <2>1. V[0] \in Nat
    BY <1>6
  <2> HIDE DEF V
  <2> QED
    BY <1>7, <2>1, RecursionTypes, Zenon
<1>9. Power(b, k) = V[k]
  BY DEF Power, Powers
<1> QED
  BY <1>5, <1>6, <1>8, <1>9

(* The equations of a power.                                               *)
LEMMA PowerFacts ==
  ASSUME NEW b \in Nat, NEW k \in Nat
  PROVE  /\ Power(b, k) \in Nat
         /\ Power(b, 0) = 1
         /\ Power(b, k + 1) = b * Power(b, k)
<1> DEFINE f == Powers(b, k)
           g == Powers(b, k + 1)
<1>1. /\ f \in [0..k -> Nat] /\ f[0] = 1 /\ Power(b, k) = f[k]
      /\ \A i \in 1..k : f[i] = b * f[i - 1]
  BY PowersRecursion
<1>2. /\ g \in [0..(k + 1) -> Nat] /\ g[0] = 1 /\ Power(b, k + 1) = g[k + 1]
      /\ \A i \in 1..(k + 1) : g[i] = b * g[i - 1]
  <2>1. k + 1 \in Nat
    OBVIOUS
  <2> QED
    BY <2>1, PowersRecursion
<1>3. Power(b, 0) = 1
  BY PowersRecursion
<1> HIDE DEF f, g
<1>4. \A i \in 1..k : f[i - 1] = g[i - 1] => f[i] = g[i]
  BY <1>1, <1>2
<1>5. \A i \in 0..k : f[i] = g[i]
  <2>1. f[0] = g[0]
    BY <1>1, <1>2
  <2> QED
    BY <1>4, <2>1, SameRecursion
<1>6. f[k] = g[k] /\ g[k + 1] = b * g[k] /\ f[k] \in Nat
  BY <1>1, <1>2, <1>5
<1> QED
  BY <1>1, <1>2, <1>3, <1>6

(* A longer power is no smaller.                                           *)
LEMMA PowerGrows ==
  ASSUME NEW b \in Nat \ {0}, NEW k \in Nat, NEW j \in 0..k
  PROVE  Power(b, j) <= Power(b, k)
<1> DEFINE T == {i \in 0..(k - j) : Power(b, j) <= Power(b, j + i)}
<1>0. k - j \in Nat /\ j \in Nat /\ b \in Nat
  OBVIOUS
<1>1. 0 \in T
  <2>1. j + 0 = j /\ Power(b, j) \in Nat
    BY <1>0, PowerFacts
  <2> QED
    BY <1>0, <2>1
<1>2. ASSUME NEW i \in 1..(k - j), i - 1 \in T PROVE i \in T
  <2> DEFINE p == Power(b, j + (i - 1))
  <2>1. j + (i - 1) \in Nat /\ j + (i - 1) + 1 = j + i
    BY <1>0
  <2>2. p \in Nat /\ Power(b, j) <= p /\ Power(b, j + i) = b * p
    BY <1>0, <1>2, <2>1, PowerFacts
  <2>3. \A x, y \in Nat : x >= 1 => y <= x * y
    OBVIOUS
  <2>4. Power(b, j) \in Nat /\ b >= 1
    BY <1>0, PowerFacts
  <2> HIDE DEF p
  <2>5. p <= b * p
    BY <1>0, <2>2, <2>3, <2>4
  <2>6. Power(b, j) <= Power(b, j + i)
    BY <1>0, <2>2, <2>4, <2>5
  <2> QED
    BY <2>6
<1> HIDE DEF T
<1>3. 0..(k - j) \subseteq T
  BY <1>0, <1>1, <1>2, UpTo
<1>4. k - j \in T /\ j + (k - j) = k
  BY <1>0, <1>3
<1> QED
  BY <1>4 DEF T

(* Values is defined, and is a sequence of numbers. *)
LEMMA ValuesRecursion ==
  ASSUME NEW digits \in Seq(Nat), NEW base \in Nat
  PROVE  /\ Values(digits, base) \in [0..Len(digits) -> Nat]
         /\ Values(digits, base)[0] = 0
         /\ \A i \in 1..Len(digits) :
              Values(digits, base)[i]
                = Values(digits, base)[i - 1] * base + digits[i]
<1> DEFINE N == Len(digits)
           step == [i \in 1..N |-> [v \in Nat |-> v * base + digits[i]]]
           V == Values(digits, base)
<1>1. step \in [1..N -> [Nat -> Nat]]
  <2>1. ASSUME NEW i \in 1..N, NEW v \in Nat PROVE v * base + digits[i] \in Nat
    <3>1. v * base \in Nat /\ digits[i] \in Nat
      OBVIOUS
    <3> QED
      BY <3>1
  <2> QED
    BY <2>1
<1>2. PICK f : Follows(f, N, Nat, 0, step)
  <2>1. N \in Nat /\ 0 \in Nat
    OBVIOUS
  <2> HIDE DEF N, step
  <2> QED
    BY <1>1, <2>1, Recursion, Zenon
<1>3. \A i \in 1..N : f[i] = f[i - 1] * base + digits[i]
  <2>1. \A i \in 1..N : i - 1 \in 0..N
    OBVIOUS
  <2> QED
    BY <1>2, <2>1 DEF Follows
<1>4. f = [i \in 0..N |-> IF i = 0 THEN 0 ELSE f[i - 1] * base + digits[i]]
  BY <1>2, <1>3 DEF Follows
<1>5. V = [i \in 0..N |-> IF i = 0 THEN 0 ELSE V[i - 1] * base + digits[i]]
  BY <1>4 DEF Values
<1>6. V[0] = 0 /\ \A i \in 1..N : V[i] = V[i - 1] * base + digits[i]
  BY <1>5
<1>7. \A i \in 1..N : V[i - 1] \in Nat => V[i] \in Nat
  <2>1. ASSUME NEW i \in 1..N, V[i - 1] \in Nat PROVE V[i] \in Nat
    <3>1. V[i - 1] * base \in Nat /\ digits[i] \in Nat
      BY <2>1
    <3> QED
      BY <3>1, <1>6
  <2> QED
    BY <2>1
<1>8. \A i \in 0..N : V[i] \in Nat
  <2>1. N \in Nat /\ V[0] \in Nat
    BY <1>6
  <2> HIDE DEF N, V
  <2> QED
    BY <1>7, <2>1, RecursionTypes, Zenon
<1> QED
  BY <1>5, <1>6, <1>8

---------------------------------------------------------------------------

(* The number before the first digit is 0, a further digit is added to     *)
(* base times the number so far.                                           *)
LEMMA ValueFacts ==
  ASSUME NEW digits \in Seq(Nat), NEW base \in Nat
  PROVE  /\ Value(digits, base) \in Nat
         /\ Len(digits) = 0 => Value(digits, base) = 0
         /\ Value(digits, base) = Values(digits, base)[Len(digits)]
         /\ Len(digits) \in Nat
BY ValuesRecursion DEF Value

(* The first digits of a sequence stand for the same, whatever follows.    *)
LEMMA ValuesOfPrefix ==
  ASSUME NEW a \in Seq(Nat), NEW c \in Seq(Nat), NEW base \in Nat,
         NEW N \in 0..Len(a), N <= Len(c), \A i \in 1..N : a[i] = c[i]
  PROVE  \A i \in 0..N : Values(a, base)[i] = Values(c, base)[i]
<1> DEFINE f == Values(a, base)
           g == Values(c, base)
<1>1. f[0] = 0 /\ \A i \in 1..Len(a) : f[i] = f[i - 1] * base + a[i]
  BY ValuesRecursion
<1>2. g[0] = 0 /\ \A i \in 1..Len(c) : g[i] = g[i - 1] * base + c[i]
  BY ValuesRecursion
<1> HIDE DEF f, g
<1>3. \A i \in 1..N : i \in 1..Len(a) /\ i \in 1..Len(c)
  OBVIOUS
<1>4. \A i \in 1..N : f[i - 1] = g[i - 1] => f[i] = g[i]
  BY <1>1, <1>2, <1>3
<1>5. f[0] = g[0]
  BY <1>1, <1>2
<1> DEFINE T == {i \in 0..N : f[i] = g[i]}
<1>6. 0 \in T /\ \A i \in 1..N : i - 1 \in T => i \in T
  BY <1>4, <1>5
<1> HIDE DEF T
<1>7. N \in Nat
  OBVIOUS
<1>8. 0..N \subseteq T
  BY <1>6, <1>7, UpTo
<1> QED
  BY <1>8 DEF T, f, g

(* Digits put behind others move these up by a power of the base.          *)
LEMMA ValueOfConcatenation ==
  ASSUME NEW a \in Seq(Nat), NEW c \in Seq(Nat), NEW base \in Nat
  PROVE  Value(a \o c, base)
           = Value(a, base) * Power(base, Len(c)) + Value(c, base)
<1> DEFINE s == a \o c
           m == Len(a)
           N == Len(c)
           f == Values(s, base)
           g == Values(c, base)
           v == Value(a, base)
           T == {i \in 0..N : f[m + i] = v * Power(base, i) + g[i]}
<1>1. /\ s \in Seq(Nat) /\ Len(s) = m + N /\ m \in Nat /\ N \in Nat
      /\ \A i \in 1..m : s[i] = a[i]
      /\ \A i \in 1..N : s[m + i] = c[i] /\ c[i] \in Nat
  OBVIOUS
<1>2. /\ f \in [0..(m + N) -> Nat]
      /\ \A i \in 1..(m + N) : f[i] = f[i - 1] * base + s[i]
      /\ Value(s, base) = f[m + N]
  <2> HIDE DEF s
  <2>1. /\ f \in [0..Len(s) -> Nat]
        /\ \A i \in 1..Len(s) : f[i] = f[i - 1] * base + s[i]
    BY <1>1, ValuesRecursion
  <2>2. Value(s, base) = f[Len(s)]
    BY DEF Value
  <2> HIDE DEF f, m, N
  <2> QED
    BY <1>1, <2>1, <2>2
<1>3. /\ g \in [0..N -> Nat] /\ g[0] = 0
      /\ \A i \in 1..N : g[i] = g[i - 1] * base + c[i]
      /\ Value(c, base) = g[N]
  BY ValuesRecursion, ValueFacts
<1>4. v \in Nat /\ Values(a, base)[m] = v /\ f[m] = v
  <2>1. \A i \in 0..m : Values(a, base)[i] = f[i]
    <3>1. m \in 0..Len(a) /\ m <= Len(s) /\ \A i \in 1..m : a[i] = s[i]
      BY <1>1
    <3> HIDE DEF m, s
    <3> QED
      BY <1>1, <3>1, ValuesOfPrefix
  <2>2. v \in Nat /\ Values(a, base)[m] = v
    BY ValueFacts
  <2> HIDE DEF f, v, m
  <2> QED
    BY <1>1, <2>1, <2>2
<1> HIDE DEF f, g, v, s, m, N
<1>5. 0 \in T
  <2>1. Power(base, 0) = 1 /\ m + 0 = m
    BY <1>1, PowerFacts
  <2> QED
    BY <1>1, <1>3, <1>4, <2>1
<1>6. ASSUME NEW i \in 1..N, i - 1 \in T PROVE i \in T
  <2> DEFINE p == Power(base, i - 1)
             x == g[i - 1]
             d == c[i]
  <2>1. i - 1 \in Nat /\ (i - 1) + 1 = i /\ m + (i - 1) = (m + i) - 1
        /\ m + i \in 1..(m + N) /\ i - 1 \in 0..N
    BY <1>1
  <2>2. p \in Nat /\ Power(base, i) = base * p
    BY <2>1, PowerFacts
  <2>3. f[m + i] = f[m + (i - 1)] * base + d
    BY <1>1, <1>2, <2>1
  <2>4. g[i] = x * base + d /\ x \in Nat /\ d \in Nat
    BY <1>1, <1>3, <2>1
  <2>5. f[m + (i - 1)] = v * p + x
    BY <1>6
  <2> HIDE DEF p, x, d
  <2>6. \A k, l, q, r \in Nat : (k * l + q) * base + r = k * (base * l) + (q * base + r)
    OBVIOUS
  <2>7. f[m + i] = v * (base * p) + (x * base + d)
    BY <1>4, <2>2, <2>3, <2>4, <2>5, <2>6
  <2>8. f[m + i] = v * Power(base, i) + g[i]
    BY <2>2, <2>4, <2>7
  <2> QED
    BY <2>8
<1> HIDE DEF T
<1>7. 0..N \subseteq T
  BY <1>1, <1>5, <1>6, UpTo
<1>8. f[m + N] = v * Power(base, N) + g[N]
  BY <1>1, <1>7 DEF T
<1> QED
  BY <1>2, <1>3, <1>8 DEF s, v, N

(* A number of so many digits is less than the power of its length.        *)
LEMMA ValueBound ==
  ASSUME NEW base \in Nat, NEW digits \in Seq(0..(base - 1))
  PROVE  Value(digits, base) < Power(base, Len(digits))
<1> DEFINE N == Len(digits)
           f == Values(digits, base)
           T == {i \in 0..N : f[i] < Power(base, i)}
<1>1. /\ digits \in Seq(Nat) /\ N \in Nat
      /\ \A i \in 1..N : digits[i] \in 0..(base - 1)
  OBVIOUS
<1>2. /\ f \in [0..N -> Nat] /\ f[0] = 0 /\ Value(digits, base) = f[N]
      /\ \A i \in 1..N : f[i] = f[i - 1] * base + digits[i]
  BY <1>1, ValuesRecursion, ValueFacts
<1> HIDE DEF f, N
<1>3. 0 \in T
  <2>1. Power(base, 0) = 1
    BY PowerFacts
  <2> QED
    BY <1>1, <1>2, <2>1
<1>4. ASSUME NEW i \in 1..N, i - 1 \in T PROVE i \in T
  <2> DEFINE p == Power(base, i - 1)
             x == f[i - 1]
             d == digits[i]
  <2>1. i - 1 \in Nat /\ (i - 1) + 1 = i /\ i - 1 \in 0..N
    BY <1>1
  <2>2. p \in Nat /\ Power(base, i) = base * p
    BY <2>1, PowerFacts
  <2>3. f[i] = x * base + d /\ x \in Nat /\ d \in 0..(base - 1)
    BY <1>1, <1>2, <2>1
  <2>4. x < p
    BY <1>4
  <2> HIDE DEF p, x, d
  <2>5. x * base + base <= base * p
    <3>1. p - 1 - x \in Nat
      BY <2>2, <2>3, <2>4
    <3>2. PICK e \in Nat : p = x + 1 + e
      BY <2>2, <2>3, <3>1
    <3>3. base * p = base * x + base + base * e /\ base * e \in Nat
      BY <2>3, <3>2
    <3> QED
      BY <2>3, <3>3
  <2>6. f[i] < base * p
    <3>1. x * base \in Int /\ base * p \in Int
      BY <2>2, <2>3
    <3>2. \A q, r \in Int : q + base <= r => q + d < r
      BY <2>3
    <3> QED
      BY <2>3, <2>5, <3>1, <3>2
  <2> QED
    BY <2>2, <2>6
<1> HIDE DEF T
<1>5. 0..N \subseteq T
  BY <1>1, <1>3, <1>4, UpTo
<1> QED
  BY <1>1, <1>2, <1>5 DEF T, N

(* A number is no less than what its digits up to any one stand for, and   *)
(* a digit that is not zero makes it at least 1.                           *)
LEMMA ValuesPositive ==
  ASSUME NEW digits \in Seq(Nat), NEW base \in Nat \ {0},
         NEW j \in 1..Len(digits), digits[j] # 0
  PROVE  Value(digits, base) >= 1
<1> DEFINE N == Len(digits)
           f == Values(digits, base)
           T == {i \in 0..(N - j) : f[j + i] >= 1}
<1>1. N \in Nat /\ j \in 1..N /\ N - j \in Nat /\ base \in Nat /\ digits[j] >= 1
  OBVIOUS
<1>2. /\ f \in [0..N -> Nat] /\ Value(digits, base) = f[N]
      /\ \A i \in 1..N : f[i] = f[i - 1] * base + digits[i]
      /\ \A i \in 1..N : digits[i] \in Nat
  <2>1. \A i \in 1..N : digits[i] \in Nat
    OBVIOUS
  <2>2. base \in Nat
    OBVIOUS
  <2> QED
    BY <2>1, <2>2, ValuesRecursion, ValueFacts
<1> HIDE DEF f, N
<1>3. 0 \in T
  <2>1. f[j] = f[j - 1] * base + digits[j] /\ f[j - 1] \in Nat /\ j + 0 = j
    BY <1>1, <1>2
  <2>2. f[j - 1] * base \in Nat
    BY <1>1, <2>1
  <2> QED
    BY <1>1, <2>1, <2>2
<1>4. ASSUME NEW i \in 1..(N - j), i - 1 \in T PROVE i \in T
  <2> DEFINE x == f[j + (i - 1)]
  <2>1. j + i \in 1..N /\ (j + i) - 1 = j + (i - 1) /\ j + (i - 1) \in 0..N
    BY <1>1
  <2>2. f[j + i] = x * base + digits[j + i] /\ x \in Nat /\ digits[j + i] \in Nat
    BY <1>2, <2>1
  <2>3. x >= 1
    BY <1>4
  <2> HIDE DEF x
  <2>4. \A k, l \in Nat : k >= 1 /\ l >= 1 => k * l >= 1 /\ k * l \in Nat
    OBVIOUS
  <2>5. x * base >= 1 /\ x * base \in Nat
    BY <1>1, <2>2, <2>3, <2>4
  <2> QED
    BY <2>2, <2>5
<1> HIDE DEF T
<1>5. 0..(N - j) \subseteq T
  BY <1>1, <1>3, <1>4, UpTo
<1>6. N - j \in T /\ j + (N - j) = N
  BY <1>1, <1>5
<1> QED
  BY <1>2, <1>6 DEF T

(* Zeroes stand for zero.                                                  *)
LEMMA ValueOfZeroes ==
  ASSUME NEW digits \in Seq(Nat), NEW base \in Nat,
         \A i \in 1..Len(digits) : digits[i] = 0
  PROVE  Value(digits, base) = 0
<1> DEFINE N == Len(digits)
           f == Values(digits, base)
<1>1. /\ N \in Nat /\ f[0] = 0 /\ Value(digits, base) = f[N]
      /\ \A i \in 1..N : f[i] = f[i - 1] * base + digits[i] /\ digits[i] = 0
  BY ValuesRecursion, ValueFacts
<1> DEFINE T == {i \in 0..N : f[i] = 0}
<1> HIDE DEF f, N
<1>2. 0 \in T
  BY <1>1
<1>3. ASSUME NEW i \in 1..N, i - 1 \in T PROVE i \in T
  <2>1. f[i] = 0 * base + 0
    BY <1>1, <1>3
  <2> QED
    BY <2>1
<1> HIDE DEF T
<1>4. 0..N \subseteq T
  BY <1>1, <1>2, <1>3, UpTo
<1> QED
  BY <1>1, <1>4 DEF T

(* A number whose first digit is not zero has that many digits.            *)
LEMMA LeadingDigit ==
  ASSUME NEW base \in Nat \ {0}, NEW digits \in Seq(Nat),
         Len(digits) >= 1, digits[1] # 0
  PROVE  Value(digits, base) >= Power(base, Len(digits) - 1)
<1> DEFINE N == Len(digits)
           head == << digits[1] >>
           tail == Tail(digits)
<1>1. /\ N \in Nat /\ N >= 1 /\ N - 1 \in Nat /\ base \in Nat
      /\ head \in Seq(Nat) /\ Len(head) = 1
      /\ tail \in Seq(Nat) /\ Len(tail) = N - 1
      /\ digits[1] \in Nat
  <2>1. N \in Nat /\ N >= 1 /\ N - 1 \in Nat /\ base \in Nat
    OBVIOUS
  <2>2. digits[1] \in Nat
    BY <2>1
  <2>3. head \in Seq(Nat) /\ Len(head) = 1
    BY <2>2
  <2>4. tail \in Seq(Nat) /\ Len(tail) = N - 1
    BY <2>1
  <2> QED
    BY <2>1, <2>2, <2>3, <2>4
<1>2. digits = head \o tail
  OBVIOUS
<1>3. Value(digits, base)
        = Value(head, base) * Power(base, N - 1) + Value(tail, base)
  <2> HIDE DEF head, tail, N
  <2> QED
    BY <1>1, <1>2, ValueOfConcatenation
<1>4. Value(head, base) >= 1
  <2>1. 1 \in 1..Len(head) /\ head[1] # 0
    OBVIOUS
  <2> HIDE DEF head
  <2> QED
    BY <1>1, <2>1, ValuesPositive
<1>5. /\ Value(head, base) \in Nat /\ Value(tail, base) \in Nat
      /\ Power(base, N - 1) \in Nat
  BY <1>1, ValueFacts, PowerFacts
<1>6. \A x, y, z \in Nat : x >= 1 => x * y + z >= y
  OBVIOUS
<1> HIDE DEF head, tail, N
<1>7. Value(digits, base) >= Power(base, N - 1)
  BY <1>3, <1>4, <1>5, <1>6
<1> QED
  BY <1>7 DEF N

===============================================================================
