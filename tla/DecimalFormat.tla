---------------------------- MODULE DecimalFormat ----------------------------
(***************************************************************************)
(* amountToString: how an amount of up to INT256_LENGTH bytes becomes the  *)
(* text of a screen, ticker first.  uint256_to_decimal divides the number  *)
(* by ten, limb by limb, and fills a buffer with digits from its end;      *)
(* adjustDecimals copies them around a point and cuts off the zeroes       *)
(* behind it; what does not fit throws EXCEPTION_OVERFLOW.                 *)
(*                                                                         *)
(* A behaviour is one call, one digit at a time.  Widths are parameters:   *)
(* in the code a byte has 256 values, INT256_LENGTH is 32, TMP_SIZE 100    *)
(* and MAX_TICKER_LEN 11.  The ticker is only its length.                  *)
(***************************************************************************)
EXTENDS Integers, SequencesExt, Numerals

CONSTANTS
  BYTE,             \* the number of values of a byte
  INT256_LENGTH,    \* bytes of the widest amount
  TMP_SIZE,         \* size of tmp_buffer
  MAX_TICKER_LEN,
  Requests          \* the calls: amount, decimals, ticker_len, size

Request == [amount : Seq(0..(BYTE - 1)), decimals : 0..255,
            ticker_len : 0..MAX_TICKER_LEN, size : Nat]

ASSUME WidthsAssumption ==
  /\ BYTE \in Nat \ {0, 1}
  /\ INT256_LENGTH \in Nat \ {0} /\ INT256_LENGTH % 2 = 0
  /\ TMP_SIZE \in Nat \ {0, 1}
  /\ MAX_TICKER_LEN \in Nat

(* tmp_buffer has room for the digits of the widest amount and a NUL.      *)
ASSUME TmpSizeAssumption == Power(10, TMP_SIZE - 1) >= Power(BYTE, INT256_LENGTH)

(* amount_length is 32 or the length of the transaction's value; the       *)
(* application's buffers are longer than a ticker and a space.             *)
ASSUME RequestsAssumption ==
  /\ Requests \subseteq Request
  /\ \A r \in Requests : /\ Len(r.amount) <= INT256_LENGTH
                         /\ r.size >= MAX_TICKER_LEN + 2

VARIABLES
  request,
  n,        \* the number, most significant limb first
  out,      \* digits written so far: tmp_buffer from pos to its end
  text,     \* what stands in out_buffer after the ticker
  phase     \* digits, adjust, strip, done, or overflow

vars == << request, n, out, text, phase >>

LIMB == BYTE * BYTE
LIMBS == INT256_LENGTH \div 2
DOT == 10                       \* among the digits 0..9 of a text
Phases == {"digits", "adjust", "strip", "done", "overflow"}

---------------------------------------------------------------------------
(* uint256_to_decimal *)

right_aligned(bytes) ==
  [i \in 1..INT256_LENGTH |->
     IF i > INT256_LENGTH - Len(bytes)
       THEN bytes[i - (INT256_LENGTH - Len(bytes))] ELSE 0]

(* __builtin_bswap16: limbs are big-endian in the amount. *)
limbs(bytes) ==
  [i \in 1..LIMBS |-> BYTE * right_aligned(bytes)[2 * i - 1]
                      + right_aligned(bytes)[2 * i]]

allzeroes(m) == \A i \in 1..LIMBS : m[i] = 0

(* Mutants: each limb is divided alone; the quotient is carried over. *)
carries_lost(m) == [i \in 0..LIMBS |-> IF i = LIMBS THEN m[i] % 10 ELSE 0]
carries_quotient(m) ==
  LET carry[i \in 0..LIMBS] ==
        IF i = 0 THEN 0 ELSE (LIMB * carry[i - 1] + m[i]) \div 10
  IN  carry

(* What the division of the limbs up to i leaves over; the last is a digit. *)
carries(m) ==
  LET carry[i \in 0..LIMBS] ==
        IF i = 0 THEN 0 ELSE (LIMB * carry[i - 1] + m[i]) % 10
  IN  carry

pos == TMP_SIZE - Len(out)

next_digit ==
  /\ phase = "digits" /\ ~allzeroes(n)
  /\ IF pos = 0
       THEN phase' = "overflow" /\ UNCHANGED << n, out >>
       ELSE LET carry == carries(n)
            IN  /\ n' = [i \in 1..LIMBS |-> (LIMB * carry[i - 1] + n[i]) \div 10]
                /\ out' = << carry[LIMBS] >> \o out
                /\ UNCHANGED phase
  /\ UNCHANGED << request, text >>

(* The digits are moved to the front of tmp_buffer and a NUL put behind    *)
(* them; a number that was zero from the start is "0".                     *)
uint256_to_decimal ==
  /\ phase = "digits" /\ allzeroes(n)
  /\ out' = IF out = << >> THEN << 0 >> ELSE out
  /\ phase' = "adjust"
  /\ UNCHANGED << request, n, text >>

---------------------------------------------------------------------------
(* adjustDecimals, and the rest of amountToString *)

(* The ticker and a space. *)
prefix == IF request.ticker_len > 0 THEN request.ticker_len + 1 ELSE 0
targetLength == request.size - prefix - 1

Zeroes(k) == [i \in 1..k |-> 0]

(* Mutant: the zeroes between point and digits are one too few. *)
adjusted_short(src, decimals) ==
  IF Len(src) <= decimals
    THEN << 0, DOT >> \o Zeroes(decimals - Len(src) - 1) \o src
    ELSE src

adjusted(src, decimals) ==
  LET delta == Len(src) - decimals
  IN  IF Len(src) <= decimals
        THEN << 0, DOT >> \o Zeroes(decimals - Len(src)) \o src
        ELSE SubSeq(src, 1, delta)
             \o (IF decimals # 0 THEN << DOT >> ELSE << >>)
             \o SubSeq(src, delta + 1, Len(src))

(* Mutants: the zeroes before the digits are forgotten; they are counted   *)
(* as many as there are decimals.                                          *)
space_needed_digits(src, decimals) ==
  IF src = << 0 >> THEN 2 ELSE Len(src) + 2
space_needed_decimals(src, decimals) ==
  IF src = << 0 >> THEN 2
  ELSE IF Len(src) <= decimals THEN Len(src) + 1 + 2 + decimals ELSE Len(src) + 2

space_needed(src, decimals) ==
  IF src = << 0 >> THEN 2
  ELSE IF Len(src) <= decimals THEN Len(src) + 1 + 2 + (decimals - Len(src))
  ELSE Len(src) + 1 + 1

adjustDecimals ==
  /\ phase = "adjust"
  /\ IF targetLength < space_needed(out, request.decimals)
       THEN phase' = "overflow" /\ UNCHANGED text
       ELSE IF out = << 0 >>
         THEN phase' = "done" /\ text' = << 0 >>
         ELSE phase' = "strip" /\ text' = adjusted(out, request.decimals)
  /\ UNCHANGED << request, n, out >>

(* Where the scan for zeroes starts: behind the point, and behind the      *)
(* zeroes that adjustDecimals put there itself.                            *)
startOffset ==
  IF Len(out) <= request.decimals THEN Len(text) - Len(out) + 1
  ELSE Len(out) - request.decimals + (IF request.decimals # 0 THEN 1 ELSE 0) + 1

(* Mutant: the first zero is remembered even if other digits follow it. *)
lastZeroOffset_kept(s, start) ==
  LET last[i \in 0..Len(s)] ==
        IF i < start THEN 0 ELSE IF last[i - 1] # 0 \/ s[i] # 0 THEN last[i - 1]
        ELSE i
  IN  last[Len(s)]

(* The first of the zeroes the text ends with; 0 if there is none.         *)
lastZeroOffset(s, start) ==
  LET last[i \in 0..Len(s)] ==
        IF i < start \/ s[i] # 0 THEN 0
        ELSE IF last[i - 1] = 0 THEN i ELSE last[i - 1]
  IN  last[Len(s)]

(* Mutant: the point stays. *)
stripped_point(s, zero) == IF zero = 0 THEN s ELSE SubSeq(s, 1, zero - 1)

stripped(s, zero) ==
  IF zero = 0 THEN s
  ELSE IF s[zero - 1] = DOT THEN SubSeq(s, 1, zero - 2) ELSE SubSeq(s, 1, zero - 1)

(* The last byte of out_buffer is made a NUL in any case. *)
terminated(s) == SubSeq(s, 1, IF Len(s) < targetLength THEN Len(s) ELSE targetLength)

amountToString ==
  /\ phase = "strip"
  /\ text' = terminated(stripped(text, lastZeroOffset(text, startOffset)))
  /\ phase' = "done"
  /\ UNCHANGED << request, n, out >>

Init ==
  /\ request \in Requests
  /\ n = limbs(request.amount)
  /\ out = << >> /\ text = << >>
  /\ phase = "digits"

Next == next_digit \/ uint256_to_decimal \/ adjustDecimals \/ amountToString

Spec == Init /\ [][Next]_vars

---------------------------------------------------------------------------
(* Properties. *)

Amount == Value(request.amount, BYTE)

(* Limbs stay in their 16 bits and digits in 0..9 throughout the division, *)
(* and pos never comes down to 0: although that is where the loop stops,   *)
(* the NUL behind the digits would then be written behind tmp_buffer.      *)
TypeOK ==
  /\ request \in Requests
  /\ n \in [1..LIMBS -> 0..(LIMB - 1)]
  /\ out \in Seq(0..9)
  /\ pos \in 1..TMP_SIZE
  /\ text \in Seq(0..DOT)
  /\ phase \in Phases

(* The loop of uint256_to_decimal: no digit is lost or invented.  What is  *)
(* left in the limbs, followed by the digits written, is the amount.       *)
DigitsSoFar ==
  Value(n, LIMB) * Power(10, Len(out)) + Value(out, 10) = Amount

(* What the user reads is the amount: the digits on the screen, the ones   *)
(* behind the point counting as decimals, give amount / 10^decimals, at    *)
(* every length of amount and ticker and every number of decimals, and     *)
(* however close the text comes to the end of the buffer.                  *)
Points == {i \in 1..Len(text) : text[i] = DOT}
Point == CHOOSE i \in Points : TRUE
Fraction == IF Points = {} THEN 0 ELSE Len(text) - Point
Digits == IF Points = {} THEN text ELSE RemoveAt(text, Point)
TextReadsBack ==
  phase = "done" =>
    /\ text # << >> /\ Cardinality(Points) <= 1
    /\ Fraction <= request.decimals
    /\ Value(Digits, 10) * Power(10, request.decimals - Fraction) = Amount

(* One text per amount: no zero is in front but that of "0" and "0.", none *)
(* at the end of a fraction, and the point has digits on both sides.       *)
TextIsCanonical ==
  phase = "done" /\ text # << >> =>
    /\ text[1] # DOT
    /\ text[1] = 0 /\ Len(text) > 1 => text[2] = DOT
    /\ Points # {} => text[Len(text)] \notin {0, DOT}

(* The NUL behind the text as it is before zeroes are cut off, which is    *)
(* when it is longest, is in out_buffer, and so is every byte before it.   *)
TextWithinBuffer ==
  phase = "strip" \/ (phase = "done" /\ out = << 0 >>)
    => prefix + Len(text) + 1 <= request.size

(* An amount is refused only for the length of its text, all decimals      *)
(* written out, and never for that of its digits, which tmp_buffer always  *)
(* holds.  The texts refused are not just those that do not fit: a byte is *)
(* kept free behind the NUL, which targetLength leaves out and counts      *)
(* again, and without decimals one more, for a point that is not written.  *)
NumberOfDigits(v) ==
  CHOOSE k \in 1..TMP_SIZE : v < Power(10, k) /\ (k = 1 \/ v >= Power(10, k - 1))
WrittenOut ==
  LET k == NumberOfDigits(Amount)
  IN  IF Amount = 0 THEN 1
      ELSE IF k <= request.decimals THEN request.decimals + 2
      ELSE IF request.decimals = 0 THEN k ELSE k + 1
KeptFree == IF Amount # 0 /\ request.decimals = 0 THEN 2 ELSE 1
RefusedIfTooLong ==
  phase = "overflow" => prefix + WrittenOut + 1 > request.size - KeptFree

(* Inductive invariant.  The digits begin with one that is not zero as     *)
(* soon as nothing is left of the number, unless they are "0".             *)
DigitsWhole ==
  /\ phase = "digits" =>
       text = << >> /\ (allzeroes(n) /\ out # << >> => out[1] # 0)
  /\ phase # "digits" =>
       allzeroes(n) /\ (out = << 0 >> \/ (out # << >> /\ out[1] # 0))

(* A text that is not refused has room, and until it is stripped it is     *)
(* what adjustDecimals made of the digits.                                 *)
TextPlaced ==
  /\ phase = "overflow" => targetLength < space_needed(out, request.decimals)
  /\ phase \in {"strip", "done"} =>
       targetLength >= space_needed(out, request.decimals)
  /\ phase = "strip" =>
       out # << 0 >> /\ text = adjusted(out, request.decimals)
  /\ phase = "done" /\ out = << 0 >> => text = << 0 >>

IInv ==
  TypeOK /\ DigitsSoFar /\ DigitsWhole /\ TextPlaced
         /\ TextReadsBack /\ TextIsCanonical

===============================================================================
