------------------------- MODULE AddressFormat_proofs -------------------------
(***************************************************************************)
(* What is shown of a recipient is the recipient, in the capitals of its   *)
(* checksum, for addresses of any length and any hash.                     *)
(***************************************************************************)
EXTENDS AddressFormat, TLAPS

Character == [digit : Digit, capital : BOOLEAN]

(* The two halves of a byte are digits.                                    *)
LEMMA Nibbles == \A b \in Byte : b \div 16 \in Digit /\ b % 16 \in Digit
BY DEF Byte, Digit

(* The two halves of a byte are digits, and make it up.                    *)
LEMMA Halves ==
  ASSUME NEW bytes \in [1..ADDRESS_LENGTH -> Byte], NEW i \in 0..(DIGITS - 1)
  PROVE  /\ i \div 2 + 1 \in 1..ADDRESS_LENGTH
         /\ half(bytes, i) \in Digit
         /\ i % 2 = 0 => half(bytes, i) = bytes[i \div 2 + 1] \div 16
         /\ i % 2 = 1 => half(bytes, i) = bytes[i \div 2 + 1] % 16
<1>1. i \in Nat /\ i \div 2 + 1 \in 1..ADDRESS_LENGTH
  BY AddressLengthAssumption DEF DIGITS
<1>2. bytes[i \div 2 + 1] \in Byte
  BY <1>1
<1>3. i % 2 = 0 => half(bytes, i) = bytes[i \div 2 + 1] \div 16
  BY Zenon DEF half
<1>4. i % 2 # 0 => half(bytes, i) = bytes[i \div 2 + 1] % 16
  BY Zenon DEF half
<1>5. half(bytes, i) \in Digit
  BY <1>2, <1>3, <1>4, Nibbles
<1>6. i % 2 = 1 => i % 2 # 0
  OBVIOUS
<1> QED
  BY <1>1, <1>3, <1>4, <1>5, <1>6

(* Halves 2j - 2 and 2j - 1 are those of byte j.                           *)
LEMMA HalvesOfByte ==
  ASSUME NEW bytes \in [1..ADDRESS_LENGTH -> Byte], NEW j \in 1..ADDRESS_LENGTH
  PROVE  /\ 2 * j - 1 \in 1..DIGITS /\ 2 * j \in 1..DIGITS
         /\ half(bytes, 2 * j - 2) = bytes[j] \div 16
         /\ half(bytes, 2 * j - 1) = bytes[j] % 16
<1>1. /\ 2 * j - 1 \in 1..DIGITS /\ 2 * j \in 1..DIGITS
      /\ 2 * j - 2 \in 0..(DIGITS - 1) /\ 2 * j - 1 \in 0..(DIGITS - 1)
      /\ (2 * j - 2) % 2 = 0 /\ (2 * j - 2) \div 2 + 1 = j
      /\ (2 * j - 1) % 2 = 1 /\ (2 * j - 1) \div 2 + 1 = j
  BY AddressLengthAssumption DEF DIGITS
<1> QED
  BY <1>1, Halves

(* Digits come in pairs, and below the last one there is room for a pair.  *)
LEMMA RoomForTwo ==
  ASSUME NEW n \in Nat, n % 2 = 0, n < DIGITS
  PROVE  /\ n \in 0..(DIGITS - 1) /\ n + 1 \in 0..(DIGITS - 1)
         /\ (n + 1) % 2 = 1 /\ (n + 1) \div 2 = n \div 2 /\ DIGITS \in Nat
         /\ (n + 2) % 2 = 0 /\ n + 2 <= DIGITS
<1>1. PICK m \in Nat : n = 2 * m
  <2>1. n = 2 * (n \div 2) /\ n \div 2 \in Nat
    OBVIOUS
  <2> QED
    BY <2>1
<1>2. /\ (2 * m + 1) % 2 = 1 /\ (2 * m + 1) \div 2 = m /\ (2 * m) \div 2 = m
      /\ (2 * m + 2) % 2 = 0
  OBVIOUS
<1>3. DIGITS \in Nat /\ ADDRESS_LENGTH \in Nat /\ DIGITS = 2 * ADDRESS_LENGTH
  BY AddressLengthAssumption DEF DIGITS
<1>4. m < ADDRESS_LENGTH
  BY <1>1, <1>3
<1>5. n + 2 <= DIGITS
  BY <1>1, <1>3, <1>4
<1> QED
  BY <1>1, <1>2, <1>3, <1>5

---------------------------------------------------------------------------

(* The invariant holds before the first character.                         *)
LEMMA InvariantInit == Init => IInv
<1> SUFFICES ASSUME Init PROVE IInv
  OBVIOUS
<1>1. DIGITS \in Nat
  BY AddressLengthAssumption DEF DIGITS
<1>2. address \in Addresses /\ tmp = << >> /\ hashChecksum = << >> /\ out = << >>
  BY DEF Init
<1>3. TypeOK
  BY <1>1, <1>2 DEF TypeOK
<1> QED
  BY <1>2, <1>3 DEF IInv, HashedText, ShownText

(* Two digits more, the halves of the next byte.                           *)
LEMMA WriteByte == IInv /\ write_byte => IInv'
<1> SUFFICES ASSUME IInv, write_byte PROVE IInv'
  OBVIOUS
<1> DEFINE n == Len(tmp)
           byte == address[n \div 2 + 1]
           high == byte \div 16
           low == byte % 16
<1>1. /\ n < DIGITS
      /\ tmp' = tmp \o << high, low >>
      /\ address' = address /\ hashChecksum' = hashChecksum /\ out' = out
  BY DEF write_byte
<1>2. /\ address \in [1..ADDRESS_LENGTH -> Byte]
      /\ tmp \in Seq(Digit) /\ n \in Nat /\ n % 2 = 0
  BY AddressesAssumption DEF IInv, TypeOK, HashedText
<1>3. /\ n \in 0..(DIGITS - 1) /\ n + 1 \in 0..(DIGITS - 1)
      /\ (n + 1) % 2 = 1 /\ (n + 1) \div 2 = n \div 2 /\ DIGITS \in Nat
      /\ (n + 2) % 2 = 0 /\ n + 2 <= DIGITS
  BY <1>1, <1>2, RoomForTwo
<1>4. half(address, n) = high /\ half(address, n + 1) = low
  BY <1>2, <1>3, Halves
<1>5. high \in Digit /\ low \in Digit
  BY <1>2, <1>3, <1>4, Halves
<1>6. hashChecksum = << >> /\ out = << >>
  BY <1>1, <1>2, <1>3 DEF IInv, HashedText, ShownText
<1> HIDE DEF high, low
<1>7. /\ tmp' \in Seq(Digit) /\ Len(tmp') = n + 2
      /\ tmp'[n + 1] = high /\ tmp'[n + 2] = low
      /\ \A k \in 1..n : tmp'[k] = tmp[k]
  BY <1>1, <1>2, <1>5
<1>8. TypeOK'
  BY <1>1, <1>3, <1>6, <1>7 DEF IInv, TypeOK
<1>9. HashedText'
  <2>1. ASSUME NEW k \in 1..(n + 2) PROVE tmp'[k] = half(address, k - 1)
    <3>1. CASE k \in 1..n
      BY <1>7, <3>1 DEF IInv, HashedText
    <3>2. CASE k = n + 1
      <4>1. k - 1 = n
        BY <1>2, <3>2
      <4> QED
        BY <1>4, <1>7, <3>2, <4>1
    <3>3. CASE k = n + 2
      <4>1. k - 1 = n + 1
        BY <1>2, <3>3
      <4> QED
        BY <1>4, <1>7, <3>3, <4>1
    <3>4. k \in 1..n \/ k = n + 1 \/ k = n + 2
      BY <1>2
    <3> QED
      BY <3>1, <3>2, <3>3, <3>4
  <2> QED
    BY <1>1, <1>3, <1>6, <1>7, <2>1 DEF HashedText, half
<1>10. ShownText'
  BY <1>1, <1>6 DEF ShownText
<1> QED
  BY <1>8, <1>9, <1>10 DEF IInv

(* The text is hashed once it is whole.                                    *)
LEMMA CxHash == IInv /\ cx_hash => IInv'
<1> SUFFICES ASSUME IInv, cx_hash PROVE IInv'
  OBVIOUS
<1>1. /\ Len(tmp) = DIGITS /\ hashChecksum' = keccak(tmp) /\ hashChecksum = << >>
      /\ address' = address /\ tmp' = tmp /\ out' = out
  BY DEF cx_hash
<1>2. tmp \in [1..(2 * ADDRESS_LENGTH) -> Digit]
  BY <1>1 DEF IInv, TypeOK, DIGITS
<1>3. hashChecksum' \in [1..ADDRESS_LENGTH -> Byte]
  BY <1>1, <1>2, KeccakAssumption
<1>4. out = << >>
  BY <1>1 DEF IInv, ShownText
<1>5. TypeOK'
  BY <1>1, <1>3 DEF IInv, TypeOK
<1>6. HashedText'
  BY <1>1 DEF IInv, HashedText, half
<1>7. ShownText'
  BY <1>1, <1>4 DEF ShownText
<1> QED
  BY <1>5, <1>6, <1>7 DEF IInv

(* One character more, the next half of the address.                       *)
LEMMA WriteDigit == IInv /\ write_digit => IInv'
<1> SUFFICES ASSUME IInv, write_digit PROVE IInv'
  OBVIOUS
<1> DEFINE n == Len(out)
           d == half(address, n)
           c == d >= 10 /\ checksum(n) >= 8
<1>1. /\ hashChecksum # << >> /\ n < DIGITS
      /\ out' = Append(out, [digit |-> d, capital |-> c])
      /\ address' = address /\ tmp' = tmp /\ hashChecksum' = hashChecksum
  BY DEF write_digit
<1>2. /\ address \in [1..ADDRESS_LENGTH -> Byte]
      /\ out \in Seq(Character)
      /\ n \in Nat /\ n \in 0..(DIGITS - 1) /\ n + 1 <= DIGITS
  BY <1>1, AddressLengthAssumption, AddressesAssumption
     DEF IInv, TypeOK, DIGITS, Character
<1>3. d \in Digit /\ c \in BOOLEAN
  BY <1>2, Halves
<1>4. \A i : half(address, i)' = half(address, i) /\ checksum(i)' = checksum(i)
  BY <1>1 DEF half, checksum
<1> DEFINE e == [digit |-> d, capital |-> c]
<1>5. e.digit = d /\ (e.capital <=> c)
  OBVIOUS
<1> HIDE DEF d, c
<1>6. e \in Character
  BY <1>3, Zenon DEF Character
<1> HIDE DEF e
<1>7. out' = Append(out, e)
  BY <1>1 DEF e
<1>8. /\ out' \in Seq(Character) /\ Len(out') = n + 1 /\ out'[n + 1] = e
      /\ \A k \in 1..n : out'[k] = out[k]
  BY <1>2, <1>6, <1>7
<1>9. TypeOK'
  BY <1>1, <1>2, <1>8 DEF IInv, TypeOK, Character
<1>10. HashedText'
  BY <1>1, <1>4 DEF IInv, HashedText
<1>11. ShownText'
  <2>1. ASSUME NEW k \in 1..(n + 1)
        PROVE  /\ out'[k].digit = half(address, k - 1)
               /\ out'[k].capital <=> out'[k].digit >= 10 /\ checksum(k - 1) >= 8
    <3>1. CASE k \in 1..n
      BY <1>8, <3>1 DEF IInv, ShownText
    <3>2. CASE k = n + 1
      <4>1. k - 1 = n /\ out'[k] = e
        BY <1>2, <1>8, <3>2
      <4> QED
        BY <4>1, <1>5, Zenon DEF d, c
    <3>3. k \in 1..n \/ k = n + 1
      BY <1>2
    <3> QED
      BY <3>1, <3>2, <3>3
  <2>2. \A k \in 1..Len(out') :
          /\ out'[k].digit = half(address, k - 1)'
          /\ out'[k].capital <=> out'[k].digit >= 10 /\ checksum(k - 1)'>= 8
    BY <1>4, <1>8, <2>1
  <2> QED
    BY <1>1, <2>2 DEF ShownText
<1> QED
  BY <1>9, <1>10, <1>11 DEF IInv

(* Every step keeps the invariant.                                         *)
LEMMA InvariantStep == IInv /\ [Next]_vars => IInv'
<1> SUFFICES ASSUME IInv, [Next]_vars PROVE IInv'
  OBVIOUS
<1>1. CASE UNCHANGED vars
  BY <1>1 DEF vars, IInv, TypeOK, HashedText, ShownText, half, checksum
<1> QED
  BY <1>1, WriteByte, CxHash, WriteDigit DEF Next

(* The digits to be hashed and those shown are the recipient's halves at   *)
(* every step, and the hash is of the whole text, for addresses of any     *)
(* length, any recipients and any hash.                                    *)
THEOREM FormatInvariant == Spec => []IInv
BY InvariantInit, InvariantStep, PTL DEF Spec

(* Neither text is ever longer than its buffer, and only digits are        *)
(* written.                                                                *)
THEOREM FormatTypes == Spec => []TypeOK
<1>1. IInv => TypeOK
  BY DEF IInv
<1> QED
  BY <1>1, FormatInvariant, PTL

---------------------------------------------------------------------------

(* Characters that are the halves of the address read back to it.          *)
LEMMA HalvesReadBack == IInv => AddressReadsBack
<1> SUFFICES ASSUME IInv, NEW j \in 1..ADDRESS_LENGTH, 2 * j <= Len(out)
             PROVE  address[j] = 16 * out[2 * j - 1].digit + out[2 * j].digit
  BY DEF AddressReadsBack
<1>1. /\ address \in [1..ADDRESS_LENGTH -> Byte]
      /\ \A k \in 1..Len(out) : out[k].digit = half(address, k - 1)
      /\ Len(out) \in Nat
  BY AddressesAssumption DEF IInv, TypeOK, ShownText
<1>2. /\ j \in Nat /\ 2 * j - 1 \in 1..Len(out) /\ 2 * j \in 1..Len(out)
      /\ (2 * j - 1) - 1 = 2 * j - 2
  BY <1>1, AddressLengthAssumption
<1>3. /\ out[2 * j - 1].digit = half(address, 2 * j - 2)
      /\ out[2 * j].digit = half(address, 2 * j - 1)
  BY <1>1, <1>2
<1>4. /\ half(address, 2 * j - 2) = address[j] \div 16
      /\ half(address, 2 * j - 1) = address[j] % 16
  BY <1>1, HalvesOfByte
<1>5. address[j] \in 0..255
  BY <1>1 DEF Byte
<1>6. \A b \in 0..255 : b = 16 * (b \div 16) + (b % 16)
  OBVIOUS
<1>7. address[j] = 16 * (address[j] \div 16) + (address[j] % 16)
  BY <1>5, <1>6
<1> QED
  BY <1>3, <1>4, <1>7, Zenon

(* Every pair of characters shown is the byte of the recipient at its      *)
(* place, for addresses of any length and whatever the hash is.            *)
THEOREM RecipientReadsBack == Spec => []AddressReadsBack
BY FormatInvariant, HalvesReadBack, PTL

(* What is shown without its capitals is what was hashed.                  *)
LEMMA ShownIsHashed ==
  ASSUME IInv, Len(out) = DIGITS
  PROVE  Lowercase = tmp /\ hashChecksum = keccak(tmp)
<1>1. DIGITS \in Nat /\ DIGITS # 0
  BY AddressLengthAssumption DEF DIGITS
<1>2. hashChecksum # << >>
  BY <1>1 DEF IInv, ShownText
<1>3. Len(tmp) = DIGITS /\ hashChecksum = keccak(tmp)
  BY <1>2 DEF IInv, HashedText
<1>4. tmp = [k \in 1..DIGITS |-> tmp[k]]
  BY <1>1, <1>3 DEF IInv, TypeOK
<1>5. \A k \in 1..DIGITS : out[k].digit = tmp[k]
  BY <1>3 DEF IInv, HashedText, ShownText
<1> QED
  BY <1>3, <1>4, <1>5 DEF Lowercase

(* The invariant gives the capitals of a finished text.                    *)
LEMMA CapitalsOfChecksum == IInv => ChecksumAsOthers
<1> SUFFICES ASSUME IInv, Len(out) = DIGITS, NEW j \in 1..ADDRESS_LENGTH
             PROVE  LET h == keccak(Lowercase)[j]
                    IN  /\ out[2 * j - 1].capital
                             <=> out[2 * j - 1].digit >= 10 /\ h >= 128
                        /\ out[2 * j].capital
                             <=> out[2 * j].digit >= 10 /\ h % 16 >= 8
  BY DEF ChecksumAsOthers
<1> DEFINE h == hashChecksum[j]
<1>1. keccak(Lowercase) = hashChecksum
  BY ShownIsHashed
<1>2. hashChecksum \in [1..ADDRESS_LENGTH -> Byte]
  <2>1. DIGITS \in Nat /\ DIGITS # 0
    BY AddressLengthAssumption DEF DIGITS
  <2> QED
    BY <2>1 DEF IInv, TypeOK, ShownText
<1>3. h \in Byte
  BY <1>2
<1>4. /\ 2 * j - 1 \in 1..DIGITS /\ 2 * j \in 1..DIGITS
      /\ checksum(2 * j - 2) = h \div 16 /\ checksum(2 * j - 1) = h % 16
  BY <1>2, HalvesOfByte DEF checksum
<1>5. (2 * j - 1) - 1 = 2 * j - 2
  BY AddressLengthAssumption
<1>6. \A b \in Byte : b \div 16 >= 8 <=> b >= 128
  BY DEF Byte
<1>7. /\ out[2 * j - 1].capital
           <=> out[2 * j - 1].digit >= 10 /\ checksum(2 * j - 2) >= 8
      /\ out[2 * j].capital
           <=> out[2 * j].digit >= 10 /\ checksum(2 * j - 1) >= 8
  BY <1>4, <1>5 DEF IInv, ShownText
<1>8. checksum(2 * j - 2) >= 8 <=> h >= 128
  BY <1>3, <1>4, <1>6
<1> QED
  BY <1>1, <1>4, <1>7, <1>8, Zenon

(* A letter is a capital exactly if the digit at its place in the hash of  *)
(* the text in lower case has its highest bit set, for addresses of any    *)
(* length and any hash: the check other wallets make (EIP-55).             *)
THEOREM CapitalsAreChecksum == Spec => []ChecksumAsOthers
BY FormatInvariant, CapitalsOfChecksum, PTL

===============================================================================
