---------------------------- MODULE AddressFormat ----------------------------
(***************************************************************************)
(* How the recipient becomes the text of the beneficiary screen: "0x" by   *)
(* set_beneficiary_ui, and getEthAddressStringFromBinary's hexadecimal     *)
(* digits, once in lower case to be hashed and once more with the capitals *)
(* the hash decides on.  The plugin's chain id is 0, so no chain id is put *)
(* in front of what is hashed.                                             *)
(*                                                                         *)
(* A behaviour is one call, one byte or one digit at a time.  A character  *)
(* is the digit it stands for and whether it is a capital.                 *)
(***************************************************************************)
EXTENDS Integers, Sequences

CONSTANTS
  ADDRESS_LENGTH,    \* 20
  Addresses,         \* the recipients
  keccak(_)          \* of a text: cx_hash is the operating system's

Byte == 0..255
Digit == 0..15

ASSUME AddressLengthAssumption == ADDRESS_LENGTH \in Nat \ {0}
ASSUME AddressesAssumption == Addresses \subseteq [1..ADDRESS_LENGTH -> Byte]
ASSUME KeccakAssumption ==
  \A s \in [1..(2 * ADDRESS_LENGTH) -> Digit] :
    keccak(s) \in [1..ADDRESS_LENGTH -> Byte]

VARIABLES
  address,
  tmp,            \* the digits to be hashed
  hashChecksum,   \* the bytes of the hash that are looked at; none before cx_hash
  out             \* the characters behind "0x"

vars == << address, tmp, hashChecksum, out >>

DIGITS == 2 * ADDRESS_LENGTH

(* Mutants: the halves of a byte are swapped, in the text or in the hash;  *)
(* the low half is not masked.                                             *)
half_swapped(bytes, i) ==
  IF i % 2 = 0 THEN bytes[i \div 2 + 1] % 16 ELSE bytes[i \div 2 + 1] \div 16
half_unmasked(bytes, i) ==
  IF i % 2 = 0 THEN bytes[i \div 2 + 1] \div 16 ELSE bytes[i \div 2 + 1]
checksum_swapped(i) == half_swapped(hashChecksum, i)

(* The high half of a byte comes first; i counts from 0.                   *)
half(bytes, i) ==
  IF i % 2 = 0 THEN bytes[i \div 2 + 1] \div 16 ELSE bytes[i \div 2 + 1] % 16

checksum(i) == half(hashChecksum, i)

write_byte ==
  /\ Len(tmp) < DIGITS
  /\ LET digit == address[Len(tmp) \div 2 + 1]
     IN  tmp' = tmp \o << digit \div 16, digit % 16 >>
  /\ UNCHANGED << address, hashChecksum, out >>

cx_hash ==
  /\ Len(tmp) = DIGITS /\ hashChecksum = << >>
  /\ hashChecksum' = keccak(tmp)
  /\ UNCHANGED << address, tmp, out >>

write_digit ==
  /\ hashChecksum # << >> /\ Len(out) < DIGITS
  /\ LET digit == half(address, Len(out))
     IN  out' = Append(out, [digit |-> digit,
                             capital |-> digit >= 10 /\ checksum(Len(out)) >= 8])
  /\ UNCHANGED << address, tmp, hashChecksum >>

Init ==
  /\ address \in Addresses
  /\ tmp = << >> /\ hashChecksum = << >> /\ out = << >>

Next == write_byte \/ cx_hash \/ write_digit

Spec == Init /\ [][Next]_vars

---------------------------------------------------------------------------
(* Properties. *)

(* Digits are digits, and the texts no longer than their buffers: 40 bytes *)
(* of tmp, 40 of out before the NUL.                                       *)
TypeOK ==
  /\ address \in Addresses
  /\ tmp \in Seq(Digit) /\ Len(tmp) <= DIGITS
  /\ hashChecksum \in [1..ADDRESS_LENGTH -> Byte] \cup {<< >>}
  /\ out \in Seq([digit : Digit, capital : BOOLEAN]) /\ Len(out) <= DIGITS

(* Read as a hexadecimal number, each pair of characters on the screen is  *)
(* the byte of the recipient at its place: capitals aside, two recipients  *)
(* never look alike, whatever the hash.                                    *)
AddressReadsBack ==
  \A j \in 1..ADDRESS_LENGTH : 2 * j <= Len(out) =>
    address[j] = 16 * out[2 * j - 1].digit + out[2 * j].digit

(* The capitals are those of the checksum other wallets show (EIP-55): a   *)
(* letter is a capital if and only if the digit at its place in the hash   *)
(* of the lower-case text has its highest bit set.                         *)
Lowercase == [i \in 1..Len(out) |-> out[i].digit]
ChecksumAsOthers ==
  Len(out) = DIGITS =>
    \A j \in 1..ADDRESS_LENGTH :
      LET h == keccak(Lowercase)[j]
      IN  /\ out[2 * j - 1].capital <=> out[2 * j - 1].digit >= 10 /\ h >= 128
          /\ out[2 * j].capital <=> out[2 * j].digit >= 10 /\ h % 16 >= 8

(* Inductive invariant.  The digits to be hashed are the halves of the     *)
(* recipient's bytes, always in pairs, and a hash is the hash of them all. *)
HashedText ==
  /\ Len(tmp) % 2 = 0
  /\ \A k \in 1..Len(tmp) : tmp[k] = half(address, k - 1)
  /\ hashChecksum # << >> => Len(tmp) = DIGITS /\ hashChecksum = keccak(tmp)

(* The characters are the same halves, with the capitals of the hash, of   *)
(* which there is one before the first of them.                            *)
ShownText ==
  /\ out # << >> => hashChecksum # << >>
  /\ \A k \in 1..Len(out) :
       /\ out[k].digit = half(address, k - 1)
       /\ out[k].capital <=> out[k].digit >= 10 /\ checksum(k - 1) >= 8

IInv == TypeOK /\ HashedText /\ ShownText

===============================================================================
