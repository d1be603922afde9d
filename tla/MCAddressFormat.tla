--------------------------- MODULE MCAddressFormat ---------------------------
(***************************************************************************)
(* Instance of AddressFormat: every address of two bytes, and a hash that  *)
(* gives neighbouring texts unlike bytes.                                  *)
(***************************************************************************)
EXTENDS AddressFormat

MCAddresses == [1..ADDRESS_LENGTH -> Byte]

MCkeccak(s) ==
  LET n == s[1] + 7 * s[2] + 31 * s[3] + 101 * s[4]
  IN  [j \in 1..ADDRESS_LENGTH |-> (57 * n + 89 * j) % 256]

===============================================================================
