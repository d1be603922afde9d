--------------------------- MODULE MCDecimalFormat ---------------------------
(***************************************************************************)
(* Instance of DecimalFormat: bytes of six values, amounts of up to four,  *)
(* hence two limbs of 36 and numbers of up to four digits, for which       *)
(* tmp_buffer is just large enough; all of them with every number of       *)
(* decimals up to two more than the digits, and out_buffers from the       *)
(* shortest allowed to one in which every text fits.                       *)
(***************************************************************************)
EXTENDS DecimalFormat

MCAmounts == UNION {[1..k -> 0..(BYTE - 1)] : k \in 0..INT256_LENGTH}

MCRequests ==
  [amount : MCAmounts, decimals : 0..6, ticker_len : {0, MAX_TICKER_LEN},
   size : (MAX_TICKER_LEN + 2)..(MAX_TICKER_LEN + 12)]

===============================================================================
