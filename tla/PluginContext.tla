---------------------------- MODULE PluginContext ----------------------------
(***************************************************************************)
(* The memory the Ethereum application and the plugin share while one      *)
(* transaction is handled: the plugin's context structure, the read-only   *)
(* transaction, and the result byte of the last message.  The components   *)
(* of the plugin (ParamParser, ReviewScreens) extend this module.          *)
(***************************************************************************)
EXTENDS OriginDefi

VARIABLES
  tx,      \* the transaction in txContent and the calldata behind it
  stage,   \* how far the application has brought the transaction
  pos,     \* words of calldata already handed to the plugin
  ctx,     \* origin_defi_parameters_t
  result   \* result field of the last message

Parameter ==
  {"TOKEN_SENT", "TOKEN_RECEIVED", "TOKEN_RECEIVED_REST", "AMOUNT_SENT",
   "MIN_AMOUNT_RECEIVED", "BENEFICIARY", "PATH_LENGTH",
   "UNEXPECTED_PARAMETER", "NONE"}

(* What a message comes back with; FAULT when it does not come back.       *)
Result == {"ERROR", "UNAVAILABLE", "OK", "FAULT"}

(* Tickers the source writes; an instance may add those the CAL holds. *)
CONSTANT Ticker
SourceTickers ==
  {"", "ETH", "OETH", "OUSD", "DAI", "USDC", "USDT", "WOETH", "WOUSD",
   "sfrxETH", "LST MIX", "USD MIX", "UNITS"}
ASSUME TickerAssumption == SourceTickers \subseteq Ticker

SENT == "TOKEN_SENT_FOUND"
RECEIVED == "TOKEN_RECEIVED_FOUND"
FoundFlags == SUBSET {SENT, RECEIVED}

(* The context.  Amounts are the 32-byte words copied into them; the two   *)
(* bits of tokens_found are the elements of a set.                         *)
ContextType ==
  [amount_sent : Word, min_amount_received : Word,
   contract_address_sent : Address, contract_address_received : Address,
   beneficiary : Address,
   ticker_sent : Ticker, ticker_received : Ticker,
   tokens_found : FoundFlags,
   decimals_sent : uint8_t, decimals_received : uint8_t,
   skip : uint8_t, amount_length : uint8_t, next_param : Parameter,
   counter : uint8_t, offset : uint16_t, selectorIndex : SelectorIndex]

(* What memset leaves: every field zero, hence the first member of each    *)
(* enumeration.                                                            *)
ZeroContext ==
  [amount_sent |-> ZeroWord, min_amount_received |-> ZeroWord,
   contract_address_sent |-> NULL, contract_address_received |-> NULL,
   beneficiary |-> NULL,
   ticker_sent |-> "", ticker_received |-> "",
   tokens_found |-> {}, decimals_sent |-> 0, decimals_received |-> 0,
   skip |-> 0, amount_length |-> 0, next_param |-> "TOKEN_SENT",
   counter |-> 0, offset |-> 0, selectorIndex |-> "ZAPPER_DEPOSIT_ETH"]

===============================================================================
