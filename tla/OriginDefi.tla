------------------------------ MODULE OriginDefi ------------------------------
(***************************************************************************)
(* What the Origin DeFi plugin and the Ethereum application agree on: the  *)
(* function selectors and the enumeration the plugin maps them to, the     *)
(* addresses it knows, and the calldata of one transaction as the sequence *)
(* of 32-byte words the application hands over one at a time.              *)
(*                                                                         *)
(* A word is abstracted to what the plugin can read of it: addr, the value *)
(* of its low 20 bytes, and num, the value of its low 16 bits.  Words of a *)
(* packed Uniswap path hold no aligned address; the path is kept beside    *)
(* the words, as the sequence of its tokens, and read by byte offset.      *)
(***************************************************************************)
EXTENDS Integers, Sequences

---------------------------------------------------------------------------
(* Function selectors, in the order of their declaration. *)

ZAPPER_DEPOSIT_ETH_SELECTOR             == "0xd0e30db0"
ZAPPER_DEPOSIT_SFRXETH_SELECTOR         == "0xd443e97d"
VAULT_MINT_SELECTOR                     == "0x156e29f6"
VAULT_REDEEM_SELECTOR                   == "0x7cbc2373"
CURVE_POOL_EXCHANGE_SELECTOR            == "0x3df02124"
CURVE_POOL_EXCHANGE_UNDERLYING_SELECTOR == "0xa6417ed6"
CURVE_ROUTER_EXCHANGE_MULTIPLE_SELECTOR == "0x353ca424"
UNISWAP_ROUTER_EXACT_INPUT_SELECTOR     == "0xc04b8d59"
UNISWAP_ROUTER_EXACT_INPUT_SINGLE_SELECTOR == "0x414bf389"
FLIPPER_BUY_OUSD_WITH_USDT_SELECTOR     == "0x35aa0b96"
FLIPPER_SELL_OUSD_FOR_USDT_SELECTOR     == "0xcb939053"
FLIPPER_BUY_OUSD_WITH_DAI_SELECTOR      == "0x5981c746"
FLIPPER_SELL_OUSD_FOR_DAI_SELECTOR      == "0x8a095a0f"
FLIPPER_BUY_OUSD_WITH_USDC_SELECTOR     == "0xbfc11ffd"
FLIPPER_SELL_OUSD_FOR_USDC_SELECTOR     == "0xc6b68169"
WRAP_SELECTOR                           == "0x6e553f65"
UNWRAP_SELECTOR                         == "0xba087652"

(* The table find_selector searches; it "should follow the exact same      *)
(* order" as selector_t, whose members it is indexed with.                 *)
ORIGIN_DEFI_SELECTORS ==
  << ZAPPER_DEPOSIT_ETH_SELECTOR, ZAPPER_DEPOSIT_SFRXETH_SELECTOR,
     VAULT_MINT_SELECTOR, VAULT_REDEEM_SELECTOR,
     CURVE_POOL_EXCHANGE_SELECTOR, CURVE_POOL_EXCHANGE_UNDERLYING_SELECTOR,
     CURVE_ROUTER_EXCHANGE_MULTIPLE_SELECTOR,
     UNISWAP_ROUTER_EXACT_INPUT_SELECTOR,
     UNISWAP_ROUTER_EXACT_INPUT_SINGLE_SELECTOR,
     FLIPPER_BUY_OUSD_WITH_USDT_SELECTOR, FLIPPER_SELL_OUSD_FOR_USDT_SELECTOR,
     FLIPPER_BUY_OUSD_WITH_DAI_SELECTOR, FLIPPER_SELL_OUSD_FOR_DAI_SELECTOR,
     FLIPPER_BUY_OUSD_WITH_USDC_SELECTOR, FLIPPER_SELL_OUSD_FOR_USDC_SELECTOR,
     WRAP_SELECTOR, UNWRAP_SELECTOR >>

(* The enumeration, in order: its first member is the value 0 that memset  *)
(* leaves in selectorIndex.                                                *)
selector_t ==
  << "ZAPPER_DEPOSIT_ETH", "ZAPPER_DEPOSIT_SFRXETH", "VAULT_MINT",
     "VAULT_REDEEM", "CURVE_POOL_EXCHANGE", "CURVE_POOL_EXCHANGE_UNDERLYING",
     "CURVE_ROUTER_EXCHANGE_MULTIPLE", "UNISWAP_ROUTER_EXACT_INPUT",
     "UNISWAP_ROUTER_EXACT_INPUT_SINGLE",
     "FLIPPER_BUY_OUSD_WITH_USDT", "FLIPPER_SELL_OUSD_FOR_USDT",
     "FLIPPER_BUY_OUSD_WITH_DAI", "FLIPPER_SELL_OUSD_FOR_DAI",
     "FLIPPER_BUY_OUSD_WITH_USDC", "FLIPPER_SELL_OUSD_FOR_USDC",
     "WRAP", "UNWRAP" >>

NUM_SELECTORS == 17

SelectorIndex == { selector_t[i] : i \in 1..NUM_SELECTORS }

(* The members of selector_t that share their handlers. *)
CurvePoolFunctions == {"CURVE_POOL_EXCHANGE", "CURVE_POOL_EXCHANGE_UNDERLYING"}
UniswapFunctions == {"UNISWAP_ROUTER_EXACT_INPUT",
                     "UNISWAP_ROUTER_EXACT_INPUT_SINGLE"}
FlipperBuys == {"FLIPPER_BUY_OUSD_WITH_USDT", "FLIPPER_BUY_OUSD_WITH_DAI",
                "FLIPPER_BUY_OUSD_WITH_USDC"}
FlipperSells == {"FLIPPER_SELL_OUSD_FOR_USDT", "FLIPPER_SELL_OUSD_FOR_DAI",
                 "FLIPPER_SELL_OUSD_FOR_USDC"}
WrapFunctions == {"WRAP", "UNWRAP"}

---------------------------------------------------------------------------
(* Addresses.  The ones the source names are strings; an instance may add  *)
(* any others.  GARBLED stands for bytes that are no address of the        *)
(* transaction: a copy made from the middle of one, or past a buffer.      *)

CONSTANT Address       \* the 20-byte values that occur

NULL == "NULL"         \* NULL_ETH_ADDRESS, also the network token
OETH == "OETH"
OUSD == "OUSD"
DAI  == "DAI"
USDC == "USDC"
USDT == "USDT"
GARBLED == "GARBLED"

OETH_VAULT      == "OETH_VAULT"
CURVE_OETH_POOL == "CURVE_OETH_POOL"
CURVE_OUSD_POOL == "CURVE_OUSD_POOL"
WOETH           == "WOETH"

KnownTokens == {OETH, OUSD, DAI, USDC, USDT}

ASSUME AddressAssumption ==
  {NULL, GARBLED, OETH_VAULT, CURVE_OETH_POOL, CURVE_OUSD_POOL, WOETH}
     \cup KnownTokens \subseteq Address

(* The coins of the two Curve pools, by the index the ABI gives them. *)
PoolCoins(pool) ==
  IF pool = CURVE_OETH_POOL THEN << NULL, OETH >>
                            ELSE << OUSD, DAI, USDC, USDT >>

Pools == {CURVE_OETH_POOL, CURVE_OUSD_POOL}

---------------------------------------------------------------------------
(* Transactions. *)

uint8_t == 0..255
uint16_t == 0..65535

Word == [addr : Address, num : uint16_t]
ZeroWord == [addr |-> NULL, num |-> 0]

ADDRESS_LENGTH == 20
PARAMETER_LENGTH == 32
FEE_LENGTH == 3        \* pool fee between two tokens of a Uniswap path
HopLength == ADDRESS_LENGTH + FEE_LENGTH

(* A transaction: sender, destination, selector, argument words and, for   *)
(* exactInput, the tokens of its packed path (empty otherwise).  Its value *)
(* is a big-endian number of value_length bytes, without leading zeroes.   *)
TransactionType ==
  [from : Address, to : Address, selector : STRING,
   words : Seq(Word), path : Seq(Address),
   value : Word, value_length : 0..PARAMETER_LENGTH]

(* Position, among the words of exactInput, of the path's length and of    *)
(* the path's first word.                                                  *)
PathLengthWord == 7
PathWord == 8

PathBytes(t) == ADDRESS_LENGTH + HopLength * (Len(t.path) - 1)

(* The 20 bytes of the path that start at byte b. *)
PathAddress(t, b) ==
  IF b % HopLength = 0 /\ b \div HopLength \in 0..(Len(t.path) - 1)
    THEN t.path[b \div HopLength + 1]
    ELSE GARBLED

(* Where the last token of a path of n bytes starts: words after the       *)
(* first, and bytes into that word (n >= 20).                              *)
TailWord(n) == (n - ADDRESS_LENGTH) \div PARAMETER_LENGTH
TailByte(n) == (n - ADDRESS_LENGTH) % PARAMETER_LENGTH
Straddles(n) == TailByte(n) + ADDRESS_LENGTH > PARAMETER_LENGTH

===============================================================================
