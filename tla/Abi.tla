--------------------------------- MODULE Abi ---------------------------------
(***************************************************************************)
(* The reference the plugin is compared with: where the ABI of each        *)
(* function, whose signature main.c quotes beside its selector, puts the   *)
(* arguments a user is to review, and which contracts are deployed with    *)
(* which functions (tests/networks/ethereum/origindefi/b2c.json).          *)
(* Nothing here is code of the plugin.                                     *)
(***************************************************************************)
EXTENDS OriginDefi

(* The contracts of b2c.json that the source does not name. *)
OETH_ZAPPER    == "OETH_ZAPPER"
CURVE_ROUTER   == "CURVE_ROUTER"
OUSD_VAULT     == "OUSD_VAULT"
OUSD_FLIPPER   == "OUSD_FLIPPER"
UNISWAP_ROUTER == "UNISWAP_ROUTER"
WOUSD          == "WOUSD"

FlipperSelectors ==
  {FLIPPER_BUY_OUSD_WITH_USDT_SELECTOR, FLIPPER_SELL_OUSD_FOR_USDT_SELECTOR,
   FLIPPER_BUY_OUSD_WITH_DAI_SELECTOR, FLIPPER_SELL_OUSD_FOR_DAI_SELECTOR,
   FLIPPER_BUY_OUSD_WITH_USDC_SELECTOR, FLIPPER_SELL_OUSD_FOR_USDC_SELECTOR}
PoolSelectors ==
  {CURVE_POOL_EXCHANGE_SELECTOR, CURVE_POOL_EXCHANGE_UNDERLYING_SELECTOR}
WrapSelectors == {WRAP_SELECTOR, UNWRAP_SELECTOR}
VaultSelectors == {VAULT_MINT_SELECTOR, VAULT_REDEEM_SELECTOR}
ZapperSelectors == {ZAPPER_DEPOSIT_ETH_SELECTOR, ZAPPER_DEPOSIT_SFRXETH_SELECTOR}

Deployed ==
  ({OETH_ZAPPER} \X ZapperSelectors)
  \cup ({OETH_VAULT, OUSD_VAULT} \X VaultSelectors)
  \cup {<<CURVE_OETH_POOL, CURVE_POOL_EXCHANGE_SELECTOR>>,
        <<CURVE_OUSD_POOL, CURVE_POOL_EXCHANGE_UNDERLYING_SELECTOR>>,
        <<CURVE_ROUTER, CURVE_ROUTER_EXCHANGE_MULTIPLE_SELECTOR>>,
        <<UNISWAP_ROUTER, UNISWAP_ROUTER_EXACT_INPUT_SELECTOR>>,
        <<UNISWAP_ROUTER, UNISWAP_ROUTER_EXACT_INPUT_SINGLE_SELECTOR>>}
  \cup ({OUSD_FLIPPER} \X FlipperSelectors)
  \cup ({WOETH, WOUSD} \X WrapSelectors)

(* Argument words of each function; exactInput's are followed by its path. *)
AbiLength(s) ==
  CASE s \in FlipperSelectors -> 1
    [] s \in {ZAPPER_DEPOSIT_SFRXETH_SELECTOR, VAULT_REDEEM_SELECTOR,
              WRAP_SELECTOR} -> 2
    [] s \in {VAULT_MINT_SELECTOR, UNWRAP_SELECTOR} -> 3
    [] s \in PoolSelectors -> 4
    [] s = UNISWAP_ROUTER_EXACT_INPUT_SINGLE_SELECTOR -> 8
    [] s = CURVE_ROUTER_EXCHANGE_MULTIPLE_SELECTOR -> 23
    [] s = UNISWAP_ROUTER_EXACT_INPUT_SELECTOR -> PathLengthWord
    [] OTHER -> 0

(* Word that holds the amount sent, the least amount to receive and the    *)
(* recipient: 0 where the function has none.                               *)
AmountWord(s) ==
  CASE s = ZAPPER_DEPOSIT_ETH_SELECTOR -> 0
    [] s \in {VAULT_MINT_SELECTOR} -> 2
    [] s \in PoolSelectors -> 3
    [] s = CURVE_ROUTER_EXCHANGE_MULTIPLE_SELECTOR -> 22
    [] s = UNISWAP_ROUTER_EXACT_INPUT_SELECTOR -> 5
    [] s = UNISWAP_ROUTER_EXACT_INPUT_SINGLE_SELECTOR -> 6
    [] OTHER -> 1

MinWord(s) ==
  IF s \in FlipperSelectors \cup WrapSelectors \cup {ZAPPER_DEPOSIT_ETH_SELECTOR}
    THEN 0
    ELSE AmountWord(s) + 1

RecipientWord(s) ==
  CASE s = UNISWAP_ROUTER_EXACT_INPUT_SELECTOR -> 3
    [] s = UNISWAP_ROUTER_EXACT_INPUT_SINGLE_SELECTOR -> 4
    [] s \in WrapSelectors -> 2
    [] OTHER -> 0

(* A Curve route is nine addresses of which the first RouteLength(t), an   *)
(* odd number (token, pool, token, ...), are not null.                     *)
RouteWords == 9
IsRoute(t, m) == \A i \in 1..RouteWords : t.words[i].addr # NULL <=> i <= m
RouteLength(t) == CHOOSE m \in 1..RouteWords : IsRoute(t, m)

(* Calldata as an ABI encoder produces it.  Callers may append words,      *)
(* which contracts ignore.                                                 *)
WellFormed(t) ==
  /\ t \in TransactionType
  /\ Len(t.words) >= AbiLength(t.selector)
  /\ t.selector = CURVE_ROUTER_EXCHANGE_MULTIPLE_SELECTOR =>
       \E m \in {3, 5, 7, 9} : IsRoute(t, m)
  /\ t.selector = UNISWAP_ROUTER_EXACT_INPUT_SELECTOR =>
       /\ Len(t.path) >= 2
       /\ t.words[PathLengthWord].num = PathBytes(t)
       /\ Len(t.words) >= PathLengthWord + (PathBytes(t) + 31) \div 32
  /\ \A p \in Pools : t.to = p /\ t.selector \in PoolSelectors =>
       \A k \in 1..2 : t.words[k].num < Len(PoolCoins(p))

---------------------------------------------------------------------------
(* What a user is to review, read off the calldata. *)

AmountOf(t) ==
  IF AmountWord(t.selector) = 0 THEN ZeroWord ELSE t.words[AmountWord(t.selector)]

MinOf(t) ==
  IF MinWord(t.selector) = 0 THEN ZeroWord ELSE t.words[MinWord(t.selector)]

RecipientOf(t) ==
  IF RecipientWord(t.selector) = 0
    THEN NULL ELSE t.words[RecipientWord(t.selector)].addr

(* Token addresses among the arguments (the null address where the token   *)
(* is fixed by the function and no argument names it).                     *)
SentOf(t) ==
  CASE t.selector \in PoolSelectors -> PoolCoins(t.to)[t.words[1].num + 1]
    [] t.selector = UNISWAP_ROUTER_EXACT_INPUT_SELECTOR -> t.path[1]
    [] t.selector \in {VAULT_MINT_SELECTOR,
                       CURVE_ROUTER_EXCHANGE_MULTIPLE_SELECTOR,
                       UNISWAP_ROUTER_EXACT_INPUT_SINGLE_SELECTOR}
         -> t.words[1].addr
    [] OTHER -> NULL

ReceivedOf(t) ==
  CASE t.selector \in PoolSelectors -> PoolCoins(t.to)[t.words[2].num + 1]
    [] t.selector = UNISWAP_ROUTER_EXACT_INPUT_SELECTOR -> t.path[Len(t.path)]
    [] t.selector = CURVE_ROUTER_EXCHANGE_MULTIPLE_SELECTOR
         -> t.words[RouteLength(t)].addr
    [] t.selector = UNISWAP_ROUTER_EXACT_INPUT_SINGLE_SELECTOR
         -> t.words[2].addr
    [] OTHER -> NULL

===============================================================================
