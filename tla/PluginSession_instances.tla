------------------------ MODULE PluginSession_instances ------------------------
(***************************************************************************)
(* What the theorems about the parser and the review screens say in a      *)
(* session.  PluginSession instantiates both components with its own       *)
(* variables; the lemmas are those of instances of the proof modules,      *)
(* whose copies of every definition are other symbols with the same        *)
(* bodies.  The first part shows that they agree, definition for           *)
(* definition; the second restates the lemmas in the session's terms.      *)
(***************************************************************************)
EXTENDS PluginSession, TLAPS

P == INSTANCE ParamParser_decoding WITH Transactions <- Whole
S == INSTANCE ReviewScreens_proofs
       WITH Transactions <- {t \in Whole : << t.to, t.selector >> \in Deployed}

---------------------------------------------------------------------------
(* The copies of what the components share (OriginDefi, PluginContext, Abi *)
(* and Review), the session's own first, expanded in every proof below.    *)

USE DEF
  ZAPPER_DEPOSIT_ETH_SELECTOR, ZAPPER_DEPOSIT_SFRXETH_SELECTOR,
  VAULT_MINT_SELECTOR, VAULT_REDEEM_SELECTOR, CURVE_POOL_EXCHANGE_SELECTOR,
  CURVE_POOL_EXCHANGE_UNDERLYING_SELECTOR,
  CURVE_ROUTER_EXCHANGE_MULTIPLE_SELECTOR, UNISWAP_ROUTER_EXACT_INPUT_SELECTOR,
  UNISWAP_ROUTER_EXACT_INPUT_SINGLE_SELECTOR,
  FLIPPER_BUY_OUSD_WITH_USDT_SELECTOR, FLIPPER_SELL_OUSD_FOR_USDT_SELECTOR,
  FLIPPER_BUY_OUSD_WITH_DAI_SELECTOR, FLIPPER_SELL_OUSD_FOR_DAI_SELECTOR,
  FLIPPER_BUY_OUSD_WITH_USDC_SELECTOR, FLIPPER_SELL_OUSD_FOR_USDC_SELECTOR,
  WRAP_SELECTOR, UNWRAP_SELECTOR, ORIGIN_DEFI_SELECTORS, selector_t,
  NUM_SELECTORS, SelectorIndex, UniswapFunctions, FlipperBuys, FlipperSells,
  WrapFunctions, NULL, OETH, OUSD, DAI, USDC, USDT, GARBLED, OETH_VAULT,
  CURVE_OETH_POOL, CURVE_OUSD_POOL, WOETH, KnownTokens, PoolCoins, Pools,
  uint8_t, uint16_t, Word, ZeroWord, ADDRESS_LENGTH, PARAMETER_LENGTH,
  FEE_LENGTH, HopLength, TransactionType, PathLengthWord, PathBytes, Parameter,
  Result, SENT, RECEIVED, FoundFlags, ContextType, ZeroContext, OETH_ZAPPER,
  CURVE_ROUTER, OUSD_VAULT, OUSD_FLIPPER, UNISWAP_ROUTER, WOUSD,
  FlipperSelectors, PoolSelectors, WrapSelectors, VaultSelectors,
  ZapperSelectors, Deployed, AbiLength, AmountWord, MinWord, RecipientWord,
  RouteWords, IsRoute, RouteLength, WellFormed, AmountOf, MinOf, RecipientOf,
  SentOf, ReceivedOf, Item, NullItem, ETHER_DECIMALS, Token, Unknown,
  NamedToken, TokenAt, IsUnknown, VaultToken, Unwrapped, Wrapped, FlipperToken,
  FlipperBuySelectors, TokenSent, TokenReceived, Spent, AtLeast, AmountScreen,
  Warning, BeneficiaryScreen, Warnings, ReviewOf
USE DEF
  Parser!ZAPPER_DEPOSIT_ETH_SELECTOR, Parser!ZAPPER_DEPOSIT_SFRXETH_SELECTOR,
  Parser!VAULT_MINT_SELECTOR, Parser!VAULT_REDEEM_SELECTOR,
  Parser!CURVE_POOL_EXCHANGE_SELECTOR,
  Parser!CURVE_POOL_EXCHANGE_UNDERLYING_SELECTOR,
  Parser!CURVE_ROUTER_EXCHANGE_MULTIPLE_SELECTOR,
  Parser!UNISWAP_ROUTER_EXACT_INPUT_SELECTOR,
  Parser!UNISWAP_ROUTER_EXACT_INPUT_SINGLE_SELECTOR,
  Parser!FLIPPER_BUY_OUSD_WITH_USDT_SELECTOR,
  Parser!FLIPPER_SELL_OUSD_FOR_USDT_SELECTOR,
  Parser!FLIPPER_BUY_OUSD_WITH_DAI_SELECTOR,
  Parser!FLIPPER_SELL_OUSD_FOR_DAI_SELECTOR,
  Parser!FLIPPER_BUY_OUSD_WITH_USDC_SELECTOR,
  Parser!FLIPPER_SELL_OUSD_FOR_USDC_SELECTOR, Parser!WRAP_SELECTOR,
  Parser!UNWRAP_SELECTOR, Parser!ORIGIN_DEFI_SELECTORS, Parser!selector_t,
  Parser!NUM_SELECTORS, Parser!SelectorIndex, Parser!CurvePoolFunctions,
  Parser!FlipperBuys, Parser!FlipperSells, Parser!WrapFunctions, Parser!NULL,
  Parser!OETH, Parser!OUSD, Parser!DAI, Parser!USDC, Parser!USDT,
  Parser!GARBLED, Parser!OETH_VAULT, Parser!CURVE_OETH_POOL,
  Parser!CURVE_OUSD_POOL, Parser!WOETH, Parser!PoolCoins, Parser!Pools,
  Parser!uint8_t, Parser!uint16_t, Parser!Word, Parser!ZeroWord,
  Parser!ADDRESS_LENGTH, Parser!PARAMETER_LENGTH, Parser!FEE_LENGTH,
  Parser!HopLength, Parser!TransactionType, Parser!PathLengthWord,
  Parser!PathWord, Parser!PathBytes, Parser!PathAddress, Parser!TailWord,
  Parser!TailByte, Parser!Straddles, Parser!Parameter, Parser!Result,
  Parser!SENT, Parser!RECEIVED, Parser!FoundFlags, Parser!ContextType,
  Parser!ZeroContext, Parser!OETH_ZAPPER, Parser!CURVE_ROUTER,
  Parser!OUSD_VAULT, Parser!OUSD_FLIPPER, Parser!UNISWAP_ROUTER, Parser!WOUSD,
  Parser!FlipperSelectors, Parser!PoolSelectors, Parser!WrapSelectors,
  Parser!VaultSelectors, Parser!ZapperSelectors, Parser!Deployed,
  Parser!AbiLength, Parser!AmountWord, Parser!MinWord, Parser!RecipientWord,
  Parser!RouteWords, Parser!IsRoute, Parser!RouteLength, Parser!WellFormed,
  Parser!AmountOf, Parser!MinOf, Parser!RecipientOf, Parser!SentOf,
  Parser!ReceivedOf
USE DEF
  P!ZAPPER_DEPOSIT_ETH_SELECTOR, P!ZAPPER_DEPOSIT_SFRXETH_SELECTOR,
  P!VAULT_MINT_SELECTOR, P!VAULT_REDEEM_SELECTOR,
  P!CURVE_POOL_EXCHANGE_SELECTOR, P!CURVE_POOL_EXCHANGE_UNDERLYING_SELECTOR,
  P!CURVE_ROUTER_EXCHANGE_MULTIPLE_SELECTOR,
  P!UNISWAP_ROUTER_EXACT_INPUT_SELECTOR,
  P!UNISWAP_ROUTER_EXACT_INPUT_SINGLE_SELECTOR,
  P!FLIPPER_BUY_OUSD_WITH_USDT_SELECTOR, P!FLIPPER_SELL_OUSD_FOR_USDT_SELECTOR,
  P!FLIPPER_BUY_OUSD_WITH_DAI_SELECTOR, P!FLIPPER_SELL_OUSD_FOR_DAI_SELECTOR,
  P!FLIPPER_BUY_OUSD_WITH_USDC_SELECTOR, P!FLIPPER_SELL_OUSD_FOR_USDC_SELECTOR,
  P!WRAP_SELECTOR, P!UNWRAP_SELECTOR, P!ORIGIN_DEFI_SELECTORS, P!selector_t,
  P!NUM_SELECTORS, P!SelectorIndex, P!CurvePoolFunctions, P!FlipperBuys,
  P!FlipperSells, P!WrapFunctions, P!NULL, P!OETH, P!OUSD, P!DAI, P!USDC,
  P!USDT, P!GARBLED, P!OETH_VAULT, P!CURVE_OETH_POOL, P!CURVE_OUSD_POOL,
  P!WOETH, P!PoolCoins, P!Pools, P!uint8_t, P!uint16_t, P!Word, P!ZeroWord,
  P!ADDRESS_LENGTH, P!PARAMETER_LENGTH, P!FEE_LENGTH, P!HopLength,
  P!TransactionType, P!PathLengthWord, P!PathWord, P!PathBytes, P!PathAddress,
  P!TailWord, P!TailByte, P!Straddles, P!Parameter, P!Result, P!SENT,
  P!RECEIVED, P!FoundFlags, P!ContextType, P!ZeroContext, P!OETH_ZAPPER,
  P!CURVE_ROUTER, P!OUSD_VAULT, P!OUSD_FLIPPER, P!UNISWAP_ROUTER, P!WOUSD,
  P!FlipperSelectors, P!PoolSelectors, P!WrapSelectors, P!VaultSelectors,
  P!ZapperSelectors, P!Deployed, P!AbiLength, P!AmountWord, P!MinWord,
  P!RecipientWord, P!RouteWords, P!IsRoute, P!RouteLength, P!WellFormed,
  P!AmountOf, P!MinOf, P!RecipientOf, P!SentOf, P!ReceivedOf
USE DEF
  Screens!ZAPPER_DEPOSIT_ETH_SELECTOR, Screens!ZAPPER_DEPOSIT_SFRXETH_SELECTOR,
  Screens!VAULT_MINT_SELECTOR, Screens!VAULT_REDEEM_SELECTOR,
  Screens!CURVE_POOL_EXCHANGE_SELECTOR,
  Screens!CURVE_POOL_EXCHANGE_UNDERLYING_SELECTOR,
  Screens!CURVE_ROUTER_EXCHANGE_MULTIPLE_SELECTOR,
  Screens!UNISWAP_ROUTER_EXACT_INPUT_SELECTOR,
  Screens!UNISWAP_ROUTER_EXACT_INPUT_SINGLE_SELECTOR,
  Screens!FLIPPER_BUY_OUSD_WITH_USDT_SELECTOR,
  Screens!FLIPPER_SELL_OUSD_FOR_USDT_SELECTOR,
  Screens!FLIPPER_BUY_OUSD_WITH_DAI_SELECTOR,
  Screens!FLIPPER_SELL_OUSD_FOR_DAI_SELECTOR,
  Screens!FLIPPER_BUY_OUSD_WITH_USDC_SELECTOR,
  Screens!FLIPPER_SELL_OUSD_FOR_USDC_SELECTOR, Screens!WRAP_SELECTOR,
  Screens!UNWRAP_SELECTOR, Screens!ORIGIN_DEFI_SELECTORS, Screens!selector_t,
  Screens!NUM_SELECTORS, Screens!SelectorIndex, Screens!UniswapFunctions,
  Screens!FlipperBuys, Screens!FlipperSells, Screens!WrapFunctions,
  Screens!NULL, Screens!OETH, Screens!OUSD, Screens!DAI, Screens!USDC,
  Screens!USDT, Screens!GARBLED, Screens!OETH_VAULT, Screens!CURVE_OETH_POOL,
  Screens!CURVE_OUSD_POOL, Screens!WOETH, Screens!KnownTokens,
  Screens!PoolCoins, Screens!Pools, Screens!uint8_t, Screens!uint16_t,
  Screens!Word, Screens!ZeroWord, Screens!ADDRESS_LENGTH,
  Screens!PARAMETER_LENGTH, Screens!FEE_LENGTH, Screens!HopLength,
  Screens!TransactionType, Screens!PathLengthWord, Screens!PathBytes,
  Screens!Parameter, Screens!Result, Screens!SENT, Screens!RECEIVED,
  Screens!FoundFlags, Screens!ContextType, Screens!ZeroContext,
  Screens!OETH_ZAPPER, Screens!CURVE_ROUTER, Screens!OUSD_VAULT,
  Screens!OUSD_FLIPPER, Screens!UNISWAP_ROUTER, Screens!WOUSD,
  Screens!FlipperSelectors, Screens!PoolSelectors, Screens!WrapSelectors,
  Screens!VaultSelectors, Screens!ZapperSelectors, Screens!Deployed,
  Screens!AbiLength, Screens!AmountWord, Screens!MinWord,
  Screens!RecipientWord, Screens!RouteWords, Screens!IsRoute,
  Screens!RouteLength, Screens!WellFormed, Screens!AmountOf, Screens!MinOf,
  Screens!RecipientOf, Screens!SentOf, Screens!ReceivedOf, Screens!Item,
  Screens!NullItem, Screens!ETHER_DECIMALS, Screens!Token, Screens!Unknown,
  Screens!NamedToken, Screens!TokenAt, Screens!IsUnknown, Screens!VaultToken,
  Screens!Unwrapped, Screens!Wrapped, Screens!FlipperToken,
  Screens!FlipperBuySelectors, Screens!TokenSent, Screens!TokenReceived,
  Screens!Spent, Screens!AtLeast, Screens!AmountScreen, Screens!Warning,
  Screens!BeneficiaryScreen, Screens!Warnings, Screens!ReviewOf
USE DEF
  S!ZAPPER_DEPOSIT_ETH_SELECTOR, S!ZAPPER_DEPOSIT_SFRXETH_SELECTOR,
  S!VAULT_MINT_SELECTOR, S!VAULT_REDEEM_SELECTOR,
  S!CURVE_POOL_EXCHANGE_SELECTOR, S!CURVE_POOL_EXCHANGE_UNDERLYING_SELECTOR,
  S!CURVE_ROUTER_EXCHANGE_MULTIPLE_SELECTOR,
  S!UNISWAP_ROUTER_EXACT_INPUT_SELECTOR,
  S!UNISWAP_ROUTER_EXACT_INPUT_SINGLE_SELECTOR,
  S!FLIPPER_BUY_OUSD_WITH_USDT_SELECTOR, S!FLIPPER_SELL_OUSD_FOR_USDT_SELECTOR,
  S!FLIPPER_BUY_OUSD_WITH_DAI_SELECTOR, S!FLIPPER_SELL_OUSD_FOR_DAI_SELECTOR,
  S!FLIPPER_BUY_OUSD_WITH_USDC_SELECTOR, S!FLIPPER_SELL_OUSD_FOR_USDC_SELECTOR,
  S!WRAP_SELECTOR, S!UNWRAP_SELECTOR, S!ORIGIN_DEFI_SELECTORS, S!selector_t,
  S!NUM_SELECTORS, S!SelectorIndex, S!UniswapFunctions, S!FlipperBuys,
  S!FlipperSells, S!WrapFunctions, S!NULL, S!OETH, S!OUSD, S!DAI, S!USDC,
  S!USDT, S!GARBLED, S!OETH_VAULT, S!CURVE_OETH_POOL, S!CURVE_OUSD_POOL,
  S!WOETH, S!KnownTokens, S!PoolCoins, S!Pools, S!uint8_t, S!uint16_t, S!Word,
  S!ZeroWord, S!ADDRESS_LENGTH, S!PARAMETER_LENGTH, S!FEE_LENGTH, S!HopLength,
  S!TransactionType, S!PathLengthWord, S!PathBytes, S!Parameter, S!Result,
  S!SENT, S!RECEIVED, S!FoundFlags, S!ContextType, S!ZeroContext,
  S!OETH_ZAPPER, S!CURVE_ROUTER, S!OUSD_VAULT, S!OUSD_FLIPPER,
  S!UNISWAP_ROUTER, S!WOUSD, S!FlipperSelectors, S!PoolSelectors,
  S!WrapSelectors, S!VaultSelectors, S!ZapperSelectors, S!Deployed,
  S!AbiLength, S!AmountWord, S!MinWord, S!RecipientWord, S!RouteWords,
  S!IsRoute, S!RouteLength, S!WellFormed, S!AmountOf, S!MinOf, S!RecipientOf,
  S!SentOf, S!ReceivedOf, S!Item, S!NullItem, S!ETHER_DECIMALS, S!Token,
  S!Unknown, S!NamedToken, S!TokenAt, S!IsUnknown, S!VaultToken, S!Unwrapped,
  S!Wrapped, S!FlipperToken, S!FlipperBuySelectors, S!TokenSent,
  S!TokenReceived, S!Spent, S!AtLeast, S!AmountScreen, S!Warning,
  S!BeneficiaryScreen, S!Warnings, S!ReviewOf

(* Types, and the calldata a session may hand to each component.           *)
LEMMA SameTypes ==
  /\ TransactionType = P!TransactionType /\ TransactionType = S!TransactionType
  /\ ContextType = P!ContextType /\ ContextType = S!ContextType
  /\ Result = P!Result /\ Result = S!Result
  /\ Item = S!Item
OBVIOUS

(* The addresses and tickers the source names are among the constants.     *)
LEMMA SameNames ==
  /\ {P!NULL, P!GARBLED, P!OETH_VAULT, P!CURVE_OETH_POOL, P!CURVE_OUSD_POOL,
      P!WOETH} \cup P!KnownTokens \subseteq Address
  /\ {S!NULL, S!GARBLED, S!OETH_VAULT, S!CURVE_OETH_POOL, S!CURVE_OUSD_POOL,
      S!WOETH} \cup S!KnownTokens \subseteq Address
  /\ P!SourceTickers \subseteq Ticker /\ S!SourceTickers \subseteq Ticker
BY AddressAssumption, TickerAssumption
   DEF KnownTokens, P!KnownTokens, S!KnownTokens,
       SourceTickers, P!SourceTickers, S!SourceTickers

(* What is well-formed, deployed and under review for one is so for all.   *)
LEMMA SameReferences ==
  ASSUME NEW t
  PROVE  /\ WellFormed(t) <=> P!WellFormed(t)
         /\ WellFormed(t) <=> Parser!WellFormed(t)
         /\ WellFormed(t) <=> S!WellFormed(t)
         /\ (<< t.to, t.selector >> \in Deployed
               <=> << t.to, t.selector >> \in S!Deployed)
         /\ (<< t.to, t.selector >> \in Deployed
               <=> << t.to, t.selector >> \in Parser!Deployed)
OBVIOUS

(* The arguments of a call, and the review it is due.                      *)
LEMMA SameArguments ==
  ASSUME NEW t
  PROVE  /\ Screens!AmountOf(t) = P!AmountOf(t)
         /\ Screens!MinOf(t) = P!MinOf(t)
         /\ Screens!RecipientOf(t) = P!RecipientOf(t)
         /\ Screens!SentOf(t) = P!SentOf(t)
         /\ Screens!ReceivedOf(t) = P!ReceivedOf(t)
         /\ S!Spent(t) = Spent(t) /\ S!AtLeast(t) = AtLeast(t)
OBVIOUS

(* The function of a selector is the member of the enumeration at its      *)
(* place in the table, of which there is only one.                         *)
LEMMA SameFunction ==
  ASSUME NEW t, NEW i \in 1..17, t.selector = P!ORIGIN_DEFI_SELECTORS[i]
  PROVE  Screens!FunctionOf(t) = P!selector_t[i]
<1> DEFINE j == CHOOSE k \in 1..17 : Screens!ORIGIN_DEFI_SELECTORS[k] = t.selector
<1>1. j \in 1..17 /\ Screens!ORIGIN_DEFI_SELECTORS[j] = t.selector
  OBVIOUS
<1>2. Screens!FunctionOf(t) = Screens!selector_t[j]
  BY DEF Screens!FunctionOf
<1> HIDE DEF j
<1>3. j = i
  BY <1>1
<1> QED BY <1>2, <1>3

(* What no lookup answers.                                                 *)
LEMMA SameNullItem ==
  /\ NullItem = S!NullItem
  /\ {SENT, RECEIVED} = {S!SENT, S!RECEIVED}
  /\ Screens!NoItems = [s \in {SENT, RECEIVED} |-> NullItem]
  /\ ZeroContext = S!ZeroContext
BY DEF Screens!NoItems

(* The context that a review of it starts from.                            *)
LEMMA SameParsedContext ==
  ASSUME NEW t
  PROVE  Screens!ParsedContext(t) = S!ParsedContext(t)
BY DEF Screens!ParsedContext, S!ParsedContext, Screens!FunctionOf, S!FunctionOf

(* The review due, as each instance states it.                             *)
LEMMA SameReview ==
  ASSUME NEW t, NEW item1, NEW item2
  PROVE  S!ReviewOf(t, item1, item2) = ReviewOf(t, item1, item2)
OBVIOUS

(* The screens of both copies are to show the same review.                 *)
LEMMA SameExpected ==
  /\ Screens!Expected = ReviewOf(tx, items[SENT], items[RECEIVED])
  /\ Screens!Expected' = ReviewOf(tx', items'[SENT], items'[RECEIVED])
  /\ S!Expected = ReviewOf(tx, items[SENT], items[RECEIVED])
  /\ tx.selector # ZAPPER_DEPOSIT_SFRXETH_SELECTOR =>
       \A i : S!ToldAt(i) = S!Expected[i]
BY DEF Screens!Expected, S!Expected, S!ToldAt, S!KnownWrong

(* What an empty display is, and what one may show.                        *)
LEMMA SameDisplays ==
  /\ Screens!ID = S!ID /\ Screens!MaxScreens = S!MaxScreens
  /\ Screens!Blank = S!Blank /\ Screens!NothingShown = S!NothingShown
  /\ Screens!NoItems = S!NoItems /\ Screens!Displays = S!Displays
BY
   DEF Screens!ID, S!ID, Screens!MaxScreens, S!MaxScreens, Screens!Blank,
       S!Blank, Screens!NothingShown, S!NothingShown, Screens!NoItems,
       S!NoItems, Screens!Displays, S!Displays

(* What the parser and the review rely on from one message to the next.    *)
Typed ==
  /\ tx \in TransactionType /\ pos \in 0..Len(tx.words)
  /\ ctx \in ContextType /\ result \in Result

ReviewTyped ==
  /\ tx \in TransactionType /\ ctx \in ContextType /\ result \in Result
  /\ screens \in 0..Screens!MaxScreens
  /\ stage = "lookup" => screens <= 3
  /\ lookup \in SUBSET {SENT, RECEIVED}
  /\ items \in [{SENT, RECEIVED} -> Item]
  /\ shown \in [Screens!ID..(Screens!MaxScreens - 1) -> Screens!Displays]

(* They are what the instances call Typed, before and after a step.        *)
LEMMA SameTyped == (P!Typed <=> Typed) /\ (P!Typed' <=> Typed')
BY DEF P!Typed, Typed

(* Likewise for the review.                                                *)
LEMMA SameReviewTyped == (S!Typed <=> ReviewTyped) /\ (S!Typed' <=> ReviewTyped')
BY
   DEF Screens!ID, S!ID, Screens!MaxScreens, S!MaxScreens, Screens!Displays,
       S!Displays, Screens!Blank, S!Blank, S!Typed, ReviewTyped

(* The parser's handlers, what it supports, and its invariants.            *)
LEMMA SameInitContract ==
  ASSUME NEW t
  PROVE  Parser!handle_init_contract(t) <=> P!handle_init_contract(t)
BY
   DEF Parser!handle_init_contract, P!handle_init_contract,
       Parser!find_selector, P!find_selector, Parser!destination_supported,
       P!destination_supported, Parser!InitialContext, P!InitialContext,
       Parser!first_skip, P!first_skip, Parser!first_param, P!first_param

(* One word, whichever handler it goes to.                                 *)
LEMMA SameProvideParameter ==
  Parser!handle_provide_parameter <=> P!handle_provide_parameter
BY
   DEF Parser!handle_provide_parameter, P!handle_provide_parameter,
       Parser!skip_parameter, P!skip_parameter,
       Parser!handle_zapper_deposit_eth, P!handle_zapper_deposit_eth,
       Parser!handle_amount_and_min, P!handle_amount_and_min,
       Parser!handle_vault_mint, P!handle_vault_mint,
       Parser!handle_curve_pool_exchange, P!handle_curve_pool_exchange,
       Parser!handle_curve_router_exchange, P!handle_curve_router_exchange,
       Parser!handle_uniswap_exchange, P!handle_uniswap_exchange,
       Parser!handle_uniswap_exchange_single,
       P!handle_uniswap_exchange_single, Parser!handle_flipper_exchange,
       P!handle_flipper_exchange, Parser!handle_wrap, P!handle_wrap,
       Parser!Provide, P!Provide, Parser!Handler, P!Handler, Parser!Otherwise,
       P!Otherwise, Parser!On, P!On, Parser!Expect, P!Expect,
       Parser!handle_amount_sent, P!handle_amount_sent, Parser!parameter,
       P!parameter, Parser!handle_min_amount_received,
       P!handle_min_amount_received, Parser!handle_token_sent,
       P!handle_token_sent, Parser!handle_token_received,
       P!handle_token_received, Parser!handle_route, P!handle_route,
       Parser!Skip, P!Skip, Parser!handle_beneficiary, P!handle_beneficiary,
       Parser!path_address, P!path_address, Parser!path_skip, P!path_skip,
       Parser!Backwards, P!Backwards, Parser!Runaway, P!Runaway,
       Parser!runaway_copy, P!runaway_copy, Parser!overrun, P!overrun,
       Parser!token_received_head, P!token_received_head,
       Parser!token_received_rest, P!token_received_rest, Parser!TokenIn,
       P!TokenIn, Parser!Uint8, P!Uint8, Parser!route_skip, P!route_skip,
       Parser!PoolCoin, P!PoolCoin

(* The transactions the parser is meant for.                               *)
LEMMA SameSupported ==
  ASSUME NEW t
  PROVE  Parser!Supported(t) <=> P!Supported(t)
BY
   DEF Parser!Supported, P!Supported, Parser!MaxHops, P!MaxHops

(* What it left untouched and what it read, before and after a step.       *)
LEMMA SameParsing ==
  /\ Parser!Unwritten <=> P!Unwritten
  /\ Parser!Unwritten' <=> P!Unwritten'
  /\ Parser!ParsedSoFar <=> P!ParsedSoFar
  /\ Parser!ParsedSoFar' <=> P!ParsedSoFar'
BY
   DEF Parser!Unwritten, P!Unwritten, Parser!ParsedSoFar, P!ParsedSoFar,
       Parser!FunctionFound, P!FunctionFound, Parser!Cursor, P!Cursor,
       Parser!FixedCursor, P!FixedCursor,
       Parser!SentSoFar, P!SentSoFar, Parser!ReceivedSoFar, P!ReceivedSoFar,
       Parser!AmountsSoFar, P!AmountsSoFar, Parser!CursorDeposit,
       P!CursorDeposit, Parser!CursorAmountAndMin, P!CursorAmountAndMin,
       Parser!CursorMint, P!CursorMint, Parser!CursorPool, P!CursorPool,
       Parser!CursorRouter, P!CursorRouter, Parser!CursorPath, P!CursorPath,
       Parser!TokenWord, P!TokenWord, Parser!CursorSingle, P!CursorSingle,
       Parser!CursorFlipper, P!CursorFlipper, Parser!CursorWrap, P!CursorWrap,
       Parser!SentWord, P!SentWord, Parser!Expecting, P!Expecting

(* The word and the length of the path by which a copy runs away.          *)
LEMMA SameOverrun ==
  /\ Parser!Overrun <=> P!Overrun
  /\ Parser!Overrun' <=> P!Overrun'
  /\ Parser!HeadWord(tx) = P!HeadWord(tx)
  /\ Parser!HeadWord(tx') = P!HeadWord(tx')
  /\ Parser!PathNumber(tx) = P!PathNumber(tx)
  /\ Parser!PathNumber(tx') = P!PathNumber(tx')
BY DEF Parser!Overrun, P!Overrun, Parser!HeadWord, P!HeadWord,
       Parser!PathNumber, P!PathNumber, Parser!path_skip, P!path_skip,
       Parser!Backwards, P!Backwards, Parser!Runaway, P!Runaway,
       Parser!Uint8, P!Uint8

(* What it read of any calldata at all, before and after a step.           *)
LEMMA SameAnySoFar ==
  /\ Parser!AnySoFar <=> P!AnySoFar
  /\ Parser!AnySoFar' <=> P!AnySoFar'
<1>1. /\ Parser!FunctionFound <=> P!FunctionFound
      /\ Parser!FunctionFound' <=> P!FunctionFound'
  BY DEF Parser!FunctionFound, P!FunctionFound
<1>2. /\ Parser!FixedCursor <=> P!FixedCursor
      /\ Parser!FixedCursor' <=> P!FixedCursor'
  BY DEF Parser!FixedCursor, P!FixedCursor, Parser!CursorDeposit,
         P!CursorDeposit, Parser!CursorAmountAndMin, P!CursorAmountAndMin,
         Parser!CursorMint, P!CursorMint, Parser!CursorPool, P!CursorPool,
         Parser!CursorSingle, P!CursorSingle, Parser!CursorFlipper,
         P!CursorFlipper, Parser!CursorWrap, P!CursorWrap, Parser!Expecting,
         P!Expecting
<1>3. /\ Parser!CursorAnyRoute <=> P!CursorAnyRoute
      /\ Parser!CursorAnyRoute' <=> P!CursorAnyRoute'
  BY DEF Parser!CursorAnyRoute, P!CursorAnyRoute, Parser!EndSeen, P!EndSeen,
         Parser!RouteWrap, P!RouteWrap, Parser!Uint8, P!Uint8,
         Parser!Expecting, P!Expecting
<1>4. /\ \A k, n : Parser!CursorPath(k, n) <=> P!CursorPath(k, n)
      /\ \A k, n : Parser!CursorPath(k, n)' <=> P!CursorPath(k, n)'
  BY DEF Parser!CursorPath, P!CursorPath, Parser!Expecting, P!Expecting
<1>5. /\ Parser!AmountsInPlace <=> P!AmountsInPlace
      /\ Parser!AmountsInPlace' <=> P!AmountsInPlace'
  BY DEF Parser!AmountsInPlace, P!AmountsInPlace, Parser!RouteLost,
         P!RouteLost, Parser!RouteWrap, P!RouteWrap, Parser!ReadWord,
         P!ReadWord
<1> QED BY <1>1, <1>2, <1>3, <1>4, <1>5, SameOverrun
        DEF Parser!AnySoFar, P!AnySoFar, Parser!AnyCursor, P!AnyCursor

(* The messages of the review, and its invariant.                          *)
LEMMA SameMessages ==
  /\ Screens!handle_finalize <=> S!handle_finalize
  /\ Screens!handle_query_contract_id <=> S!handle_query_contract_id
  /\ \A item1, item2 : Screens!handle_provide_token(item1, item2)
                         <=> S!handle_provide_token(item1, item2)
BY
   DEF Screens!handle_finalize, S!handle_finalize,
       Screens!handle_query_contract_id, S!handle_query_contract_id,
       Screens!handle_provide_token, S!handle_provide_token,
       Screens!numScreens, S!numScreens, Screens!finalize_received,
       S!finalize_received, Screens!finalize_sent, S!finalize_sent,
       Screens!ID, S!ID, Screens!operation, S!operation, Screens!Answers,
       S!Answers, Screens!provide_received, S!provide_received,
       Screens!provide_sent, S!provide_sent, Screens!additionalScreens,
       S!additionalScreens, Screens!UniswapScreens, S!UniswapScreens,
       Screens!WrapScreens, S!WrapScreens, Screens!received_network_token,
       S!received_network_token, Screens!sent_network_token,
       S!sent_network_token, Screens!known_decimals, S!known_decimals,
       Screens!Missing, S!Missing

(* What a lookup answers is what the token list knows, or nothing.         *)
LEMMA SameAnswers ==
  ASSUME NEW item1, NEW item2, Screens!handle_provide_token(item1, item2)
  PROVE  items'[SENT] = item1 /\ items'[RECEIVED] = item2
BY DEF Screens!handle_provide_token

(* A query of a screen.                                                    *)
LEMMA SameQuery ==
  ASSUME NEW i
  PROVE  Screens!handle_query_contract_ui(i) <=> S!handle_query_contract_ui(i)
BY
   DEF Screens!handle_query_contract_ui, S!handle_query_contract_ui,
       Screens!show_send, S!show_send, Screens!show_receive, S!show_receive,
       Screens!show_beneficiary, S!show_beneficiary, Screens!show_warning,
       S!show_warning, Screens!set_send_ui, S!set_send_ui, Screens!get_screen,
       S!get_screen, Screens!ShowAmount, S!ShowAmount, Screens!set_receive_ui,
       S!set_receive_ui, Screens!send_ticker, S!send_ticker,
       Screens!ui_decimals, S!ui_decimals, Screens!amount_length,
       S!amount_length, Screens!CopiesValue, S!CopiesValue, Screens!NumberIn,
       S!NumberIn, Screens!handle_query_ui_exception,
       S!handle_query_ui_exception, Screens!receive_ticker, S!receive_ticker,
       Screens!address_ticker, S!address_ticker, Screens!stored_length,
       S!stored_length, Screens!Misread, S!Misread

(* What the context holds during the review, before and after a step.      *)
LEMMA SameInReview ==
  (Screens!InReview <=> S!InReview) /\ (Screens!InReview' <=> S!InReview')
<1>1. /\ Screens!DecodedFields <=> S!DecodedFields
      /\ Screens!DecodedFields' <=> S!DecodedFields'
  BY DEF Screens!DecodedFields, S!DecodedFields, Screens!FunctionOf,
         S!FunctionOf
<1>2. /\ Screens!AmountsKept <=> S!AmountsKept
      /\ Screens!AmountsKept' <=> S!AmountsKept'
  BY DEF Screens!AmountsKept, S!AmountsKept
<1>3. /\ Screens!TokenField = S!TokenField
      /\ Screens!TokenField' = S!TokenField'
  BY DEF Screens!TokenField, S!TokenField, Screens!Fields, S!Fields
<1>4. /\ Screens!NothingLookedUp <=> S!NothingLookedUp
      /\ Screens!NothingLookedUp' <=> S!NothingLookedUp'
  BY <1>3 DEF Screens!NothingLookedUp, S!NothingLookedUp, Screens!NoItems,
              S!NoItems, Screens!NothingShown, S!NothingShown, Screens!ID,
              S!ID, Screens!Blank, S!Blank, Screens!MaxScreens, S!MaxScreens,
              Screens!numScreens, S!numScreens, Screens!UniswapScreens,
              S!UniswapScreens, Screens!WrapScreens, S!WrapScreens
<1>5. /\ Screens!TokensSettled <=> S!TokensSettled
      /\ Screens!TokensSettled' <=> S!TokensSettled'
  BY <1>3 DEF Screens!TokensSettled, S!TokensSettled, Screens!send_ticker,
              S!send_ticker, Screens!ui_decimals, S!ui_decimals,
              Screens!receive_ticker, S!receive_ticker,
              Screens!address_ticker, S!address_ticker
<1>6. Screens!Expected = S!Expected /\ Screens!Expected' = S!Expected'
  BY DEF Screens!Expected, S!Expected
<1>7. /\ \A i : Screens!ToldAt(i) = S!ToldAt(i)
      /\ \A i : Screens!ToldAt(i)' = S!ToldAt(i)'
  BY <1>6 DEF Screens!ToldAt, S!ToldAt, Screens!KnownWrong, S!KnownWrong
<1>8. /\ Screens!ShownSoFar <=> S!ShownSoFar
      /\ Screens!ShownSoFar' <=> S!ShownSoFar'
  BY <1>6, <1>7
     DEF Screens!ShownSoFar, S!ShownSoFar, Screens!TooLong, S!TooLong,
         Screens!FunctionOf, S!FunctionOf, Screens!operation, S!operation,
         Screens!ID, S!ID, Screens!Blank, S!Blank, Screens!MaxScreens,
         S!MaxScreens
<1> QED
  BY <1>1, <1>2, <1>4, <1>5, <1>6, <1>8 DEF Screens!InReview, S!InReview

(* Between two messages neither component's part of the invariant changes. *)
LEMMA SameParsingKept ==
  ASSUME UNCHANGED << tx, pos, ctx >>
  PROVE  /\ Parser!Unwritten' <=> Parser!Unwritten
         /\ Parser!ParsedSoFar' <=> Parser!ParsedSoFar
         /\ Parser!Supported(tx') <=> Parser!Supported(tx)
BY
   DEF Parser!Unwritten, Parser!ParsedSoFar, Parser!FunctionFound,
       Parser!Cursor, Parser!FixedCursor, Parser!SentSoFar, Parser!ReceivedSoFar,
       Parser!AmountsSoFar, Parser!CursorDeposit, Parser!CursorAmountAndMin,
       Parser!CursorMint, Parser!CursorPool, Parser!CursorRouter,
       Parser!CursorPath, Parser!TokenWord, Parser!CursorSingle,
       Parser!CursorFlipper, Parser!CursorWrap, Parser!SentWord,
       Parser!Expecting

(* Likewise for any calldata.                                              *)
LEMMA SameAnyKept ==
  ASSUME UNCHANGED << tx, pos, ctx >>
  PROVE  /\ Parser!AnySoFar' <=> Parser!AnySoFar
         /\ Parser!FunctionFound' <=> Parser!FunctionFound
         /\ Parser!AmountsInPlace' <=> Parser!AmountsInPlace
         /\ Parser!Overrun' <=> Parser!Overrun
<1>1. Parser!FunctionFound' <=> Parser!FunctionFound
  BY DEF Parser!FunctionFound
<1>2. Parser!AnyCursor' <=> Parser!AnyCursor
  BY DEF Parser!AnyCursor, Parser!FixedCursor, Parser!CursorDeposit,
         Parser!CursorAmountAndMin, Parser!CursorMint, Parser!CursorPool,
         Parser!CursorSingle, Parser!CursorFlipper, Parser!CursorWrap,
         Parser!CursorAnyRoute, Parser!EndSeen, Parser!CursorPath,
         Parser!HeadWord, Parser!PathNumber, Parser!Expecting
<1>3. Parser!AmountsInPlace' <=> Parser!AmountsInPlace
  BY DEF Parser!AmountsInPlace, Parser!RouteLost, Parser!ReadWord
<1>4. Parser!Overrun' <=> Parser!Overrun
  BY DEF Parser!Overrun, Parser!HeadWord, Parser!PathNumber
<1> QED BY <1>1, <1>2, <1>3, <1>4 DEF Parser!AnySoFar

(* The review's part, which looks at the screens and the tokens too.        *)
LEMMA SameInReviewKept ==
  ASSUME UNCHANGED << tx, pos, ctx, stage, result, screens, lookup, items, shown >>
  PROVE  Screens!InReview' <=> Screens!InReview
<1>1. Screens!DecodedFields' <=> Screens!DecodedFields
  BY DEF Screens!DecodedFields, Screens!FunctionOf
<1>2. Screens!AmountsKept' <=> Screens!AmountsKept
  BY DEF Screens!AmountsKept
<1>3. Screens!TokenField' = Screens!TokenField
  BY DEF Screens!TokenField, Screens!Fields
<1>4. Screens!NothingLookedUp' <=> Screens!NothingLookedUp
  BY <1>3 DEF Screens!NothingLookedUp, Screens!NoItems, Screens!NothingShown,
              Screens!numScreens, Screens!UniswapScreens, Screens!WrapScreens,
              Screens!ID, Screens!Blank, Screens!MaxScreens
<1>5. Screens!TokensSettled' <=> Screens!TokensSettled
  BY <1>3 DEF Screens!TokensSettled, Screens!send_ticker, Screens!ui_decimals,
              Screens!receive_ticker, Screens!address_ticker
<1>6. Screens!Expected' = Screens!Expected
  BY DEF Screens!Expected
<1>7. \A i : Screens!ToldAt(i)' = Screens!ToldAt(i)
  BY <1>6 DEF Screens!ToldAt, Screens!KnownWrong
<1>8. Screens!ShownSoFar' <=> Screens!ShownSoFar
  BY <1>6, <1>7 DEF Screens!ShownSoFar, Screens!TooLong, Screens!FunctionOf,
                    Screens!ID, Screens!Blank, Screens!operation,
                    Screens!MaxScreens
<1> QED
  BY <1>1, <1>2, <1>4, <1>5, <1>6, <1>8 DEF Screens!InReview

---------------------------------------------------------------------------
(* The amounts of any transaction, in the session's terms. *)

(* The function found tells the deposits and the flippers apart.           *)
LEMMA FoundFunction ==
  ASSUME Parser!FunctionFound
  PROVE  /\ ctx.selectorIndex = "ZAPPER_DEPOSIT_ETH"
               <=> tx.selector = ZAPPER_DEPOSIT_ETH_SELECTOR
         /\ ctx.selectorIndex \in S!FlipperBuys \cup S!FlipperSells
               <=> tx.selector \in FlipperSelectors
         /\ tx.selector = ZAPPER_DEPOSIT_ETH_SELECTOR =>
              tx.selector \notin FlipperSelectors
<1>1. PICK i \in 1..17 : /\ tx.selector = Parser!ORIGIN_DEFI_SELECTORS[i]
                         /\ ctx.selectorIndex = Parser!selector_t[i]
  BY DEF Parser!FunctionFound
<1> QED BY <1>1

(* AmountsInPlace, amount by amount.                                       *)
LEMMA InPlace ==
  Parser!AmountsInPlace <=>
    \/ Parser!RouteLost(tx) /\ pos >= Parser!RouteWrap
    \/ /\ \/ tx.selector = ZAPPER_DEPOSIT_ETH_SELECTOR
          \/ ctx.amount_sent = Parser!ReadWord(AmountWord(tx.selector))
       /\ \/ tx.selector = ZAPPER_DEPOSIT_ETH_SELECTOR
          \/ tx.selector \in FlipperSelectors
          \/ ctx.min_amount_received = Parser!ReadWord(MinWord(tx.selector))
       /\ ctx.beneficiary = Parser!ReadWord(RecipientWord(tx.selector)).addr
BY DEF Parser!AmountsInPlace, Parser!ReadWord

(* They stay in place when nothing but a deposit's amounts, or what a      *)
(* flipper gives, is written to.                                           *)
LEMMA InPlaceStays ==
  ASSUME Parser!FunctionFound, Parser!AmountsInPlace, tx' = tx, pos' = pos,
         ctx'.selectorIndex = ctx.selectorIndex,
         ctx'.beneficiary = ctx.beneficiary,
         \/ tx.selector = ZAPPER_DEPOSIT_ETH_SELECTOR
         \/ ctx'.amount_sent = ctx.amount_sent,
         \/ tx.selector = ZAPPER_DEPOSIT_ETH_SELECTOR
         \/ tx.selector \in FlipperSelectors
         \/ ctx'.min_amount_received = ctx.min_amount_received
  PROVE  Parser!FunctionFound' /\ Parser!AmountsInPlace'
<1>1. Parser!FunctionFound'
  BY DEF Parser!FunctionFound
<1>2. Parser!AmountsInPlace'
  BY DEF Parser!AmountsInPlace, Parser!ReadWord, Parser!RouteLost
<1> QED BY <1>1, <1>2

===============================================================================
