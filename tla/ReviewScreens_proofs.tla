------------------------- MODULE ReviewScreens_proofs -------------------------
(***************************************************************************)
(* Theorems about ReviewScreens, for every set of deployed, well-formed    *)
(* transactions, every token list and every choice of amounts that are too *)
(* long to print.                                                          *)
(***************************************************************************)
EXTENDS ReviewScreens, SequenceTheorems, TLAPS

---------------------------------------------------------------------------
(* Type correctness.  It needs no more of a transaction than its type: the *)
(* handlers do not rely on the calldata being well-formed.                 *)

(* The types of what the messages of a review read and write.              *)
Typed ==
  /\ tx \in TransactionType
  /\ ctx \in ContextType
  /\ result \in Result
  /\ screens \in 0..MaxScreens
  /\ stage = "lookup" => screens <= 3
  /\ lookup \in SUBSET {SENT, RECEIVED}
  /\ items \in [{SENT, RECEIVED} -> Item]
  /\ shown \in [ID..(MaxScreens - 1) -> Displays]

(* Constants the source names are of their types.                          *)
LEMMA NamedTickers ==
  /\ {"", "ETH", "OETH", "OUSD", "DAI", "USDC", "USDT", "WOETH", "WOUSD",
      "sfrxETH", "LST MIX", "USD MIX", "UNITS"} \subseteq Ticker
  /\ network_ticker \in Ticker
  /\ KnownTokens \subseteq Ticker
BY TickerAssumption, NetworkTickerAssumption
   DEF SourceTickers, KnownTokens, OETH, OUSD, DAI, USDC, USDT

(* What an empty context and an empty display are.                         *)
LEMMA EmptyTypes ==
  /\ ZeroWord \in Word /\ Misread \in Word
  /\ NULL \in Address
  /\ ZeroContext \in ContextType
  /\ NullItem \in Item /\ NoItems \in [{SENT, RECEIVED} -> Item]
  /\ NothingShown \in [ID..(MaxScreens - 1) -> Displays]
  /\ Blank \in Displays /\ Warning \in Displays
<1>1. ZeroWord \in Word /\ Misread \in Word /\ NULL \in Address
  BY AddressAssumption DEF ZeroWord, Misread, Word, uint16_t
<1>2. ZeroContext \in ContextType
  <2>1. "ZAPPER_DEPOSIT_ETH" \in SelectorIndex
    BY DEF SelectorIndex, selector_t, NUM_SELECTORS
  <2>2. 0 \in uint8_t /\ 0 \in uint16_t /\ {} \in FoundFlags
    BY DEF uint8_t, uint16_t, FoundFlags
  <2> QED BY <1>1, <2>1, <2>2, NamedTickers DEF ZeroContext, ContextType, Parameter
<1>3. NullItem \in Item
  <2>1. 0 \in uint8_t
    BY DEF uint8_t
  <2>2. "" \in Ticker
    BY NamedTickers
  <2> QED BY <2>1, <2>2, Zenon DEF NullItem, Item
<1> QED BY <1>1, <1>2, <1>3 DEF NoItems, NothingShown, Displays

(* Screens a query may show.                                               *)
LEMMA ScreenTypes ==
  /\ \A kind \in {"SEND_SCREEN", "RECEIVE_SCREEN"}, amount \in Word,
        ticker \in Ticker, decimals \in uint8_t :
       AmountScreen(kind, amount, Token(ticker, decimals)) \in Displays
  /\ \A a \in Address : BeneficiaryScreen(a) \in Displays
BY DEF AmountScreen, Token, BeneficiaryScreen, Displays

(* The tickers a query writes.                                             *)
LEMMA TickerTypes ==
  ASSUME NEW c \in ContextType
  PROVE  send_ticker(c) \in Ticker /\ receive_ticker(c) \in Ticker
<1>1. c.ticker_sent \in Ticker /\ c.ticker_received \in Ticker
  BY DEF ContextType
<1>2. \A a : /\ address_ticker(a, c.ticker_sent) \in Ticker
             /\ address_ticker(a, c.ticker_received) \in Ticker
  BY <1>1, NamedTickers DEF address_ticker
<1> QED BY <1>2, NamedTickers DEF send_ticker, receive_ticker

(* The context after a query of an amount.                                 *)
LEMMA UiTypes ==
  ASSUME Typed
  PROVE  set_send_ui(ctx) \in ContextType /\ set_receive_ui(ctx) \in ContextType
<1>1. ctx \in ContextType /\ tx.value \in Word /\ tx.value_length \in 0..PARAMETER_LENGTH
  BY DEF Typed, TransactionType
<1>2. /\ ctx.amount_sent \in Word /\ ctx.min_amount_received \in Word
      /\ ctx.decimals_sent \in uint8_t /\ ctx.decimals_received \in uint8_t
  BY <1>1 DEF ContextType
<1>3. amount_length(ctx) \in uint8_t
  BY <1>1 DEF amount_length, uint8_t, PARAMETER_LENGTH
<1>4. /\ ui_decimals(ctx, ctx.decimals_sent) \in uint8_t
      /\ ui_decimals(ctx, ctx.decimals_received) \in uint8_t
  BY <1>2 DEF ui_decimals, uint8_t, ETHER_DECIMALS
<1>5. set_send_ui(ctx) \in ContextType
  BY <1>1, <1>2, <1>3, <1>4, TickerTypes DEF set_send_ui, ContextType
<1>6. set_receive_ui(ctx) \in ContextType
  BY <1>1, <1>2, <1>3, <1>4, TickerTypes DEF set_receive_ui, ContextType
<1> QED BY <1>5, <1>6

(* The context after a lookup.                                             *)
LEMMA LookupTypes ==
  ASSUME NEW c \in ContextType, NEW item \in Item
  PROVE  /\ finalize_sent(c) \in ContextType
         /\ finalize_received(c) \in ContextType
         /\ provide_sent(c, item) \in ContextType
         /\ provide_received(c, item) \in ContextType
<1>1. /\ c.tokens_found \cup {SENT} \in FoundFlags
      /\ c.tokens_found \cup {RECEIVED} \in FoundFlags
  BY DEF ContextType, FoundFlags
<1>2. /\ ETHER_DECIMALS \in uint8_t
      /\ \A a : known_decimals(a) \in uint8_t
      /\ item.decimals \in uint8_t /\ item.ticker \in Ticker
  BY DEF ETHER_DECIMALS, known_decimals, Item, uint8_t
<1>3. sent_network_token(c) \in ContextType /\ received_network_token(c) \in ContextType
  BY <1>1, <1>2 DEF sent_network_token, received_network_token, ContextType
<1>4. finalize_sent(c) \in ContextType /\ finalize_received(c) \in ContextType
  BY <1>3 DEF finalize_sent, finalize_received
<1>5. provide_sent(c, item) \in ContextType
  BY <1>1, <1>2, <1>3, NamedTickers DEF provide_sent, ContextType
<1>6. provide_received(c, item) \in ContextType
  BY <1>1, <1>2, <1>3, NamedTickers DEF provide_received, ContextType
<1> QED BY <1>4, <1>5, <1>6

(* How many screens are asked for.                                         *)
LEMMA ScreenCounts ==
  /\ \A c : numScreens(c) \in 1..3
  /\ \A c, item1, item2 : additionalScreens(c, item1, item2) \in 0..2
BY DEF numScreens, UniswapScreens, WrapScreens, additionalScreens, Missing

(* handle_finalize keeps the types.                                        *)
LEMMA TypeFinalize ==
  ASSUME Typed, handle_finalize
  PROVE  Typed'
<1>1. ctx' \in ContextType
  <2>1. finalize_sent(ctx) \in ContextType
    BY LookupTypes, EmptyTypes DEF Typed
  <2> QED BY <2>1, LookupTypes, EmptyTypes DEF handle_finalize
<1> QED BY <1>1, ScreenCounts DEF Typed, handle_finalize, Result, MaxScreens

(* So does handle_provide_token, whatever the token list answers.          *)
LEMMA TypeProvideToken ==
  ASSUME Typed, NEW item1, NEW item2, handle_provide_token(item1, item2)
  PROVE  Typed'
<1>1. item1 \in Item /\ item2 \in Item
  BY TokenInfoAssumption, EmptyTypes DEF handle_provide_token, Answers
<1>2. ctx' \in ContextType
  <2>1. provide_sent(ctx, item1) \in ContextType
    BY <1>1, LookupTypes DEF Typed
  <2> QED BY <1>1, <2>1, LookupTypes DEF handle_provide_token
<1>3. screens' \in 0..MaxScreens
  <2>1. screens \in 0..3 /\ screens' = screens + additionalScreens(ctx, item1, item2)
    BY DEF Typed, handle_provide_token
  <2> QED BY <2>1, ScreenCounts DEF MaxScreens
<1>4. items' \in [{SENT, RECEIVED} -> Item]
  BY <1>1 DEF handle_provide_token
<1> QED BY <1>2, <1>3, <1>4 DEF Typed, handle_provide_token, Result

(* So do the queries.                                                      *)
LEMMA TypeQueryId ==
  ASSUME Typed, handle_query_contract_id
  PROVE  Typed'
<1>1. operation(ctx.selectorIndex) \in {"Mint", "Redeem", "Wrap", "Unwrap", "Swap"}
  BY DEF operation
<1>2. [screen |-> "CONTRACT_ID", version |-> operation(ctx.selectorIndex)] \in Displays
  BY <1>1 DEF Displays
<1> QED BY <1>2 DEF Typed, handle_query_contract_id, Result

(* A query of a screen keeps the types.                                    *)
LEMMA TypeQueryUi ==
  ASSUME Typed, NEW i \in 0..(MaxScreens - 1), handle_query_contract_ui(i)
  PROVE  Typed'
<1>0. ctx \in ContextType /\ shown \in [ID..(MaxScreens - 1) -> Displays]
  BY DEF Typed
<1>1. \A c \in ContextType : \A amount \in Word : NumberIn(c, amount) \in Word
  BY EmptyTypes DEF NumberIn
<1>2. ASSUME NEW kind \in {"SEND_SCREEN", "RECEIVE_SCREEN"}, NEW c \in ContextType,
             NEW amount \in Word, NEW ticker \in Ticker, NEW decimals \in uint8_t,
             ShowAmount(i, kind, c, amount, Token(ticker, decimals))
      PROVE  /\ ctx' \in ContextType /\ result' \in Result
             /\ shown' \in [ID..(MaxScreens - 1) -> Displays]
  <2>1. AmountScreen(kind, NumberIn(c, amount), Token(ticker, decimals)) \in Displays
    BY <1>1, ScreenTypes
  <2> QED BY <1>0, <1>2, <2>1
          DEF ShowAmount, handle_query_ui_exception, Result
<1>3. /\ ctx' \in ContextType /\ result' \in Result
      /\ shown' \in [ID..(MaxScreens - 1) -> Displays]
  <2>1. CASE show_send(i)
    <3> DEFINE c == set_send_ui(ctx)
    <3>1. c \in ContextType
      BY UiTypes
    <3> HIDE DEF c
    <3>2. c.amount_sent \in Word /\ c.ticker_sent \in Ticker /\ c.decimals_sent \in uint8_t
      BY <3>1 DEF ContextType
    <3>3. ShowAmount(i, "SEND_SCREEN", c, c.amount_sent,
                     Token(c.ticker_sent, c.decimals_sent))
      BY <2>1 DEF show_send, c
    <3> QED BY <1>2, <3>1, <3>2, <3>3
  <2>2. CASE show_receive(i)
    <3> DEFINE c == set_receive_ui(ctx)
    <3>1. c \in ContextType
      BY UiTypes
    <3> HIDE DEF c
    <3>2. /\ c.min_amount_received \in Word /\ c.ticker_received \in Ticker
          /\ c.decimals_received \in uint8_t
      BY <3>1 DEF ContextType
    <3>3. \/ ShowAmount(i, "RECEIVE_SCREEN", c, c.min_amount_received,
                        Token(c.ticker_received, c.decimals_received))
          \/ ctx' = c /\ result' = "ERROR" /\ UNCHANGED shown
      BY <2>2 DEF show_receive, c
    <3> QED BY <1>0, <1>2, <3>1, <3>2, <3>3 DEF Result
  <2>3. CASE show_beneficiary(i)
    <3>1. BeneficiaryScreen(ctx.beneficiary) \in Displays
      BY <1>0, ScreenTypes DEF ContextType
    <3> QED BY <1>0, <2>3, <3>1 DEF show_beneficiary, Result
  <2>4. CASE show_warning(i)
    BY <1>0, <2>4, EmptyTypes DEF show_warning, Result
  <2> QED BY <2>1, <2>2, <2>3, <2>4 DEF handle_query_contract_ui
<1> QED BY <1>3 DEF Typed, handle_query_contract_ui

(* A query that succeeds puts a screen at its place, whatever the          *)
(* transaction; one that fails shows nothing.                              *)
LEMMA QueryDisplays ==
  ASSUME NEW i, handle_query_contract_ui(i)
  PROVE  \/ result' = "ERROR" /\ shown' = shown
         \/ /\ result' = "OK"
            /\ \E d : d # Blank /\ shown' = [shown EXCEPT ![i] = d]
<1>1. \A d : d.screen # "BLANK" => d # Blank
  BY DEF Blank
<1>2. ASSUME NEW kind \in {"SEND_SCREEN", "RECEIVE_SCREEN"}, NEW c, NEW amount,
             NEW token, ShowAmount(i, kind, c, amount, token)
      PROVE  \/ result' = "ERROR" /\ shown' = shown
             \/ /\ result' = "OK"
                /\ \E d : d # Blank /\ shown' = [shown EXCEPT ![i] = d]
  <2> DEFINE d == AmountScreen(kind, NumberIn(c, amount), token)
  <2>1. d.screen = kind
    BY DEF AmountScreen
  <2> QED BY <1>1, <1>2, <2>1 DEF ShowAmount, handle_query_ui_exception
<1>3. CASE show_send(i)
  BY <1>2, <1>3 DEF show_send
<1>4. CASE show_receive(i)
  BY <1>2, <1>4 DEF show_receive
<1>5. CASE show_beneficiary(i)
  BY <1>1, <1>5 DEF show_beneficiary, BeneficiaryScreen
<1>6. CASE show_warning(i)
  BY <1>1, <1>6 DEF show_warning, Warning
<1> QED BY <1>3, <1>4, <1>5, <1>6 DEF handle_query_contract_ui

(* What the two messages before the screens, and the first screen, leave   *)
(* of the amounts, for any transaction: all of them.                       *)
LEMMA AmountsUntouched ==
  ASSUME ctx \in ContextType,
         \/ handle_finalize
         \/ \E item1, item2 : handle_provide_token(item1, item2)
         \/ handle_query_contract_id
  PROVE  /\ ctx'.selectorIndex = ctx.selectorIndex
         /\ ctx'.beneficiary = ctx.beneficiary
         /\ ctx'.amount_sent = ctx.amount_sent
         /\ ctx'.min_amount_received = ctx.min_amount_received
<1>1. CASE handle_finalize
  BY <1>1 DEF handle_finalize, finalize_sent, finalize_received,
              sent_network_token, received_network_token, ContextType
<1>2. CASE \E item1, item2 : handle_provide_token(item1, item2)
  <2>1. PICK item1, item2 : ctx' = provide_received(provide_sent(ctx, item1), item2)
    BY <1>2 DEF handle_provide_token
  <2> QED BY <2>1 DEF provide_sent, provide_received, sent_network_token,
                      received_network_token, ContextType
<1>3. CASE handle_query_contract_id
  BY <1>3 DEF handle_query_contract_id
<1> QED BY <1>1, <1>2, <1>3

(* What a screen tells of the amounts, and what its query writes to them,  *)
(* for any transaction: a screen is left as it was or shows an amount of   *)
(* the context, the transaction's value for a deposit and the amount taken *)
(* for what a flipper gives.                                               *)
LEMMA QueryAmounts ==
  ASSUME ctx \in ContextType, NEW i, handle_query_contract_ui(i)
  PROVE  LET deposit == ctx.selectorIndex = "ZAPPER_DEPOSIT_ETH"
             flipper == ctx.selectorIndex \in FlipperBuys \cup FlipperSells
         IN  /\ ctx'.selectorIndex = ctx.selectorIndex
             /\ ctx'.beneficiary = ctx.beneficiary
             /\ deposit \/ ctx'.amount_sent = ctx.amount_sent
             /\ \/ deposit
                \/ flipper
                \/ ctx'.min_amount_received = ctx.min_amount_received
             /\ \/ shown' = shown
                \/ \E d :
                     /\ shown' = [shown EXCEPT ![i] = d]
                     /\ d.screen = "SEND_SCREEN" =>
                          d.amount = IF deposit THEN tx.value
                                     ELSE ctx.amount_sent
                     /\ d.screen = "RECEIVE_SCREEN" =>
                          d.amount = IF deposit THEN tx.value
                                     ELSE IF flipper THEN ctx.amount_sent
                                     ELSE ctx.min_amount_received
                     /\ d.screen = "BENEFICIARY_SCREEN" =>
                          d.address = ctx.beneficiary
<1>1. CASE show_send(i)
  <2> DEFINE c == set_send_ui(ctx)
             n == NumberIn(c, c.amount_sent)
             token == Token(c.ticker_sent, c.decimals_sent)
  <2>1. /\ c.selectorIndex = ctx.selectorIndex
        /\ c.beneficiary = ctx.beneficiary
        /\ c.min_amount_received = ctx.min_amount_received
        /\ c.amount_sent = IF ctx.selectorIndex = "ZAPPER_DEPOSIT_ETH"
                             THEN tx.value ELSE ctx.amount_sent
        /\ c.amount_length = amount_length(ctx)
    BY DEF set_send_ui, CopiesValue, ContextType
  <2>2. n = c.amount_sent
    BY <2>1 DEF NumberIn, stored_length, amount_length, CopiesValue
  <2>3. ShowAmount(i, "SEND_SCREEN", c, c.amount_sent, token)
    BY <1>1 DEF show_send
  <2> HIDE DEF c, token
  <2>4. /\ ctx' = c
        /\ \/ shown' = shown
           \/ shown' = [shown EXCEPT ![i] = AmountScreen("SEND_SCREEN", n, token)]
    BY <2>3 DEF ShowAmount, handle_query_ui_exception
  <2>5. /\ AmountScreen("SEND_SCREEN", n, token).screen = "SEND_SCREEN"
        /\ AmountScreen("SEND_SCREEN", n, token).amount = n
    BY DEF AmountScreen
  <2> HIDE DEF n
  <2> QED BY <2>1, <2>2, <2>4, <2>5
<1>2. CASE show_receive(i)
  <2> DEFINE c == set_receive_ui(ctx)
             n == NumberIn(c, c.min_amount_received)
             token == Token(c.ticker_received, c.decimals_received)
  <2>1. /\ c.selectorIndex = ctx.selectorIndex
        /\ c.beneficiary = ctx.beneficiary
        /\ c.amount_sent = ctx.amount_sent
        /\ c.min_amount_received =
             IF ctx.selectorIndex = "ZAPPER_DEPOSIT_ETH" THEN tx.value
             ELSE IF ctx.selectorIndex \in FlipperBuys \cup FlipperSells
               THEN ctx.amount_sent
             ELSE ctx.min_amount_received
        /\ c.amount_length = amount_length(ctx)
    BY DEF set_receive_ui, CopiesValue, ContextType
  <2>2. n = c.min_amount_received
    BY <2>1 DEF NumberIn, stored_length, amount_length, CopiesValue
  <2>3. \/ ShowAmount(i, "RECEIVE_SCREEN", c, c.min_amount_received, token)
        \/ ctx' = c /\ shown' = shown
    BY <1>2 DEF show_receive
  <2> HIDE DEF c, token
  <2>4. /\ ctx' = c
        /\ \/ shown' = shown
           \/ shown' = [shown EXCEPT ![i] = AmountScreen("RECEIVE_SCREEN", n, token)]
    BY <2>3 DEF ShowAmount, handle_query_ui_exception
  <2>5. /\ AmountScreen("RECEIVE_SCREEN", n, token).screen = "RECEIVE_SCREEN"
        /\ AmountScreen("RECEIVE_SCREEN", n, token).amount = n
    BY DEF AmountScreen
  <2> HIDE DEF n
  <2> QED BY <2>1, <2>2, <2>4, <2>5
<1>3. CASE show_beneficiary(i)
  <2>1. /\ BeneficiaryScreen(ctx.beneficiary).screen = "BENEFICIARY_SCREEN"
        /\ BeneficiaryScreen(ctx.beneficiary).address = ctx.beneficiary
    BY DEF BeneficiaryScreen
  <2> QED BY <1>3, <2>1 DEF show_beneficiary
<1>4. CASE show_warning(i)
  <2>1. Warning.screen = "WARN_SCREEN"
    BY DEF Warning
  <2> QED BY <1>4, <2>1 DEF show_warning
<1> QED BY <1>1, <1>2, <1>3, <1>4 DEF handle_query_contract_ui

---------------------------------------------------------------------------
(* The selector table against the enumeration, and the functions' ABI.     *)

(* The transactions a review is about.                                     *)
Reviewable(t) == WellFormed(t) /\ << t.to, t.selector >> \in Deployed

(* A deployed function is in the table, and FunctionOf is the member of    *)
(* the enumeration at its place.                                           *)
LEMMA FunctionFound ==
  ASSUME NEW t, << t.to, t.selector >> \in Deployed
  PROVE  \E i \in 1..NUM_SELECTORS : /\ t.selector = ORIGIN_DEFI_SELECTORS[i]
                                     /\ FunctionOf(t) = selector_t[i]
<1>1. \E i \in 1..NUM_SELECTORS : t.selector = ORIGIN_DEFI_SELECTORS[i]
  BY DEF Deployed, ZapperSelectors, VaultSelectors, FlipperSelectors,
         WrapSelectors, ORIGIN_DEFI_SELECTORS, NUM_SELECTORS
<1>2. (CHOOSE i \in 1..NUM_SELECTORS : ORIGIN_DEFI_SELECTORS[i] = t.selector)
        \in {i \in 1..NUM_SELECTORS : ORIGIN_DEFI_SELECTORS[i] = t.selector}
  BY <1>1
<1> QED BY <1>2 DEF FunctionOf

(* Which function is which.                                                *)
LEMMA FunctionNames ==
  ASSUME NEW t, << t.to, t.selector >> \in Deployed
  PROVE  LET f == FunctionOf(t)
             s == t.selector
         IN  /\ f = "ZAPPER_DEPOSIT_ETH" <=> s = ZAPPER_DEPOSIT_ETH_SELECTOR
             /\ f = "ZAPPER_DEPOSIT_SFRXETH" <=> s = ZAPPER_DEPOSIT_SFRXETH_SELECTOR
             /\ f = "VAULT_MINT" <=> s = VAULT_MINT_SELECTOR
             /\ f = "VAULT_REDEEM" <=> s = VAULT_REDEEM_SELECTOR
             /\ f = "FLIPPER_BUY_OUSD_WITH_USDT"
                  <=> s = FLIPPER_BUY_OUSD_WITH_USDT_SELECTOR
             /\ f = "FLIPPER_BUY_OUSD_WITH_DAI"
                  <=> s = FLIPPER_BUY_OUSD_WITH_DAI_SELECTOR
             /\ f = "FLIPPER_BUY_OUSD_WITH_USDC"
                  <=> s = FLIPPER_BUY_OUSD_WITH_USDC_SELECTOR
             /\ f = "FLIPPER_SELL_OUSD_FOR_USDT"
                  <=> s = FLIPPER_SELL_OUSD_FOR_USDT_SELECTOR
             /\ f = "FLIPPER_SELL_OUSD_FOR_DAI"
                  <=> s = FLIPPER_SELL_OUSD_FOR_DAI_SELECTOR
             /\ f = "FLIPPER_SELL_OUSD_FOR_USDC"
                  <=> s = FLIPPER_SELL_OUSD_FOR_USDC_SELECTOR
             /\ f = "WRAP" <=> s = WRAP_SELECTOR
             /\ f = "UNWRAP" <=> s = UNWRAP_SELECTOR
             /\ f \in UniswapFunctions
                  <=> s \in {UNISWAP_ROUTER_EXACT_INPUT_SELECTOR,
                             UNISWAP_ROUTER_EXACT_INPUT_SINGLE_SELECTOR}
<1>1. PICK i \in 1..NUM_SELECTORS : /\ t.selector = ORIGIN_DEFI_SELECTORS[i]
                                    /\ FunctionOf(t) = selector_t[i]
  BY FunctionFound
<1> QED BY <1>1 DEF NUM_SELECTORS, ORIGIN_DEFI_SELECTORS, selector_t, UniswapFunctions,
       ZAPPER_DEPOSIT_ETH_SELECTOR, ZAPPER_DEPOSIT_SFRXETH_SELECTOR,
       VAULT_MINT_SELECTOR, VAULT_REDEEM_SELECTOR,
       CURVE_POOL_EXCHANGE_SELECTOR, CURVE_POOL_EXCHANGE_UNDERLYING_SELECTOR,
       CURVE_ROUTER_EXCHANGE_MULTIPLE_SELECTOR,
       UNISWAP_ROUTER_EXACT_INPUT_SELECTOR,
       UNISWAP_ROUTER_EXACT_INPUT_SINGLE_SELECTOR,
       FLIPPER_BUY_OUSD_WITH_USDT_SELECTOR, FLIPPER_SELL_OUSD_FOR_USDT_SELECTOR,
       FLIPPER_BUY_OUSD_WITH_DAI_SELECTOR, FLIPPER_SELL_OUSD_FOR_DAI_SELECTOR,
       FLIPPER_BUY_OUSD_WITH_USDC_SELECTOR, FLIPPER_SELL_OUSD_FOR_USDC_SELECTOR,
       WRAP_SELECTOR, UNWRAP_SELECTOR

(* The groups of functions, and what their ABI has to say.                 *)
LEMMA FunctionGroups ==
  ASSUME NEW t, << t.to, t.selector >> \in Deployed
  PROVE  LET f == FunctionOf(t)
             s == t.selector
         IN  /\ f \in WrapFunctions <=> s \in WrapSelectors
             /\ f \in FlipperBuys <=> s \in FlipperBuySelectors
             /\ f \in FlipperSells <=> s \in FlipperSelectors \ FlipperBuySelectors
             /\ f \in FlipperBuys \cup FlipperSells <=> s \in FlipperSelectors
             /\ RecipientWord(s) # 0
                  <=> f \in UniswapFunctions \/ f \in WrapFunctions
             /\ s \in {ZAPPER_DEPOSIT_ETH_SELECTOR, ZAPPER_DEPOSIT_SFRXETH_SELECTOR,
                       VAULT_REDEEM_SELECTOR} \cup FlipperSelectors \cup WrapSelectors
                  => SentOf(t) = NULL /\ ReceivedOf(t) = NULL
             /\ s = VAULT_MINT_SELECTOR => ReceivedOf(t) = NULL
<1>1. PICK i \in 1..NUM_SELECTORS : /\ t.selector = ORIGIN_DEFI_SELECTORS[i]
                                    /\ FunctionOf(t) = selector_t[i]
  BY FunctionFound
<1> USE DEF NUM_SELECTORS, ORIGIN_DEFI_SELECTORS, selector_t,
       ZAPPER_DEPOSIT_ETH_SELECTOR, ZAPPER_DEPOSIT_SFRXETH_SELECTOR,
       VAULT_MINT_SELECTOR, VAULT_REDEEM_SELECTOR,
       CURVE_POOL_EXCHANGE_SELECTOR, CURVE_POOL_EXCHANGE_UNDERLYING_SELECTOR,
       CURVE_ROUTER_EXCHANGE_MULTIPLE_SELECTOR,
       UNISWAP_ROUTER_EXACT_INPUT_SELECTOR,
       UNISWAP_ROUTER_EXACT_INPUT_SINGLE_SELECTOR,
       FLIPPER_BUY_OUSD_WITH_USDT_SELECTOR, FLIPPER_SELL_OUSD_FOR_USDT_SELECTOR,
       FLIPPER_BUY_OUSD_WITH_DAI_SELECTOR, FLIPPER_SELL_OUSD_FOR_DAI_SELECTOR,
       FLIPPER_BUY_OUSD_WITH_USDC_SELECTOR, FLIPPER_SELL_OUSD_FOR_USDC_SELECTOR,
       WRAP_SELECTOR, UNWRAP_SELECTOR, WrapSelectors, FlipperSelectors
<1>2. /\ FunctionOf(t) \in WrapFunctions <=> t.selector \in WrapSelectors
      /\ FunctionOf(t) \in FlipperBuys <=> t.selector \in FlipperBuySelectors
      /\ FunctionOf(t) \in FlipperSells
           <=> t.selector \in FlipperSelectors \ FlipperBuySelectors
  BY <1>1 DEF WrapFunctions, FlipperBuys, FlipperSells, FlipperBuySelectors
<1>3. FunctionOf(t) \in FlipperBuys \cup FlipperSells <=> t.selector \in FlipperSelectors
  BY <1>1 DEF FlipperBuys, FlipperSells
<1>4. RecipientWord(t.selector) # 0
        <=> FunctionOf(t) \in UniswapFunctions \/ FunctionOf(t) \in WrapFunctions
  BY <1>1 DEF RecipientWord, UniswapFunctions, WrapFunctions
<1>5. /\ t.selector \in {ZAPPER_DEPOSIT_ETH_SELECTOR, ZAPPER_DEPOSIT_SFRXETH_SELECTOR,
                         VAULT_REDEEM_SELECTOR} \cup FlipperSelectors \cup WrapSelectors
           => SentOf(t) = NULL /\ ReceivedOf(t) = NULL
      /\ t.selector = VAULT_MINT_SELECTOR => ReceivedOf(t) = NULL
  BY DEF SentOf, ReceivedOf, PoolSelectors
<1> QED BY <1>2, <1>3, <1>4, <1>5

---------------------------------------------------------------------------
(* The review, laid out by index.                                          *)

(* Two parts, one behind the other.                                        *)
LEMMA Joined ==
  ASSUME NEW S, NEW s1 \in Seq(S), NEW s2 \in Seq(S)
  PROVE  /\ s1 \o s2 \in Seq(S)
         /\ Len(s1 \o s2) = Len(s1) + Len(s2)
         /\ \A i \in 1..Len(s1) : (s1 \o s2)[i] = s1[i]
         /\ \A i \in 1..Len(s2) : (s1 \o s2)[Len(s1) + i] = s2[i]
<1>1. /\ s1 \o s2 \in Seq(S) /\ Len(s1 \o s2) = Len(s1) + Len(s2)
      /\ \A i \in 1..Len(s1) + Len(s2) :
           (s1 \o s2)[i] = IF i <= Len(s1) THEN s1[i] ELSE s2[i - Len(s1)]
  BY ConcatProperties
<1>2. Len(s1) \in Nat /\ Len(s2) \in Nat
  OBVIOUS
<1>3. ASSUME NEW i \in 1..Len(s1)
      PROVE  (s1 \o s2)[i] = s1[i]
  <2>1. i \in 1..Len(s1) + Len(s2) /\ i <= Len(s1)
    BY <1>2
  <2> QED BY <1>1, <2>1
<1>4. ASSUME NEW i \in 1..Len(s2)
      PROVE  (s1 \o s2)[Len(s1) + i] = s2[i]
  <2>1. /\ Len(s1) + i \in 1..Len(s1) + Len(s2) /\ ~(Len(s1) + i <= Len(s1))
        /\ (Len(s1) + i) - Len(s1) = i
    BY <1>2
  <2> QED BY <1>1, <2>1
<1> QED BY <1>1, <1>3, <1>4

(* A part of it that warns or does not.                                    *)
LEMMA WarningsLayout ==
  ASSUME NEW S, Warning \in S, NEW a, NEW item
  PROVE  /\ Warnings(a, item) \in Seq(S)
         /\ Len(Warnings(a, item)) = IF IsUnknown(a, item) THEN 1 ELSE 0
         /\ IsUnknown(a, item) => Warnings(a, item)[1] = Warning
BY DEF Warnings

SendScreen(t, item) == AmountScreen("SEND_SCREEN", Spent(t), TokenSent(t, item))
ReceiveScreen(t, item) ==
  AmountScreen("RECEIVE_SCREEN", AtLeast(t), TokenReceived(t, item))
Warned(a, item) == IF IsUnknown(a, item) THEN 1 ELSE 0
NamesRecipient(t) == RecipientWord(t.selector) # 0 /\ RecipientOf(t) # t.from

(* Where each screen of the review stands.                                 *)
LEMMA ReviewJoined ==
  ASSUME NEW t, NEW item1, NEW item2
  PROVE  LET review == ReviewOf(t, item1, item2)
             u == Warned(SentOf(t), item1)
             v == Warned(ReceivedOf(t), item2)
         IN  /\ review \in Seq({Warning, SendScreen(t, item1),
                                ReceiveScreen(t, item2),
                                BeneficiaryScreen(RecipientOf(t))})
             /\ Len(review) = 1 + u
                              + (IF t.selector \in WrapSelectors THEN 0 ELSE v + 1)
                              + (IF NamesRecipient(t) THEN 1 ELSE 0)
             /\ u = 1 => review[1] = Warning
             /\ review[u + 1] = SendScreen(t, item1)
             /\ t.selector \notin WrapSelectors =>
                  /\ v = 1 => review[u + 2] = Warning
                  /\ review[u + v + 2] = ReceiveScreen(t, item2)
             /\ NamesRecipient(t) =>
                  review[Len(review)] = BeneficiaryScreen(RecipientOf(t))
<1> DEFINE u == Warned(SentOf(t), item1)
           v == Warned(ReceivedOf(t), item2)
           send == SendScreen(t, item1)
           receive == ReceiveScreen(t, item2)
           recipient == BeneficiaryScreen(RecipientOf(t))
           S == {Warning, send, receive, recipient}
           warn1 == Warnings(SentOf(t), item1)
           warn2 == Warnings(ReceivedOf(t), item2)
           wrap == t.selector \in WrapSelectors
           part1 == warn1 \o << send >>
           part2 == IF wrap THEN << >> ELSE warn2 \o << receive >>
           part3 == IF NamesRecipient(t) THEN << recipient >> ELSE << >>
<1>1. /\ << send >> \in Seq(S) /\ Len(<< send >>) = 1 /\ << send >>[1] = send
      /\ << receive >> \in Seq(S) /\ Len(<< receive >>) = 1
      /\ << receive >>[1] = receive
      /\ << recipient >> \in Seq(S) /\ Len(<< recipient >>) = 1
      /\ << recipient >>[1] = recipient
      /\ << >> \in Seq(S) /\ Len(<< >>) = 0
  OBVIOUS
<1>2. /\ warn1 \in Seq(S) /\ Len(warn1) = u /\ (u = 1 => warn1[1] = Warning)
      /\ warn2 \in Seq(S) /\ Len(warn2) = v /\ (v = 1 => warn2[1] = Warning)
      /\ u \in {0, 1} /\ v \in {0, 1}
  BY WarningsLayout DEF Warned
<1>3. ReviewOf(t, item1, item2) = part1 \o part2 \o part3
  BY DEF ReviewOf, SendScreen, ReceiveScreen, NamesRecipient
<1> HIDE DEF u, v, send, receive, recipient, S, warn1, warn2
<1>4. /\ part1 \in Seq(S) /\ Len(part1) = u + 1
      /\ u = 1 => part1[1] = Warning
      /\ part1[u + 1] = send
  BY <1>1, <1>2, ConcatProperties
<1>5. /\ part2 \in Seq(S) /\ Len(part2) = (IF wrap THEN 0 ELSE v + 1)
      /\ ~wrap => (v = 1 => part2[1] = Warning) /\ part2[v + 1] = receive
  BY <1>1, <1>2, ConcatProperties
<1>6. /\ part3 \in Seq(S) /\ Len(part3) = (IF NamesRecipient(t) THEN 1 ELSE 0)
      /\ NamesRecipient(t) => part3[1] = recipient
  BY <1>1
<1> HIDE DEF part1, part2, part3
<1> DEFINE part12 == part1 \o part2
           review == part12 \o part3
<1>7. /\ part12 \in Seq(S) /\ Len(part12) = u + 1 + Len(part2)
      /\ u = 1 => part12[1] = Warning
      /\ part12[u + 1] = send
      /\ ~wrap => /\ v = 1 => part12[u + 2] = Warning
                  /\ part12[u + v + 2] = receive
  <2>1. /\ part12 \in Seq(S) /\ Len(part12) = Len(part1) + Len(part2)
        /\ \A i \in 1..Len(part1) : part12[i] = part1[i]
        /\ \A i \in 1..Len(part2) : part12[Len(part1) + i] = part2[i]
    <3>1. part1 \in Seq(S) /\ part2 \in Seq(S)
      BY <1>4, <1>5
    <3> QED BY <3>1, Joined
  <2> HIDE DEF part12
  <2>2. 1 \in 1..Len(part1) /\ u + 1 \in 1..Len(part1)
    BY <1>2, <1>4
  <2>3. ~wrap => /\ 1 \in 1..Len(part2) /\ v + 1 \in 1..Len(part2)
                 /\ Len(part1) + 1 = u + 2 /\ Len(part1) + (v + 1) = u + v + 2
    BY <1>2, <1>4, <1>5
  <2>4. ~wrap => /\ part12[u + 2] = part2[1]
                 /\ part12[u + v + 2] = part2[v + 1]
    BY <2>1, <2>3
  <2> QED BY <1>4, <1>5, <2>1, <2>2, <2>4
<1> HIDE DEF part12
<1>8. /\ review \in Seq(S)
      /\ Len(review) = Len(part12) + Len(part3)
      /\ \A i \in 1..Len(part12) : review[i] = part12[i]
      /\ NamesRecipient(t) => review[Len(part12) + 1] = part3[1]
  <2>1. /\ review \in Seq(S)
        /\ Len(review) = Len(part12) + Len(part3)
        /\ \A i \in 1..Len(part12) : review[i] = part12[i]
        /\ \A i \in 1..Len(part3) : review[Len(part12) + i] = part3[i]
    BY <1>6, <1>7, Joined
  <2> HIDE DEF review
  <2> QED BY <1>6, <2>1
<1> HIDE DEF review
<1>9. /\ u = 1 => review[1] = Warning
      /\ review[u + 1] = send
      /\ ~wrap => /\ v = 1 => review[u + 2] = Warning
                  /\ review[u + v + 2] = receive
      /\ NamesRecipient(t) => review[Len(review)] = recipient
  BY <1>2, <1>5, <1>6, <1>7, <1>8
<1>10. Len(review) = 1 + u + (IF wrap THEN 0 ELSE v + 1)
                       + (IF NamesRecipient(t) THEN 1 ELSE 0)
  BY <1>2, <1>5, <1>6, <1>7, <1>8
<1>11. ReviewOf(t, item1, item2) = review
  BY <1>3 DEF part12, review
<1> QED
  BY <1>8, <1>9, <1>10, <1>11 DEF u, v, send, receive, recipient, S

(* A review is a sequence.                                                 *)
LEMMA ReviewSequence ==
  ASSUME NEW t, NEW item1, NEW item2
  PROVE  LET review == ReviewOf(t, item1, item2)
         IN  Len(review) \in Nat /\ review = [i \in 1..Len(review) |-> review[i]]
<1> DEFINE review == ReviewOf(t, item1, item2)
<1>1. \E D : review \in Seq(D)
  BY ReviewJoined
<1> HIDE DEF review
<1>2. Len(review) \in Nat /\ review = [i \in 1..Len(review) |-> review[i]]
  BY <1>1
<1> QED BY <1>2 DEF review

(* Where the screens of a review are.                                      *)
LEMMA ReviewLayout ==
  ASSUME NEW t, NEW item1, NEW item2
  PROVE  LET review == ReviewOf(t, item1, item2)
             u == Warned(SentOf(t), item1)
             v == Warned(ReceivedOf(t), item2)
         IN  /\ Len(review) = 1 + u
                              + (IF t.selector \in WrapSelectors THEN 0 ELSE v + 1)
                              + (IF NamesRecipient(t) THEN 1 ELSE 0)
             /\ u = 1 => review[1] = Warning
             /\ review[u + 1] = SendScreen(t, item1)
             /\ t.selector \notin WrapSelectors =>
                  /\ v = 1 => review[u + 2] = Warning
                  /\ review[u + v + 2] = ReceiveScreen(t, item2)
             /\ NamesRecipient(t) =>
                  review[Len(review)] = BeneficiaryScreen(RecipientOf(t))
BY ReviewJoined

(* What the parts of the review mean for the two tokens and the functions. *)
LEMMA LayoutFacts ==
  ASSUME NEW t, << t.to, t.selector >> \in Deployed, NEW item1, NEW item2
  PROVE  /\ Warned(SentOf(t), item1) \in {0, 1}
         /\ Warned(ReceivedOf(t), item2) \in {0, 1}
         /\ t.selector \in WrapSelectors =>
              Warned(SentOf(t), item1) = 0 /\ Warned(ReceivedOf(t), item2) = 0
         /\ NamesRecipient(t) <=> /\ RecipientOf(t) # t.from
                                  /\ \/ FunctionOf(t) \in UniswapFunctions
                                     \/ FunctionOf(t) \in WrapFunctions
BY FunctionGroups DEF Warned, IsUnknown, NamesRecipient

(* The number of screens the two handlers add up is that of the review.    *)
LEMMA ScreensCounted ==
  ASSUME << tx.to, tx.selector >> \in Deployed, DecodedFields, NEW item1, NEW item2
  PROVE  numScreens(ctx) + additionalScreens(ctx, item1, item2)
           = Len(ReviewOf(tx, item1, item2))
<1> DEFINE u == Warned(SentOf(tx), item1)
           v == Warned(ReceivedOf(tx), item2)
<1>1. additionalScreens(ctx, item1, item2) = u + v
  <2>1. ctx.selectorIndex = "VAULT_REDEEM" => ReceivedOf(tx) = NULL
    BY FunctionNames, FunctionGroups DEF DecodedFields
  <2>2. /\ Missing(ctx.contract_address_sent, item1) = u
        /\ Missing(ctx.contract_address_received, item2) = v
    BY DEF DecodedFields, Missing, Warned, IsUnknown
  <2>3. ctx.selectorIndex = "VAULT_REDEEM" => v = 0
    BY <2>1 DEF Warned, IsUnknown
  <2> HIDE DEF u, v
  <2>4. u \in {0, 1} /\ v \in {0, 1}
    BY LayoutFacts DEF u, v
  <2> QED BY <2>2, <2>3, <2>4 DEF additionalScreens
<1>2. numScreens(ctx) = 1 + (IF tx.selector \in WrapSelectors THEN 0 ELSE 1)
                          + (IF NamesRecipient(tx) THEN 1 ELSE 0)
  <2>1. ctx.selectorIndex \in WrapFunctions <=> tx.selector \in WrapSelectors
    BY FunctionGroups DEF DecodedFields
  <2>2. ~(ctx.selectorIndex \in WrapFunctions /\ ctx.selectorIndex \in UniswapFunctions)
    BY DEF WrapFunctions, UniswapFunctions
  <2>3. NamesRecipient(tx) <=> /\ ctx.beneficiary # tx.from
                               /\ \/ ctx.selectorIndex \in UniswapFunctions
                                  \/ ctx.selectorIndex \in WrapFunctions
    BY LayoutFacts DEF DecodedFields
  <2> QED BY <2>1, <2>2, <2>3 DEF numScreens, UniswapScreens, WrapScreens
<1>3. Len(ReviewOf(tx, item1, item2))
        = 1 + u + (IF tx.selector \in WrapSelectors THEN 0 ELSE v + 1)
            + (IF NamesRecipient(tx) THEN 1 ELSE 0)
  BY ReviewLayout
<1>4. /\ u \in {0, 1} /\ v \in {0, 1}
      /\ tx.selector \in WrapSelectors => u = 0 /\ v = 0
  BY LayoutFacts
<1> HIDE DEF u, v
<1> QED BY <1>1, <1>2, <1>3, <1>4

(* The tokens found are those that are not to be warned of.                *)
TokensFound ==
  ctx.tokens_found = {s \in {SENT, RECEIVED} : ~IsUnknown(TokenField[s], items[s])}

(* What get_screen finds at each index is the kind due there.              *)
LEMMA ScreensInOrder ==
  ASSUME << tx.to, tx.selector >> \in Deployed, DecodedFields, TokensFound
  PROVE  \A i \in 1..Len(Expected) : get_screen(ctx, i - 1) = Expected[i].screen
<1> DEFINE u == Warned(SentOf(tx), items[SENT])
           v == Warned(ReceivedOf(tx), items[RECEIVED])
           wrap == tx.selector \in WrapSelectors
           recipient == NamesRecipient(tx)
<1>1. /\ Len(Expected) = 1 + u + (IF wrap THEN 0 ELSE v + 1)
                           + (IF recipient THEN 1 ELSE 0)
      /\ u = 1 => Expected[1].screen = "WARN_SCREEN"
      /\ Expected[u + 1].screen = "SEND_SCREEN"
      /\ ~wrap => /\ v = 1 => Expected[u + 2].screen = "WARN_SCREEN"
                  /\ Expected[u + v + 2].screen = "RECEIVE_SCREEN"
      /\ recipient => Expected[Len(Expected)].screen = "BENEFICIARY_SCREEN"
  <2>1. /\ Warning.screen = "WARN_SCREEN"
        /\ \A t, item : SendScreen(t, item).screen = "SEND_SCREEN"
        /\ \A t, item : ReceiveScreen(t, item).screen = "RECEIVE_SCREEN"
        /\ \A a : BeneficiaryScreen(a).screen = "BENEFICIARY_SCREEN"
    BY DEF Warning, SendScreen, ReceiveScreen, AmountScreen, BeneficiaryScreen
  <2>2. /\ Len(Expected) = 1 + u + (IF wrap THEN 0 ELSE v + 1)
                             + (IF recipient THEN 1 ELSE 0)
        /\ u = 1 => Expected[1] = Warning
        /\ Expected[u + 1] = SendScreen(tx, items[SENT])
        /\ ~wrap => /\ v = 1 => Expected[u + 2] = Warning
                    /\ Expected[u + v + 2] = ReceiveScreen(tx, items[RECEIVED])
        /\ recipient => Expected[Len(Expected)] = BeneficiaryScreen(RecipientOf(tx))
    BY ReviewLayout DEF Expected
  <2> QED BY <2>1, <2>2
<1>2. /\ u \in {0, 1} /\ v \in {0, 1} /\ (wrap => u = 0 /\ v = 0)
  BY LayoutFacts
<1>3. ctx.selectorIndex \in WrapFunctions <=> wrap
  BY FunctionGroups DEF DecodedFields
<1>4. /\ SENT \in ctx.tokens_found <=> u = 0
      /\ RECEIVED \in ctx.tokens_found <=> v = 0
  BY DEF TokensFound, TokenField, Fields, DecodedFields, SENT, RECEIVED, Warned
<1> HIDE DEF u, v, wrap, recipient
<1> SUFFICES ASSUME NEW i \in 1..Len(Expected)
             PROVE  get_screen(ctx, i - 1) = Expected[i].screen
  OBVIOUS
<1>5. CASE wrap
  <2>1. i = 1 \/ (i = 2 /\ recipient /\ Len(Expected) = 2)
    BY <1>1, <1>2, <1>5
  <2> QED BY <1>1, <1>2, <1>3, <1>4, <1>5, <2>1 DEF get_screen
<1>6. CASE ~wrap /\ u = 0 /\ v = 0
  <2>1. i \in {1, 2} \/ (i = 3 /\ recipient /\ Len(Expected) = 3)
    BY <1>1, <1>6
  <2> QED BY <1>1, <1>3, <1>4, <1>6, <2>1 DEF get_screen
<1>7. CASE ~wrap /\ u = 0 /\ v = 1
  <2>1. i \in {1, 2, 3} \/ (i = 4 /\ recipient /\ Len(Expected) = 4)
    BY <1>1, <1>7
  <2> QED BY <1>1, <1>3, <1>4, <1>7, <2>1 DEF get_screen
<1>8. CASE ~wrap /\ u = 1 /\ v = 0
  <2>1. i \in {1, 2, 3} \/ (i = 4 /\ recipient /\ Len(Expected) = 4)
    BY <1>1, <1>8
  <2> QED BY <1>1, <1>3, <1>4, <1>8, <2>1 DEF get_screen
<1>9. CASE ~wrap /\ u = 1 /\ v = 1
  <2>1. i \in {1, 2, 3, 4} \/ (i = 5 /\ recipient /\ Len(Expected) = 5)
    BY <1>1, <1>9
  <2> QED BY <1>1, <1>3, <1>4, <1>9, <2>1 DEF get_screen
<1> QED BY <1>2, <1>5, <1>6, <1>7, <1>8, <1>9

(* A screen of the review is known by its kind.                            *)
LEMMA ScreenOfKind ==
  ASSUME << tx.to, tx.selector >> \in Deployed, NEW i \in 1..Len(Expected)
  PROVE  \/ Expected[i] = Warning
         \/ Expected[i] = SendScreen(tx, items[SENT])
         \/ /\ tx.selector \notin WrapSelectors
            /\ Expected[i] = ReceiveScreen(tx, items[RECEIVED])
         \/ Expected[i] = BeneficiaryScreen(RecipientOf(tx))
<1> DEFINE u == Warned(SentOf(tx), items[SENT])
           v == Warned(ReceivedOf(tx), items[RECEIVED])
           wrap == tx.selector \in WrapSelectors
           recipient == NamesRecipient(tx)
<1>1. /\ Len(Expected) = 1 + u + (IF wrap THEN 0 ELSE v + 1)
                           + (IF recipient THEN 1 ELSE 0)
      /\ u = 1 => Expected[1] = Warning
      /\ Expected[u + 1] = SendScreen(tx, items[SENT])
      /\ ~wrap => /\ v = 1 => Expected[u + 2] = Warning
                  /\ Expected[u + v + 2] = ReceiveScreen(tx, items[RECEIVED])
      /\ recipient => Expected[Len(Expected)] = BeneficiaryScreen(RecipientOf(tx))
  BY ReviewLayout DEF Expected
<1>2. u \in {0, 1} /\ v \in {0, 1}
  BY LayoutFacts
<1> HIDE DEF u, v, recipient
<1>3. \/ i = 1 /\ u = 1
      \/ i = u + 1
      \/ i = u + 2 /\ v = 1 /\ ~wrap
      \/ i = u + v + 2 /\ ~wrap
      \/ i = Len(Expected) /\ recipient
  BY <1>1, <1>2
<1> QED BY <1>1, <1>3

---------------------------------------------------------------------------
(* Tickers, decimals and amounts. *)

(* What a lookup leaves in the context for one token.                      *)
LookedUp(a, item, ticker, decimals) ==
  /\ a \in KnownTokens => decimals = known_decimals(a)
  /\ a = NULL => decimals = ETHER_DECIMALS
  /\ a \notin KnownTokens \cup {NULL} =>
       /\ ticker = IF item.found THEN item.ticker ELSE ""
       /\ decimals = IF item.found THEN item.decimals ELSE ETHER_DECIMALS

(* Once its ticker is completed by the query it is the token due.          *)
LEMMA LookedUpToken ==
  ASSUME NEW a, NEW item \in Item, NEW ticker, NEW decimals,
         LookedUp(a, item, ticker, decimals)
  PROVE  Token(address_ticker(a, ticker), decimals) = TokenAt(a, item)
<1>1. CASE a = NULL
  <2>1. NULL \notin KnownTokens
    BY DEF KnownTokens, NULL, OETH, OUSD, DAI, USDC, USDT
  <2> QED BY <1>1, <2>1 DEF LookedUp, address_ticker, TokenAt
<1>2. CASE a # NULL /\ a \in KnownTokens
  BY <1>2 DEF LookedUp, address_ticker, TokenAt, NamedToken, known_decimals
<1>3. CASE a \notin KnownTokens \cup {NULL}
  <2>1. address_ticker(a, ticker) = ticker
    BY <1>3 DEF address_ticker
  <2>2. CASE item.found
    BY <1>3, <2>1, <2>2 DEF LookedUp, TokenAt
  <2>3. CASE ~item.found
    <3>1. TokenAt(a, item) = Unknown
      BY <1>3, <2>3 DEF TokenAt
    <3> QED BY <1>3, <2>1, <2>3, <3>1 DEF LookedUp, Unknown
  <2> QED BY <2>2, <2>3
<1> QED BY <1>1, <1>2, <1>3

(* The reference, function by function.                                    *)
LEMMA FlipperTokens ==
  /\ FlipperToken(FLIPPER_BUY_OUSD_WITH_USDT_SELECTOR) = Token("USDT", ETHER_DECIMALS)
  /\ FlipperToken(FLIPPER_SELL_OUSD_FOR_USDT_SELECTOR) = Token("USDT", ETHER_DECIMALS)
  /\ FlipperToken(FLIPPER_BUY_OUSD_WITH_DAI_SELECTOR) = Token("DAI", ETHER_DECIMALS)
  /\ FlipperToken(FLIPPER_SELL_OUSD_FOR_DAI_SELECTOR) = Token("DAI", ETHER_DECIMALS)
  /\ FlipperToken(FLIPPER_BUY_OUSD_WITH_USDC_SELECTOR) = Token("USDC", ETHER_DECIMALS)
  /\ FlipperToken(FLIPPER_SELL_OUSD_FOR_USDC_SELECTOR) = Token("USDC", ETHER_DECIMALS)
BY DEF FlipperToken, DAI, USDC, USDT,
       FLIPPER_BUY_OUSD_WITH_USDT_SELECTOR, FLIPPER_SELL_OUSD_FOR_USDT_SELECTOR,
       FLIPPER_BUY_OUSD_WITH_DAI_SELECTOR, FLIPPER_SELL_OUSD_FOR_DAI_SELECTOR,
       FLIPPER_BUY_OUSD_WITH_USDC_SELECTOR, FLIPPER_SELL_OUSD_FOR_USDC_SELECTOR

(* The token sent, for each group of functions.                            *)
LEMMA TokenSentCases ==
  ASSUME NEW t, NEW item
  PROVE  /\ t.selector = ZAPPER_DEPOSIT_SFRXETH_SELECTOR
              => TokenSent(t, item) = Token("sfrxETH", ETHER_DECIMALS)
         /\ t.selector = VAULT_REDEEM_SELECTOR
              => TokenSent(t, item) = VaultToken(t.to)
         /\ t.selector \in FlipperBuySelectors
              => TokenSent(t, item) = FlipperToken(t.selector)
         /\ t.selector \in FlipperSelectors \ FlipperBuySelectors
              => TokenSent(t, item) = NamedToken(OUSD)
         /\ t.selector = WRAP_SELECTOR => TokenSent(t, item) = Unwrapped(t.to)
         /\ t.selector = UNWRAP_SELECTOR => TokenSent(t, item) = Wrapped(t.to)
         /\ t.selector \notin {ZAPPER_DEPOSIT_SFRXETH_SELECTOR, VAULT_REDEEM_SELECTOR}
                              \cup FlipperSelectors \cup WrapSelectors
              => TokenSent(t, item) = TokenAt(SentOf(t), item)
BY DEF TokenSent, FlipperSelectors, FlipperBuySelectors, WrapSelectors,
       ZAPPER_DEPOSIT_ETH_SELECTOR, ZAPPER_DEPOSIT_SFRXETH_SELECTOR,
       VAULT_MINT_SELECTOR, VAULT_REDEEM_SELECTOR,
       FLIPPER_BUY_OUSD_WITH_USDT_SELECTOR, FLIPPER_SELL_OUSD_FOR_USDT_SELECTOR,
       FLIPPER_BUY_OUSD_WITH_DAI_SELECTOR, FLIPPER_SELL_OUSD_FOR_DAI_SELECTOR,
       FLIPPER_BUY_OUSD_WITH_USDC_SELECTOR, FLIPPER_SELL_OUSD_FOR_USDC_SELECTOR,
       WRAP_SELECTOR, UNWRAP_SELECTOR

(* The token received, for each group of functions.                        *)
LEMMA TokenReceivedCases ==
  ASSUME NEW t, NEW item
  PROVE  /\ t.selector \in ZapperSelectors
              => TokenReceived(t, item) = NamedToken(OETH)
         /\ t.selector = VAULT_MINT_SELECTOR
              => TokenReceived(t, item) = VaultToken(t.to)
         /\ t.selector = VAULT_REDEEM_SELECTOR
              => TokenReceived(t, item)
                   = Token(IF t.to = OETH_VAULT THEN "LST MIX" ELSE "USD MIX",
                           ETHER_DECIMALS)
         /\ t.selector \in FlipperBuySelectors
              => TokenReceived(t, item) = NamedToken(OUSD)
         /\ t.selector \in FlipperSelectors \ FlipperBuySelectors
              => TokenReceived(t, item) = FlipperToken(t.selector)
         /\ t.selector \notin ZapperSelectors \cup VaultSelectors \cup FlipperSelectors
              => TokenReceived(t, item) = TokenAt(ReceivedOf(t), item)
BY DEF TokenReceived, FlipperSelectors, FlipperBuySelectors, ZapperSelectors,
       VaultSelectors,
       ZAPPER_DEPOSIT_ETH_SELECTOR, ZAPPER_DEPOSIT_SFRXETH_SELECTOR,
       VAULT_MINT_SELECTOR, VAULT_REDEEM_SELECTOR,
       FLIPPER_BUY_OUSD_WITH_USDT_SELECTOR, FLIPPER_SELL_OUSD_FOR_USDT_SELECTOR,
       FLIPPER_BUY_OUSD_WITH_DAI_SELECTOR, FLIPPER_SELL_OUSD_FOR_DAI_SELECTOR,
       FLIPPER_BUY_OUSD_WITH_USDC_SELECTOR, FLIPPER_SELL_OUSD_FOR_USDC_SELECTOR,
       WRAP_SELECTOR, UNWRAP_SELECTOR

(* The token sent: of the function, or of the lookup.                      *)
LEMMA SentToken ==
  ASSUME << tx.to, tx.selector >> \in Deployed, NEW item \in Item, NEW c,
         c.selectorIndex = FunctionOf(tx),
         c.contract_address_sent = SentOf(tx),
         LookedUp(SentOf(tx), item, c.ticker_sent, c.decimals_sent)
  PROVE  Token(send_ticker(c), ui_decimals(c, c.decimals_sent)) = TokenSent(tx, item)
<1> DEFINE s == tx.selector
<1>1. ASSUME tx.selector \in {ZAPPER_DEPOSIT_SFRXETH_SELECTOR, VAULT_REDEEM_SELECTOR}
                            \cup FlipperSelectors \cup WrapSelectors
      PROVE  c.decimals_sent = ETHER_DECIMALS
  BY <1>1, FunctionGroups DEF LookedUp
<1>2. CASE s = ZAPPER_DEPOSIT_SFRXETH_SELECTOR
  <2>1. send_ticker(c) = "sfrxETH" /\ c.selectorIndex \notin FlipperBuys \cup FlipperSells
    BY <1>2, FunctionNames DEF send_ticker, FlipperBuys, FlipperSells
  <2>2. TokenSent(tx, item) = Token("sfrxETH", ETHER_DECIMALS)
    BY <1>2, TokenSentCases
  <2> QED BY <1>1, <1>2, <2>1, <2>2 DEF ui_decimals
<1>3. CASE s = VAULT_REDEEM_SELECTOR
  <2>1. /\ send_ticker(c) = IF tx.to = OETH_VAULT THEN "OETH" ELSE "OUSD"
        /\ c.selectorIndex \notin FlipperBuys \cup FlipperSells
    BY <1>3, FunctionNames DEF send_ticker, FlipperBuys, FlipperSells
  <2>2. TokenSent(tx, item) = VaultToken(tx.to)
    BY <1>3, TokenSentCases
  <2> QED BY <1>1, <1>3, <2>1, <2>2 DEF ui_decimals, VaultToken, OETH, OUSD
<1>4. CASE s \in FlipperSelectors
  <2>1. ui_decimals(c, c.decimals_sent) = ETHER_DECIMALS
    BY <1>4, FunctionGroups DEF ui_decimals
  <2>2. CASE s \in FlipperBuySelectors
    <3>1. TokenSent(tx, item) = FlipperToken(s)
      BY <2>2, TokenSentCases
    <3>2. Token(send_ticker(c), ETHER_DECIMALS) = FlipperToken(s)
      <4>1. CASE s = FLIPPER_BUY_OUSD_WITH_USDT_SELECTOR
        BY <4>1, FunctionNames, FlipperTokens DEF send_ticker, FlipperSells
      <4>2. CASE s = FLIPPER_BUY_OUSD_WITH_DAI_SELECTOR
        BY <4>2, FunctionNames, FlipperTokens DEF send_ticker, FlipperSells
      <4>3. CASE s = FLIPPER_BUY_OUSD_WITH_USDC_SELECTOR
        BY <4>3, FunctionNames, FlipperTokens DEF send_ticker, FlipperSells
      <4> QED BY <2>2, <4>1, <4>2, <4>3 DEF FlipperBuySelectors
    <3> QED BY <2>1, <3>1, <3>2
  <2>3. CASE s \in FlipperSelectors \ FlipperBuySelectors
    <3>1. TokenSent(tx, item) = NamedToken(OUSD)
      BY <2>3, TokenSentCases
    <3>2. c.selectorIndex \in FlipperSells
      BY <2>3, FunctionGroups
    <3>3. send_ticker(c) = "OUSD"
      BY <3>2 DEF send_ticker, FlipperSells
    <3> QED BY <2>1, <3>1, <3>3 DEF NamedToken, OUSD, USDC, USDT
  <2> QED BY <1>4, <2>2, <2>3
<1>5. CASE s \in WrapSelectors
  <2>1. /\ c.selectorIndex \notin FlipperBuys \cup FlipperSells
        /\ send_ticker(c) = IF s = WRAP_SELECTOR
                              THEN IF tx.to = WOETH THEN "OETH" ELSE "OUSD"
                              ELSE IF tx.to = WOETH THEN "WOETH" ELSE "WOUSD"
    BY <1>5, FunctionNames DEF send_ticker, FlipperBuys, FlipperSells, WrapSelectors
  <2>2. TokenSent(tx, item) = IF s = WRAP_SELECTOR THEN Unwrapped(tx.to)
                                                   ELSE Wrapped(tx.to)
    BY <1>5, TokenSentCases DEF WrapSelectors
  <2> QED BY <1>1, <1>5, <2>1, <2>2
          DEF ui_decimals, Unwrapped, Wrapped, OETH, OUSD
<1>6. CASE s \notin {ZAPPER_DEPOSIT_SFRXETH_SELECTOR, VAULT_REDEEM_SELECTOR}
                   \cup FlipperSelectors \cup WrapSelectors
  <2>1. TokenSent(tx, item) = TokenAt(SentOf(tx), item)
    BY <1>6, TokenSentCases
  <2>2. c.selectorIndex \notin FlipperBuys \cup FlipperSells
    BY <1>6, FunctionGroups
  <2>3. send_ticker(c) = address_ticker(SentOf(tx), c.ticker_sent)
    <3>1. /\ c.selectorIndex \notin {"ZAPPER_DEPOSIT_SFRXETH", "VAULT_REDEEM"}
          /\ c.selectorIndex \notin WrapFunctions
      BY <1>6, FunctionNames, FunctionGroups
    <3> QED BY <2>2, <3>1 DEF send_ticker, FlipperBuys, WrapFunctions
  <2> QED BY <2>1, <2>2, <2>3, LookedUpToken DEF ui_decimals
<1> QED BY <1>2, <1>3, <1>4, <1>5, <1>6

(* The token received: likewise, but for depositSFRXETH.                   *)
ReceivedTold(t, item) ==
  IF t.selector = ZAPPER_DEPOSIT_SFRXETH_SELECTOR THEN NamedToken(OUSD)
                                                  ELSE TokenReceived(t, item)

(* The ticker and decimals of a receive screen are those of the token.     *)
LEMMA ReceivedToken ==
  ASSUME << tx.to, tx.selector >> \in Deployed, NEW item \in Item, NEW c,
         c.selectorIndex = FunctionOf(tx),
         c.contract_address_received = ReceivedOf(tx),
         LookedUp(ReceivedOf(tx), item, c.ticker_received, c.decimals_received)
  PROVE  Token(receive_ticker(c), ui_decimals(c, c.decimals_received))
           = ReceivedTold(tx, item)
<1> DEFINE s == tx.selector
<1>1. ASSUME s \in ZapperSelectors \cup VaultSelectors \cup FlipperSelectors
      PROVE  c.decimals_received = ETHER_DECIMALS
  BY <1>1, FunctionGroups DEF LookedUp, ZapperSelectors, VaultSelectors
<1>2. NamedToken(OETH) = Token("OETH", ETHER_DECIMALS)
      /\ NamedToken(OUSD) = Token("OUSD", ETHER_DECIMALS)
  BY DEF NamedToken, OETH, OUSD, USDC, USDT
<1>3. CASE s = ZAPPER_DEPOSIT_ETH_SELECTOR
  <2>1. receive_ticker(c) = "OETH" /\ c.selectorIndex \notin FlipperBuys \cup FlipperSells
    BY <1>3, FunctionNames DEF receive_ticker, FlipperBuys, FlipperSells
  <2>2. ReceivedTold(tx, item) = NamedToken(OETH)
    BY <1>3, TokenReceivedCases
       DEF ReceivedTold, ZapperSelectors, ZAPPER_DEPOSIT_ETH_SELECTOR,
           ZAPPER_DEPOSIT_SFRXETH_SELECTOR
  <2> QED BY <1>1, <1>2, <1>3, <2>1, <2>2 DEF ui_decimals, ZapperSelectors
<1>4. CASE s = ZAPPER_DEPOSIT_SFRXETH_SELECTOR
  <2>1. /\ receive_ticker(c) = IF tx.to = OETH_VAULT THEN "OETH" ELSE "OUSD"
        /\ c.selectorIndex \notin FlipperBuys \cup FlipperSells
    BY <1>4, FunctionNames DEF receive_ticker, FlipperBuys, FlipperSells
  <2>2. tx.to # OETH_VAULT
    BY <1>4 DEF Deployed, ZapperSelectors, VaultSelectors, FlipperSelectors,
         WrapSelectors, OETH_VAULT, OETH_ZAPPER, OUSD_FLIPPER, CURVE_OETH_POOL,
         CURVE_OUSD_POOL, CURVE_ROUTER, UNISWAP_ROUTER, WOETH, WOUSD,
         ZAPPER_DEPOSIT_SFRXETH_SELECTOR, VAULT_MINT_SELECTOR, VAULT_REDEEM_SELECTOR
  <2> QED BY <1>1, <1>2, <1>4, <2>1, <2>2 DEF ui_decimals, ZapperSelectors, ReceivedTold
<1>5. CASE s \in VaultSelectors
  <2>1. c.selectorIndex \notin FlipperBuys \cup FlipperSells
    BY <1>5, FunctionNames DEF FlipperBuys, FlipperSells, VaultSelectors
  <2>2. s # ZAPPER_DEPOSIT_SFRXETH_SELECTOR
    BY <1>5 DEF VaultSelectors, ZAPPER_DEPOSIT_SFRXETH_SELECTOR, VAULT_MINT_SELECTOR,
                VAULT_REDEEM_SELECTOR
  <2>3. CASE s = VAULT_MINT_SELECTOR
    <3>1. receive_ticker(c) = IF tx.to = OETH_VAULT THEN "OETH" ELSE "OUSD"
      BY <2>3, FunctionNames DEF receive_ticker, FlipperBuys
    <3> QED BY <1>1, <2>1, <2>2, <2>3, <3>1, TokenReceivedCases
            DEF ui_decimals, VaultSelectors, ReceivedTold, VaultToken, OETH, OUSD
  <2>4. CASE s = VAULT_REDEEM_SELECTOR
    <3>1. receive_ticker(c) = IF tx.to = OETH_VAULT THEN "LST MIX" ELSE "USD MIX"
      BY <2>4, FunctionNames DEF receive_ticker, FlipperBuys
    <3> QED BY <1>1, <2>1, <2>2, <2>4, <3>1, TokenReceivedCases
            DEF ui_decimals, VaultSelectors, ReceivedTold
  <2> QED BY <1>5, <2>3, <2>4 DEF VaultSelectors
<1>6. CASE s \in FlipperSelectors
  <2>1. ui_decimals(c, c.decimals_received) = ETHER_DECIMALS
    BY <1>6, FunctionGroups DEF ui_decimals
  <2>2. s # ZAPPER_DEPOSIT_SFRXETH_SELECTOR
    BY <1>6 DEF FlipperSelectors, ZAPPER_DEPOSIT_SFRXETH_SELECTOR,
         FLIPPER_BUY_OUSD_WITH_USDT_SELECTOR, FLIPPER_SELL_OUSD_FOR_USDT_SELECTOR,
         FLIPPER_BUY_OUSD_WITH_DAI_SELECTOR, FLIPPER_SELL_OUSD_FOR_DAI_SELECTOR,
         FLIPPER_BUY_OUSD_WITH_USDC_SELECTOR, FLIPPER_SELL_OUSD_FOR_USDC_SELECTOR
  <2>3. CASE s \in FlipperBuySelectors
    <3>1. ReceivedTold(tx, item) = NamedToken(OUSD)
      BY <2>2, <2>3, TokenReceivedCases DEF ReceivedTold
    <3>2. c.selectorIndex \in FlipperBuys
      BY <2>3, FunctionGroups
    <3>3. receive_ticker(c) = "OUSD"
      BY <3>2 DEF receive_ticker, FlipperBuys
    <3> QED BY <1>2, <2>1, <3>1, <3>3
  <2>4. CASE s \in FlipperSelectors \ FlipperBuySelectors
    <3>1. ReceivedTold(tx, item) = FlipperToken(s)
      BY <2>2, <2>4, TokenReceivedCases DEF ReceivedTold
    <3>2. Token(receive_ticker(c), ETHER_DECIMALS) = FlipperToken(s)
      <4>1. CASE s = FLIPPER_SELL_OUSD_FOR_USDT_SELECTOR
        BY <4>1, FunctionNames, FlipperTokens DEF receive_ticker, FlipperBuys
      <4>2. CASE s = FLIPPER_SELL_OUSD_FOR_DAI_SELECTOR
        BY <4>2, FunctionNames, FlipperTokens DEF receive_ticker, FlipperBuys
      <4>3. CASE s = FLIPPER_SELL_OUSD_FOR_USDC_SELECTOR
        BY <4>3, FunctionNames, FlipperTokens DEF receive_ticker, FlipperBuys
      <4> QED BY <2>4, <4>1, <4>2, <4>3 DEF FlipperSelectors, FlipperBuySelectors
    <3> QED BY <2>1, <3>1, <3>2
  <2> QED BY <1>6, <2>3, <2>4
<1>7. CASE s \notin ZapperSelectors \cup VaultSelectors \cup FlipperSelectors
  <2>1. ReceivedTold(tx, item) = TokenAt(ReceivedOf(tx), item)
    BY <1>7, TokenReceivedCases DEF ReceivedTold, ZapperSelectors
  <2>2. c.selectorIndex \notin FlipperBuys \cup FlipperSells
    BY <1>7, FunctionGroups
  <2>3. receive_ticker(c) = address_ticker(ReceivedOf(tx), c.ticker_received)
    <3>1. c.selectorIndex \notin {"ZAPPER_DEPOSIT_ETH", "ZAPPER_DEPOSIT_SFRXETH",
                                 "VAULT_MINT", "VAULT_REDEEM"}
      BY <1>7, FunctionNames DEF ZapperSelectors, VaultSelectors
    <3> QED BY <2>2, <3>1 DEF receive_ticker, FlipperSells
  <2> QED BY <2>1, <2>2, <2>3, LookedUpToken DEF ui_decimals
<1> QED BY <1>3, <1>4, <1>5, <1>6, <1>7 DEF ZapperSelectors

---------------------------------------------------------------------------
(* The parsed context has its type.                                        *)

(* Arguments of a well-formed call are words and addresses.                *)
LEMMA ArgumentTypes ==
  ASSUME NEW t, Reviewable(t)
  PROVE  /\ t \in TransactionType
         /\ AmountOf(t) \in Word /\ MinOf(t) \in Word
         /\ RecipientOf(t) \in Address
         /\ SentOf(t) \in Address /\ ReceivedOf(t) \in Address
<1>1. /\ t \in TransactionType /\ t.words \in Seq(Word) /\ t.path \in Seq(Address)
      /\ Len(t.words) \in Nat /\ Len(t.path) \in Nat
      /\ Len(t.words) >= AbiLength(t.selector)
  BY DEF Reviewable, WellFormed, TransactionType
<1>2. \A i \in 1..Len(t.words) :
        t.words[i] \in Word /\ t.words[i].addr \in Address /\ t.words[i].num \in Nat
  <2>1. \A i \in 1..Len(t.words) : t.words[i] \in Word
    BY <1>1
  <2>2. ASSUME NEW w \in Word
        PROVE  w.addr \in Address /\ w.num \in Nat
    <3>1. w.addr \in Address /\ w.num \in uint16_t
      BY DEF Word
    <3>2. uint16_t \subseteq Nat
      BY DEF uint16_t
    <3> QED BY <3>1, <3>2, Zenon
  <2> QED BY <2>1, <2>2
<1>3. << t.to, t.selector >> \in Deployed
  BY DEF Reviewable
<1>4. /\ AbiLength(t.selector) \in Nat
      /\ AmountWord(t.selector) \in 0..AbiLength(t.selector)
      /\ MinWord(t.selector) \in 0..AbiLength(t.selector)
      /\ RecipientWord(t.selector) \in 0..AbiLength(t.selector)
      /\ t.selector \in PoolSelectors => AbiLength(t.selector) = 4
      /\ t.selector = CURVE_ROUTER_EXCHANGE_MULTIPLE_SELECTOR
           => AbiLength(t.selector) = 23
      /\ t.selector = UNISWAP_ROUTER_EXACT_INPUT_SINGLE_SELECTOR
           => AbiLength(t.selector) = 8
      /\ t.selector = VAULT_MINT_SELECTOR => AbiLength(t.selector) = 3
  <2>1. PICK i \in 1..NUM_SELECTORS : t.selector = ORIGIN_DEFI_SELECTORS[i]
    BY <1>3, FunctionFound
  <2> QED BY <2>1 DEF NUM_SELECTORS, ORIGIN_DEFI_SELECTORS, AbiLength, AmountWord,
         MinWord, RecipientWord, PathLengthWord, FlipperSelectors, PoolSelectors, WrapSelectors,
         ZAPPER_DEPOSIT_ETH_SELECTOR, ZAPPER_DEPOSIT_SFRXETH_SELECTOR,
         VAULT_MINT_SELECTOR, VAULT_REDEEM_SELECTOR,
         CURVE_POOL_EXCHANGE_SELECTOR, CURVE_POOL_EXCHANGE_UNDERLYING_SELECTOR,
         CURVE_ROUTER_EXCHANGE_MULTIPLE_SELECTOR,
         UNISWAP_ROUTER_EXACT_INPUT_SELECTOR,
         UNISWAP_ROUTER_EXACT_INPUT_SINGLE_SELECTOR,
         FLIPPER_BUY_OUSD_WITH_USDT_SELECTOR, FLIPPER_SELL_OUSD_FOR_USDT_SELECTOR,
         FLIPPER_BUY_OUSD_WITH_DAI_SELECTOR, FLIPPER_SELL_OUSD_FOR_DAI_SELECTOR,
         FLIPPER_BUY_OUSD_WITH_USDC_SELECTOR, FLIPPER_SELL_OUSD_FOR_USDC_SELECTOR,
         WRAP_SELECTOR, UNWRAP_SELECTOR
<1>5. AmountOf(t) \in Word /\ MinOf(t) \in Word /\ RecipientOf(t) \in Address
  <2>1. \A n \in 0..AbiLength(t.selector) : n = 0 \/ n \in 1..Len(t.words)
    BY <1>1, <1>4
  <2> QED BY <1>2, <1>4, <2>1, EmptyTypes DEF AmountOf, MinOf, RecipientOf
<1>6. CASE t.selector \in PoolSelectors
  <2>1. t.to \in Pools
    BY <1>3, <1>6 DEF Deployed, PoolSelectors, Pools, ZapperSelectors, VaultSelectors,
           FlipperSelectors, WrapSelectors,
           ZAPPER_DEPOSIT_ETH_SELECTOR, ZAPPER_DEPOSIT_SFRXETH_SELECTOR,
           VAULT_MINT_SELECTOR, VAULT_REDEEM_SELECTOR,
           CURVE_POOL_EXCHANGE_SELECTOR, CURVE_POOL_EXCHANGE_UNDERLYING_SELECTOR,
           CURVE_ROUTER_EXCHANGE_MULTIPLE_SELECTOR,
           UNISWAP_ROUTER_EXACT_INPUT_SELECTOR,
           UNISWAP_ROUTER_EXACT_INPUT_SINGLE_SELECTOR,
           FLIPPER_BUY_OUSD_WITH_USDT_SELECTOR, FLIPPER_SELL_OUSD_FOR_USDT_SELECTOR,
           FLIPPER_BUY_OUSD_WITH_DAI_SELECTOR, FLIPPER_SELL_OUSD_FOR_DAI_SELECTOR,
           FLIPPER_BUY_OUSD_WITH_USDC_SELECTOR, FLIPPER_SELL_OUSD_FOR_USDC_SELECTOR,
           WRAP_SELECTOR, UNWRAP_SELECTOR
  <2>2. \A k \in 1..2 : t.words[k].num \in Nat /\ t.words[k].num < Len(PoolCoins(t.to))
    BY <1>1, <1>2, <1>4, <1>6, <2>1 DEF Reviewable, WellFormed
  <2>3. \A k \in 1..Len(PoolCoins(t.to)) : PoolCoins(t.to)[k] \in Address
    BY AddressAssumption DEF PoolCoins, KnownTokens
  <2>4. Len(PoolCoins(t.to)) \in Nat
    BY DEF PoolCoins
  <2>5. \A k \in 1..2 : PoolCoins(t.to)[t.words[k].num + 1] \in Address
    BY <2>2, <2>3, <2>4
  <2>6. /\ SentOf(t) = PoolCoins(t.to)[t.words[1].num + 1]
        /\ ReceivedOf(t) = PoolCoins(t.to)[t.words[2].num + 1]
    BY <1>6 DEF SentOf, ReceivedOf, PoolSelectors, CURVE_POOL_EXCHANGE_SELECTOR,
           CURVE_POOL_EXCHANGE_UNDERLYING_SELECTOR, VAULT_MINT_SELECTOR,
           CURVE_ROUTER_EXCHANGE_MULTIPLE_SELECTOR,
           UNISWAP_ROUTER_EXACT_INPUT_SELECTOR,
           UNISWAP_ROUTER_EXACT_INPUT_SINGLE_SELECTOR
  <2> QED BY <1>1, <1>5, <2>5, <2>6
<1>7. CASE t.selector = UNISWAP_ROUTER_EXACT_INPUT_SELECTOR
  <2>1. Len(t.path) >= 2
    BY <1>7 DEF Reviewable, WellFormed
  <2>2. t.path[1] \in Address /\ t.path[Len(t.path)] \in Address
    BY <1>1, <2>1
  <2>3. SentOf(t) = t.path[1] /\ ReceivedOf(t) = t.path[Len(t.path)]
    BY <1>7 DEF SentOf, ReceivedOf, PoolSelectors, CURVE_POOL_EXCHANGE_SELECTOR,
           CURVE_POOL_EXCHANGE_UNDERLYING_SELECTOR, VAULT_MINT_SELECTOR,
           CURVE_ROUTER_EXCHANGE_MULTIPLE_SELECTOR,
           UNISWAP_ROUTER_EXACT_INPUT_SELECTOR,
           UNISWAP_ROUTER_EXACT_INPUT_SINGLE_SELECTOR
  <2> QED BY <1>1, <1>5, <2>2, <2>3
<1>8. CASE t.selector = CURVE_ROUTER_EXCHANGE_MULTIPLE_SELECTOR
  <2>1. RouteLength(t) \in 1..RouteWords
    <3>1. \E m \in 1..RouteWords : IsRoute(t, m)
      BY <1>8 DEF Reviewable, WellFormed, RouteWords
    <3> QED BY <3>1 DEF RouteLength
  <2>2. 1 \in 1..Len(t.words) /\ RouteLength(t) \in 1..Len(t.words)
    BY <1>1, <1>4, <1>8, <2>1 DEF RouteWords
  <2>3. SentOf(t) = t.words[1].addr /\ ReceivedOf(t) = t.words[RouteLength(t)].addr
    BY <1>8 DEF SentOf, ReceivedOf, PoolSelectors, CURVE_POOL_EXCHANGE_SELECTOR,
           CURVE_POOL_EXCHANGE_UNDERLYING_SELECTOR, VAULT_MINT_SELECTOR,
           CURVE_ROUTER_EXCHANGE_MULTIPLE_SELECTOR,
           UNISWAP_ROUTER_EXACT_INPUT_SELECTOR,
           UNISWAP_ROUTER_EXACT_INPUT_SINGLE_SELECTOR
  <2> QED BY <1>1, <1>2, <1>5, <2>2, <2>3
<1>9. CASE t.selector \in {VAULT_MINT_SELECTOR,
                           UNISWAP_ROUTER_EXACT_INPUT_SINGLE_SELECTOR}
  <2>1. 1 \in 1..Len(t.words) /\ 2 \in 1..Len(t.words)
    BY <1>1, <1>4, <1>9
  <2>2. /\ SentOf(t) = t.words[1].addr
        /\ ReceivedOf(t) \in {t.words[2].addr, NULL}
    BY <1>9 DEF SentOf, ReceivedOf, PoolSelectors, CURVE_POOL_EXCHANGE_SELECTOR,
           CURVE_POOL_EXCHANGE_UNDERLYING_SELECTOR, VAULT_MINT_SELECTOR,
           CURVE_ROUTER_EXCHANGE_MULTIPLE_SELECTOR,
           UNISWAP_ROUTER_EXACT_INPUT_SELECTOR,
           UNISWAP_ROUTER_EXACT_INPUT_SINGLE_SELECTOR
  <2> QED BY <1>1, <1>2, <1>5, <2>1, <2>2, EmptyTypes
<1>10. CASE t.selector \notin PoolSelectors \cup
               {VAULT_MINT_SELECTOR, CURVE_ROUTER_EXCHANGE_MULTIPLE_SELECTOR,
                UNISWAP_ROUTER_EXACT_INPUT_SELECTOR,
                UNISWAP_ROUTER_EXACT_INPUT_SINGLE_SELECTOR}
  BY <1>1, <1>5, <1>10, EmptyTypes DEF SentOf, ReceivedOf
<1> QED BY <1>6, <1>7, <1>8, <1>9, <1>10

(* A context as the parser leaves it has its types.                        *)
LEMMA ParsedTypes ==
  ASSUME NEW t, Reviewable(t)
  PROVE  ParsedContext(t) \in ContextType
<1>1. FunctionOf(t) \in SelectorIndex
  <2>1. \E i \in 1..NUM_SELECTORS : FunctionOf(t) = selector_t[i]
    BY FunctionFound DEF Reviewable
  <2> QED BY <2>1 DEF SelectorIndex
<1>2. ZeroContext \in ContextType /\ "NONE" \in Parameter
  BY EmptyTypes DEF Parameter
<1> QED BY <1>1, <1>2, ArgumentTypes DEF ParsedContext, ContextType

---------------------------------------------------------------------------
(* What the messages of a review leave in the context.                     *)

(* Fields a query of an amount does not touch, and the one length it sets. *)
LEMMA UiFields ==
  ASSUME Typed, NEW c \in {set_send_ui(ctx), set_receive_ui(ctx)}
  PROVE  /\ c \in ContextType
         /\ c.selectorIndex = ctx.selectorIndex /\ c.beneficiary = ctx.beneficiary
         /\ c.contract_address_sent = ctx.contract_address_sent
         /\ c.contract_address_received = ctx.contract_address_received
         /\ c.tokens_found = ctx.tokens_found
         /\ c.amount_length = amount_length(ctx)
BY UiTypes DEF Typed, ContextType, set_send_ui, set_receive_ui

(* What a query writes it finds again: neither query changes the ticker or *)
(* the decimals the other, or the same one the next time, will show.       *)
LEMMA UiTokens ==
  ASSUME Typed, NEW c \in {set_send_ui(ctx), set_receive_ui(ctx)}
  PROVE  /\ send_ticker(c) = send_ticker(ctx)
         /\ receive_ticker(c) = receive_ticker(ctx)
         /\ ui_decimals(c, c.decimals_sent) = ui_decimals(ctx, ctx.decimals_sent)
         /\ ui_decimals(c, c.decimals_received)
              = ui_decimals(ctx, ctx.decimals_received)
<1>1. /\ c.selectorIndex = ctx.selectorIndex
      /\ c.contract_address_sent = ctx.contract_address_sent
      /\ c.contract_address_received = ctx.contract_address_received
  BY UiFields
<1>2. \A a, ticker : address_ticker(a, address_ticker(a, ticker))
                       = address_ticker(a, ticker)
  BY DEF address_ticker
<1>3. /\ c.ticker_sent \in {ctx.ticker_sent, send_ticker(ctx)}
      /\ c.ticker_received \in {ctx.ticker_received, receive_ticker(ctx)}
      /\ c.decimals_sent \in {ctx.decimals_sent,
                              ui_decimals(ctx, ctx.decimals_sent)}
      /\ c.decimals_received \in {ctx.decimals_received,
                                  ui_decimals(ctx, ctx.decimals_received)}
  BY DEF Typed, ContextType, set_send_ui, set_receive_ui
<1>4. send_ticker(c) = send_ticker(ctx)
  BY <1>1, <1>2, <1>3 DEF send_ticker
<1>5. receive_ticker(c) = receive_ticker(ctx)
  <2> DEFINE named == {"ZAPPER_DEPOSIT_ETH", "ZAPPER_DEPOSIT_SFRXETH", "VAULT_MINT",
                       "VAULT_REDEEM"} \cup FlipperBuys \cup FlipperSells
  <2>1. CASE ctx.selectorIndex \in named
    BY <1>1, <2>1 DEF receive_ticker, FlipperBuys, FlipperSells
  <2>2. CASE ctx.selectorIndex \notin named
    <3>1. \A d \in {c, ctx} :
            receive_ticker(d) = address_ticker(ctx.contract_address_received,
                                               d.ticker_received)
      BY <1>1, <2>2 DEF receive_ticker, FlipperSells
    <3> QED BY <1>2, <1>3, <3>1
  <2> QED BY <2>1, <2>2
<1>6. \A d : ui_decimals(c, d) = ui_decimals(ctx, d)
             /\ ui_decimals(ctx, ui_decimals(ctx, d)) = ui_decimals(ctx, d)
  BY <1>1 DEF ui_decimals
<1> QED BY <1>3, <1>4, <1>5, <1>6

(* The amount field a query reads holds the amount due, whole.             *)
LEMMA SendQuery ==
  ASSUME Typed, << tx.to, tx.selector >> \in Deployed, DecodedFields, AmountsKept,
         TokensSettled
  PROVE  LET c == set_send_ui(ctx)
         IN  /\ NumberIn(c, c.amount_sent) = Spent(tx)
             /\ Token(c.ticker_sent, c.decimals_sent) = TokenSent(tx, items[SENT])
<1> DEFINE c == set_send_ui(ctx)
<1>1. /\ c.selectorIndex = ctx.selectorIndex /\ c.amount_length = amount_length(ctx)
      /\ c.amount_sent = IF CopiesValue(ctx) THEN tx.value ELSE ctx.amount_sent
      /\ c.ticker_sent = send_ticker(ctx)
      /\ c.decimals_sent = ui_decimals(ctx, ctx.decimals_sent)
  BY DEF Typed, ContextType, set_send_ui
<1> HIDE DEF c
<1>2. NumberIn(c, c.amount_sent) = c.amount_sent
  BY <1>1 DEF NumberIn, stored_length, amount_length, CopiesValue
<1>3. CopiesValue(ctx) <=> tx.selector = ZAPPER_DEPOSIT_ETH_SELECTOR
  BY FunctionNames DEF CopiesValue, DecodedFields
<1>4. c.amount_sent = Spent(tx)
  BY <1>1, <1>3 DEF Spent, AmountsKept
<1>5. Token(c.ticker_sent, c.decimals_sent) = TokenSent(tx, items[SENT])
  BY <1>1 DEF TokensSettled
<1> QED BY <1>2, <1>4, <1>5 DEF c

(* What set_receive_ui works with is the amount and the token to receive.  *)
LEMMA ReceiveQuery ==
  ASSUME Typed, << tx.to, tx.selector >> \in Deployed, DecodedFields, AmountsKept,
         TokensSettled
  PROVE  LET c == set_receive_ui(ctx)
         IN  /\ NumberIn(c, c.min_amount_received) = AtLeast(tx)
             /\ Token(c.ticker_received, c.decimals_received)
                  = ReceivedTold(tx, items[RECEIVED])
             /\ tx.selector \notin FlipperSelectors \cup {ZAPPER_DEPOSIT_ETH_SELECTOR}
                  => c.min_amount_received = MinOf(tx)
<1> DEFINE c == set_receive_ui(ctx)
<1>1. /\ c.selectorIndex = ctx.selectorIndex /\ c.amount_length = amount_length(ctx)
      /\ c.min_amount_received
           = IF CopiesValue(ctx) THEN tx.value
             ELSE IF ctx.selectorIndex \in FlipperBuys \cup FlipperSells
               THEN ctx.amount_sent ELSE ctx.min_amount_received
      /\ c.ticker_received = receive_ticker(ctx)
      /\ c.decimals_received = ui_decimals(ctx, ctx.decimals_received)
  BY DEF Typed, ContextType, set_receive_ui
<1> HIDE DEF c
<1>2. NumberIn(c, c.min_amount_received) = c.min_amount_received
  BY <1>1 DEF NumberIn, stored_length, amount_length, CopiesValue
<1>3. /\ CopiesValue(ctx) <=> tx.selector = ZAPPER_DEPOSIT_ETH_SELECTOR
      /\ ctx.selectorIndex \in FlipperBuys \cup FlipperSells
           <=> tx.selector \in FlipperSelectors
  BY FunctionNames, FunctionGroups DEF CopiesValue, DecodedFields
<1>4. /\ c.min_amount_received = AtLeast(tx)
      /\ tx.selector \notin FlipperSelectors \cup {ZAPPER_DEPOSIT_ETH_SELECTOR}
           => c.min_amount_received = MinOf(tx)
  BY <1>1, <1>3 DEF AtLeast, Spent, AmountsKept
<1>5. Token(c.ticker_received, c.decimals_received) = ReceivedTold(tx, items[RECEIVED])
  BY <1>1 DEF TokensSettled, ReceivedTold
<1> QED BY <1>2, <1>4, <1>5 DEF c

(* A lookup leaves the decoded fields, settles both tokens and flags those *)
(* that were found.                                                        *)
LEMMA Provided ==
  ASSUME NEW c \in ContextType, NEW item1 \in Item, NEW item2 \in Item,
         c.selectorIndex = "VAULT_REDEEM" => c.contract_address_received = NULL
  PROVE  LET d == provide_received(provide_sent(c, item1), item2)
         IN  /\ d.selectorIndex = c.selectorIndex /\ d.beneficiary = c.beneficiary
             /\ d.amount_sent = c.amount_sent
             /\ d.min_amount_received = c.min_amount_received
             /\ d.contract_address_sent = c.contract_address_sent
             /\ d.contract_address_received = c.contract_address_received
             /\ LookedUp(c.contract_address_sent, item1, d.ticker_sent,
                         d.decimals_sent)
             /\ LookedUp(c.contract_address_received, item2, d.ticker_received,
                         d.decimals_received)
             /\ d.tokens_found
                  = c.tokens_found
                    \cup {s \in {SENT} : ~IsUnknown(c.contract_address_sent, item1)}
                    \cup {s \in {RECEIVED} :
                            ~IsUnknown(c.contract_address_received, item2)}
<1> DEFINE b == provide_sent(c, item1)
           d == provide_received(b, item2)
<1>0. NULL \notin KnownTokens
  BY DEF NULL, KnownTokens, OETH, OUSD, DAI, USDC, USDT
<1>1. /\ b \in ContextType
      /\ b.selectorIndex = c.selectorIndex /\ b.beneficiary = c.beneficiary
      /\ b.amount_sent = c.amount_sent
      /\ b.min_amount_received = c.min_amount_received
      /\ b.contract_address_sent = c.contract_address_sent
      /\ b.contract_address_received = c.contract_address_received
  BY LookupTypes DEF provide_sent, sent_network_token, ContextType
<1>2. LookedUp(c.contract_address_sent, item1, b.ticker_sent, b.decimals_sent)
  BY <1>0 DEF provide_sent, sent_network_token, ContextType, LookedUp
<1>3. b.tokens_found
        = c.tokens_found
          \cup {s \in {SENT} : ~IsUnknown(c.contract_address_sent, item1)}
  BY <1>0 DEF provide_sent, sent_network_token, ContextType, IsUnknown
<1> HIDE DEF b
<1>4. /\ d.selectorIndex = b.selectorIndex /\ d.beneficiary = b.beneficiary
      /\ d.amount_sent = b.amount_sent
      /\ d.min_amount_received = b.min_amount_received
      /\ d.contract_address_sent = b.contract_address_sent
      /\ d.contract_address_received = b.contract_address_received
      /\ d.ticker_sent = b.ticker_sent /\ d.decimals_sent = b.decimals_sent
  BY <1>1 DEF provide_received, received_network_token, ContextType
<1>5. LookedUp(b.contract_address_received, item2, d.ticker_received,
               d.decimals_received)
  BY <1>0, <1>1 DEF provide_received, received_network_token, ContextType, LookedUp
<1>6. d.tokens_found
        = b.tokens_found
          \cup {s \in {RECEIVED} : ~IsUnknown(b.contract_address_received, item2)}
  BY <1>0, <1>1 DEF provide_received, received_network_token, ContextType, IsUnknown
<1> HIDE DEF d
<1> QED BY <1>1, <1>2, <1>3, <1>4, <1>5, <1>6 DEF b, d

(* handle_finalize settles ether only.                                     *)
LEMMA Finalized ==
  ASSUME NEW c \in ContextType
  PROVE  LET d == finalize_received(finalize_sent(c))
         IN  /\ d.selectorIndex = c.selectorIndex /\ d.beneficiary = c.beneficiary
             /\ d.amount_sent = c.amount_sent
             /\ d.min_amount_received = c.min_amount_received
             /\ d.contract_address_sent = c.contract_address_sent
             /\ d.contract_address_received = c.contract_address_received
             /\ c.contract_address_sent = NULL => d.decimals_sent = ETHER_DECIMALS
             /\ c.contract_address_received = NULL
                  => d.decimals_received = ETHER_DECIMALS
             /\ d.tokens_found
                  = c.tokens_found
                    \cup {s \in {SENT} : c.contract_address_sent = NULL}
                    \cup {s \in {RECEIVED} : c.contract_address_received = NULL}
<1> DEFINE b == finalize_sent(c)
           d == finalize_received(b)
<1>1. /\ b \in ContextType
      /\ b.selectorIndex = c.selectorIndex /\ b.beneficiary = c.beneficiary
      /\ b.amount_sent = c.amount_sent
      /\ b.min_amount_received = c.min_amount_received
      /\ b.contract_address_sent = c.contract_address_sent
      /\ b.contract_address_received = c.contract_address_received
      /\ c.contract_address_sent = NULL => b.decimals_sent = ETHER_DECIMALS
      /\ b.tokens_found
           = c.tokens_found \cup {s \in {SENT} : c.contract_address_sent = NULL}
  BY LookupTypes, EmptyTypes DEF finalize_sent, sent_network_token, ContextType
<1> HIDE DEF b
<1>2. /\ d.selectorIndex = b.selectorIndex /\ d.beneficiary = b.beneficiary
      /\ d.amount_sent = b.amount_sent
      /\ d.min_amount_received = b.min_amount_received
      /\ d.contract_address_sent = b.contract_address_sent
      /\ d.contract_address_received = b.contract_address_received
      /\ d.decimals_sent = b.decimals_sent
      /\ b.contract_address_received = NULL => d.decimals_received = ETHER_DECIMALS
      /\ d.tokens_found
           = b.tokens_found
             \cup {s \in {RECEIVED} : b.contract_address_received = NULL}
  BY <1>1 DEF finalize_received, received_network_token, ContextType
<1> HIDE DEF d
<1> QED BY <1>1, <1>2 DEF b, d

---------------------------------------------------------------------------
(* Every message of a review keeps the invariant.  The lemmas speak of one *)
(* step, so that they hold wherever the message is delivered.              *)

(* What the next query of an amount would show, after a step.              *)
LEMMA Carried ==
  ASSUME tx' = tx
  PROVE  /\ send_ticker(ctx)' = send_ticker(ctx')
         /\ receive_ticker(ctx)' = receive_ticker(ctx')
         /\ ui_decimals(ctx, ctx.decimals_sent)'
              = ui_decimals(ctx', ctx'.decimals_sent)
         /\ ui_decimals(ctx, ctx.decimals_received)'
              = ui_decimals(ctx', ctx'.decimals_received)
         /\ numScreens(ctx)' = numScreens(ctx')
         /\ Expected' = ReviewOf(tx, items'[SENT], items'[RECEIVED])
BY DEF send_ticker, receive_ticker, ui_decimals, numScreens, UniswapScreens,
       WrapScreens, Expected

(* A context with the decoded fields.                                      *)
HasDecodedFields(c) ==
  /\ c.selectorIndex = FunctionOf(tx)
  /\ c.beneficiary = RecipientOf(tx)
  /\ c.contract_address_sent = SentOf(tx)
  /\ c.contract_address_received = ReceivedOf(tx)

(* Decoded fields that are not written stay what they are.                 *)
LEMMA DecodedCarried ==
  ASSUME tx' = tx, HasDecodedFields(ctx')
  PROVE  DecodedFields'
BY DEF DecodedFields, HasDecodedFields

(* So do the amounts.                                                      *)
LEMMA AmountsCarried ==
  ASSUME tx' = tx, AmountsKept,
         ctx'.amount_sent = ctx.amount_sent,
         ctx'.min_amount_received = ctx.min_amount_received
  PROVE  AmountsKept'
BY DEF AmountsKept

(* The calldata was parsed: its first message finds nothing looked up.     *)
LEMMA StepParsed ==
  ASSUME NEW t, Reviewable(t), parsed(t)
  PROVE  InReview'
<1>1. ZeroContext \in ContextType
  BY EmptyTypes
<1>2. /\ HasDecodedFields(ctx)' /\ ctx'.amount_sent = AmountOf(t)
      /\ ctx'.min_amount_received = MinOf(t) /\ ctx'.tokens_found = {}
  BY <1>1 DEF parsed, ParsedContext, ContextType, HasDecodedFields, ZeroContext
<1>3. DecodedFields' /\ AmountsKept'
  BY <1>2 DEF parsed, DecodedFields, HasDecodedFields, AmountsKept
<1>4. NothingLookedUp'
  BY <1>2 DEF parsed, NothingLookedUp
<1> QED BY <1>3, <1>4 DEF InReview, parsed

(* A token found or not is settled by what was looked up.                  *)
LEMMA Settled ==
  ASSUME << tx.to, tx.selector >> \in Deployed, tx' = tx, HasDecodedFields(ctx'),
         items'[SENT] \in Item, items'[RECEIVED] \in Item,
         LookedUp(SentOf(tx), items'[SENT], ctx'.ticker_sent, ctx'.decimals_sent),
         LookedUp(ReceivedOf(tx), items'[RECEIVED], ctx'.ticker_received,
                  ctx'.decimals_received),
         ctx'.tokens_found
           = {s \in {SENT} : ~IsUnknown(SentOf(tx), items'[SENT])}
             \cup {s \in {RECEIVED} : ~IsUnknown(ReceivedOf(tx), items'[RECEIVED])}
  PROVE  TokensSettled'
<1>1. ctx'.tokens_found
        = {s \in {SENT, RECEIVED} : ~IsUnknown(TokenField'[s], items'[s])}
  <2>1. TokenField'[SENT] = SentOf(tx) /\ TokenField'[RECEIVED] = ReceivedOf(tx)
    BY DEF TokenField, Fields, SENT, RECEIVED, HasDecodedFields
  <2> QED BY <2>1
<1>2. /\ Token(send_ticker(ctx'), ui_decimals(ctx', ctx'.decimals_sent))
           = TokenSent(tx, items'[SENT])
      /\ Token(receive_ticker(ctx'), ui_decimals(ctx', ctx'.decimals_received))
           = ReceivedTold(tx, items'[RECEIVED])
  BY SentToken, ReceivedToken DEF HasDecodedFields
<1> QED BY <1>1, <1>2, Carried DEF TokensSettled, ReceivedTold

(* Nothing was shown yet, so nothing wrong was.                            *)
LEMMA NothingWrongYet ==
  ASSUME shown' = NothingShown, result' = "OK"
  PROVE  ShownSoFar'
BY DEF ShownSoFar, NothingShown, ID, MaxScreens

(* handle_finalize, whether or not anything is to be looked up.            *)
LEMMA StepFinalize ==
  ASSUME Typed, Reviewable(tx), InReview, handle_finalize
  PROVE  InReview'
<1>1. /\ tx' = tx /\ items' = items /\ items = NoItems
      /\ shown' = NothingShown /\ result' = "OK"
      /\ screens' = numScreens(ctx) /\ ctx.tokens_found = {}
      /\ DecodedFields /\ AmountsKept /\ << tx.to, tx.selector >> \in Deployed
  BY DEF handle_finalize, InReview, NothingLookedUp, Reviewable
<1>2. /\ HasDecodedFields(ctx') /\ ctx'.amount_sent = ctx.amount_sent
      /\ ctx'.min_amount_received = ctx.min_amount_received
      /\ SentOf(tx) = NULL => ctx'.decimals_sent = ETHER_DECIMALS
      /\ ReceivedOf(tx) = NULL => ctx'.decimals_received = ETHER_DECIMALS
      /\ ctx'.tokens_found = {s \in {SENT} : SentOf(tx) = NULL}
                             \cup {s \in {RECEIVED} : ReceivedOf(tx) = NULL}
  <2>1. ctx' = finalize_received(finalize_sent(ctx)) /\ ctx \in ContextType
    BY DEF handle_finalize, Typed
  <2> QED BY <1>1, <2>1, Finalized DEF DecodedFields, HasDecodedFields
<1>3. DecodedFields' /\ AmountsKept'
  BY <1>1, <1>2, DecodedCarried, AmountsCarried
<1>4. CASE lookup' # {}
  <2>1. stage' = "lookup"
    BY <1>4 DEF handle_finalize
  <2>2. screens' = numScreens(ctx)'
    BY <1>1, <1>2, Carried
       DEF numScreens, UniswapScreens, WrapScreens, DecodedFields, HasDecodedFields
  <2>3. TokenField'[SENT] = SentOf(tx) /\ TokenField'[RECEIVED] = ReceivedOf(tx)
    BY <1>2 DEF TokenField, Fields, SENT, RECEIVED, HasDecodedFields
  <2>4. ctx'.tokens_found = {s \in {SENT, RECEIVED} : TokenField'[s] = NULL}
    BY <1>2, <2>3
  <2>5. NothingLookedUp'
    BY <1>1, <2>1, <2>2, <2>4 DEF NothingLookedUp
  <2> QED BY <1>3, <2>1, <2>5 DEF InReview
<1>5. CASE lookup' = {}
  <2>1. stage' = "review" /\ SentOf(tx) = NULL /\ ReceivedOf(tx) = NULL
    BY <1>1, <1>5 DEF handle_finalize, DecodedFields, SENT, RECEIVED
  <2>2. /\ items'[SENT] = NullItem /\ items'[RECEIVED] = NullItem
        /\ NullItem \in Item /\ NULL \notin KnownTokens
    BY <1>1, EmptyTypes DEF NoItems, NULL, KnownTokens, OETH, OUSD, DAI, USDC, USDT
  <2>3. \A item : ~IsUnknown(NULL, item)
    BY DEF IsUnknown
  <2>4. TokensSettled'
    BY <1>1, <1>2, <2>1, <2>2, <2>3, Settled DEF LookedUp
  <2>5. screens' = Len(Expected')
    <3>1. additionalScreens(ctx, NullItem, NullItem) = 0
      BY <1>1, <2>1 DEF additionalScreens, Missing, DecodedFields
    <3>2. numScreens(ctx) \in Nat
      BY ScreenCounts
    <3>3. Expected' = ReviewOf(tx, NullItem, NullItem)
      BY <1>1, <2>2, Carried
    <3>4. numScreens(ctx) + additionalScreens(ctx, NullItem, NullItem)
            = Len(ReviewOf(tx, NullItem, NullItem))
      BY <1>1, ScreensCounted
    <3> QED BY <1>1, <3>1, <3>2, <3>3, <3>4
  <2> QED BY <1>1, <1>3, <2>1, <2>4, <2>5, NothingWrongYet DEF InReview
<1> QED BY <1>4, <1>5

(* handle_provide_token, whatever was found.                               *)
LEMMA StepProvideToken ==
  ASSUME Typed, Reviewable(tx), InReview, NEW item1, NEW item2,
         handle_provide_token(item1, item2)
  PROVE  InReview'
<1>1. /\ tx' = tx /\ stage' = "review" /\ result' = "OK"
      /\ shown' = NothingShown
      /\ items'[SENT] = item1 /\ items'[RECEIVED] = item2
      /\ screens' = numScreens(ctx) + additionalScreens(ctx, item1, item2)
      /\ ctx.tokens_found = {s \in {SENT, RECEIVED} : TokenField[s] = NULL}
      /\ DecodedFields /\ AmountsKept /\ << tx.to, tx.selector >> \in Deployed
  BY DEF handle_provide_token, InReview, NothingLookedUp, Reviewable, SENT, RECEIVED
<1>2. item1 \in Item /\ item2 \in Item
  BY TokenInfoAssumption, EmptyTypes DEF handle_provide_token, Answers
<1>3. /\ HasDecodedFields(ctx') /\ ctx'.amount_sent = ctx.amount_sent
      /\ ctx'.min_amount_received = ctx.min_amount_received
      /\ LookedUp(SentOf(tx), item1, ctx'.ticker_sent, ctx'.decimals_sent)
      /\ LookedUp(ReceivedOf(tx), item2, ctx'.ticker_received, ctx'.decimals_received)
      /\ ctx'.tokens_found
           = ctx.tokens_found
             \cup {s \in {SENT} : ~IsUnknown(SentOf(tx), item1)}
             \cup {s \in {RECEIVED} : ~IsUnknown(ReceivedOf(tx), item2)}
  <2>1. ctx' = provide_received(provide_sent(ctx, item1), item2) /\ ctx \in ContextType
    BY DEF handle_provide_token, Typed
  <2>2. ctx.selectorIndex = "VAULT_REDEEM" => ctx.contract_address_received = NULL
    BY <1>1, FunctionNames, FunctionGroups DEF DecodedFields
  <2> QED BY <1>1, <1>2, <2>1, <2>2, Provided DEF DecodedFields, HasDecodedFields
<1>4. ctx'.tokens_found = {s \in {SENT} : ~IsUnknown(SentOf(tx), item1)}
                          \cup {s \in {RECEIVED} : ~IsUnknown(ReceivedOf(tx), item2)}
  <2>1. TokenField[SENT] = SentOf(tx) /\ TokenField[RECEIVED] = ReceivedOf(tx)
    BY <1>1 DEF TokenField, Fields, SENT, RECEIVED, DecodedFields
  <2>2. \A item : ~IsUnknown(NULL, item)
    BY DEF IsUnknown
  <2> QED BY <1>1, <1>3, <2>1, <2>2
<1>5. DecodedFields' /\ AmountsKept'
  BY <1>1, <1>3, DecodedCarried, AmountsCarried
<1>6. TokensSettled'
  BY <1>1, <1>2, <1>3, <1>4, Settled
<1>7. screens' = Len(Expected')
  BY <1>1, ScreensCounted, Carried
<1> QED BY <1>1, <1>5, <1>6, <1>7, NothingWrongYet DEF InReview

(* handle_query_contract_id.                                               *)
LEMMA StepQueryId ==
  ASSUME Typed, InReview, handle_query_contract_id
  PROVE  InReview'
<1>1. /\ stage' = stage /\ stage = "review" /\ tx' = tx /\ ctx' = ctx
      /\ items' = items /\ screens' = screens /\ result' = "OK"
      /\ shown \in [ID..(MaxScreens - 1) -> Displays]
      /\ shown' = [shown EXCEPT ![ID] = [screen |-> "CONTRACT_ID",
                                         version |-> operation(ctx.selectorIndex)]]
      /\ DecodedFields /\ AmountsKept /\ TokensSettled /\ screens = Len(Expected)
      /\ ShownSoFar
  BY DEF handle_query_contract_id, InReview, Typed
<1>2. /\ shown'[ID] = [screen |-> "CONTRACT_ID", version |-> operation(FunctionOf(tx))]
      /\ \A i \in 1..MaxScreens : shown'[i - 1] = shown[i - 1]
  BY <1>1 DEF DecodedFields, ID, MaxScreens
<1>3. DecodedFields' /\ AmountsKept' /\ TokensSettled' /\ Expected' = Expected
  BY <1>1, Carried
     DEF DecodedFields, AmountsKept, TokensSettled, TokenField, Fields, Expected
<1>4. \A i : ToldAt(i)' = ToldAt(i)
  BY <1>1, <1>3 DEF ToldAt, KnownWrong
<1>5. ShownSoFar'
  BY <1>1, <1>2, <1>3, <1>4 DEF ShownSoFar, TooLong
<1> QED BY <1>1, <1>3, <1>5 DEF InReview

(* What the plugin tells at each place of the review, by the kind of       *)
(* screen, and which of them can be too long.                              *)
LEMMA ToldByKind ==
  ASSUME << tx.to, tx.selector >> \in Deployed, NEW i \in 1..Len(Expected)
  PROVE  /\ Expected[i].screen \in {"WARN_SCREEN", "SEND_SCREEN", "RECEIVE_SCREEN",
                                    "BENEFICIARY_SCREEN"}
         /\ Expected[i].screen = "WARN_SCREEN"
              => ToldAt(i) = Warning /\ ~TooLong(ToldAt(i))
         /\ Expected[i].screen = "SEND_SCREEN"
              => ToldAt(i) = SendScreen(tx, items[SENT])
         /\ Expected[i].screen = "RECEIVE_SCREEN"
              => ToldAt(i) = AmountScreen("RECEIVE_SCREEN", AtLeast(tx),
                                          ReceivedTold(tx, items[RECEIVED]))
         /\ Expected[i].screen = "BENEFICIARY_SCREEN"
              => ToldAt(i) = BeneficiaryScreen(RecipientOf(tx)) /\ ~TooLong(ToldAt(i))
<1>1. /\ Warning.screen = "WARN_SCREEN"
      /\ SendScreen(tx, items[SENT]).screen = "SEND_SCREEN"
      /\ ReceiveScreen(tx, items[RECEIVED]).screen = "RECEIVE_SCREEN"
      /\ BeneficiaryScreen(RecipientOf(tx)).screen = "BENEFICIARY_SCREEN"
  BY DEF Warning, SendScreen, ReceiveScreen, AmountScreen, BeneficiaryScreen
<1>2. CASE Expected[i] = Warning
  BY <1>1, <1>2 DEF ToldAt, KnownWrong, TooLong
<1>3. CASE Expected[i] = SendScreen(tx, items[SENT])
  BY <1>1, <1>3 DEF ToldAt, KnownWrong
<1>4. CASE Expected[i] = ReceiveScreen(tx, items[RECEIVED])
  BY <1>1, <1>4 DEF ToldAt, KnownWrong, ReceivedTold, ReceiveScreen
<1>5. CASE Expected[i] = BeneficiaryScreen(RecipientOf(tx))
  BY <1>1, <1>5 DEF ToldAt, KnownWrong, TooLong
<1> QED BY <1>2, <1>3, <1>4, <1>5, ScreenOfKind

(* A screen is too long for one of the transaction's two amounts.          *)
LEMMA TooLongAmount ==
  ASSUME << tx.to, tx.selector >> \in Deployed, NEW i \in 1..Len(Expected),
         TooLong(ToldAt(i))
  PROVE  \E entry \in Unprintable : entry[1] \in {Spent(tx), AtLeast(tx)}
<1>1. /\ Expected[i].screen \in {"SEND_SCREEN", "RECEIVE_SCREEN"}
      /\ << ToldAt(i).amount, ToldAt(i).token >> \in Unprintable
  BY ToldByKind DEF TooLong
<1>2. ToldAt(i).amount \in {Spent(tx), AtLeast(tx)}
  BY <1>1, ToldByKind DEF SendScreen, AmountScreen
<1> QED BY <1>1, <1>2

(* A query is answered with the screen due at its place, or fails because  *)
(* that screen is too long.                                                *)
LEMMA QueryShows ==
  ASSUME Typed, Reviewable(tx), InReview, NEW i \in Int, handle_query_contract_ui(i)
  PROVE  /\ i + 1 \in 1..Len(Expected)
         /\ \/ ctx' = ctx
            \/ ctx' = set_send_ui(ctx)
            \/ /\ ctx' = set_receive_ui(ctx)
               /\ tx.selector \notin WrapSelectors
         /\ \/ result' = "ERROR" /\ shown' = shown /\ TooLong(ToldAt(i + 1))
            \/ /\ result' = "OK" /\ ~TooLong(ToldAt(i + 1))
               /\ shown' = [shown EXCEPT ![i] = ToldAt(i + 1)]
<1>1. /\ << tx.to, tx.selector >> \in Deployed /\ DecodedFields /\ AmountsKept
      /\ TokensSettled /\ screens = Len(Expected) /\ i \in 0..(screens - 1)
      /\ screens \in Nat
  BY DEF Reviewable, InReview, handle_query_contract_ui, Typed, MaxScreens
<1>2. i + 1 \in 1..Len(Expected) /\ (i + 1) - 1 = i
  BY <1>1
<1>3. get_screen(ctx, i) = Expected[i + 1].screen
  <2>1. TokensFound
    BY <1>1 DEF TokensSettled, TokensFound
  <2>2. \A j \in 1..Len(Expected) : get_screen(ctx, j - 1) = Expected[j].screen
    BY <1>1, <2>1, ScreensInOrder
  <2> QED BY <1>2, <2>2
<1> DEFINE told == ToldAt(i + 1)
<1>4. ASSUME NEW kind \in {"SEND_SCREEN", "RECEIVE_SCREEN"}, NEW c, NEW amount,
             NEW token, ShowAmount(i, kind, c, amount, token),
             told = AmountScreen(kind, NumberIn(c, amount), token)
      PROVE  /\ ctx' = c
             /\ \/ result' = "ERROR" /\ shown' = shown /\ TooLong(told)
                \/ /\ result' = "OK" /\ ~TooLong(told)
                   /\ shown' = [shown EXCEPT ![i] = told]
  <2>1. TooLong(told) <=> << NumberIn(c, amount), token >> \in Unprintable
    BY <1>4 DEF TooLong, AmountScreen
  <2> HIDE DEF told
  <2> QED BY <1>4, <2>1 DEF ShowAmount, handle_query_ui_exception
<1>5. CASE show_send(i)
  <2> DEFINE c == set_send_ui(ctx)
  <2>1. told = SendScreen(tx, items[SENT])
    BY <1>1, <1>2, <1>3, <1>5, ToldByKind DEF show_send
  <2>2. /\ NumberIn(c, c.amount_sent) = Spent(tx)
        /\ Token(c.ticker_sent, c.decimals_sent) = TokenSent(tx, items[SENT])
    BY <1>1, SendQuery
  <2>3. ShowAmount(i, "SEND_SCREEN", c, c.amount_sent,
                   Token(c.ticker_sent, c.decimals_sent))
    BY <1>5 DEF show_send
  <2> HIDE DEF c, told
  <2>4. told = AmountScreen("SEND_SCREEN", NumberIn(c, c.amount_sent),
                            Token(c.ticker_sent, c.decimals_sent))
    BY <2>1, <2>2 DEF SendScreen
  <2>5. /\ ctx' = c
        /\ \/ result' = "ERROR" /\ shown' = shown /\ TooLong(told)
           \/ result' = "OK" /\ ~TooLong(told) /\ shown' = [shown EXCEPT ![i] = told]
    BY <1>4, <2>3, <2>4
  <2> QED BY <1>2, <2>5 DEF c, told
<1>6. CASE show_receive(i)
  <2> DEFINE c == set_receive_ui(ctx)
  <2>1. told = AmountScreen("RECEIVE_SCREEN", AtLeast(tx),
                            ReceivedTold(tx, items[RECEIVED]))
    BY <1>1, <1>2, <1>3, <1>6, ToldByKind DEF show_receive
  <2>2. /\ NumberIn(c, c.min_amount_received) = AtLeast(tx)
        /\ Token(c.ticker_received, c.decimals_received)
             = ReceivedTold(tx, items[RECEIVED])
    BY <1>1, ReceiveQuery
  <2>3. tx.selector \notin WrapSelectors
    <3>1. \A t, item : /\ Warning.screen # "RECEIVE_SCREEN"
                       /\ SendScreen(t, item).screen # "RECEIVE_SCREEN"
      BY DEF Warning, SendScreen, AmountScreen
    <3>2. \A a : BeneficiaryScreen(a).screen # "RECEIVE_SCREEN"
      BY DEF BeneficiaryScreen
    <3>3. Expected[i + 1].screen = "RECEIVE_SCREEN"
      BY <1>3, <1>6 DEF show_receive
    <3> QED BY <1>1, <1>2, <3>1, <3>2, <3>3, ScreenOfKind
  <2>4. ShowAmount(i, "RECEIVE_SCREEN", c, c.min_amount_received,
                   Token(c.ticker_received, c.decimals_received))
    <3>1. c.selectorIndex = FunctionOf(tx)
      BY <1>1 DEF set_receive_ui, DecodedFields, ContextType
    <3>2. FunctionOf(tx) \notin WrapFunctions
      BY <1>1, <2>3, FunctionNames DEF WrapFunctions, WrapSelectors
    <3> QED BY <1>6, <3>1, <3>2 DEF show_receive
  <2> HIDE DEF c, told
  <2>5. /\ ctx' = c
        /\ \/ result' = "ERROR" /\ shown' = shown /\ TooLong(told)
           \/ result' = "OK" /\ ~TooLong(told) /\ shown' = [shown EXCEPT ![i] = told]
    BY <1>4, <2>1, <2>2, <2>4
  <2> QED BY <1>2, <2>3, <2>5 DEF c, told
<1>7. CASE show_beneficiary(i)
  <2>1. told = BeneficiaryScreen(RecipientOf(tx)) /\ ~TooLong(told)
    BY <1>1, <1>2, <1>3, <1>7, ToldByKind DEF show_beneficiary
  <2> HIDE DEF told
  <2>2. result' = "OK" /\ ctx' = ctx /\ shown' = [shown EXCEPT ![i] = told]
    BY <1>1, <1>7, <2>1 DEF show_beneficiary, DecodedFields
  <2> QED BY <1>2, <2>1, <2>2 DEF told
<1>8. CASE show_warning(i)
  <2>1. get_screen(ctx, i) = "WARN_SCREEN"
    BY <1>1, <1>2, <1>3, <1>8, ToldByKind DEF show_warning
  <2>2. told = Warning /\ ~TooLong(told)
    BY <1>1, <1>2, <1>3, <2>1, ToldByKind
  <2> HIDE DEF told
  <2>3. result' = "OK" /\ ctx' = ctx /\ shown' = [shown EXCEPT ![i] = told]
    BY <1>8, <2>1, <2>2 DEF show_warning
  <2> QED BY <1>2, <2>2, <2>3 DEF told
<1> QED BY <1>5, <1>6, <1>7, <1>8 DEF handle_query_contract_ui

(* handle_query_contract_ui, in any order and any number of times.         *)
LEMMA StepQueryUi ==
  ASSUME Typed, Reviewable(tx), InReview, NEW i \in Int, handle_query_contract_ui(i)
  PROVE  InReview'
<1>1. /\ stage' = stage /\ stage = "review" /\ result = "OK" /\ tx' = tx
      /\ items' = items /\ screens' = screens
      /\ shown \in [ID..(MaxScreens - 1) -> Displays]
      /\ << tx.to, tx.selector >> \in Deployed
      /\ DecodedFields /\ AmountsKept /\ TokensSettled /\ screens = Len(Expected)
      /\ ShownSoFar /\ Len(Expected) \in 0..MaxScreens
  BY DEF handle_query_contract_ui, InReview, Typed, Reviewable
<1>2. /\ i + 1 \in 1..Len(Expected)
      /\ \/ ctx' = ctx
         \/ ctx' = set_send_ui(ctx)
         \/ ctx' = set_receive_ui(ctx) /\ tx.selector \notin WrapSelectors
      /\ \/ result' = "ERROR" /\ shown' = shown /\ TooLong(ToldAt(i + 1))
         \/ /\ result' = "OK" /\ ~TooLong(ToldAt(i + 1))
            /\ shown' = [shown EXCEPT ![i] = ToldAt(i + 1)]
  BY QueryShows
<1>3. /\ ctx'.selectorIndex = ctx.selectorIndex /\ ctx'.beneficiary = ctx.beneficiary
      /\ ctx'.contract_address_sent = ctx.contract_address_sent
      /\ ctx'.contract_address_received = ctx.contract_address_received
      /\ ctx'.tokens_found = ctx.tokens_found
      /\ send_ticker(ctx') = send_ticker(ctx)
      /\ receive_ticker(ctx') = receive_ticker(ctx)
      /\ ui_decimals(ctx', ctx'.decimals_sent) = ui_decimals(ctx, ctx.decimals_sent)
      /\ ui_decimals(ctx', ctx'.decimals_received)
           = ui_decimals(ctx, ctx.decimals_received)
  BY <1>2, UiFields, UiTokens
<1>4. DecodedFields'
  BY <1>1, <1>3 DEF DecodedFields
<1>5. AmountsKept'
  <2>1. CASE tx.selector = ZAPPER_DEPOSIT_ETH_SELECTOR
    BY <1>1, <2>1 DEF AmountsKept
  <2>2. CASE tx.selector # ZAPPER_DEPOSIT_ETH_SELECTOR
    <3>1. ~CopiesValue(ctx)
      BY <1>1, <2>2, FunctionNames DEF CopiesValue, DecodedFields
    <3>2. /\ set_send_ui(ctx).amount_sent = ctx.amount_sent
          /\ set_send_ui(ctx).min_amount_received = ctx.min_amount_received
          /\ set_receive_ui(ctx).amount_sent = ctx.amount_sent
      BY <3>1 DEF set_send_ui, set_receive_ui, Typed, ContextType
    <3>3. tx.selector \notin FlipperSelectors
            => set_receive_ui(ctx).min_amount_received = MinOf(tx)
      BY <1>1, <2>2, ReceiveQuery
    <3>4. ctx'.amount_sent = AmountOf(tx)
          /\ (tx.selector \notin FlipperSelectors
                => ctx'.min_amount_received = MinOf(tx))
      BY <1>1, <1>2, <2>2, <3>2, <3>3 DEF AmountsKept
    <3> QED BY <1>1, <3>4 DEF AmountsKept
  <2> QED BY <2>1, <2>2
<1>6. TokensSettled'
  <2>1. TokenField' = TokenField
    BY <1>3 DEF TokenField, Fields
  <2> QED BY <1>1, <1>3, <2>1, Carried DEF TokensSettled
<1>7. Expected' = Expected /\ \A j : ToldAt(j)' = ToldAt(j)
  <2>1. Expected' = Expected
    BY <1>1, Carried DEF Expected
  <2> QED BY <1>1, <2>1 DEF ToldAt, KnownWrong
<1>8. ShownSoFar'
  <2>1. i \in 0..(MaxScreens - 1) /\ i + 1 <= Len(Expected)
    BY <1>1, <1>2 DEF MaxScreens
  <2>2. CASE result' = "OK"
    <3>1. shown' = [shown EXCEPT ![i] = ToldAt(i + 1)] /\ ~TooLong(ToldAt(i + 1))
      BY <1>2, <2>2
    <3>2. shown'[ID] = shown[ID]
      BY <1>1, <2>1, <3>1 DEF ID, MaxScreens
    <3>3. \A j \in 1..MaxScreens :
            \/ shown'[j - 1] = shown[j - 1]
            \/ j = i + 1 /\ shown'[j - 1] = ToldAt(j)
      BY <1>1, <2>1, <3>1 DEF ID, MaxScreens
    <3> QED BY <1>1, <1>7, <2>1, <2>2, <3>1, <3>2, <3>3 DEF ShownSoFar, TooLong
  <2>3. CASE result' # "OK"
    BY <1>1, <1>2, <1>7, <2>3 DEF ShownSoFar, TooLong
  <2> QED BY <2>2, <2>3
<1> QED BY <1>1, <1>4, <1>5, <1>6, <1>7, <1>8 DEF InReview

---------------------------------------------------------------------------
(* The invariant holds at every step of the specification.                 *)

(* It has the types the messages need: while tokens are looked up only     *)
(* handle_finalize has counted screens.                                    *)
LEMMA InvariantTyped ==
  ASSUME IInv
  PROVE  Typed /\ Reviewable(tx)
<1>1. tx \in TransactionType /\ Reviewable(tx)
  BY ReviewTransactionsAssumption DEF IInv, TypeOK, Reviewable, WellFormed
<1>2. stage = "lookup" => screens <= 3
  BY ScreenCounts DEF IInv, InReview, NothingLookedUp
<1> QED BY <1>1, <1>2 DEF IInv, TypeOK, Typed

(* Nothing has been parsed or shown at first.                              *)
LEMMA InvariantInit ==
  ASSUME Init
  PROVE  IInv
BY EmptyTypes DEF Init, IInv, TypeOK, ReviewStages, Result, MaxScreens

(* Every message keeps the invariant.                                      *)
LEMMA InvariantStep ==
  ASSUME IInv, [Next]_vars
  PROVE  IInv'
<1>1. Typed /\ Reviewable(tx)
  BY InvariantTyped
<1>2. /\ tx \in Transactions /\ pos = Len(tx.words) /\ stage \in ReviewStages
      /\ stage # "idle" => InReview
  BY DEF IInv, TypeOK
<1> DEFINE Frame == tx' \in Transactions /\ stage' \in ReviewStages /\ pos' = Len(tx'.words)
<1>3. ASSUME Frame, Typed' PROVE TypeOK'
  BY <1>3 DEF TypeOK, Typed
<1>4. CASE \E t \in Transactions : parsed(t)
  <2>1. PICK t \in Transactions : parsed(t)
    BY <1>4
  <2>2. Reviewable(t)
    BY ReviewTransactionsAssumption DEF Reviewable
  <2>3. Typed'
    BY <2>1, <2>2, ArgumentTypes, ParsedTypes, EmptyTypes
       DEF parsed, Typed, Result, MaxScreens
  <2>4. Frame
    BY <2>1 DEF parsed, ReviewStages
  <2> QED BY <1>3, <2>1, <2>2, <2>3, <2>4, StepParsed DEF IInv
<1>5. CASE handle_finalize
  <2>1. Frame /\ stage # "idle"
    BY <1>2, <1>5 DEF handle_finalize, ReviewStages
  <2>2. Typed' /\ InReview'
    BY <1>1, <1>2, <1>5, <2>1, TypeFinalize, StepFinalize
  <2> QED BY <1>3, <2>1, <2>2 DEF IInv
<1>6. CASE \E item1, item2 \in TokenInfo \cup {NullItem} :
             handle_provide_token(item1, item2)
  <2>1. PICK item1, item2 \in TokenInfo \cup {NullItem} :
          handle_provide_token(item1, item2)
    BY <1>6
  <2>2. Frame /\ stage # "idle"
    BY <1>2, <2>1 DEF handle_provide_token, ReviewStages
  <2>3. Typed' /\ InReview'
    BY <1>1, <1>2, <2>1, <2>2, TypeProvideToken, StepProvideToken
  <2> QED BY <1>3, <2>2, <2>3 DEF IInv
<1>7. CASE handle_query_contract_id
  <2>1. Frame /\ stage # "idle"
    BY <1>2, <1>7 DEF handle_query_contract_id
  <2>2. Typed' /\ InReview'
    BY <1>1, <1>2, <1>7, <2>1, TypeQueryId, StepQueryId
  <2> QED BY <1>3, <2>1, <2>2 DEF IInv
<1>8. CASE \E i \in 0..(MaxScreens - 1) : handle_query_contract_ui(i)
  <2>1. PICK i \in 0..(MaxScreens - 1) : handle_query_contract_ui(i)
    BY <1>8
  <2>2. Frame /\ stage # "idle"
    BY <1>2, <2>1 DEF handle_query_contract_ui
  <2>3. Typed' /\ InReview'
    BY <1>1, <1>2, <2>1, <2>2, TypeQueryUi, StepQueryUi
  <2> QED BY <1>3, <2>2, <2>3 DEF IInv
<1>9. CASE end_review
  BY <1>1, <1>2, <1>3, <1>9 DEF end_review, ReviewStages, Typed, IInv
<1>10. CASE UNCHANGED vars
  <2>1. IInv' <=> IInv
    BY <1>10
       DEF vars, IInv, TypeOK, InReview, DecodedFields, AmountsKept, NothingLookedUp,
           TokensSettled, ShownSoFar, ToldAt, TooLong, KnownWrong, Expected,
           TokenField, Fields, numScreens, UniswapScreens, WrapScreens, send_ticker,
           receive_ticker, ui_decimals
  <2> QED BY <2>1
<1> QED BY <1>4, <1>5, <1>6, <1>7, <1>8, <1>9, <1>10 DEF Next

(* The inductive invariant: what the context holds between the messages of *)
(* a review, whichever screens were asked for in whatever order.           *)
THEOREM ReviewInvariant == Spec => []IInv
<1>1. Init => IInv
  BY InvariantInit
<1>2. IInv /\ [Next]_vars => IInv'
  BY InvariantStep
<1> QED BY <1>1, <1>2, PTL DEF Spec

(* No field leaves its C type and get_screen is never asked for a sixth    *)
(* screen.                                                                 *)
THEOREM ReviewTypes == Spec => []TypeOK
<1>1. IInv => TypeOK
  BY DEF IInv
<1> QED BY <1>1, ReviewInvariant, PTL

(* The screens counted by handle_finalize and handle_provide_token and     *)
(* those get_screen derives are the ones the review calls for.             *)
THEOREM Planned == Spec => []ScreensAsPlanned
<1>1. IInv => ScreensAsPlanned
  <2> SUFFICES ASSUME IInv, stage = "review"
               PROVE  /\ screens = Len(Expected)
                      /\ \A i \in 1..screens : get_screen(ctx, i - 1) = Expected[i].screen
    BY DEF ScreensAsPlanned
  <2>1. DecodedFields /\ TokensFound /\ screens = Len(Expected)
    BY DEF IInv, InReview, TokensSettled, TokensFound
  <2>2. << tx.to, tx.selector >> \in Deployed
    BY InvariantTyped DEF Reviewable
  <2> QED BY <2>1, <2>2, ScreensInOrder
<1> QED BY <1>1, ReviewInvariant, PTL

(* A screen that was shown is the one due at its place, whatever was asked *)
(* before it.                                                              *)
THEOREM Meant == Spec => []ShownAsMeant
<1>1. IInv => ShownAsMeant
  <2> SUFFICES ASSUME IInv, stage = "review", NEW i \in 1..Len(Expected)
               PROVE  shown[i - 1] \in {Blank, Expected[i]} \/ KnownWrong(Expected[i])
    BY DEF ShownAsMeant
  <2>1. ShownSoFar /\ i \in 1..MaxScreens
    BY DEF IInv, InReview, TypeOK, MaxScreens
  <2> QED BY <2>1 DEF ShownSoFar, ToldAt
<1> QED BY <1>1, ReviewInvariant, PTL

(* Only an amount too long for the application's buffer fails a query.     *)
THEOREM FailsOnlyTooLong == Spec => []FailsOnlyIfTooLong
<1>1. IInv => FailsOnlyIfTooLong
  <2> SUFFICES ASSUME IInv, stage = "review", result # "OK"
               PROVE  \E i \in 1..Len(Expected) :
                        /\ Expected[i].screen \in {"SEND_SCREEN", "RECEIVE_SCREEN"}
                        /\ \E entry \in Unprintable : entry[1] = Expected[i].amount
    BY DEF FailsOnlyIfTooLong
  <2>1. PICK i \in 1..Len(Expected) : TooLong(ToldAt(i))
    BY DEF IInv, InReview, ShownSoFar
  <2>2. << tx.to, tx.selector >> \in Deployed
    BY InvariantTyped DEF Reviewable
  <2>3. /\ Expected[i].screen \in {"SEND_SCREEN", "RECEIVE_SCREEN"}
        /\ ToldAt(i).amount = Expected[i].amount
    <3>1. Expected[i].screen \in {"SEND_SCREEN", "RECEIVE_SCREEN"}
      BY <2>1, <2>2, ToldByKind
    <3>2. CASE KnownWrong(Expected[i])
      <4>1. Expected[i] = ReceiveScreen(tx, items[RECEIVED])
        BY <2>2, <3>2, ScreenOfKind
           DEF KnownWrong, Warning, SendScreen, AmountScreen, BeneficiaryScreen
      <4> QED BY <3>1, <3>2, <4>1 DEF ToldAt, AmountScreen, ReceiveScreen
    <3> QED BY <3>1, <3>2 DEF ToldAt
  <2>4. << ToldAt(i).amount, ToldAt(i).token >> \in Unprintable
    BY <2>1 DEF TooLong
  <2> QED BY <2>3, <2>4
<1> QED BY <1>1, ReviewInvariant, PTL

(* Paging back and forth never changes, nor fails, a screen that was shown. *)
THEOREM ShownAlike == Spec => ShownAgainAlike
<1> DEFINE Alike == stage = "review" =>
                      \A i \in ID..(MaxScreens - 1) :
                        shown[i] # Blank =>
                          /\ shown'[i] = shown[i]
                          /\ handle_query_contract_ui(i) => result' = "OK"
<1>1. IInv /\ [Next]_vars => [Alike]_vars
  <2> SUFFICES ASSUME IInv, Next, stage = "review", NEW i \in ID..(MaxScreens - 1),
                      shown[i] # Blank
               PROVE  /\ shown'[i] = shown[i]
                      /\ handle_query_contract_ui(i) => result' = "OK"
    OBVIOUS
  <2>1. /\ Typed /\ Reviewable(tx) /\ InReview /\ ShownSoFar /\ DecodedFields
        /\ shown \in [ID..(MaxScreens - 1) -> Displays]
    BY InvariantTyped DEF IInv, InReview, TypeOK
  <2>2. i \in Int /\ (i = ID \/ i + 1 \in 1..MaxScreens)
    BY DEF ID, MaxScreens
  <2>3. i # ID => shown[i] = ToldAt(i + 1) /\ ~TooLong(ToldAt(i + 1))
    <3>1. \A j \in 1..MaxScreens :
            shown[j - 1] # Blank => shown[j - 1] = ToldAt(j) /\ ~TooLong(ToldAt(j))
      BY <2>1 DEF ShownSoFar
    <3>2. (i + 1) - 1 = i
      BY <2>2
    <3> QED BY <2>2, <3>1, <3>2
  <2>4. handle_query_contract_ui(i) => result' = "OK"
    <3> SUFFICES ASSUME handle_query_contract_ui(i)
                 PROVE  result' = "OK"
      OBVIOUS
    <3>1. i # ID
      BY <2>1 DEF handle_query_contract_ui, ID, Typed, MaxScreens
    <3> QED BY <2>1, <2>2, <2>3, <3>1, QueryShows
  <2>5. shown'[i] = shown[i]
    <3>1. CASE shown' = shown
      BY <3>1
    <3>2. CASE handle_query_contract_id
      <4>1. shown[ID] \in {Blank, [screen |-> "CONTRACT_ID",
                                   version |-> operation(ctx.selectorIndex)]}
        BY <2>1 DEF ShownSoFar, DecodedFields
      <4> QED BY <2>1, <3>2, <4>1 DEF handle_query_contract_id
    <3>3. CASE \E j \in 0..(MaxScreens - 1) : handle_query_contract_ui(j)
      <4>1. PICK j \in 0..(MaxScreens - 1) : handle_query_contract_ui(j)
        BY <3>3
      <4>2. shown' = shown \/ shown' = [shown EXCEPT ![j] = ToldAt(j + 1)]
        BY <2>1, <4>1, QueryShows
      <4>3. j # ID
        BY DEF ID
      <4> QED BY <2>1, <2>3, <4>2, <4>3
    <3> QED BY <3>1, <3>2, <3>3
            DEF Next, parsed, handle_finalize, handle_provide_token, end_review
  <2> QED BY <2>4, <2>5
<1> QED BY <1>1, ReviewInvariant, PTL DEF Spec, ShownAgainAlike

===============================================================================
