------------------------ MODULE ParamParser_decoding ------------------------
(***************************************************************************)
(* The parser decodes every supported transaction as its ABI says.         *)
(***************************************************************************)
EXTENDS ParamParser_proofs

---------------------------------------------------------------------------
(* What the cases of the handlers leave in the fields that parsing is      *)
(* about.                                                                  *)

Holds(c, amount, min, sent, received, recipient,
      skip, next_param, counter, offset, index) ==
  /\ c.amount_sent = amount
  /\ c.min_amount_received = min
  /\ c.contract_address_sent = sent
  /\ c.contract_address_received = received
  /\ c.beneficiary = recipient
  /\ c.skip = skip
  /\ c.next_param = next_param
  /\ c.counter = counter
  /\ c.offset = offset
  /\ c.selectorIndex = index

(* handle_token_sent, with the next parameter set. *)
LEMMA TokenSentFields ==
  ASSUME NEW c \in ContextType, NEW w, NEW p
  PROVE  Holds(Expect(handle_token_sent(c, w), p),
               c.amount_sent, c.min_amount_received,
               TokenIn(c, w), c.contract_address_received, c.beneficiary,
               c.skip, p, c.counter, c.offset, c.selectorIndex)
BY DEF Holds, Expect, handle_token_sent, ContextType

(* handle_token_received, with the next parameter set. *)
LEMMA TokenReceivedFields ==
  ASSUME NEW c \in ContextType, NEW w, NEW p
  PROVE  Holds(Expect(handle_token_received(c, w), p),
               c.amount_sent, c.min_amount_received,
               c.contract_address_sent, TokenIn(c, w), c.beneficiary,
               c.skip, p, c.counter, c.offset, c.selectorIndex)
BY DEF Holds, Expect, handle_token_received, ContextType

(* handle_amount_sent, with the next parameter set. *)
LEMMA AmountSentFields ==
  ASSUME NEW c \in ContextType, NEW w, NEW p
  PROVE  Holds(Expect(handle_amount_sent(c, w), p),
               w, c.min_amount_received,
               c.contract_address_sent, c.contract_address_received, c.beneficiary,
               c.skip, p, c.counter, c.offset, c.selectorIndex)
BY DEF Holds, Expect, handle_amount_sent, ContextType

(* handle_min_amount_received, with the next parameter set. *)
LEMMA MinAmountReceivedFields ==
  ASSUME NEW c \in ContextType, NEW w, NEW p
  PROVE  Holds(Expect(handle_min_amount_received(c, w), p),
               c.amount_sent, w,
               c.contract_address_sent, c.contract_address_received, c.beneficiary,
               c.skip, p, c.counter, c.offset, c.selectorIndex)
BY DEF Holds, Expect, handle_min_amount_received, ContextType

(* handle_beneficiary, with the next parameter set. *)
LEMMA BeneficiaryFields ==
  ASSUME NEW c \in ContextType, NEW w, NEW p
  PROVE  Holds(Expect(handle_beneficiary(c, w), p),
               c.amount_sent, c.min_amount_received,
               c.contract_address_sent, c.contract_address_received, w.addr,
               c.skip, p, c.counter, c.offset, c.selectorIndex)
BY DEF Holds, Expect, handle_beneficiary, ContextType

(* The same, with one word to skip. *)
LEMMA TokenReceivedSkipFields ==
  ASSUME NEW c \in ContextType, NEW w, NEW p
  PROVE  Holds(Expect(Skip(handle_token_received(c, w), 1), p),
               c.amount_sent, c.min_amount_received,
               c.contract_address_sent, TokenIn(c, w), c.beneficiary,
               Uint8(c.skip + 1), p, c.counter, c.offset, c.selectorIndex)
BY DEF Holds, Expect, Skip, handle_token_received, ContextType

(* The same, with one word to skip. *)
LEMMA BeneficiarySkipFields ==
  ASSUME NEW c \in ContextType, NEW w, NEW p
  PROVE  Holds(Expect(Skip(handle_beneficiary(c, w), 1), p),
               c.amount_sent, c.min_amount_received,
               c.contract_address_sent, c.contract_address_received, w.addr,
               Uint8(c.skip + 1), p, c.counter, c.offset, c.selectorIndex)
BY DEF Holds, Expect, Skip, handle_beneficiary, ContextType

---------------------------------------------------------------------------
(* The selector table against the enumeration. *)

(* The function found is the one called: each handler runs for the         *)
(* selectors whose ABI it reads, and for no other.                         *)
LEMMA HandlerOfSelector ==
  ASSUME FunctionFound
  PROVE  /\ ctx.selectorIndex \in {"ZAPPER_DEPOSIT_ETH"}
              => tx.selector = ZAPPER_DEPOSIT_ETH_SELECTOR
         /\ ctx.selectorIndex \in {"ZAPPER_DEPOSIT_SFRXETH", "VAULT_REDEEM"}
              => tx.selector \in {ZAPPER_DEPOSIT_SFRXETH_SELECTOR,
                                  VAULT_REDEEM_SELECTOR}
         /\ ctx.selectorIndex \in {"VAULT_MINT"}
              => tx.selector = VAULT_MINT_SELECTOR
         /\ ctx.selectorIndex \in CurvePoolFunctions
              => tx.selector \in PoolSelectors
         /\ ctx.selectorIndex \in {"CURVE_ROUTER_EXCHANGE_MULTIPLE"}
              => tx.selector = CURVE_ROUTER_EXCHANGE_MULTIPLE_SELECTOR
         /\ ctx.selectorIndex \in {"UNISWAP_ROUTER_EXACT_INPUT"}
              => tx.selector = UNISWAP_ROUTER_EXACT_INPUT_SELECTOR
         /\ ctx.selectorIndex \in {"UNISWAP_ROUTER_EXACT_INPUT_SINGLE"}
              => tx.selector = UNISWAP_ROUTER_EXACT_INPUT_SINGLE_SELECTOR
         /\ ctx.selectorIndex \in FlipperBuys \cup FlipperSells
              => tx.selector \in FlipperSelectors
         /\ ctx.selectorIndex \in WrapFunctions
              => tx.selector \in WrapSelectors
BY DEF FunctionFound, NUM_SELECTORS, ORIGIN_DEFI_SELECTORS, selector_t,
       CurvePoolFunctions, FlipperBuys, FlipperSells, WrapFunctions,
       PoolSelectors, FlipperSelectors, WrapSelectors

---------------------------------------------------------------------------
(* The ABI of each group of functions, and the groups against each other.  *)

(* Where each function has its arguments.                                  *)
LEMMA AbiWords ==
  ASSUME NEW s
  PROVE  /\ s = ZAPPER_DEPOSIT_ETH_SELECTOR =>
              AmountWord(s) = 0 /\ MinWord(s) = 0 /\ RecipientWord(s) = 0
         /\ s \in {ZAPPER_DEPOSIT_SFRXETH_SELECTOR, VAULT_REDEEM_SELECTOR} =>
              AmountWord(s) = 1 /\ MinWord(s) = 2 /\ RecipientWord(s) = 0
         /\ s = VAULT_MINT_SELECTOR =>
              AmountWord(s) = 2 /\ MinWord(s) = 3 /\ RecipientWord(s) = 0
         /\ s \in PoolSelectors =>
              AmountWord(s) = 3 /\ MinWord(s) = 4 /\ RecipientWord(s) = 0
         /\ s = CURVE_ROUTER_EXCHANGE_MULTIPLE_SELECTOR =>
              AmountWord(s) = 22 /\ MinWord(s) = 23 /\ RecipientWord(s) = 0
         /\ s = UNISWAP_ROUTER_EXACT_INPUT_SELECTOR =>
              AmountWord(s) = 5 /\ MinWord(s) = 6 /\ RecipientWord(s) = 3
         /\ s = UNISWAP_ROUTER_EXACT_INPUT_SINGLE_SELECTOR =>
              AmountWord(s) = 6 /\ MinWord(s) = 7 /\ RecipientWord(s) = 4
         /\ s \in FlipperSelectors =>
              AmountWord(s) = 1 /\ MinWord(s) = 0 /\ RecipientWord(s) = 0
         /\ s \in WrapSelectors =>
              AmountWord(s) = 1 /\ MinWord(s) = 0 /\ RecipientWord(s) = 2
BY DEF AmountWord, MinWord, RecipientWord,
       PoolSelectors, FlipperSelectors, WrapSelectors,
       ZAPPER_DEPOSIT_ETH_SELECTOR, ZAPPER_DEPOSIT_SFRXETH_SELECTOR,
       VAULT_MINT_SELECTOR, VAULT_REDEEM_SELECTOR,
       CURVE_POOL_EXCHANGE_SELECTOR, CURVE_POOL_EXCHANGE_UNDERLYING_SELECTOR,
       CURVE_ROUTER_EXCHANGE_MULTIPLE_SELECTOR,
       UNISWAP_ROUTER_EXACT_INPUT_SELECTOR,
       UNISWAP_ROUTER_EXACT_INPUT_SINGLE_SELECTOR,
       FLIPPER_BUY_OUSD_WITH_USDT_SELECTOR, FLIPPER_SELL_OUSD_FOR_USDT_SELECTOR,
       FLIPPER_BUY_OUSD_WITH_DAI_SELECTOR, FLIPPER_SELL_OUSD_FOR_DAI_SELECTOR,
       FLIPPER_BUY_OUSD_WITH_USDC_SELECTOR, FLIPPER_SELL_OUSD_FOR_USDC_SELECTOR,
       WRAP_SELECTOR, UNWRAP_SELECTOR

(* How many words a well-formed call has at least.                         *)
LEMMA AbiLengths ==
  ASSUME NEW t, WellFormed(t)
  PROVE  /\ t.selector \in {ZAPPER_DEPOSIT_SFRXETH_SELECTOR, VAULT_REDEEM_SELECTOR}
              => Len(t.words) >= 2
         /\ t.selector = VAULT_MINT_SELECTOR => Len(t.words) >= 3
         /\ t.selector \in PoolSelectors => Len(t.words) >= 4
         /\ t.selector = CURVE_ROUTER_EXCHANGE_MULTIPLE_SELECTOR
              => Len(t.words) >= 23
         /\ t.selector = UNISWAP_ROUTER_EXACT_INPUT_SINGLE_SELECTOR
              => Len(t.words) >= 8
         /\ t.selector \in FlipperSelectors => Len(t.words) >= 1
         /\ t.selector \in WrapSelectors => Len(t.words) >= 2
<1>1. Len(t.words) >= AbiLength(t.selector) /\ Len(t.words) \in Nat
  BY DEF WellFormed, TransactionType
<1> QED
  BY <1>1 DEF AbiLength,
       PoolSelectors, FlipperSelectors, WrapSelectors,
       ZAPPER_DEPOSIT_ETH_SELECTOR, ZAPPER_DEPOSIT_SFRXETH_SELECTOR,
       VAULT_MINT_SELECTOR, VAULT_REDEEM_SELECTOR,
       CURVE_POOL_EXCHANGE_SELECTOR, CURVE_POOL_EXCHANGE_UNDERLYING_SELECTOR,
       CURVE_ROUTER_EXCHANGE_MULTIPLE_SELECTOR,
       UNISWAP_ROUTER_EXACT_INPUT_SELECTOR,
       UNISWAP_ROUTER_EXACT_INPUT_SINGLE_SELECTOR,
       FLIPPER_BUY_OUSD_WITH_USDT_SELECTOR, FLIPPER_SELL_OUSD_FOR_USDT_SELECTOR,
       FLIPPER_BUY_OUSD_WITH_DAI_SELECTOR, FLIPPER_SELL_OUSD_FOR_DAI_SELECTOR,
       FLIPPER_BUY_OUSD_WITH_USDC_SELECTOR, FLIPPER_SELL_OUSD_FOR_USDC_SELECTOR,
       WRAP_SELECTOR, UNWRAP_SELECTOR

(* Which of them name tokens.                                              *)
LEMMA AbiTokens ==
  ASSUME NEW t
  PROVE  /\ t.selector \in {ZAPPER_DEPOSIT_ETH_SELECTOR,
                            ZAPPER_DEPOSIT_SFRXETH_SELECTOR,
                            VAULT_REDEEM_SELECTOR}
                           \cup FlipperSelectors \cup WrapSelectors =>
              SentOf(t) = NULL /\ ReceivedOf(t) = NULL
         /\ t.selector = VAULT_MINT_SELECTOR =>
              SentOf(t) = t.words[1].addr /\ ReceivedOf(t) = NULL
         /\ t.selector \in PoolSelectors =>
              /\ SentOf(t) = PoolCoins(t.to)[t.words[1].num + 1]
              /\ ReceivedOf(t) = PoolCoins(t.to)[t.words[2].num + 1]
         /\ t.selector = CURVE_ROUTER_EXCHANGE_MULTIPLE_SELECTOR =>
              /\ SentOf(t) = t.words[1].addr
              /\ ReceivedOf(t) = t.words[RouteLength(t)].addr
         /\ t.selector = UNISWAP_ROUTER_EXACT_INPUT_SELECTOR =>
              SentOf(t) = t.path[1] /\ ReceivedOf(t) = t.path[Len(t.path)]
         /\ t.selector = UNISWAP_ROUTER_EXACT_INPUT_SINGLE_SELECTOR =>
              SentOf(t) = t.words[1].addr /\ ReceivedOf(t) = t.words[2].addr
         /\ SentWord(t.selector) =
              IF t.selector = UNISWAP_ROUTER_EXACT_INPUT_SELECTOR THEN 8 ELSE 1
BY DEF SentOf, ReceivedOf, SentWord, PathWord,
       PoolSelectors, FlipperSelectors, WrapSelectors,
       ZAPPER_DEPOSIT_ETH_SELECTOR, ZAPPER_DEPOSIT_SFRXETH_SELECTOR,
       VAULT_MINT_SELECTOR, VAULT_REDEEM_SELECTOR,
       CURVE_POOL_EXCHANGE_SELECTOR, CURVE_POOL_EXCHANGE_UNDERLYING_SELECTOR,
       CURVE_ROUTER_EXCHANGE_MULTIPLE_SELECTOR,
       UNISWAP_ROUTER_EXACT_INPUT_SELECTOR,
       UNISWAP_ROUTER_EXACT_INPUT_SINGLE_SELECTOR,
       FLIPPER_BUY_OUSD_WITH_USDT_SELECTOR, FLIPPER_SELL_OUSD_FOR_USDT_SELECTOR,
       FLIPPER_BUY_OUSD_WITH_DAI_SELECTOR, FLIPPER_SELL_OUSD_FOR_DAI_SELECTOR,
       FLIPPER_BUY_OUSD_WITH_USDC_SELECTOR, FLIPPER_SELL_OUSD_FOR_USDC_SELECTOR,
       WRAP_SELECTOR, UNWRAP_SELECTOR

(* The groups are disjoint: one cursor holds, that of the selector.         *)
LEMMA CursorOfSelector ==
  /\ tx'.selector = ZAPPER_DEPOSIT_ETH_SELECTOR /\ CursorDeposit' => Cursor'
  /\ tx'.selector \in {ZAPPER_DEPOSIT_SFRXETH_SELECTOR, VAULT_REDEEM_SELECTOR}
       /\ CursorAmountAndMin' => Cursor'
  /\ tx'.selector = VAULT_MINT_SELECTOR /\ CursorMint' => Cursor'
  /\ tx'.selector \in PoolSelectors /\ CursorPool' => Cursor'
  /\ tx'.selector = CURVE_ROUTER_EXCHANGE_MULTIPLE_SELECTOR
       /\ CursorRouter(RouteLength(tx))' => Cursor'
  /\ tx'.selector = UNISWAP_ROUTER_EXACT_INPUT_SELECTOR
       /\ CursorPath(TokenWord(tx), PathBytes(tx))' => Cursor'
  /\ tx'.selector = UNISWAP_ROUTER_EXACT_INPUT_SINGLE_SELECTOR
       /\ CursorSingle' => Cursor'
  /\ tx'.selector \in FlipperSelectors /\ CursorFlipper' => Cursor'
  /\ tx'.selector \in WrapSelectors /\ CursorWrap' => Cursor'
BY DEF Cursor, FixedCursor,
       PoolSelectors, FlipperSelectors, WrapSelectors,
       ZAPPER_DEPOSIT_ETH_SELECTOR, ZAPPER_DEPOSIT_SFRXETH_SELECTOR,
       VAULT_MINT_SELECTOR, VAULT_REDEEM_SELECTOR,
       CURVE_POOL_EXCHANGE_SELECTOR, CURVE_POOL_EXCHANGE_UNDERLYING_SELECTOR,
       CURVE_ROUTER_EXCHANGE_MULTIPLE_SELECTOR,
       UNISWAP_ROUTER_EXACT_INPUT_SELECTOR,
       UNISWAP_ROUTER_EXACT_INPUT_SINGLE_SELECTOR,
       FLIPPER_BUY_OUSD_WITH_USDT_SELECTOR, FLIPPER_SELL_OUSD_FOR_USDT_SELECTOR,
       FLIPPER_BUY_OUSD_WITH_DAI_SELECTOR, FLIPPER_SELL_OUSD_FOR_DAI_SELECTOR,
       FLIPPER_BUY_OUSD_WITH_USDC_SELECTOR, FLIPPER_SELL_OUSD_FOR_USDC_SELECTOR,
       WRAP_SELECTOR, UNWRAP_SELECTOR

(* Functions whose received token is one word or none.                     *)
LEMMA ReceivedPlainly ==
  ASSUME NEW s,
         \/ s \in {ZAPPER_DEPOSIT_ETH_SELECTOR, ZAPPER_DEPOSIT_SFRXETH_SELECTOR,
                   VAULT_REDEEM_SELECTOR, VAULT_MINT_SELECTOR,
                   UNISWAP_ROUTER_EXACT_INPUT_SINGLE_SELECTOR}
         \/ s \in PoolSelectors \cup FlipperSelectors \cup WrapSelectors
  PROVE  /\ s # CURVE_ROUTER_EXCHANGE_MULTIPLE_SELECTOR
         /\ s # UNISWAP_ROUTER_EXACT_INPUT_SELECTOR
BY DEF PoolSelectors, FlipperSelectors, WrapSelectors,
       ZAPPER_DEPOSIT_ETH_SELECTOR, ZAPPER_DEPOSIT_SFRXETH_SELECTOR,
       VAULT_MINT_SELECTOR, VAULT_REDEEM_SELECTOR,
       CURVE_POOL_EXCHANGE_SELECTOR, CURVE_POOL_EXCHANGE_UNDERLYING_SELECTOR,
       CURVE_ROUTER_EXCHANGE_MULTIPLE_SELECTOR,
       UNISWAP_ROUTER_EXACT_INPUT_SELECTOR,
       UNISWAP_ROUTER_EXACT_INPUT_SINGLE_SELECTOR,
       FLIPPER_BUY_OUSD_WITH_USDT_SELECTOR, FLIPPER_SELL_OUSD_FOR_USDT_SELECTOR,
       FLIPPER_BUY_OUSD_WITH_DAI_SELECTOR, FLIPPER_SELL_OUSD_FOR_DAI_SELECTOR,
       FLIPPER_BUY_OUSD_WITH_USDC_SELECTOR, FLIPPER_SELL_OUSD_FOR_USDC_SELECTOR,
       WRAP_SELECTOR, UNWRAP_SELECTOR

---------------------------------------------------------------------------
(* One word. *)

(* What every handler starts from: the words before this one are parsed,   *)
(* and only the position among them moves.                                 *)
LEMMA StepFacts ==
  ASSUME Typed, ParsedSoFar, Supported(tx), Provide
  PROVE  /\ WellFormed(tx)
         /\ ctx \in ContextType /\ pos \in Nat
         /\ tx' = tx /\ pos' = pos + 1 /\ stage' = stage
         /\ parameter = tx.words[pos + 1]
BY TypeProvide DEF Typed, Provide, parameter, Supported

(* No handler touches the index that find_selector set.                    *)
LEMMA FunctionKept ==
  ASSUME FunctionFound, tx' = tx, ctx'.selectorIndex = ctx.selectorIndex
  PROVE  FunctionFound'
BY DEF FunctionFound

---------------------------------------------------------------------------
(* One word of each function.  Each lemma says that the handler leaves     *)
(* what was parsed in order, one word further, and answers OK.             *)

(* handle_vault_mint: the token, the amount, the least amount.             *)
LEMMA MintStep ==
  ASSUME Typed, ParsedSoFar, Supported(tx), handle_vault_mint
  PROVE  ParsedSoFar' /\ result' = "OK"
<1>1. Handler({"VAULT_MINT"}) /\ Provide
  BY DEF handle_vault_mint, Handler
<1>2. FunctionFound /\ SentSoFar /\ ReceivedSoFar /\ AmountsSoFar /\ Cursor
  BY <1>1, StepFacts DEF ParsedSoFar
<1>3. /\ tx.selector = VAULT_MINT_SELECTOR
      /\ ctx.selectorIndex \notin CurvePoolFunctions
  BY <1>1, <1>2, HandlerOfSelector DEF Handler, CurvePoolFunctions
<1>4. CursorMint
  BY <1>2, <1>3 DEF Cursor, FixedCursor
<1>5. /\ ctx \in ContextType /\ pos \in Nat /\ tx' = tx /\ pos' = pos + 1
      /\ parameter = tx.words[pos + 1]
  BY <1>1, StepFacts
<1> DEFINE Becomes(a, m, s, p) ==
      Holds(ctx', a, m, s, ctx.contract_address_received, ctx.beneficiary,
            ctx.skip, p, ctx.counter, ctx.offset, ctx.selectorIndex)
<1>6. /\ \/ pos = 0 /\ Becomes(ctx.amount_sent, ctx.min_amount_received,
                               parameter.addr, "AMOUNT_SENT")
         \/ pos = 1 /\ Becomes(parameter, ctx.min_amount_received,
                               ctx.contract_address_sent, "MIN_AMOUNT_RECEIVED")
         \/ pos = 2 /\ Becomes(ctx.amount_sent, parameter,
                               ctx.contract_address_sent, "NONE")
         \/ pos > 2 /\ ctx' = ctx
      /\ result' = "OK"
  BY <1>3, <1>4, <1>5, TokenSentFields, AmountSentFields, MinAmountReceivedFields
     DEF handle_vault_mint, CursorMint, Expecting, On, Otherwise, TokenIn
<1>7. CursorMint'
  BY <1>4, <1>5, <1>6 DEF CursorMint, Expecting, Holds
<1>8. Cursor'
  BY <1>3, <1>5, <1>7, CursorOfSelector
<1>9. FunctionFound'
  BY <1>2, <1>5, <1>6, FunctionKept DEF Holds
<1>10. SentSoFar' /\ ReceivedSoFar'
  BY <1>2, <1>3, <1>5, <1>6, AbiTokens, ReceivedPlainly
     DEF SentSoFar, ReceivedSoFar, Holds
<1>11. AmountsSoFar'
  BY <1>2, <1>3, <1>5, <1>6, AbiWords
     DEF AmountsSoFar,
         AmountOf, MinOf, RecipientOf, Holds
<1> QED BY <1>6, <1>8, <1>9, <1>10, <1>11 DEF ParsedSoFar

(* handle_zapper_deposit_eth reads nothing.                                *)
LEMMA DepositStep ==
  ASSUME Typed, ParsedSoFar, Supported(tx), handle_zapper_deposit_eth
  PROVE  ParsedSoFar' /\ result' = "OK"
<1>1. Handler({"ZAPPER_DEPOSIT_ETH"}) /\ Provide
  BY DEF handle_zapper_deposit_eth, Handler
<1>2. FunctionFound /\ SentSoFar /\ ReceivedSoFar /\ AmountsSoFar /\ Cursor
  BY <1>1, StepFacts DEF ParsedSoFar
<1>3. tx.selector = ZAPPER_DEPOSIT_ETH_SELECTOR
  BY <1>1, <1>2, HandlerOfSelector DEF Handler
<1>4. CursorDeposit
  BY <1>2, <1>3 DEF Cursor, FixedCursor
<1>5. pos \in Nat /\ tx' = tx /\ pos' = pos + 1
  BY <1>1, StepFacts
<1>6. ctx' = ctx /\ result' = "OK"
  BY <1>4 DEF handle_zapper_deposit_eth, CursorDeposit, Expecting, Otherwise
<1>7. Cursor'
  BY <1>3, <1>4, <1>5, <1>6, CursorOfSelector DEF CursorDeposit, Expecting
<1>8. FunctionFound'
  BY <1>2, <1>5, <1>6, FunctionKept
<1>9. SentSoFar' /\ ReceivedSoFar'
  BY <1>2, <1>3, <1>5, <1>6, AbiTokens, ReceivedPlainly
     DEF SentSoFar, ReceivedSoFar
<1>10. AmountsSoFar'
  BY <1>2, <1>3, <1>5, <1>6, AbiWords
     DEF AmountsSoFar,
         AmountOf, MinOf, RecipientOf
<1> QED BY <1>6, <1>7, <1>8, <1>9, <1>10 DEF ParsedSoFar

(* handle_zapper_deposit_sfrxeth and handle_vault_redeem: the amount and   *)
(* the least amount.                                                       *)
LEMMA AmountAndMinStep ==
  ASSUME Typed, ParsedSoFar, Supported(tx), handle_amount_and_min
  PROVE  ParsedSoFar' /\ result' = "OK"
<1>1. Handler({"ZAPPER_DEPOSIT_SFRXETH", "VAULT_REDEEM"}) /\ Provide
  BY DEF handle_amount_and_min, Handler
<1>2. FunctionFound /\ SentSoFar /\ ReceivedSoFar /\ AmountsSoFar /\ Cursor
  BY <1>1, StepFacts DEF ParsedSoFar
<1>3. tx.selector \in {ZAPPER_DEPOSIT_SFRXETH_SELECTOR, VAULT_REDEEM_SELECTOR}
  BY <1>1, <1>2, HandlerOfSelector DEF Handler
<1>4. CursorAmountAndMin
  BY <1>2, <1>3 DEF Cursor, FixedCursor
<1>5. /\ ctx \in ContextType /\ pos \in Nat /\ tx' = tx /\ pos' = pos + 1
      /\ parameter = tx.words[pos + 1]
  BY <1>1, StepFacts
<1> DEFINE Becomes(a, m, p) ==
      Holds(ctx', a, m, ctx.contract_address_sent,
            ctx.contract_address_received, ctx.beneficiary,
            ctx.skip, p, ctx.counter, ctx.offset, ctx.selectorIndex)
<1>6. /\ \/ pos = 0 /\ Becomes(parameter, ctx.min_amount_received,
                               "MIN_AMOUNT_RECEIVED")
         \/ pos = 1 /\ Becomes(ctx.amount_sent, parameter, "NONE")
         \/ pos > 1 /\ ctx' = ctx
      /\ result' = "OK"
  BY <1>4, <1>5, AmountSentFields, MinAmountReceivedFields
     DEF handle_amount_and_min, CursorAmountAndMin, Expecting, On, Otherwise
<1>7. CursorAmountAndMin'
  BY <1>4, <1>5, <1>6 DEF CursorAmountAndMin, Expecting, Holds
<1>8. Cursor'
  BY <1>3, <1>5, <1>7, CursorOfSelector
<1>9. FunctionFound'
  BY <1>2, <1>5, <1>6, FunctionKept DEF Holds
<1>10. SentSoFar' /\ ReceivedSoFar'
  BY <1>2, <1>3, <1>5, <1>6, AbiTokens, ReceivedPlainly
     DEF SentSoFar, ReceivedSoFar, Holds
<1>11. AmountsSoFar'
  BY <1>2, <1>3, <1>5, <1>6, AbiWords
     DEF AmountsSoFar,
         AmountOf, MinOf, RecipientOf, Holds
<1> QED BY <1>6, <1>8, <1>9, <1>10, <1>11 DEF ParsedSoFar

(* A supported call of a pool function is on a pool.                       *)
LEMMA PoolCalled ==
  ASSUME NEW t, Supported(t), t.selector \in PoolSelectors
  PROVE  t.to \in Pools
BY DEF Supported, Deployed, Pools,
       ZapperSelectors, VaultSelectors,
       PoolSelectors, FlipperSelectors, WrapSelectors,
       ZAPPER_DEPOSIT_ETH_SELECTOR, ZAPPER_DEPOSIT_SFRXETH_SELECTOR,
       VAULT_MINT_SELECTOR, VAULT_REDEEM_SELECTOR,
       CURVE_POOL_EXCHANGE_SELECTOR, CURVE_POOL_EXCHANGE_UNDERLYING_SELECTOR,
       CURVE_ROUTER_EXCHANGE_MULTIPLE_SELECTOR,
       UNISWAP_ROUTER_EXACT_INPUT_SELECTOR,
       UNISWAP_ROUTER_EXACT_INPUT_SINGLE_SELECTOR,
       FLIPPER_BUY_OUSD_WITH_USDT_SELECTOR, FLIPPER_SELL_OUSD_FOR_USDT_SELECTOR,
       FLIPPER_BUY_OUSD_WITH_DAI_SELECTOR, FLIPPER_SELL_OUSD_FOR_DAI_SELECTOR,
       FLIPPER_BUY_OUSD_WITH_USDC_SELECTOR, FLIPPER_SELL_OUSD_FOR_USDC_SELECTOR,
       WRAP_SELECTOR, UNWRAP_SELECTOR

(* An index into a short list is its own last byte.                        *)
LEMMA LastByte ==
  ASSUME NEW n \in uint16_t, NEW m \in 2..4, n < m
  PROVE  n % 256 = n /\ (n % 256) + 1 <= m
BY DEF uint16_t

(* A supported pool call names its coins by an index the pool has.         *)
LEMMA PoolTokens ==
  ASSUME Supported(tx), tx.selector \in PoolSelectors, NEW k \in 1..2
  PROVE  PoolCoin(tx.words[k]) = PoolCoins(tx.to)[tx.words[k].num + 1]
<1>1. tx.to \in Pools
  BY PoolCalled
<1>2. tx.words[k].num < Len(PoolCoins(tx.to))
  BY <1>1 DEF Supported, WellFormed
<1>3. Len(PoolCoins(tx.to)) \in 2..4
  BY DEF PoolCoins
<1>4. tx.words[k].num \in uint16_t
  <2>1. tx.words \in Seq(Word) /\ Len(tx.words) >= 4
    BY AbiLengths DEF Supported, WellFormed, TransactionType
  <2>2. tx.words[k] \in Word
    BY <2>1
  <2> QED BY <2>2 DEF Word
<1>5. /\ tx.words[k].num % 256 = tx.words[k].num
      /\ (tx.words[k].num % 256) + 1 <= Len(PoolCoins(tx.to))
  BY <1>2, <1>3, <1>4, LastByte
<1>6. PoolCoin(tx.words[k]) = PoolCoins(tx.to)[(tx.words[k].num % 256) + 1]
  BY <1>1, <1>5 DEF PoolCoin
<1> QED BY <1>5, <1>6

(* handle_curve_pool_exchange: two coin indices, the amounts.              *)
LEMMA PoolStep ==
  ASSUME Typed, ParsedSoFar, Supported(tx), handle_curve_pool_exchange
  PROVE  ParsedSoFar' /\ result' = "OK"
<1>1. Handler(CurvePoolFunctions) /\ Provide
  BY DEF handle_curve_pool_exchange, Handler
<1>2. FunctionFound /\ SentSoFar /\ ReceivedSoFar /\ AmountsSoFar /\ Cursor
  BY <1>1, StepFacts DEF ParsedSoFar
<1>3. tx.selector \in PoolSelectors /\ ctx.selectorIndex \in CurvePoolFunctions
  BY <1>1, <1>2, HandlerOfSelector DEF Handler
<1>4. CursorPool
  BY <1>2, <1>3 DEF Cursor, FixedCursor
<1>5. /\ ctx \in ContextType /\ pos \in Nat /\ tx' = tx /\ pos' = pos + 1
      /\ parameter = tx.words[pos + 1]
  BY <1>1, StepFacts
<1> DEFINE Becomes(a, m, s, r, p) ==
      Holds(ctx', a, m, s, r, ctx.beneficiary,
            ctx.skip, p, ctx.counter, ctx.offset, ctx.selectorIndex)
<1>6. /\ \/ /\ pos = 0
            /\ Becomes(ctx.amount_sent, ctx.min_amount_received,
                       PoolCoin(parameter), ctx.contract_address_received,
                       "TOKEN_RECEIVED")
         \/ /\ pos = 1
            /\ Becomes(ctx.amount_sent, ctx.min_amount_received,
                       ctx.contract_address_sent, PoolCoin(parameter),
                       "AMOUNT_SENT")
         \/ /\ pos = 2
            /\ Becomes(parameter, ctx.min_amount_received,
                       ctx.contract_address_sent, ctx.contract_address_received,
                       "MIN_AMOUNT_RECEIVED")
         \/ /\ pos = 3
            /\ Becomes(ctx.amount_sent, parameter,
                       ctx.contract_address_sent, ctx.contract_address_received,
                       "NONE")
         \/ pos > 3 /\ ctx' = ctx
      /\ result' = "OK"
  BY <1>3, <1>4, <1>5, TokenSentFields, TokenReceivedFields, AmountSentFields,
     MinAmountReceivedFields
     DEF handle_curve_pool_exchange, CursorPool, Expecting, On, Otherwise, TokenIn
<1>7. CursorPool'
  BY <1>4, <1>5, <1>6 DEF CursorPool, Expecting, Holds
<1>8. Cursor'
  BY <1>3, <1>5, <1>7, CursorOfSelector
<1>9. FunctionFound'
  BY <1>2, <1>5, <1>6, FunctionKept DEF Holds
<1>10. /\ PoolCoin(tx.words[1]) = SentOf(tx)
       /\ PoolCoin(tx.words[2]) = ReceivedOf(tx)
  BY <1>2, <1>3, PoolTokens, AbiTokens
<1>11. SentSoFar' /\ ReceivedSoFar'
  BY <1>2, <1>3, <1>5, <1>6, <1>10, AbiTokens, ReceivedPlainly
     DEF SentSoFar, ReceivedSoFar, Holds
<1>12. AmountsSoFar'
  BY <1>2, <1>3, <1>5, <1>6, AbiWords
     DEF AmountsSoFar,
         AmountOf, MinOf, RecipientOf, Holds
<1> QED BY <1>6, <1>8, <1>9, <1>11, <1>12 DEF ParsedSoFar

(* handle_flipper_exchange: the amount.                                    *)
LEMMA FlipperStep ==
  ASSUME Typed, ParsedSoFar, Supported(tx), handle_flipper_exchange
  PROVE  ParsedSoFar' /\ result' = "OK"
<1>1. Handler(FlipperBuys \cup FlipperSells) /\ Provide
  BY DEF handle_flipper_exchange, Handler
<1>2. FunctionFound /\ SentSoFar /\ ReceivedSoFar /\ AmountsSoFar /\ Cursor
  BY <1>1, StepFacts DEF ParsedSoFar
<1>3. tx.selector \in FlipperSelectors
  BY <1>1, <1>2, HandlerOfSelector DEF Handler
<1>4. CursorFlipper
  BY <1>2, <1>3 DEF Cursor, FixedCursor
<1>5. /\ ctx \in ContextType /\ pos \in Nat /\ tx' = tx /\ pos' = pos + 1
      /\ parameter = tx.words[pos + 1]
  BY <1>1, StepFacts
<1>6. /\ \/ /\ pos = 0
            /\ Holds(ctx', parameter, ctx.min_amount_received,
                     ctx.contract_address_sent, ctx.contract_address_received,
                     ctx.beneficiary, ctx.skip, "NONE",
                     ctx.counter, ctx.offset, ctx.selectorIndex)
         \/ pos > 0 /\ ctx' = ctx
      /\ result' = "OK"
  BY <1>4, <1>5, AmountSentFields
     DEF handle_flipper_exchange, CursorFlipper, Expecting, On, Otherwise
<1>7. CursorFlipper'
  BY <1>4, <1>5, <1>6 DEF CursorFlipper, Expecting, Holds
<1>8. Cursor'
  BY <1>3, <1>5, <1>7, CursorOfSelector
<1>9. FunctionFound'
  BY <1>2, <1>5, <1>6, FunctionKept DEF Holds
<1>10. SentSoFar' /\ ReceivedSoFar'
  BY <1>2, <1>3, <1>5, <1>6, AbiTokens, ReceivedPlainly
     DEF SentSoFar, ReceivedSoFar, Holds
<1>11. AmountsSoFar'
  BY <1>2, <1>3, <1>5, <1>6, AbiWords
     DEF AmountsSoFar,
         AmountOf, MinOf, RecipientOf, Holds
<1> QED BY <1>6, <1>8, <1>9, <1>10, <1>11 DEF ParsedSoFar

(* handle_wrap: the amount and the recipient.                              *)
LEMMA WrapStep ==
  ASSUME Typed, ParsedSoFar, Supported(tx), handle_wrap
  PROVE  ParsedSoFar' /\ result' = "OK"
<1>1. Handler(WrapFunctions) /\ Provide
  BY DEF handle_wrap, Handler
<1>2. FunctionFound /\ SentSoFar /\ ReceivedSoFar /\ AmountsSoFar /\ Cursor
  BY <1>1, StepFacts DEF ParsedSoFar
<1>3. tx.selector \in WrapSelectors
  BY <1>1, <1>2, HandlerOfSelector DEF Handler
<1>4. CursorWrap
  BY <1>2, <1>3 DEF Cursor, FixedCursor
<1>5. /\ ctx \in ContextType /\ pos \in Nat /\ tx' = tx /\ pos' = pos + 1
      /\ parameter = tx.words[pos + 1]
  BY <1>1, StepFacts
<1> DEFINE Becomes(a, b, p) ==
      Holds(ctx', a, ctx.min_amount_received, ctx.contract_address_sent,
            ctx.contract_address_received, b,
            ctx.skip, p, ctx.counter, ctx.offset, ctx.selectorIndex)
<1>6. /\ \/ pos = 0 /\ Becomes(parameter, ctx.beneficiary, "BENEFICIARY")
         \/ pos = 1 /\ Becomes(ctx.amount_sent, parameter.addr, "NONE")
         \/ pos > 1 /\ ctx' = ctx
      /\ result' = "OK"
  BY <1>4, <1>5, AmountSentFields, BeneficiaryFields
     DEF handle_wrap, CursorWrap, Expecting, On, Otherwise
<1>7. CursorWrap'
  BY <1>4, <1>5, <1>6 DEF CursorWrap, Expecting, Holds
<1>8. Cursor'
  BY <1>3, <1>5, <1>7, CursorOfSelector
<1>9. FunctionFound'
  BY <1>2, <1>5, <1>6, FunctionKept DEF Holds
<1>10. SentSoFar' /\ ReceivedSoFar'
  BY <1>2, <1>3, <1>5, <1>6, AbiTokens, ReceivedPlainly
     DEF SentSoFar, ReceivedSoFar, Holds
<1>11. AmountsSoFar'
  BY <1>2, <1>3, <1>5, <1>6, AbiWords
     DEF AmountsSoFar,
         AmountOf, MinOf, RecipientOf, Holds
<1> QED BY <1>6, <1>8, <1>9, <1>10, <1>11 DEF ParsedSoFar

(* handle_uniswap_exchange_single: the tokens, and past the fee and the    *)
(* deadline the recipient and the amounts.                                 *)
LEMMA SingleStep ==
  ASSUME Typed, ParsedSoFar, Supported(tx), handle_uniswap_exchange_single
  PROVE  ParsedSoFar' /\ result' = "OK"
<1>1. Handler({"UNISWAP_ROUTER_EXACT_INPUT_SINGLE"}) /\ Provide
  BY DEF handle_uniswap_exchange_single, Handler
<1>2. FunctionFound /\ SentSoFar /\ ReceivedSoFar /\ AmountsSoFar /\ Cursor
  BY <1>1, StepFacts DEF ParsedSoFar
<1>3. /\ tx.selector = UNISWAP_ROUTER_EXACT_INPUT_SINGLE_SELECTOR
      /\ ctx.selectorIndex \notin CurvePoolFunctions
      /\ ctx.skip = 0
  BY <1>1, <1>2, HandlerOfSelector DEF Handler, CurvePoolFunctions
<1>4. CursorSingle
  BY <1>2, <1>3 DEF Cursor, FixedCursor
<1>5. /\ ctx \in ContextType /\ pos \in Nat /\ tx' = tx /\ pos' = pos + 1
      /\ parameter = tx.words[pos + 1]
  BY <1>1, StepFacts
<1> DEFINE Becomes(a, m, s, r, b, k, p) ==
      Holds(ctx', a, m, s, r, b, k, p, ctx.counter, ctx.offset, ctx.selectorIndex)
<1>6. /\ \/ /\ pos = 0
            /\ Becomes(ctx.amount_sent, ctx.min_amount_received, parameter.addr,
                       ctx.contract_address_received, ctx.beneficiary,
                       0, "TOKEN_RECEIVED")
         \/ /\ pos = 1
            /\ Becomes(ctx.amount_sent, ctx.min_amount_received,
                       ctx.contract_address_sent, parameter.addr,
                       ctx.beneficiary, 1, "BENEFICIARY")
         \/ /\ pos = 3
            /\ Becomes(ctx.amount_sent, ctx.min_amount_received,
                       ctx.contract_address_sent, ctx.contract_address_received,
                       parameter.addr, 1, "AMOUNT_SENT")
         \/ /\ pos = 5
            /\ Becomes(parameter, ctx.min_amount_received,
                       ctx.contract_address_sent, ctx.contract_address_received,
                       ctx.beneficiary, 0, "MIN_AMOUNT_RECEIVED")
         \/ /\ pos = 6
            /\ Becomes(ctx.amount_sent, parameter,
                       ctx.contract_address_sent, ctx.contract_address_received,
                       ctx.beneficiary, 0, "NONE")
         \/ pos > 6 /\ ctx' = ctx
      /\ result' = "OK"
  BY <1>3, <1>4, <1>5, TokenSentFields, TokenReceivedSkipFields,
     BeneficiarySkipFields, AmountSentFields, MinAmountReceivedFields
     DEF handle_uniswap_exchange_single, CursorSingle, Expecting, On, Otherwise,
         TokenIn, Uint8
<1>7. CursorSingle'
  BY <1>3, <1>4, <1>5, <1>6 DEF CursorSingle, Expecting, Holds
<1>8. Cursor'
  BY <1>3, <1>5, <1>7, CursorOfSelector
<1>9. FunctionFound'
  BY <1>2, <1>5, <1>6, FunctionKept DEF Holds
<1>10. SentSoFar' /\ ReceivedSoFar'
  BY <1>2, <1>3, <1>5, <1>6, AbiTokens, ReceivedPlainly
     DEF SentSoFar, ReceivedSoFar, Holds
<1>11. AmountsSoFar'
  BY <1>2, <1>3, <1>5, <1>6, AbiWords
     DEF AmountsSoFar,
         AmountOf, MinOf, RecipientOf, Holds
<1> QED BY <1>6, <1>8, <1>9, <1>10, <1>11 DEF ParsedSoFar

---------------------------------------------------------------------------
(* The Curve router's route.                                               *)

(* A supported route ends, with a null, before its ninth slot.             *)
LEMMA RouteEnds ==
  ASSUME NEW t, Supported(t),
         t.selector = CURVE_ROUTER_EXCHANGE_MULTIPLE_SELECTOR
  PROVE  /\ RouteLength(t) \in 3..8
         /\ \A i \in 1..9 : t.words[i].addr # NULL <=> i <= RouteLength(t)
<1>1. PICK m \in {3, 5, 7, 9} : IsRoute(t, m)
  BY DEF Supported, WellFormed
<1>2. RouteLength(t) \in 1..9 /\ IsRoute(t, RouteLength(t))
  BY <1>1 DEF RouteLength, RouteWords
<1>3. RouteLength(t) = m
  BY <1>1, <1>2 DEF IsRoute, RouteWords
<1>4. t.words[9].addr = NULL
  BY DEF Supported, RouteWords
<1> QED BY <1>2, <1>3, <1>4 DEF IsRoute, RouteWords

(* One address of the route, or the null after the last.                   *)
LEMMA RouteFields ==
  ASSUME NEW c \in ContextType, NEW w, NEW n \in 1..8,
         c.selectorIndex \notin CurvePoolFunctions,
         c.skip = 0, c.counter = n - 1
  PROVE  IF w.addr = NULL
           THEN Holds(handle_route(c, w),
                      c.amount_sent, c.min_amount_received,
                      c.contract_address_sent, c.contract_address_received,
                      c.beneficiary, 20 - n, "AMOUNT_SENT", 0,
                      c.offset, c.selectorIndex)
           ELSE Holds(handle_route(c, w),
                      c.amount_sent, c.min_amount_received,
                      c.contract_address_sent, w.addr,
                      c.beneficiary, 0, "TOKEN_RECEIVED", n,
                      c.offset, c.selectorIndex)
<1>1. Uint8(c.counter + 1) = n /\ Uint8(c.skip + route_skip(n)) = 20 - n
  BY DEF Uint8, route_skip
<1>2. handle_route(c, w) =
        IF w.addr = NULL
          THEN Expect([Skip(c, route_skip(n)) EXCEPT !.counter = 0],
                      "AMOUNT_SENT")
          ELSE Expect([handle_token_received(c, w) EXCEPT !.counter = n],
                      "TOKEN_RECEIVED")
  BY <1>1 DEF handle_route
<1>3. CASE w.addr = NULL
  BY <1>1, <1>2, <1>3 DEF Holds, Expect, Skip, ContextType
<1>4. CASE w.addr # NULL
  BY <1>2, <1>4 DEF Holds, Expect, handle_token_received, TokenIn, ContextType
<1> QED BY <1>3, <1>4

(* handle_curve_router_exchange: the route up to its null, past the rest   *)
(* of it and the swap parameters, then the amounts.                        *)
LEMMA RouterStep ==
  ASSUME Typed, ParsedSoFar, Supported(tx), handle_curve_router_exchange
  PROVE  ParsedSoFar' /\ result' = "OK"
<1>1. Handler({"CURVE_ROUTER_EXCHANGE_MULTIPLE"}) /\ Provide
  BY DEF handle_curve_router_exchange, Handler
<1>2. FunctionFound /\ SentSoFar /\ ReceivedSoFar /\ AmountsSoFar /\ Cursor
  BY <1>1, StepFacts DEF ParsedSoFar
<1>3. /\ tx.selector = CURVE_ROUTER_EXCHANGE_MULTIPLE_SELECTOR
      /\ tx.selector # UNISWAP_ROUTER_EXACT_INPUT_SELECTOR
      /\ ctx.selectorIndex \notin CurvePoolFunctions
      /\ ctx.skip = 0
  BY <1>1, <1>2, HandlerOfSelector
     DEF Handler, CurvePoolFunctions, CURVE_ROUTER_EXCHANGE_MULTIPLE_SELECTOR,
         UNISWAP_ROUTER_EXACT_INPUT_SELECTOR
<1> DEFINE m == RouteLength(tx)
<1>4. /\ CursorRouter(m)
      /\ m \in 3..8
      /\ \A i \in 1..9 : tx.words[i].addr # NULL <=> i <= m
  BY <1>2, <1>3, RouteEnds DEF Cursor
<1>5. /\ ctx \in ContextType /\ pos \in Nat /\ tx' = tx /\ pos' = pos + 1
      /\ parameter = tx.words[pos + 1]
  BY <1>1, StepFacts
<1> DEFINE Becomes(a, n, s, r, k, p, i) ==
      Holds(ctx', a, n, s, r, ctx.beneficiary, k, p, i,
            ctx.offset, ctx.selectorIndex)
<1>6. /\ \/ /\ pos = 0
            /\ Becomes(ctx.amount_sent, ctx.min_amount_received, parameter.addr,
                       ctx.contract_address_received, 0, "TOKEN_RECEIVED", 0)
         \/ /\ pos \in 1..(m - 1)
            /\ Becomes(ctx.amount_sent, ctx.min_amount_received,
                       ctx.contract_address_sent, parameter.addr,
                       0, "TOKEN_RECEIVED", pos)
         \/ /\ pos = m
            /\ Becomes(ctx.amount_sent, ctx.min_amount_received,
                       ctx.contract_address_sent, ctx.contract_address_received,
                       20 - pos, "AMOUNT_SENT", 0)
         \/ /\ pos = 21
            /\ Becomes(parameter, ctx.min_amount_received,
                       ctx.contract_address_sent, ctx.contract_address_received,
                       0, "MIN_AMOUNT_RECEIVED", ctx.counter)
         \/ /\ pos = 22
            /\ Becomes(ctx.amount_sent, parameter,
                       ctx.contract_address_sent, ctx.contract_address_received,
                       0, "NONE", ctx.counter)
         \/ pos > 22 /\ ctx' = ctx
      /\ result' = "OK"
  <2>1. CASE pos = 0
    BY <2>1, <1>3, <1>4, <1>5, TokenSentFields
       DEF handle_curve_router_exchange, CursorRouter, Expecting, On, Otherwise,
           TokenIn
  <2>2. CASE pos \in 1..m
    <3>1. /\ ctx' = handle_route(ctx, parameter) /\ result' = "OK"
          /\ ctx.counter = pos - 1 /\ pos \in 1..8
      BY <2>2, <1>4, <1>5
         DEF handle_curve_router_exchange, CursorRouter, Expecting, On, Otherwise
    <3>2. parameter.addr # NULL <=> pos \in 1..(m - 1)
      BY <2>2, <1>4, <1>5
    <3>3. pos = m \/ pos \in 1..(m - 1)
      BY <2>2, <1>4
    <3> QED BY <3>1, <3>2, <3>3, <1>3, <1>4, <1>5, RouteFields
  <2>3. CASE pos > m
    BY <2>3, <1>3, <1>4, <1>5, AmountSentFields, MinAmountReceivedFields
       DEF handle_curve_router_exchange, CursorRouter, Expecting, On, Otherwise
  <2> QED BY <2>1, <2>2, <2>3, <1>4, <1>5
<1> HIDE DEF m
<1>7. CursorRouter(m)'
  BY <1>3, <1>4, <1>5, <1>6 DEF CursorRouter, Expecting, Holds, m
<1>8. Cursor'
  BY <1>3, <1>5, <1>7, CursorOfSelector DEF m
<1>9. FunctionFound'
  BY <1>2, <1>5, <1>6, FunctionKept DEF Holds
<1>10. SentSoFar'
  BY <1>2, <1>3, <1>4, <1>5, <1>6, AbiTokens DEF SentSoFar, Holds
<1>11. ReceivedSoFar'
  BY <1>2, <1>3, <1>4, <1>5, <1>6, AbiTokens DEF ReceivedSoFar, Holds, m
<1>12. AmountsSoFar'
  BY <1>2, <1>3, <1>4, <1>5, <1>6, AbiWords
     DEF AmountsSoFar,
         AmountOf, MinOf, RecipientOf, Holds
<1> QED BY <1>6, <1>8, <1>9, <1>10, <1>11, <1>12 DEF ParsedSoFar

---------------------------------------------------------------------------
(* The Uniswap path.                                                       *)

(* Where the last token of a path of h hops is: the byte skip reaches its  *)
(* word for every h up to MaxHops, and no byte of it is out of place.      *)
LEMMA PathArithmetic ==
  ASSUME NEW h \in 2..MaxHops, NEW n, n = 20 + 23 * h
  PROVE  /\ TailWord(n) \in 1..256
         /\ path_skip(n) = TailWord(n) - 1 /\ ~Backwards(n)
         /\ 32 * TailWord(n) + TailByte(n) = 23 * h
         /\ TailByte(n) \in 0..31
         /\ (23 * h) % 23 = 0 /\ (23 * h) \div 23 = h
<1>1. /\ TailWord(n) = (23 * h) \div 32
      /\ TailByte(n) = (23 * h) % 32
  BY DEF TailWord, TailByte, MaxHops, ADDRESS_LENGTH, PARAMETER_LENGTH
<1>2. (23 * h) \div 32 \in 1..256
  BY DEF MaxHops
<1>3. /\ 32 * ((23 * h) \div 32) + ((23 * h) % 32) = 23 * h
      /\ (23 * h) % 32 \in 0..31
  BY DEF MaxHops
<1>4. (23 * h) % 23 = 0 /\ (23 * h) \div 23 = h
  BY DEF MaxHops
<1>5. path_skip(n) = TailWord(n) - 1 /\ ~Backwards(n)
  <2>1. ~Backwards(n)
    BY DEF Backwards, MaxHops, ADDRESS_LENGTH
  <2> QED BY <1>1, <1>2, <2>1 DEF path_skip, Uint8
<1> QED BY <1>1, <1>2, <1>3, <1>4, <1>5

(* A supported path: its length, and the words its ends start in.          *)
LEMMA PathEnds ==
  ASSUME Supported(tx), tx.selector = UNISWAP_ROUTER_EXACT_INPUT_SELECTOR
  PROVE  /\ tx.words[7].num = PathBytes(tx)
         /\ TokenWord(tx) \in 9..264
         /\ path_skip(PathBytes(tx)) = TokenWord(tx) - 9
         /\ path_address(8, 0) = tx.path[1]
         /\ path_address(TokenWord(tx), TailByte(PathBytes(tx)))
              = tx.path[Len(tx.path)]
         /\ TailByte(PathBytes(tx)) \in 0..31 /\ ~Backwards(PathBytes(tx))
         /\ ~Straddles(PathBytes(tx)) => Len(tx.words) = TokenWord(tx)
<1>1. PICK h \in 2..MaxHops : Len(tx.path) = h + 1
  <2>1. Len(tx.path) - 1 \in 2..MaxHops /\ Len(tx.path) \in Nat
    BY DEF Supported, WellFormed, TransactionType
  <2> QED BY <2>1
<1> DEFINE n == PathBytes(tx)
<1>2. n = 20 + 23 * h
  BY <1>1 DEF PathBytes, ADDRESS_LENGTH, HopLength, FEE_LENGTH
<1>3. tx.words[7].num = n
  BY DEF Supported, WellFormed, PathLengthWord
<1>4. ~Straddles(n) => Len(tx.words) = TokenWord(tx)
  BY DEF Supported, TokenWord
<1>5. PathAddress(tx, 23 * h) = tx.path[h + 1] /\ PathAddress(tx, 0) = tx.path[1]
  <2>1. (23 * h) % 23 = 0 /\ (23 * h) \div 23 = h
    BY <1>1, <1>2, PathArithmetic
  <2>2. h \in 0..(Len(tx.path) - 1) /\ 0 \in 0..(Len(tx.path) - 1)
    BY <1>1 DEF MaxHops
  <2> QED BY <2>1, <2>2
          DEF PathAddress, HopLength, ADDRESS_LENGTH, FEE_LENGTH
<1> HIDE DEF n
<1>6. /\ TailWord(n) \in 1..256
      /\ path_skip(n) = TailWord(n) - 1
      /\ 32 * TailWord(n) + TailByte(n) = 23 * h
      /\ TailByte(n) \in 0..31 /\ ~Backwards(n)
  BY <1>1, <1>2, PathArithmetic
<1>7. TokenWord(tx) = 8 + TailWord(n)
  BY DEF TokenWord, PathWord, n
<1>8. path_address(8, 0) = tx.path[1]
  BY <1>5 DEF path_address, PathWord, PARAMETER_LENGTH
<1>9. path_address(TokenWord(tx), TailByte(n)) = tx.path[Len(tx.path)]
  <2>1. /\ TokenWord(tx) >= 8
        /\ 32 * (TokenWord(tx) - 8) + TailByte(n) = 23 * h
    BY <1>6, <1>7
  <2> QED BY <2>1, <1>1, <1>5 DEF path_address, PathWord, PARAMETER_LENGTH
<1>10. TokenWord(tx) \in 9..264 /\ path_skip(n) = TokenWord(tx) - 9
  BY <1>6, <1>7
<1> QED BY <1>3, <1>4, <1>6, <1>8, <1>9, <1>10 DEF n

(* A token that goes on in the next word has a rest to copy.               *)
LEMMA NoRunaway ==
  ASSUME NEW n, TailByte(n) \in 0..31, ~Backwards(n)
  PROVE  Straddles(n) => ~Runaway(n)
<1>1. \A b \in 0..31 : b + 20 > 32 => ~(b + 20 < 32)
  OBVIOUS
<1> QED BY <1>1 DEF Straddles, Runaway, ADDRESS_LENGTH, PARAMETER_LENGTH

(* handle_uniswap_exchange: the recipient, the amounts, the length of the  *)
(* path, its first token and, as far as its length says, its last.         *)
LEMMA PathStep ==
  ASSUME Typed, ParsedSoFar, Supported(tx), handle_uniswap_exchange
  PROVE  ParsedSoFar' /\ result' = "OK"
<1>1. Handler({"UNISWAP_ROUTER_EXACT_INPUT"}) /\ Provide
  BY DEF handle_uniswap_exchange, Handler
<1>2. FunctionFound /\ SentSoFar /\ ReceivedSoFar /\ AmountsSoFar /\ Cursor
  BY <1>1, StepFacts DEF ParsedSoFar
<1>3. /\ tx.selector = UNISWAP_ROUTER_EXACT_INPUT_SELECTOR
      /\ tx.selector # CURVE_ROUTER_EXCHANGE_MULTIPLE_SELECTOR
      /\ ctx.skip = 0
  BY <1>1, <1>2, HandlerOfSelector
     DEF Handler, CURVE_ROUTER_EXCHANGE_MULTIPLE_SELECTOR,
         UNISWAP_ROUTER_EXACT_INPUT_SELECTOR
<1> DEFINE k == TokenWord(tx)
           n == PathBytes(tx)
<1>4. CursorPath(k, n) /\ k \in 9..264
  BY <1>2, <1>3, PathEnds DEF Cursor
<1>5. /\ ctx \in ContextType /\ pos \in Nat /\ tx' = tx /\ pos' = pos + 1
      /\ parameter = tx.words[pos + 1]
      /\ pos < Len(tx.words) /\ Len(tx.words) \in Nat
  BY <1>1, StepFacts DEF Provide, WellFormed, TransactionType
<1>6. tx.words[7].num = n /\ path_skip(n) = k - 9
  BY <1>3, PathEnds
<1>7. /\ path_address(8, 0) = tx.path[1]
      /\ path_address(k, TailByte(n)) = tx.path[Len(tx.path)]
      /\ ~Straddles(n) => Len(tx.words) = k
      /\ TailByte(n) \in 0..31 /\ ~Backwards(n)
  BY <1>3, PathEnds
<1> HIDE DEF k, n
<1> DEFINE Becomes(a, m, s, r, b, i, p, o) ==
      Holds(ctx', a, m, s, r, b, i, p, ctx.counter, o, ctx.selectorIndex)
<1>8. /\ \/ /\ pos = 2
            /\ Becomes(ctx.amount_sent, ctx.min_amount_received,
                       ctx.contract_address_sent, ctx.contract_address_received,
                       parameter.addr, 1, "AMOUNT_SENT", ctx.offset)
         \/ /\ pos = 4
            /\ Becomes(parameter, ctx.min_amount_received,
                       ctx.contract_address_sent, ctx.contract_address_received,
                       ctx.beneficiary, 0, "MIN_AMOUNT_RECEIVED", ctx.offset)
         \/ /\ pos = 5
            /\ Becomes(ctx.amount_sent, parameter,
                       ctx.contract_address_sent, ctx.contract_address_received,
                       ctx.beneficiary, 0, "PATH_LENGTH", ctx.offset)
         \/ /\ pos = 6
            /\ Becomes(ctx.amount_sent, ctx.min_amount_received,
                       ctx.contract_address_sent, ctx.contract_address_received,
                       ctx.beneficiary, 0, "TOKEN_SENT", n)
         \/ /\ pos = 7
            /\ Becomes(ctx.amount_sent, ctx.min_amount_received,
                       tx.path[1], ctx.contract_address_received,
                       ctx.beneficiary, k - 9, "TOKEN_RECEIVED", n)
         \/ /\ pos = k - 1
            /\ Becomes(ctx.amount_sent, ctx.min_amount_received,
                       ctx.contract_address_sent,
                       IF Straddles(n) THEN GARBLED ELSE tx.path[Len(tx.path)],
                       ctx.beneficiary, 0, "TOKEN_RECEIVED_REST", n)
         \/ /\ pos = k
            /\ Becomes(ctx.amount_sent, ctx.min_amount_received,
                       ctx.contract_address_sent, tx.path[Len(tx.path)],
                       ctx.beneficiary, 0, "NONE", n)
         \/ pos > k /\ ctx' = ctx
      /\ result' = "OK"
  <2>1. CASE pos \in 0..5
    <3>1. \/ pos = 2 /\ ctx.next_param = "BENEFICIARY"
          \/ pos = 4 /\ ctx.next_param = "AMOUNT_SENT"
          \/ pos = 5 /\ ctx.next_param = "MIN_AMOUNT_RECEIVED"
      BY <2>1, <1>3, <1>4 DEF CursorPath, Expecting
    <3> QED BY <3>1, <1>3, <1>5, BeneficiarySkipFields, AmountSentFields,
            MinAmountReceivedFields
            DEF handle_uniswap_exchange, runaway_copy, On, Otherwise, Uint8
  <2>2. CASE pos = 6
    <3>1. ctx.next_param = "PATH_LENGTH"
      BY <2>2, <1>3, <1>4 DEF CursorPath, Expecting
    <3>2. /\ ctx' = Expect([ctx EXCEPT !.offset = parameter.num], "TOKEN_SENT")
          /\ result' = "OK"
      BY <3>1 DEF handle_uniswap_exchange, runaway_copy, On, Otherwise
    <3> QED BY <2>2, <3>2, <1>3, <1>5, <1>6 DEF Expect, Holds, ContextType
  <2>3. CASE pos = 7
    <3>1. ctx.next_param = "TOKEN_SENT" /\ ctx.offset = n
      BY <2>3, <1>3, <1>4 DEF CursorPath, Expecting, PathLengthWord, n
    <3>2. /\ ctx' = Expect([ctx EXCEPT !.contract_address_sent =
                                         path_address(pos + 1, 0),
                                       !.skip = path_skip(ctx.offset)],
                           "TOKEN_RECEIVED")
          /\ result' = "OK"
      BY <3>1 DEF handle_uniswap_exchange, runaway_copy, On, Otherwise
    <3> QED BY <2>3, <3>1, <3>2, <1>5, <1>6, <1>7 DEF Expect, Holds, ContextType
  <2>4. CASE pos = k - 1
    <3>1. ctx.next_param = "TOKEN_RECEIVED" /\ ctx.offset = n
      BY <2>4, <1>3, <1>4 DEF CursorPath, Expecting, PathLengthWord, n
    <3>2. /\ ctx' = Expect([ctx EXCEPT !.contract_address_received =
                                         token_received_head(ctx.offset)],
                           "TOKEN_RECEIVED_REST")
          /\ result' = "OK"
      BY <3>1 DEF handle_uniswap_exchange, runaway_copy, On, Otherwise
    <3>3. token_received_head(n) =
            IF Straddles(n) THEN GARBLED ELSE tx.path[Len(tx.path)]
      BY <2>4, <1>5, <1>7, <1>4 DEF token_received_head
    <3> QED BY <2>4, <3>1, <3>2, <3>3, <1>3, <1>5
            DEF Expect, Holds, ContextType
  <2>5. CASE pos = k
    <3>1. ctx.next_param = "TOKEN_RECEIVED_REST" /\ ctx.offset = n
      BY <2>5, <1>3, <1>4 DEF CursorPath, Expecting, PathLengthWord, n
    <3>2. Straddles(n)
      BY <2>5, <1>5, <1>7
    <3>3. ~Runaway(n)
      BY <3>2, <1>7, NoRunaway
    <3>4. /\ ctx' = Expect([ctx EXCEPT !.contract_address_received =
                                         token_received_rest(ctx.offset)],
                           "NONE")
          /\ result' = "OK"
      BY <3>1, <3>3 DEF handle_uniswap_exchange, runaway_copy, On, Otherwise
    <3>5. token_received_rest(n) = tx.path[Len(tx.path)]
      BY <2>5, <3>2, <1>7 DEF token_received_rest
    <3> QED BY <2>5, <3>1, <3>4, <3>5, <1>3, <1>5
            DEF Expect, Holds, ContextType
  <2>6. CASE pos > k
    <3>1. ctx.next_param = "NONE"
      BY <2>6, <1>3, <1>4 DEF CursorPath, Expecting
    <3> QED BY <2>6, <3>1 DEF handle_uniswap_exchange, runaway_copy, On, Otherwise
  <2>7. \/ pos \in 0..5 \/ pos = 6 \/ pos = 7 \/ pos = k - 1 \/ pos = k
        \/ pos > k
    BY <1>3, <1>4, <1>5 DEF CursorPath, Expecting
  <2> QED BY <2>1, <2>2, <2>3, <2>4, <2>5, <2>6, <2>7
<1>9. CursorPath(k, n)'
  <2> DEFINE NowExpecting(p, i) == ctx'.next_param = p /\ ctx'.skip = i
  <2>1. pos > k => Expecting("NONE", 0)
    BY <1>4, <1>5 DEF CursorPath, Expecting
  <2>2. ctx.skip = 0 /\ (pos < 7 \/ ctx.offset = n)
    BY <1>3, <1>4, <1>5 DEF CursorPath, PathLengthWord, n
  <2>3. \/ pos = 2 /\ NowExpecting("AMOUNT_SENT", 1)
        \/ pos = 4 /\ NowExpecting("MIN_AMOUNT_RECEIVED", 0)
        \/ pos = 5 /\ NowExpecting("PATH_LENGTH", 0)
        \/ pos = 6 /\ NowExpecting("TOKEN_SENT", 0)
        \/ pos = 7 /\ NowExpecting("TOKEN_RECEIVED", k - 9)
        \/ pos = k - 1 /\ NowExpecting("TOKEN_RECEIVED_REST", 0)
        \/ pos >= k /\ NowExpecting("NONE", 0)
    BY <2>1, <1>4, <1>5, <1>8 DEF Expecting, Holds
  <2>4. pos < 6 \/ ctx'.offset = n
    BY <2>2, <1>4, <1>5, <1>8 DEF Holds
  <2>5. /\ \/ pos' \in 0..2 /\ NowExpecting("BENEFICIARY", 2 - pos')
           \/ pos' \in 3..4 /\ NowExpecting("AMOUNT_SENT", 4 - pos')
           \/ pos' = 5 /\ NowExpecting("MIN_AMOUNT_RECEIVED", 0)
           \/ pos' = 6 /\ NowExpecting("PATH_LENGTH", 0)
           \/ pos' = 7 /\ NowExpecting("TOKEN_SENT", 0)
           \/ pos' \in 8..(k - 1) /\ NowExpecting("TOKEN_RECEIVED", k - 1 - pos')
           \/ pos' = k /\ NowExpecting("TOKEN_RECEIVED_REST", 0)
           \/ pos' > k /\ NowExpecting("NONE", 0)
        /\ pos' >= 7 => ctx'.offset = n
    BY <2>3, <2>4, <1>4, <1>5
  <2> QED BY <2>5, <1>5 DEF CursorPath, Expecting, PathLengthWord, k, n
<1>10. Cursor'
  BY <1>3, <1>5, <1>9, CursorOfSelector DEF k, n
<1>11. FunctionFound'
  BY <1>2, <1>5, <1>8, FunctionKept DEF Holds
<1>12. SentSoFar'
  <2>1. ctx'.contract_address_sent =
          IF pos = 7 THEN tx.path[1] ELSE ctx.contract_address_sent
    BY <1>4, <1>5, <1>8 DEF Holds
  <2> QED BY <2>1, <1>2, <1>3, <1>5, AbiTokens DEF SentSoFar
<1>13. ReceivedSoFar'
  <2>1. ctx'.contract_address_received =
          IF pos = k - 1
            THEN IF Straddles(n) THEN GARBLED ELSE tx.path[Len(tx.path)]
            ELSE IF pos = k THEN tx.path[Len(tx.path)]
            ELSE ctx.contract_address_received
    BY <1>4, <1>5, <1>8 DEF Holds
  <2>2. ReceivedOf(tx) = tx.path[Len(tx.path)]
    BY <1>3, AbiTokens
  <2>3. ctx.contract_address_received =
          IF pos < k THEN NULL
          ELSE IF pos = k /\ Straddles(n) THEN GARBLED ELSE ReceivedOf(tx)
    BY <1>2, <1>3 DEF ReceivedSoFar, k, n
  <2>4. ctx'.contract_address_received =
          IF pos' < k THEN NULL
          ELSE IF pos' = k /\ Straddles(n) THEN GARBLED ELSE ReceivedOf(tx)
    BY <2>1, <2>2, <2>3, <1>4, <1>5
  <2> QED BY <2>4, <1>3, <1>5 DEF ReceivedSoFar, k, n
<1>14. AmountsSoFar'
  <2>1. /\ ctx'.amount_sent = IF pos = 4 THEN parameter ELSE ctx.amount_sent
        /\ ctx'.min_amount_received =
             IF pos = 5 THEN parameter ELSE ctx.min_amount_received
        /\ ctx'.beneficiary =
             IF pos = 2 THEN parameter.addr ELSE ctx.beneficiary
    BY <1>4, <1>5, <1>8 DEF Holds
  <2>2. /\ AmountWord(tx.selector) = 5 /\ MinWord(tx.selector) = 6
        /\ RecipientWord(tx.selector) = 3
    BY <1>3, AbiWords
  <2>3. /\ ctx.amount_sent = IF pos >= 5 THEN AmountOf(tx) ELSE ZeroWord
        /\ ctx.min_amount_received = IF pos >= 6 THEN MinOf(tx) ELSE ZeroWord
        /\ ctx.beneficiary = IF pos >= 3 THEN RecipientOf(tx) ELSE NULL
    BY <1>2, <2>2 DEF AmountsSoFar
  <2>4. /\ pos = 4 => parameter = AmountOf(tx)
        /\ pos = 5 => parameter = MinOf(tx)
        /\ pos = 2 => parameter.addr = RecipientOf(tx)
    BY <1>3, <1>5, <2>2 DEF AmountOf, MinOf, RecipientOf
  <2>5. ctx'.amount_sent = IF pos' >= 5 THEN AmountOf(tx) ELSE ZeroWord
    BY <1>4, <1>5, <2>1, <2>3, <2>4
  <2>6. ctx'.min_amount_received = IF pos' >= 6 THEN MinOf(tx) ELSE ZeroWord
    BY <1>4, <1>5, <2>1, <2>3, <2>4
  <2>7. ctx'.beneficiary = IF pos' >= 3 THEN RecipientOf(tx) ELSE NULL
    BY <1>4, <1>5, <2>1, <2>3, <2>4
  <2> QED BY <1>5, <2>2, <2>5, <2>6, <2>7 DEF AmountsSoFar
<1> QED BY <1>8, <1>10, <1>11, <1>12, <1>13, <1>14 DEF ParsedSoFar

---------------------------------------------------------------------------
(* A skipped word. *)

(* The i-th selector of the table belongs to the i-th function.            *)
LEMMA SelectorOfFunction ==
  ASSUME NEW i \in 1..NUM_SELECTORS, NEW s, s = ORIGIN_DEFI_SELECTORS[i],
         NEW f, f = selector_t[i]
  PROVE  \/ s = ZAPPER_DEPOSIT_ETH_SELECTOR /\ f = "ZAPPER_DEPOSIT_ETH"
         \/ /\ s \in {ZAPPER_DEPOSIT_SFRXETH_SELECTOR, VAULT_REDEEM_SELECTOR}
            /\ f \in {"ZAPPER_DEPOSIT_SFRXETH", "VAULT_REDEEM"}
         \/ s = VAULT_MINT_SELECTOR /\ f = "VAULT_MINT"
         \/ s \in PoolSelectors /\ f \in CurvePoolFunctions
         \/ /\ s = CURVE_ROUTER_EXCHANGE_MULTIPLE_SELECTOR
            /\ f = "CURVE_ROUTER_EXCHANGE_MULTIPLE"
         \/ /\ s = UNISWAP_ROUTER_EXACT_INPUT_SELECTOR
            /\ f = "UNISWAP_ROUTER_EXACT_INPUT"
         \/ /\ s = UNISWAP_ROUTER_EXACT_INPUT_SINGLE_SELECTOR
            /\ f = "UNISWAP_ROUTER_EXACT_INPUT_SINGLE"
         \/ s \in FlipperSelectors /\ f \in FlipperBuys \cup FlipperSells
         \/ s \in WrapSelectors /\ f \in WrapFunctions
BY DEF NUM_SELECTORS, ORIGIN_DEFI_SELECTORS, selector_t,
       CurvePoolFunctions, FlipperBuys, FlipperSells, WrapFunctions,
       PoolSelectors, FlipperSelectors, WrapSelectors

(* Of exactInput's selector in particular.                                 *)
LEMMA UniswapSelector ==
  ASSUME NEW i \in 1..NUM_SELECTORS,
         ORIGIN_DEFI_SELECTORS[i] = UNISWAP_ROUTER_EXACT_INPUT_SELECTOR
  PROVE  selector_t[i] = "UNISWAP_ROUTER_EXACT_INPUT"
BY DEF NUM_SELECTORS, ORIGIN_DEFI_SELECTORS, selector_t,
       ZAPPER_DEPOSIT_ETH_SELECTOR, ZAPPER_DEPOSIT_SFRXETH_SELECTOR,
       VAULT_MINT_SELECTOR, VAULT_REDEEM_SELECTOR,
       CURVE_POOL_EXCHANGE_SELECTOR, CURVE_POOL_EXCHANGE_UNDERLYING_SELECTOR,
       CURVE_ROUTER_EXCHANGE_MULTIPLE_SELECTOR,
       UNISWAP_ROUTER_EXACT_INPUT_SELECTOR,
       UNISWAP_ROUTER_EXACT_INPUT_SINGLE_SELECTOR,
       FLIPPER_BUY_OUSD_WITH_USDT_SELECTOR, FLIPPER_SELL_OUSD_FOR_USDT_SELECTOR,
       FLIPPER_BUY_OUSD_WITH_DAI_SELECTOR, FLIPPER_SELL_OUSD_FOR_DAI_SELECTOR,
       FLIPPER_BUY_OUSD_WITH_USDC_SELECTOR, FLIPPER_SELL_OUSD_FOR_USDC_SELECTOR,
       WRAP_SELECTOR, UNWRAP_SELECTOR

(* Only the router and the Uniswap functions skip words.                   *)
LEMMA SkippingFunctions ==
  ASSUME FunctionFound, Cursor, ctx.skip # 0
  PROVE  \/ /\ tx.selector = CURVE_ROUTER_EXCHANGE_MULTIPLE_SELECTOR
            /\ CursorRouter(RouteLength(tx))
         \/ /\ tx.selector = UNISWAP_ROUTER_EXACT_INPUT_SELECTOR
            /\ CursorPath(TokenWord(tx), PathBytes(tx))
         \/ /\ tx.selector = UNISWAP_ROUTER_EXACT_INPUT_SINGLE_SELECTOR
            /\ CursorSingle
<1>1. PICK i \in 1..NUM_SELECTORS : /\ tx.selector = ORIGIN_DEFI_SELECTORS[i]
                                   /\ ctx.selectorIndex = selector_t[i]
  BY DEF FunctionFound
<1>2. \/ tx.selector \in {ZAPPER_DEPOSIT_ETH_SELECTOR,
                           ZAPPER_DEPOSIT_SFRXETH_SELECTOR,
                           VAULT_REDEEM_SELECTOR, VAULT_MINT_SELECTOR}
      \/ tx.selector \in PoolSelectors \cup FlipperSelectors \cup WrapSelectors
      \/ tx.selector = CURVE_ROUTER_EXCHANGE_MULTIPLE_SELECTOR
      \/ tx.selector = UNISWAP_ROUTER_EXACT_INPUT_SELECTOR
      \/ tx.selector = UNISWAP_ROUTER_EXACT_INPUT_SINGLE_SELECTOR
  BY <1>1, SelectorOfFunction
<1>3. /\ ~CursorDeposit /\ ~CursorAmountAndMin /\ ~CursorMint /\ ~CursorPool
      /\ ~CursorFlipper /\ ~CursorWrap
  BY DEF CursorDeposit, CursorAmountAndMin, CursorMint, CursorPool,
         CursorFlipper, CursorWrap, Expecting
<1> QED BY <1>2, <1>3 DEF Cursor, FixedCursor

(* A skipped word is one the ABI gives no argument to review.              *)
LEMMA SkipStep ==
  ASSUME Typed, ParsedSoFar, Supported(tx), skip_parameter
  PROVE  ParsedSoFar' /\ result' = "OK"
<1>1. Provide /\ ctx.skip # 0 /\ result' = "OK"
  BY DEF skip_parameter
<1>2. FunctionFound /\ SentSoFar /\ ReceivedSoFar /\ AmountsSoFar /\ Cursor
  BY <1>1, StepFacts DEF ParsedSoFar
<1>3. /\ ctx \in ContextType /\ pos \in Nat /\ tx' = tx /\ pos' = pos + 1
  BY <1>1, StepFacts
<1>4. Holds(ctx', ctx.amount_sent, ctx.min_amount_received,
            ctx.contract_address_sent, ctx.contract_address_received,
            ctx.beneficiary, ctx.skip - 1, ctx.next_param, ctx.counter,
            ctx.offset, ctx.selectorIndex)
  BY <1>3 DEF skip_parameter, Holds, ContextType
<1>5. FunctionFound'
  BY <1>2, <1>3, <1>4, FunctionKept DEF Holds
<1>6. CASE tx.selector = CURVE_ROUTER_EXCHANGE_MULTIPLE_SELECTOR
           /\ CursorRouter(RouteLength(tx))
  <2> DEFINE m == RouteLength(tx)
  <2>1. m \in 3..8 /\ tx.selector # UNISWAP_ROUTER_EXACT_INPUT_SELECTOR
    BY <1>6, RouteEnds
       DEF CURVE_ROUTER_EXCHANGE_MULTIPLE_SELECTOR,
           UNISWAP_ROUTER_EXACT_INPUT_SELECTOR
  <2>2. CursorRouter(m)
    BY <1>6
  <2> HIDE DEF m
  <2>3. pos \in (m + 1)..20 /\ Expecting("AMOUNT_SENT", 21 - pos)
        /\ ctx.counter = 0
    BY <1>1, <1>3, <2>1, <2>2 DEF CursorRouter, Expecting
  <2>4. CursorRouter(m)'
    BY <1>3, <1>4, <2>1, <2>3 DEF CursorRouter, Expecting, Holds, m
  <2>5. Cursor'
    BY <1>3, <1>6, <2>4, CursorOfSelector DEF m
  <2>6. SentSoFar' /\ ReceivedSoFar'
    BY <1>2, <1>3, <1>4, <1>6, <2>1, <2>3, AbiTokens
       DEF SentSoFar, ReceivedSoFar, Holds, m
  <2>7. AmountsSoFar'
    BY <1>2, <1>3, <1>4, <1>6, <2>1, <2>3, AbiWords
       DEF AmountsSoFar,
           AmountOf, MinOf, RecipientOf, Holds
  <2> QED BY <1>1, <1>5, <2>5, <2>6, <2>7 DEF ParsedSoFar
<1>7. CASE tx.selector = UNISWAP_ROUTER_EXACT_INPUT_SELECTOR
           /\ CursorPath(TokenWord(tx), PathBytes(tx))
  <2> DEFINE k == TokenWord(tx)
  <2>1. k \in 9..264 /\ tx.selector # CURVE_ROUTER_EXCHANGE_MULTIPLE_SELECTOR
    BY <1>7, PathEnds
       DEF CURVE_ROUTER_EXCHANGE_MULTIPLE_SELECTOR,
           UNISWAP_ROUTER_EXACT_INPUT_SELECTOR
  <2>2. CursorPath(k, PathBytes(tx))
    BY <1>7
  <2> HIDE DEF k
  <2>3. /\ \/ pos \in 0..1 /\ Expecting("BENEFICIARY", 2 - pos)
           \/ pos = 3 /\ Expecting("AMOUNT_SENT", 1)
           \/ pos \in 8..(k - 2) /\ Expecting("TOKEN_RECEIVED", k - 1 - pos)
        /\ pos >= 7 => ctx.offset = PathBytes(tx)
    BY <1>1, <1>3, <2>1, <2>2 DEF CursorPath, Expecting, PathLengthWord
  <2>4. CursorPath(k, PathBytes(tx))'
    BY <1>3, <1>4, <2>1, <2>3
       DEF CursorPath, Expecting, Holds, PathLengthWord, k
  <2>5. Cursor'
    BY <1>3, <1>7, <2>4, CursorOfSelector DEF k
  <2>6. pos \in 0..1 \/ pos = 3 \/ pos \in 8..(k - 2)
    BY <2>3
  <2>7. SentSoFar'
    BY <1>2, <1>3, <1>4, <1>7, <2>6, AbiTokens DEF SentSoFar, Holds
  <2>8. ReceivedSoFar'
    BY <1>2, <1>3, <1>4, <1>7, <2>1, <2>6 DEF ReceivedSoFar, Holds, k
  <2>9. AmountsSoFar'
    BY <1>2, <1>3, <1>4, <1>7, <2>6, AbiWords
       DEF AmountsSoFar,
           AmountOf, MinOf, RecipientOf, Holds
  <2> QED BY <1>1, <1>5, <2>5, <2>7, <2>8, <2>9 DEF ParsedSoFar
<1>8. CASE tx.selector = UNISWAP_ROUTER_EXACT_INPUT_SINGLE_SELECTOR
           /\ CursorSingle
  <2>1. \/ pos = 2 /\ Expecting("BENEFICIARY", 1)
        \/ pos = 4 /\ Expecting("AMOUNT_SENT", 1)
    BY <1>1, <1>3, <1>8 DEF CursorSingle, Expecting
  <2>2. CursorSingle'
    BY <1>3, <1>4, <2>1 DEF CursorSingle, Expecting, Holds
  <2>3. Cursor'
    BY <1>3, <1>8, <2>2, CursorOfSelector
  <2>4. SentSoFar' /\ ReceivedSoFar'
    BY <1>2, <1>3, <1>4, <1>8, <2>1, AbiTokens, ReceivedPlainly
       DEF SentSoFar, ReceivedSoFar, Holds
  <2>5. AmountsSoFar'
    BY <1>2, <1>3, <1>4, <1>8, <2>1, AbiWords
       DEF AmountsSoFar,
           AmountOf, MinOf, RecipientOf, Holds
  <2> QED BY <1>1, <1>5, <2>3, <2>4, <2>5 DEF ParsedSoFar
<1> QED BY <1>1, <1>2, <1>6, <1>7, <1>8, SkippingFunctions

---------------------------------------------------------------------------
(* A new transaction. *)

(* What the context starts with, by function.                              *)
LEMMA InitialFields ==
  ASSUME NEW f
  PROVE  Holds(InitialContext(f), ZeroWord, ZeroWord, NULL, NULL, NULL,
               first_skip(f), first_param(f), 0, 0, f)
BY DEF InitialContext, ZeroContext, Holds

(* What each function expects first.                                       *)
LEMMA FirstParameters ==
  ASSUME NEW f
  PROVE  /\ f = "ZAPPER_DEPOSIT_ETH" =>
              first_param(f) = "NONE" /\ first_skip(f) = 0
         /\ f \in {"ZAPPER_DEPOSIT_SFRXETH", "VAULT_REDEEM"}
                 \cup FlipperBuys \cup FlipperSells \cup WrapFunctions =>
              first_param(f) = "AMOUNT_SENT" /\ first_skip(f) = 0
         /\ f \in {"VAULT_MINT", "CURVE_ROUTER_EXCHANGE_MULTIPLE",
                   "UNISWAP_ROUTER_EXACT_INPUT_SINGLE"} \cup CurvePoolFunctions =>
              first_param(f) = "TOKEN_SENT" /\ first_skip(f) = 0
         /\ f = "UNISWAP_ROUTER_EXACT_INPUT" =>
              first_param(f) = "BENEFICIARY" /\ first_skip(f) = 2
BY DEF first_param, first_skip, CurvePoolFunctions, FlipperBuys, FlipperSells,
       WrapFunctions

(* The last token of a path is not in its first word.                      *)
LEMMA PathLong ==
  ASSUME NEW t, Supported(t),
         t.selector = UNISWAP_ROUTER_EXACT_INPUT_SELECTOR
  PROVE  TokenWord(t) \in 9..264
<1>1. PICK h \in 2..MaxHops : Len(t.path) = h + 1
  <2>1. Len(t.path) - 1 \in 2..MaxHops /\ Len(t.path) \in Nat
    BY DEF Supported, WellFormed, TransactionType
  <2> QED BY <2>1
<1> DEFINE n == PathBytes(t)
<1>2. n = 20 + 23 * h
  BY <1>1 DEF PathBytes, ADDRESS_LENGTH, HopLength, FEE_LENGTH
<1>3. TailWord(n) \in 1..256
  <2> HIDE DEF n
  <2> QED BY <1>2, PathArithmetic
<1> QED BY <1>3 DEF TokenWord, PathWord

(* Every cursor has a place before the first word.                         *)
LEMMA FirstCursor ==
  ASSUME NEW f, pos' = 0,
         ctx'.next_param = first_param(f), ctx'.skip = first_skip(f),
         ctx'.counter = 0
  PROVE  /\ f = "ZAPPER_DEPOSIT_ETH" => CursorDeposit'
         /\ f \in {"ZAPPER_DEPOSIT_SFRXETH", "VAULT_REDEEM"}
              => CursorAmountAndMin'
         /\ f = "VAULT_MINT" => CursorMint'
         /\ f \in CurvePoolFunctions => CursorPool'
         /\ f = "CURVE_ROUTER_EXCHANGE_MULTIPLE" => CursorRouter(RouteLength(tx))'
         /\ f = "UNISWAP_ROUTER_EXACT_INPUT" => CursorPath(TokenWord(tx), PathBytes(tx))'
         /\ f = "UNISWAP_ROUTER_EXACT_INPUT_SINGLE" => CursorSingle'
         /\ f \in FlipperBuys \cup FlipperSells => CursorFlipper'
         /\ f \in WrapFunctions => CursorWrap'
BY FirstParameters
   DEF Expecting, CursorDeposit, CursorAmountAndMin, CursorMint, CursorPool,
       CursorRouter, CursorPath, CursorSingle, CursorFlipper, CursorWrap,
       PathLengthWord

(* Before the first word every cursor is where its function starts, and    *)
(* no argument has been read.                                              *)
LEMMA InitStep ==
  ASSUME NEW t, handle_init_contract(t), Supported(t),
         result' = "OK"
  PROVE  ParsedSoFar'
<1> DEFINE i == find_selector(t.selector)
           f == selector_t[i]
<1>1. /\ i \in 1..NUM_SELECTORS /\ t.selector = ORIGIN_DEFI_SELECTORS[i]
      /\ ctx' = InitialContext(f)
      /\ tx' = t /\ pos' = 0
  <2>1. i # 0 /\ ctx' = InitialContext(f)
    BY DEF handle_init_contract
  <2> QED BY <2>1, FindSelector DEF handle_init_contract
<1>2. FunctionFound'
  <2>1. ctx'.selectorIndex = f
    BY <1>1, InitialFields DEF Holds
  <2> QED BY <1>1, <2>1 DEF FunctionFound
<1>3. Holds(ctx', ZeroWord, ZeroWord, NULL, NULL, NULL,
            first_skip(f), first_param(f), 0, 0, f)
  BY <1>1, InitialFields
<1>4. Cursor'
  <2>1. tx'.selector = ORIGIN_DEFI_SELECTORS[i] /\ i \in 1..NUM_SELECTORS
    BY <1>1
  <2> HIDE DEF i, f
  <2>2. /\ ctx'.next_param = first_param(f) /\ ctx'.skip = first_skip(f)
        /\ ctx'.counter = 0 /\ pos' = 0
    BY <1>1, <1>3 DEF Holds
  <2> QED BY <2>1, <2>2, SelectorOfFunction, FirstCursor, CursorOfSelector DEF f
<1> HIDE DEF i, f
<1>5. SentSoFar'
  BY <1>1, <1>3, AbiTokens DEF SentSoFar, Holds
<1>6. ReceivedSoFar'
  <2>1. tx'.selector = UNISWAP_ROUTER_EXACT_INPUT_SELECTOR => TokenWord(tx') > 0
    BY <1>1, PathLong
  <2> QED BY <1>1, <1>3, <2>1 DEF ReceivedSoFar, Holds
<1>7. AmountsSoFar'
  <2>1. /\ AmountWord(t.selector) \in Nat /\ MinWord(t.selector) \in Nat
        /\ RecipientWord(t.selector) \in Nat
    BY DEF AmountWord, MinWord, RecipientWord
  <2> QED BY <1>1, <1>3, <2>1
          DEF AmountsSoFar,
              AmountOf, MinOf, RecipientOf, Holds
<1> QED BY <1>2, <1>4, <1>5, <1>6, <1>7 DEF ParsedSoFar

---------------------------------------------------------------------------
(* exactInput with a path of any length. *)

(* The first token of a path, and what the ABI of exactInput puts where.   *)
LEMMA AnyPathWords ==
  ASSUME WellFormed(tx), tx.selector = UNISWAP_ROUTER_EXACT_INPUT_SELECTOR
  PROVE  /\ path_address(8, 0) = tx.path[1]
         /\ SentOf(tx) = tx.path[1] /\ SentWord(tx.selector) = 8
         /\ AmountWord(tx.selector) = 5 /\ MinWord(tx.selector) = 6
         /\ RecipientWord(tx.selector) = 3
<1>1. Len(tx.path) >= 2 /\ Len(tx.path) \in Nat
  BY DEF WellFormed, TransactionType
<1>2. PathAddress(tx, 0) = tx.path[1]
  <2>1. 0 % 23 = 0 /\ 0 \div 23 = 0 /\ 0 \in 0..(Len(tx.path) - 1)
    BY <1>1
  <2> QED BY <2>1 DEF PathAddress, HopLength, ADDRESS_LENGTH, FEE_LENGTH
<1>3. path_address(8, 0) = tx.path[1]
  BY <1>2 DEF path_address, PathWord, PARAMETER_LENGTH
<1> QED BY <1>3, AbiTokens, AbiWords

(* The word the first copy of the token is made from, whatever number the  *)
(* calldata gives as the length of its path.                               *)
LEMMA HeadFacts ==
  ASSUME Typed
  PROVE  /\ PathNumber(tx) \in uint16_t
         /\ HeadWord(tx) \in 9..264
         /\ path_skip(PathNumber(tx)) = HeadWord(tx) - 9
<1> DEFINE n == PathNumber(tx)
<1>1. n \in uint16_t
  <2>1. tx \in TransactionType
    BY DEF Typed
  <2>2. /\ Len(tx.words) \in Nat
        /\ \A i \in 1..Len(tx.words) : tx.words[i].num \in uint16_t
    <3>1. tx.words \in Seq(Word) /\ Len(tx.words) \in Nat
      BY <2>1, TransactionParts
    <3>2. \A i \in 1..Len(tx.words) : tx.words[i] \in Word
      BY <3>1
    <3> QED BY <3>1, <3>2 DEF Word
  <2>3. PathLengthWord = 7 /\ 0 \in uint16_t
    BY DEF PathLengthWord, uint16_t
  <2> QED BY <2>2, <2>3 DEF PathNumber
<1> HIDE DEF n
<1>2. path_skip(n) \in 0..255
  <2>1. TailWord(n) \in Int
    BY <1>1 DEF TailWord, uint16_t, ADDRESS_LENGTH, PARAMETER_LENGTH
  <2> QED BY <2>1 DEF path_skip, Uint8
<1> QED BY <1>1, <1>2 DEF HeadWord, PathWord, n

(* A transaction begins.                                                   *)
LEMMA AnyPathBegins ==
  ASSUME NEW t, handle_init_contract(t), WellFormed(t),
         t.selector = UNISWAP_ROUTER_EXACT_INPUT_SELECTOR, result' = "OK"
  PROVE  AnyPathSoFar'
<1> DEFINE i == find_selector(t.selector)
           f == selector_t[i]
<1>1. /\ i \in 1..NUM_SELECTORS /\ t.selector = ORIGIN_DEFI_SELECTORS[i]
      /\ ctx' = InitialContext(f)
      /\ tx' = t /\ pos' = 0
  <2>1. i # 0 /\ ctx' = InitialContext(f)
    BY DEF handle_init_contract
  <2> QED BY <2>1, FindSelector DEF handle_init_contract
<1>2. Holds(ctx', ZeroWord, ZeroWord, NULL, NULL, NULL,
            first_skip(f), first_param(f), 0, 0, f)
  BY <1>1, InitialFields
<1>3. FunctionFound'
  BY <1>1, <1>2 DEF FunctionFound, Holds
<1> HIDE DEF i
<1>4. f = "UNISWAP_ROUTER_EXACT_INPUT"
  BY <1>1, UniswapSelector
<1>5. CursorPath(HeadWord(tx), PathNumber(tx))'
  BY <1>1, <1>2, <1>4, FirstParameters
     DEF CursorPath, Expecting, Holds, PathLengthWord
<1>6. SentSoFar' /\ AmountsSoFar'
  BY <1>1, <1>2, AbiTokens, AbiWords DEF SentSoFar, AmountsSoFar, Holds
<1> QED BY <1>3, <1>5, <1>6 DEF AnyPathSoFar

(* What one word does to the amounts, the recipient and the function.      *)
WordRead ==
  /\ ctx'.amount_sent =
       IF pos + 1 = AmountWord(tx.selector) THEN parameter ELSE ctx.amount_sent
  /\ ctx'.min_amount_received =
       IF pos + 1 = MinWord(tx.selector) THEN parameter
                                         ELSE ctx.min_amount_received
  /\ ctx'.beneficiary =
       IF pos + 1 = RecipientWord(tx.selector) THEN parameter.addr
                                               ELSE ctx.beneficiary
  /\ ctx'.selectorIndex = ctx.selectorIndex

(* A word is handed over, by exactInput's handler or as one to skip.       *)
LEMMA PathHeadStep ==
  ASSUME Typed, FunctionFound, CursorPath(HeadWord(tx), PathNumber(tx)),
         handle_provide_parameter, result' = "OK",
         tx.selector = UNISWAP_ROUTER_EXACT_INPUT_SELECTOR
  PROVE  \/ Overrun'
         \/ /\ WordRead /\ CursorPath(HeadWord(tx), PathNumber(tx))'
            /\ ctx'.contract_address_sent =
                 IF pos = 7 THEN path_address(8, 0) ELSE ctx.contract_address_sent
<1> DEFINE k == HeadWord(tx)
           n == PathNumber(tx)
<1>1. /\ ctx \in ContextType /\ pos \in Nat /\ tx' = tx /\ pos' = pos + 1
      /\ parameter = tx.words[pos + 1] /\ pos < Len(tx.words)
      /\ Len(tx.words) \in Nat
  BY ProvideOfHandlers, TypeProvide, TransactionParts DEF Typed, Provide, parameter
<1>2. FunctionFound /\ CursorPath(k, n)
  OBVIOUS
<1>3. k \in 9..264 /\ path_skip(n) = k - 9
  BY HeadFacts
<1>4. pos = 6 => parameter.num = n
  BY <1>1 DEF PathNumber, PathLengthWord
<1>5. k' = k /\ n' = n
  BY <1>1
<1>6. pos = k /\ Runaway(n) => Overrun'
  <2>1. HeadWord(tx)' = k /\ PathNumber(tx)' = n /\ tx'.selector = tx.selector
    BY <1>1
  <2> HIDE DEF k, n
  <2> QED BY <1>1, <1>3, <2>1 DEF Overrun, PathWord
<1> HIDE DEF k, n
<1>7. ctx.selectorIndex = "UNISWAP_ROUTER_EXACT_INPUT"
  <2>1. PICK i \in 1..NUM_SELECTORS : /\ tx.selector = ORIGIN_DEFI_SELECTORS[i]
                                     /\ ctx.selectorIndex = selector_t[i]
    BY <1>2 DEF FunctionFound
  <2> QED BY <2>1, UniswapSelector
<1> DEFINE Becomes(a, m, s, b, i, p, o) ==
      /\ ctx'.amount_sent = a /\ ctx'.min_amount_received = m
      /\ ctx'.contract_address_sent = s /\ ctx'.beneficiary = b
      /\ ctx'.selectorIndex = ctx.selectorIndex
      /\ ctx'.next_param = p /\ ctx'.skip = i /\ ctx'.offset = o
           Passes(i, p, o) ==
      Becomes(ctx.amount_sent, ctx.min_amount_received,
              ctx.contract_address_sent, ctx.beneficiary, i, p, o)
<1>8. \/ /\ pos \in 0..1 \/ pos = 3 \/ pos \in 8..(k - 2)
         /\ Passes(ctx.skip - 1, ctx.next_param, ctx.offset)
      \/ /\ pos = 2
         /\ Becomes(ctx.amount_sent, ctx.min_amount_received,
                    ctx.contract_address_sent, parameter.addr,
                    1, "AMOUNT_SENT", ctx.offset)
      \/ /\ pos = 4
         /\ Becomes(parameter, ctx.min_amount_received,
                    ctx.contract_address_sent, ctx.beneficiary,
                    0, "MIN_AMOUNT_RECEIVED", ctx.offset)
      \/ /\ pos = 5
         /\ Becomes(ctx.amount_sent, parameter, ctx.contract_address_sent,
                    ctx.beneficiary, 0, "PATH_LENGTH", ctx.offset)
      \/ pos = 6 /\ Passes(0, "TOKEN_SENT", n)
      \/ /\ pos = 7
         /\ Becomes(ctx.amount_sent, ctx.min_amount_received,
                    path_address(8, 0), ctx.beneficiary,
                    k - 9, "TOKEN_RECEIVED", n)
      \/ pos = k - 1 /\ pos >= 8 /\ Passes(0, "TOKEN_RECEIVED_REST", n)
      \/ pos = k /\ Passes(0, "NONE", n)
      \/ pos = k /\ Runaway(n)
      \/ pos > k /\ ctx' = ctx
  <2>1. CASE skip_parameter
    <3>1. /\ Passes(ctx.skip - 1, ctx.next_param, ctx.offset)
          /\ ctx.skip # 0
      BY <1>1, <2>1 DEF skip_parameter, ContextType
    <3>2. pos \in 0..1 \/ pos = 3 \/ pos \in 8..(k - 2)
      BY <1>1, <1>2, <1>3, <3>1 DEF CursorPath, Expecting
    <3> HIDE DEF Becomes
    <3> QED BY <3>1, <3>2
  <2>2. CASE handle_uniswap_exchange
    <3>1. ctx.skip = 0
      BY <2>2 DEF handle_uniswap_exchange, Handler
    <3>2. /\ \/ pos = 2 /\ ctx.next_param = "BENEFICIARY"
             \/ pos = 4 /\ ctx.next_param = "AMOUNT_SENT"
             \/ pos = 5 /\ ctx.next_param = "MIN_AMOUNT_RECEIVED"
             \/ pos = 6 /\ ctx.next_param = "PATH_LENGTH"
             \/ pos = 7 /\ ctx.next_param = "TOKEN_SENT"
             \/ pos = k - 1 /\ pos >= 8 /\ ctx.next_param = "TOKEN_RECEIVED"
             \/ pos = k /\ ctx.next_param = "TOKEN_RECEIVED_REST"
             \/ pos > k /\ ctx.next_param = "NONE"
          /\ pos >= 7 => ctx.offset = n
      BY <1>1, <1>2, <1>3, <3>1 DEF CursorPath, Expecting, PathLengthWord
    <3>3. CASE pos = 2
      <4>1. ctx' = Expect(Skip(handle_beneficiary(ctx, parameter), 1), "AMOUNT_SENT")
        BY <1>3, <3>2, <3>3, <2>2
           DEF handle_uniswap_exchange, runaway_copy, On, Otherwise
      <4>2. Becomes(ctx.amount_sent, ctx.min_amount_received,
                    ctx.contract_address_sent, parameter.addr,
                    1, "AMOUNT_SENT", ctx.offset)
        BY <1>1, <3>1, <4>1, BeneficiarySkipFields DEF Holds, Uint8
      <4> HIDE DEF Becomes
      <4> QED BY <3>3, <4>2
    <3>4. CASE pos = 4
      <4>1. ctx' = Expect(handle_amount_sent(ctx, parameter), "MIN_AMOUNT_RECEIVED")
        BY <1>3, <3>2, <3>4, <2>2
           DEF handle_uniswap_exchange, runaway_copy, On, Otherwise
      <4>2. Becomes(parameter, ctx.min_amount_received,
                    ctx.contract_address_sent, ctx.beneficiary,
                    0, "MIN_AMOUNT_RECEIVED", ctx.offset)
        BY <1>1, <3>1, <4>1, AmountSentFields DEF Holds
      <4> HIDE DEF Becomes
      <4> QED BY <3>4, <4>2
    <3>5. CASE pos = 5
      <4>1. ctx' = Expect(handle_min_amount_received(ctx, parameter), "PATH_LENGTH")
        BY <1>3, <3>2, <3>5, <2>2
           DEF handle_uniswap_exchange, runaway_copy, On, Otherwise
      <4>2. Becomes(ctx.amount_sent, parameter, ctx.contract_address_sent,
                    ctx.beneficiary, 0, "PATH_LENGTH", ctx.offset)
        BY <1>1, <3>1, <4>1, MinAmountReceivedFields DEF Holds
      <4> HIDE DEF Becomes
      <4> QED BY <3>5, <4>2
    <3>6. CASE pos = 6
      <4>1. ctx' = Expect([ctx EXCEPT !.offset = parameter.num], "TOKEN_SENT")
        BY <1>3, <3>2, <3>6, <2>2
           DEF handle_uniswap_exchange, runaway_copy, On, Otherwise
      <4> QED BY <1>1, <1>4, <3>1, <3>6, <4>1 DEF Expect, ContextType
    <3>7. CASE pos = 7
      <4>1. ctx' = Expect([ctx EXCEPT !.contract_address_sent =
                                           path_address(pos + 1, 0),
                                      !.skip = path_skip(ctx.offset)],
                          "TOKEN_RECEIVED")
        BY <1>3, <3>2, <3>7, <2>2
           DEF handle_uniswap_exchange, runaway_copy, On, Otherwise
      <4> QED BY <1>1, <1>3, <3>2, <3>7, <4>1 DEF Expect, ContextType
    <3>8. CASE pos = k - 1 /\ pos >= 8
      <4>1. ctx' = Expect([ctx EXCEPT !.contract_address_received =
                                         token_received_head(ctx.offset)],
                          "TOKEN_RECEIVED_REST")
        BY <1>3, <3>2, <3>8, <2>2
           DEF handle_uniswap_exchange, runaway_copy, On, Otherwise
      <4>2. Passes(0, "TOKEN_RECEIVED_REST", n)
        BY <1>1, <1>3, <3>1, <3>2, <3>8, <4>1 DEF Expect, ContextType
      <4> QED BY <3>8, <4>2
    <3>9. CASE pos = k
      <4>1. \/ ctx' = Expect([ctx EXCEPT !.contract_address_received =
                                           token_received_rest(ctx.offset)],
                             "NONE")
            \/ runaway_copy
        BY <1>3, <3>2, <3>9, <2>2 DEF handle_uniswap_exchange, On, Otherwise
      <4>2. CASE runaway_copy
        BY <1>3, <3>2, <3>9, <4>2 DEF runaway_copy
      <4>3. CASE ctx' = Expect([ctx EXCEPT !.contract_address_received =
                                             token_received_rest(ctx.offset)],
                               "NONE")
        <5>1. ctx.offset = n
          BY <1>3, <3>2, <3>9
        <5>2. Passes(0, "NONE", n)
          BY <1>1, <3>1, <4>3, <5>1 DEF Expect, ContextType
        <5> QED BY <3>9, <5>2
      <4> QED BY <4>1, <4>2, <4>3
    <3>10. CASE pos > k
      BY <1>3, <3>2, <3>10, <2>2
         DEF handle_uniswap_exchange, runaway_copy, On, Otherwise
    <3> QED BY <3>2, <3>3, <3>4, <3>5, <3>6, <3>7, <3>8, <3>9, <3>10
  <2> QED BY <1>7, <2>1, <2>2
          DEF handle_provide_parameter, Handler, handle_zapper_deposit_eth,
              handle_amount_and_min, handle_vault_mint,
              handle_curve_pool_exchange, handle_curve_router_exchange,
              handle_uniswap_exchange_single, handle_flipper_exchange,
              handle_wrap, CurvePoolFunctions, FlipperBuys, FlipperSells,
              WrapFunctions
<1>9. CASE pos = k /\ Runaway(n)
  BY <1>6, <1>9
<1>10. CASE ~(pos = k /\ Runaway(n))
  <2>1. WordRead
    <3>1. /\ AmountWord(tx.selector) = 5 /\ MinWord(tx.selector) = 6
          /\ RecipientWord(tx.selector) = 3
      BY AbiWords
    <3>2. \/ /\ pos = 2
             /\ ctx'.amount_sent = ctx.amount_sent
             /\ ctx'.min_amount_received = ctx.min_amount_received
             /\ ctx'.beneficiary = parameter.addr
          \/ /\ pos = 4
             /\ ctx'.amount_sent = parameter
             /\ ctx'.min_amount_received = ctx.min_amount_received
             /\ ctx'.beneficiary = ctx.beneficiary
          \/ /\ pos = 5
             /\ ctx'.amount_sent = ctx.amount_sent
             /\ ctx'.min_amount_received = parameter
             /\ ctx'.beneficiary = ctx.beneficiary
          \/ /\ pos \notin {2, 4, 5}
             /\ ctx'.amount_sent = ctx.amount_sent
             /\ ctx'.min_amount_received = ctx.min_amount_received
             /\ ctx'.beneficiary = ctx.beneficiary
      BY <1>1, <1>3, <1>8, <1>10
    <3>3. ctx'.selectorIndex = ctx.selectorIndex
      BY <1>8, <1>10
    <3> QED BY <1>1, <3>1, <3>2, <3>3 DEF WordRead
  <2> DEFINE NowExpecting(p, i) == ctx'.next_param = p /\ ctx'.skip = i
  <2>2. /\ \/ pos' \in 0..2 /\ NowExpecting("BENEFICIARY", 2 - pos')
           \/ pos' \in 3..4 /\ NowExpecting("AMOUNT_SENT", 4 - pos')
           \/ pos' = 5 /\ NowExpecting("MIN_AMOUNT_RECEIVED", 0)
           \/ pos' = 6 /\ NowExpecting("PATH_LENGTH", 0)
           \/ pos' = 7 /\ NowExpecting("TOKEN_SENT", 0)
           \/ /\ pos' \in 8..(k - 1)
              /\ NowExpecting("TOKEN_RECEIVED", k - 1 - pos')
           \/ pos' = k /\ NowExpecting("TOKEN_RECEIVED_REST", 0)
           \/ pos' > k /\ NowExpecting("NONE", 0)
        /\ pos' >= 7 => ctx'.offset = n
    <3>1. /\ \/ pos \in 0..2 /\ Expecting("BENEFICIARY", 2 - pos)
             \/ pos \in 3..4 /\ Expecting("AMOUNT_SENT", 4 - pos)
             \/ pos = 5 /\ Expecting("MIN_AMOUNT_RECEIVED", 0)
             \/ pos = 6 /\ Expecting("PATH_LENGTH", 0)
             \/ pos = 7 /\ Expecting("TOKEN_SENT", 0)
             \/ pos \in 8..(k - 1) /\ Expecting("TOKEN_RECEIVED", k - 1 - pos)
             \/ pos = k /\ Expecting("TOKEN_RECEIVED_REST", 0)
             \/ pos > k /\ Expecting("NONE", 0)
          /\ pos >= 7 => ctx.offset = n
      BY <1>2 DEF CursorPath, PathLengthWord
    <3>2. CASE /\ pos \in 0..1 \/ pos = 3
               /\ Passes(ctx.skip - 1, ctx.next_param, ctx.offset)
      BY <1>1, <1>3, <3>1, <3>2 DEF Expecting
    <3>3. CASE /\ pos \in 8..(k - 2)
               /\ Passes(ctx.skip - 1, ctx.next_param, ctx.offset)
      BY <1>1, <1>3, <3>1, <3>3 DEF Expecting
    <3>4. CASE \/ /\ pos = 2
                  /\ Becomes(ctx.amount_sent, ctx.min_amount_received,
                             ctx.contract_address_sent, parameter.addr,
                             1, "AMOUNT_SENT", ctx.offset)
               \/ /\ pos = 4
                  /\ Becomes(parameter, ctx.min_amount_received,
                             ctx.contract_address_sent, ctx.beneficiary,
                             0, "MIN_AMOUNT_RECEIVED", ctx.offset)
               \/ /\ pos = 5
                  /\ Becomes(ctx.amount_sent, parameter,
                             ctx.contract_address_sent, ctx.beneficiary,
                             0, "PATH_LENGTH", ctx.offset)
               \/ pos = 6 /\ Passes(0, "TOKEN_SENT", n)
      BY <1>1, <1>3, <3>4
    <3>5. CASE /\ pos = 7
               /\ Becomes(ctx.amount_sent, ctx.min_amount_received,
                          path_address(8, 0), ctx.beneficiary,
                          k - 9, "TOKEN_RECEIVED", n)
      BY <1>1, <1>3, <3>5
    <3>6. CASE \/ pos = k - 1 /\ pos >= 8 /\ Passes(0, "TOKEN_RECEIVED_REST", n)
               \/ pos = k /\ Passes(0, "NONE", n)
      BY <1>1, <1>3, <3>6
    <3>7. CASE pos > k /\ ctx' = ctx
      BY <1>1, <1>3, <3>1, <3>7 DEF Expecting
    <3> HIDE DEF Becomes, NowExpecting
    <3> QED BY <1>8, <1>10, <3>2, <3>3, <3>4, <3>5, <3>6, <3>7
  <2>3. CursorPath(k, n)'
    BY <1>5, <2>2 DEF CursorPath, Expecting, PathLengthWord
  <2>4. ctx'.contract_address_sent =
          IF pos = 7 THEN path_address(8, 0) ELSE ctx.contract_address_sent
    <3>1. CASE pos = 7
      BY <1>1, <1>3, <1>8, <3>1
    <3>2. CASE pos # 7
      BY <1>1, <1>3, <1>8, <1>10, <3>2
    <3> QED BY <3>1, <3>2
  <2> QED BY <2>1, <2>3, <2>4 DEF k, n
<1> QED BY <1>9, <1>10

(* Once a copy has run away, it has.                                       *)
LEMMA OverrunStays ==
  ASSUME Typed, Overrun, Provide
  PROVE  Overrun'
<1>1. tx' = tx /\ pos \in Nat /\ pos' = pos + 1
  BY TypeProvide DEF Provide
<1> QED BY <1>1, HeadFacts DEF Overrun, PathWord

(* So the recipient, the amounts and the token sent are read in place.     *)
LEMMA AnyPathStep ==
  ASSUME Typed, WellFormed(tx), AnyPathSoFar, handle_provide_parameter,
         result' = "OK", tx.selector = UNISWAP_ROUTER_EXACT_INPUT_SELECTOR
  PROVE  AnyPathSoFar'
<1>1. /\ ctx \in ContextType /\ pos \in Nat /\ tx' = tx /\ pos' = pos + 1
      /\ parameter = tx.words[pos + 1] /\ Provide
  BY ProvideOfHandlers, TypeProvide DEF Typed, Provide, parameter
<1> SUFFICES ASSUME ~Overrun'
             PROVE  AnyPathSoFar'
  BY DEF AnyPathSoFar
<1>2. ~Overrun
  BY <1>1, OverrunStays
<1>3. /\ FunctionFound /\ AmountsSoFar /\ SentSoFar
      /\ CursorPath(HeadWord(tx), PathNumber(tx))
  BY <1>2 DEF AnyPathSoFar
<1>4. /\ WordRead /\ CursorPath(HeadWord(tx), PathNumber(tx))'
      /\ ctx'.contract_address_sent =
           IF pos = 7 THEN path_address(8, 0) ELSE ctx.contract_address_sent
  BY <1>3, PathHeadStep
<1>5. SentSoFar'
  BY <1>1, <1>3, <1>4, AnyPathWords DEF SentSoFar
<1>6. AmountsSoFar'
  BY <1>1, <1>3, <1>4, AnyPathWords
     DEF AmountsSoFar, AmountOf, MinOf, RecipientOf, WordRead
<1>7. FunctionFound'
  BY <1>1, <1>3, <1>4, FunctionKept DEF WordRead
<1> QED BY <1>4, <1>5, <1>6, <1>7 DEF AnyPathSoFar

---------------------------------------------------------------------------
(* Any calldata: cut short, malformed, longer than its function's ABI.     *)

(* The groups are disjoint here too.                                       *)
LEMMA AnyCursorOfSelector ==
  /\ tx'.selector = ZAPPER_DEPOSIT_ETH_SELECTOR /\ CursorDeposit' => AnyCursor'
  /\ tx'.selector \in {ZAPPER_DEPOSIT_SFRXETH_SELECTOR, VAULT_REDEEM_SELECTOR}
       /\ CursorAmountAndMin' => AnyCursor'
  /\ tx'.selector = VAULT_MINT_SELECTOR /\ CursorMint' => AnyCursor'
  /\ tx'.selector \in PoolSelectors /\ CursorPool' => AnyCursor'
  /\ tx'.selector = CURVE_ROUTER_EXCHANGE_MULTIPLE_SELECTOR
       /\ CursorAnyRoute' => AnyCursor'
  /\ tx'.selector = UNISWAP_ROUTER_EXACT_INPUT_SELECTOR
       /\ CursorPath(HeadWord(tx), PathNumber(tx))' => AnyCursor'
  /\ tx'.selector = UNISWAP_ROUTER_EXACT_INPUT_SINGLE_SELECTOR
       /\ CursorSingle' => AnyCursor'
  /\ tx'.selector \in FlipperSelectors /\ CursorFlipper' => AnyCursor'
  /\ tx'.selector \in WrapSelectors /\ CursorWrap' => AnyCursor'
BY DEF AnyCursor, FixedCursor,
       PoolSelectors, FlipperSelectors, WrapSelectors,
       ZAPPER_DEPOSIT_ETH_SELECTOR, ZAPPER_DEPOSIT_SFRXETH_SELECTOR,
       VAULT_MINT_SELECTOR, VAULT_REDEEM_SELECTOR,
       CURVE_POOL_EXCHANGE_SELECTOR, CURVE_POOL_EXCHANGE_UNDERLYING_SELECTOR,
       CURVE_ROUTER_EXCHANGE_MULTIPLE_SELECTOR,
       UNISWAP_ROUTER_EXACT_INPUT_SELECTOR,
       UNISWAP_ROUTER_EXACT_INPUT_SINGLE_SELECTOR,
       FLIPPER_BUY_OUSD_WITH_USDT_SELECTOR, FLIPPER_SELL_OUSD_FOR_USDT_SELECTOR,
       FLIPPER_BUY_OUSD_WITH_DAI_SELECTOR, FLIPPER_SELL_OUSD_FOR_DAI_SELECTOR,
       FLIPPER_BUY_OUSD_WITH_USDC_SELECTOR, FLIPPER_SELL_OUSD_FOR_USDC_SELECTOR,
       WRAP_SELECTOR, UNWRAP_SELECTOR

(* A word that is read is the next one to be handed over.                  *)
LEMMA ReadWordNext ==
  ASSUME pos \in Nat, tx' = tx, pos' = pos + 1, parameter = tx.words[pos + 1],
         ~RouteLost(tx), NEW k \in Nat
  PROVE  ReadWord(k)' = IF pos + 1 = k THEN parameter ELSE ReadWord(k)
BY DEF ReadWord

(* With the right words read, everything stays in its place.               *)
LEMMA InPlaceKept ==
  ASSUME pos \in Nat, tx' = tx, pos' = pos + 1, parameter = tx.words[pos + 1],
         ~RouteLost(tx), AmountsInPlace, WordRead
  PROVE  AmountsInPlace'
<1> DEFINE s == tx.selector
<1>1. /\ AmountWord(s) \in Nat /\ MinWord(s) \in Nat /\ RecipientWord(s) \in Nat
  BY DEF AmountWord, MinWord, RecipientWord
<1>2. /\ s # ZAPPER_DEPOSIT_ETH_SELECTOR =>
           ctx.amount_sent = ReadWord(AmountWord(s))
      /\ s \notin {ZAPPER_DEPOSIT_ETH_SELECTOR} \cup FlipperSelectors =>
           ctx.min_amount_received = ReadWord(MinWord(s))
      /\ ctx.beneficiary = ReadWord(RecipientWord(s)).addr
  BY DEF AmountsInPlace
<1>3. /\ ReadWord(AmountWord(s))' =
           IF pos + 1 = AmountWord(s) THEN parameter ELSE ReadWord(AmountWord(s))
      /\ ReadWord(MinWord(s))' =
           IF pos + 1 = MinWord(s) THEN parameter ELSE ReadWord(MinWord(s))
      /\ ReadWord(RecipientWord(s))' =
           IF pos + 1 = RecipientWord(s) THEN parameter
                                         ELSE ReadWord(RecipientWord(s))
  BY <1>1, ReadWordNext
<1>4. s' = s
  OBVIOUS
<1>5. /\ s' # ZAPPER_DEPOSIT_ETH_SELECTOR =>
           ctx'.amount_sent = ReadWord(AmountWord(s))'
      /\ s' \notin {ZAPPER_DEPOSIT_ETH_SELECTOR} \cup FlipperSelectors =>
           ctx'.min_amount_received = ReadWord(MinWord(s))'
      /\ ctx'.beneficiary = ReadWord(RecipientWord(s))'.addr
  <2> HIDE DEF s
  <2> QED BY <1>2, <1>3, <1>4 DEF WordRead, s
<1> QED BY <1>5 DEF AmountsInPlace

(* Only the router's routes get lost.                                      *)
LEMMA AnyKept ==
  ASSUME Typed, AnySoFar, ~Overrun, Provide, WordRead, AnyCursor',
         tx.selector # CURVE_ROUTER_EXCHANGE_MULTIPLE_SELECTOR
  PROVE  AnySoFar'
<1>1. /\ pos \in Nat /\ tx' = tx /\ pos' = pos + 1
      /\ parameter = tx.words[pos + 1]
  BY TypeProvide DEF Provide, parameter
<1>2. AmountsInPlace'
  BY <1>1, InPlaceKept DEF AnySoFar, RouteLost
<1>3. FunctionFound'
  BY <1>1, FunctionKept DEF AnySoFar, WordRead
<1> QED BY <1>2, <1>3 DEF AnySoFar

(* A plain argument, of a function that has no more to it.                 *)
LEMMA AnyStepFacts ==
  ASSUME Typed, AnySoFar, ~Overrun, Provide
  PROVE  /\ ctx \in ContextType /\ pos \in Nat
         /\ tx' = tx /\ pos' = pos + 1
         /\ parameter = tx.words[pos + 1]
         /\ FunctionFound /\ AnyCursor /\ FixedCursor /\ AmountsInPlace
BY TypeProvide DEF Typed, Provide, parameter, AnySoFar, AnyCursor

(* handle_zapper_deposit_eth reads no word.                                *)
LEMMA AnyDepositStep ==
  ASSUME Typed, AnySoFar, ~Overrun, handle_zapper_deposit_eth
  PROVE  AnySoFar'
<1>1. Handler({"ZAPPER_DEPOSIT_ETH"}) /\ Provide
  BY DEF handle_zapper_deposit_eth, Handler
<1>2. tx.selector = ZAPPER_DEPOSIT_ETH_SELECTOR
  BY <1>1, AnyStepFacts, HandlerOfSelector DEF Handler
<1>3. CursorDeposit /\ pos \in Nat /\ tx' = tx /\ ctx' = ctx
  BY <1>1, <1>2, AnyStepFacts
     DEF FixedCursor, CursorDeposit, Expecting, handle_zapper_deposit_eth, Otherwise
<1>4. AnyCursor'
  BY <1>2, <1>3, AnyCursorOfSelector DEF CursorDeposit, Expecting
<1>5. WordRead
  BY <1>2, <1>3, AbiWords DEF WordRead
<1> QED BY <1>1, <1>2, <1>4, <1>5, AnyKept
        DEF ZAPPER_DEPOSIT_ETH_SELECTOR, CURVE_ROUTER_EXCHANGE_MULTIPLE_SELECTOR

(* handle_zapper_deposit_sfrxeth and handle_vault_redeem.                  *)
LEMMA AnyAmountAndMinStep ==
  ASSUME Typed, AnySoFar, ~Overrun, handle_amount_and_min
  PROVE  AnySoFar'
<1>1. Handler({"ZAPPER_DEPOSIT_SFRXETH", "VAULT_REDEEM"}) /\ Provide
  BY DEF handle_amount_and_min, Handler
<1>2. tx.selector \in {ZAPPER_DEPOSIT_SFRXETH_SELECTOR, VAULT_REDEEM_SELECTOR}
  BY <1>1, AnyStepFacts, HandlerOfSelector DEF Handler
<1>3. /\ CursorAmountAndMin
      /\ ctx \in ContextType /\ pos \in Nat /\ tx' = tx /\ pos' = pos + 1
  BY <1>1, <1>2, AnyStepFacts DEF FixedCursor
<1> DEFINE Becomes(a, m, p) ==
      Holds(ctx', a, m, ctx.contract_address_sent,
            ctx.contract_address_received, ctx.beneficiary,
            ctx.skip, p, ctx.counter, ctx.offset, ctx.selectorIndex)
<1>4. \/ pos = 0 /\ Becomes(parameter, ctx.min_amount_received,
                            "MIN_AMOUNT_RECEIVED")
      \/ pos = 1 /\ Becomes(ctx.amount_sent, parameter, "NONE")
      \/ pos > 1 /\ ctx' = ctx
  BY <1>3, AmountSentFields, MinAmountReceivedFields
     DEF handle_amount_and_min, CursorAmountAndMin, Expecting, On, Otherwise
<1>5. CursorAmountAndMin'
  BY <1>3, <1>4 DEF CursorAmountAndMin, Expecting, Holds
<1>6. AnyCursor'
  BY <1>2, <1>3, <1>5, AnyCursorOfSelector
<1>7. WordRead
  BY <1>2, <1>3, <1>4, AbiWords DEF WordRead, Holds
<1> QED BY <1>1, <1>2, <1>6, <1>7, AnyKept, ReceivedPlainly

(* handle_vault_mint.                                                      *)
LEMMA AnyMintStep ==
  ASSUME Typed, AnySoFar, ~Overrun, handle_vault_mint
  PROVE  AnySoFar'
<1>1. Handler({"VAULT_MINT"}) /\ Provide
  BY DEF handle_vault_mint, Handler
<1>2. tx.selector = VAULT_MINT_SELECTOR
  BY <1>1, AnyStepFacts, HandlerOfSelector DEF Handler
<1>3. /\ CursorMint
      /\ ctx \in ContextType /\ pos \in Nat /\ tx' = tx /\ pos' = pos + 1
  BY <1>1, <1>2, AnyStepFacts DEF FixedCursor
<1> DEFINE Becomes(a, m, s, p) ==
      Holds(ctx', a, m, s,
            ctx.contract_address_received, ctx.beneficiary,
            ctx.skip, p, ctx.counter, ctx.offset, ctx.selectorIndex)
<1>4. \/ pos = 0 /\ Becomes(ctx.amount_sent, ctx.min_amount_received,
                            TokenIn(ctx, parameter), "AMOUNT_SENT")
      \/ pos = 1 /\ Becomes(parameter, ctx.min_amount_received,
                            ctx.contract_address_sent, "MIN_AMOUNT_RECEIVED")
      \/ pos = 2 /\ Becomes(ctx.amount_sent, parameter,
                            ctx.contract_address_sent, "NONE")
      \/ pos > 2 /\ ctx' = ctx
  BY <1>3, TokenSentFields, AmountSentFields, MinAmountReceivedFields
     DEF handle_vault_mint, CursorMint, Expecting, On, Otherwise
<1>5. CursorMint'
  BY <1>3, <1>4 DEF CursorMint, Expecting, Holds
<1>6. AnyCursor'
  BY <1>2, <1>3, <1>5, AnyCursorOfSelector
<1>7. WordRead
  BY <1>2, <1>3, <1>4, AbiWords DEF WordRead, Holds
<1> QED BY <1>1, <1>2, <1>6, <1>7, AnyKept, ReceivedPlainly

(* handle_curve_pool_exchange, of any pool and any coins.                  *)
LEMMA AnyPoolStep ==
  ASSUME Typed, AnySoFar, ~Overrun, handle_curve_pool_exchange
  PROVE  AnySoFar'
<1>1. Handler(CurvePoolFunctions) /\ Provide
  BY DEF handle_curve_pool_exchange, Handler
<1>2. tx.selector \in PoolSelectors
  BY <1>1, AnyStepFacts, HandlerOfSelector DEF Handler
<1>3. /\ CursorPool
      /\ ctx \in ContextType /\ pos \in Nat /\ tx' = tx /\ pos' = pos + 1
  BY <1>1, <1>2, AnyStepFacts DEF FixedCursor
<1> DEFINE Becomes(a, m, s, r, p) ==
      Holds(ctx', a, m, s, r, ctx.beneficiary,
            ctx.skip, p, ctx.counter, ctx.offset, ctx.selectorIndex)
<1>4. \/ pos = 0 /\ Becomes(ctx.amount_sent, ctx.min_amount_received,
                            TokenIn(ctx, parameter),
                            ctx.contract_address_received, "TOKEN_RECEIVED")
      \/ pos = 1 /\ Becomes(ctx.amount_sent, ctx.min_amount_received,
                            ctx.contract_address_sent, TokenIn(ctx, parameter),
                            "AMOUNT_SENT")
      \/ pos = 2 /\ Becomes(parameter, ctx.min_amount_received,
                            ctx.contract_address_sent,
                            ctx.contract_address_received,
                            "MIN_AMOUNT_RECEIVED")
      \/ pos = 3 /\ Becomes(ctx.amount_sent, parameter,
                            ctx.contract_address_sent,
                            ctx.contract_address_received, "NONE")
      \/ pos > 3 /\ ctx' = ctx
  BY <1>3, TokenSentFields, TokenReceivedFields, AmountSentFields,
     MinAmountReceivedFields
     DEF handle_curve_pool_exchange, CursorPool, Expecting, On, Otherwise
<1>5. CursorPool'
  BY <1>3, <1>4 DEF CursorPool, Expecting, Holds
<1>6. AnyCursor'
  BY <1>2, <1>3, <1>5, AnyCursorOfSelector
<1>7. WordRead
  BY <1>2, <1>3, <1>4, AbiWords DEF WordRead, Holds
<1> QED BY <1>1, <1>2, <1>6, <1>7, AnyKept, ReceivedPlainly

(* handle_uniswap_exchange_single.                                         *)
LEMMA AnySingleStep ==
  ASSUME Typed, AnySoFar, ~Overrun, handle_uniswap_exchange_single
  PROVE  AnySoFar'
<1>1. Handler({"UNISWAP_ROUTER_EXACT_INPUT_SINGLE"}) /\ Provide
  BY DEF handle_uniswap_exchange_single, Handler
<1>2. tx.selector = UNISWAP_ROUTER_EXACT_INPUT_SINGLE_SELECTOR /\ ctx.skip = 0
  BY <1>1, AnyStepFacts, HandlerOfSelector DEF Handler
<1>3. /\ CursorSingle
      /\ ctx \in ContextType /\ pos \in Nat /\ tx' = tx /\ pos' = pos + 1
  BY <1>1, <1>2, AnyStepFacts DEF FixedCursor
<1> DEFINE Becomes(a, m, s, r, b, k, p) ==
      Holds(ctx', a, m, s, r, b, k, p, ctx.counter, ctx.offset, ctx.selectorIndex)
<1>4. \/ pos = 0 /\ Becomes(ctx.amount_sent, ctx.min_amount_received,
                            TokenIn(ctx, parameter),
                            ctx.contract_address_received, ctx.beneficiary,
                            0, "TOKEN_RECEIVED")
      \/ pos = 1 /\ Becomes(ctx.amount_sent, ctx.min_amount_received,
                            ctx.contract_address_sent, TokenIn(ctx, parameter),
                            ctx.beneficiary, 1, "BENEFICIARY")
      \/ pos = 3 /\ Becomes(ctx.amount_sent, ctx.min_amount_received,
                            ctx.contract_address_sent,
                            ctx.contract_address_received,
                            parameter.addr, 1, "AMOUNT_SENT")
      \/ pos = 5 /\ Becomes(parameter, ctx.min_amount_received,
                            ctx.contract_address_sent,
                            ctx.contract_address_received,
                            ctx.beneficiary, 0, "MIN_AMOUNT_RECEIVED")
      \/ pos = 6 /\ Becomes(ctx.amount_sent, parameter,
                            ctx.contract_address_sent,
                            ctx.contract_address_received,
                            ctx.beneficiary, 0, "NONE")
      \/ pos > 6 /\ ctx' = ctx
  BY <1>2, <1>3, TokenSentFields, TokenReceivedSkipFields,
     BeneficiarySkipFields, AmountSentFields, MinAmountReceivedFields
     DEF handle_uniswap_exchange_single, CursorSingle, Expecting, On, Otherwise,
         Uint8
<1>5. CursorSingle'
  BY <1>2, <1>3, <1>4 DEF CursorSingle, Expecting, Holds
<1>6. AnyCursor'
  BY <1>2, <1>3, <1>5, AnyCursorOfSelector
<1>7. WordRead
  BY <1>2, <1>3, <1>4, AbiWords DEF WordRead, Holds
<1> QED BY <1>1, <1>2, <1>6, <1>7, AnyKept, ReceivedPlainly

(* handle_flipper_exchange.                                                *)
LEMMA AnyFlipperStep ==
  ASSUME Typed, AnySoFar, ~Overrun, handle_flipper_exchange
  PROVE  AnySoFar'
<1>1. Handler(FlipperBuys \cup FlipperSells) /\ Provide
  BY DEF handle_flipper_exchange, Handler
<1>2. tx.selector \in FlipperSelectors
  BY <1>1, AnyStepFacts, HandlerOfSelector DEF Handler
<1>3. /\ CursorFlipper
      /\ ctx \in ContextType /\ pos \in Nat /\ tx' = tx /\ pos' = pos + 1
  BY <1>1, <1>2, AnyStepFacts DEF FixedCursor
<1>4. \/ /\ pos = 0
         /\ Holds(ctx', parameter, ctx.min_amount_received,
                  ctx.contract_address_sent, ctx.contract_address_received,
                  ctx.beneficiary, ctx.skip, "NONE",
                  ctx.counter, ctx.offset, ctx.selectorIndex)
      \/ pos > 0 /\ ctx' = ctx
  BY <1>3, AmountSentFields
     DEF handle_flipper_exchange, CursorFlipper, Expecting, On, Otherwise
<1>5. CursorFlipper'
  BY <1>3, <1>4 DEF CursorFlipper, Expecting, Holds
<1>6. AnyCursor'
  BY <1>2, <1>3, <1>5, AnyCursorOfSelector
<1>7. WordRead
  BY <1>2, <1>3, <1>4, AbiWords DEF WordRead, Holds
<1> QED BY <1>1, <1>2, <1>6, <1>7, AnyKept, ReceivedPlainly

(* handle_wrap.                                                            *)
LEMMA AnyWrapStep ==
  ASSUME Typed, AnySoFar, ~Overrun, handle_wrap
  PROVE  AnySoFar'
<1>1. Handler(WrapFunctions) /\ Provide
  BY DEF handle_wrap, Handler
<1>2. tx.selector \in WrapSelectors
  BY <1>1, AnyStepFacts, HandlerOfSelector DEF Handler
<1>3. /\ CursorWrap
      /\ ctx \in ContextType /\ pos \in Nat /\ tx' = tx /\ pos' = pos + 1
  BY <1>1, <1>2, AnyStepFacts DEF FixedCursor
<1> DEFINE Becomes(a, b, p) ==
      Holds(ctx', a, ctx.min_amount_received, ctx.contract_address_sent,
            ctx.contract_address_received, b,
            ctx.skip, p, ctx.counter, ctx.offset, ctx.selectorIndex)
<1>4. \/ pos = 0 /\ Becomes(parameter, ctx.beneficiary, "BENEFICIARY")
      \/ pos = 1 /\ Becomes(ctx.amount_sent, parameter.addr, "NONE")
      \/ pos > 1 /\ ctx' = ctx
  BY <1>3, AmountSentFields, BeneficiaryFields
     DEF handle_wrap, CursorWrap, Expecting, On, Otherwise
<1>5. CursorWrap'
  BY <1>3, <1>4 DEF CursorWrap, Expecting, Holds
<1>6. AnyCursor'
  BY <1>2, <1>3, <1>5, AnyCursorOfSelector
<1>7. WordRead
  BY <1>2, <1>3, <1>4, AbiWords DEF WordRead, Holds
<1> QED BY <1>1, <1>2, <1>6, <1>7, AnyKept, ReceivedPlainly

(* exactInput, with any words for its path.                                *)
LEMMA AnyUniswapStep ==
  ASSUME Typed, AnySoFar, ~Overrun, handle_provide_parameter, result' = "OK",
         tx.selector = UNISWAP_ROUTER_EXACT_INPUT_SELECTOR
  PROVE  AnySoFar'
<1>1. Provide
  BY ProvideOfHandlers
<1>2. /\ FunctionFound /\ CursorPath(HeadWord(tx), PathNumber(tx))
      /\ tx' = tx
  BY <1>1, AnyStepFacts DEF AnyCursor
<1>3. CASE Overrun'
  BY <1>3 DEF AnySoFar
<1>4. CASE ~Overrun'
  <2>1. CursorPath(HeadWord(tx), PathNumber(tx))' /\ WordRead
    BY <1>2, <1>4, PathHeadStep
  <2>2. AnyCursor'
    BY <1>2, <2>1, AnyCursorOfSelector
  <2> QED BY <1>1, <2>1, <2>2, AnyKept
          DEF UNISWAP_ROUTER_EXACT_INPUT_SELECTOR,
              CURVE_ROUTER_EXCHANGE_MULTIPLE_SELECTOR
<1> QED BY <1>3, <1>4

(* A null among the words behind the first is the end of the route, and    *)
(* without one it is lost.                                                 *)
LEMMA EndOrLost ==
  ASSUME pos \in Nat, Len(tx.words) \in Nat, pos <= Len(tx.words),
         tx.selector = CURVE_ROUTER_EXCHANGE_MULTIPLE_SELECTOR
  PROVE  /\ EndSeen => ~RouteLost(tx)
         /\ ~EndSeen /\ pos >= 21 => RouteLost(tx)
<1>1. ASSUME EndSeen PROVE ~RouteLost(tx)
  <2>1. PICK i \in 2..21 : i <= pos /\ tx.words[i].addr = NULL
    BY <1>1 DEF EndSeen
  <2>2. i <= Len(tx.words)
    BY <2>1
  <2> QED BY <2>1, <2>2 DEF RouteLost
<1>2. ASSUME ~EndSeen, pos >= 21 PROVE RouteLost(tx)
  <2>1. \A k \in 2..21 : k <= pos
    BY <1>2
  <2>2. \A k \in 2..21 : tx.words[k].addr # NULL
    BY <1>2, <2>1 DEF EndSeen
  <2> QED BY <2>2 DEF RouteLost
<1> QED BY <1>1, <1>2

(* Whether the end was seen, one word further.                             *)
LEMMA EndSeenNext ==
  ASSUME pos \in Nat, tx' = tx, pos' = pos + 1, parameter = tx.words[pos + 1]
  PROVE  EndSeen' <=> EndSeen \/ (pos + 1 \in 2..21 /\ parameter.addr = NULL)
BY DEF EndSeen

(* Behind the null, while the router still has words to skip or to read.   *)
LEMMA RouterKept ==
  ASSUME Typed, AnySoFar, ~Overrun, Provide,
         tx.selector = CURVE_ROUTER_EXCHANGE_MULTIPLE_SELECTOR,
         CursorAnyRoute', ctx'.selectorIndex = ctx.selectorIndex,
         RouteLost(tx) /\ pos + 1 < RouteWrap =>
           /\ ctx'.amount_sent = ctx.amount_sent
           /\ ctx'.min_amount_received = ctx.min_amount_received
           /\ ctx'.beneficiary = ctx.beneficiary,
         ~RouteLost(tx) => WordRead
  PROVE  AnySoFar'
<1>1. /\ pos \in Nat /\ tx' = tx /\ pos' = pos + 1
      /\ parameter = tx.words[pos + 1]
      /\ FunctionFound /\ AmountsInPlace
  BY AnyStepFacts
<1>2. AnyCursor'
  BY <1>1, AnyCursorOfSelector
<1>3. FunctionFound'
  BY <1>1, FunctionKept
<1>4. AmountsInPlace'
  <2>1. CASE ~RouteLost(tx)
    BY <1>1, <2>1, InPlaceKept
  <2>2. CASE RouteLost(tx) /\ pos + 1 < RouteWrap
    <3>1. ~(pos >= RouteWrap)
      BY <1>1, <2>2 DEF RouteWrap
    <3>2. \A k : ReadWord(k) = ZeroWord /\ ReadWord(k)' = ZeroWord
      BY <1>1, <2>2 DEF ReadWord
    <3> QED BY <1>1, <2>2, <3>1, <3>2 DEF AmountsInPlace
  <2>3. CASE RouteLost(tx) /\ ~(pos + 1 < RouteWrap)
    <3>1. RouteLost(tx)' /\ pos' >= RouteWrap
      BY <1>1, <2>3 DEF RouteWrap
    <3> QED BY <3>1 DEF AmountsInPlace
  <2> QED BY <2>1, <2>2, <2>3
<1> QED BY <1>2, <1>3, <1>4 DEF AnySoFar

(* One address of a route of any length, with the byte arithmetic of its   *)
(* counter and skip.                                                       *)
LEMMA AnyRouteFields ==
  ASSUME NEW c \in ContextType, NEW w, NEW n \in 1..277,
         c.skip = 0, c.counter = Uint8(n - 1)
  PROVE  IF w.addr = NULL
           THEN Holds(handle_route(c, w),
                      c.amount_sent, c.min_amount_received,
                      c.contract_address_sent, c.contract_address_received,
                      c.beneficiary,
                      IF n <= 20 THEN 20 - n ELSE Uint8(276 - n),
                      "AMOUNT_SENT", 0, c.offset, c.selectorIndex)
           ELSE Holds(handle_route(c, w),
                      c.amount_sent, c.min_amount_received,
                      c.contract_address_sent, TokenIn(c, w),
                      c.beneficiary, 0, "TOKEN_RECEIVED", Uint8(n),
                      c.offset, c.selectorIndex)
<1>1. Uint8(c.counter + 1) = Uint8(n)
  BY DEF Uint8
<1>2. Uint8(c.skip + route_skip(Uint8(n)))
        = IF n <= 20 THEN 20 - n ELSE Uint8(276 - n)
  BY DEF Uint8, route_skip
<1>3. handle_route(c, w) =
        IF w.addr = NULL
          THEN Expect([Skip(c, route_skip(Uint8(n))) EXCEPT !.counter = 0],
                      "AMOUNT_SENT")
          ELSE Expect([handle_token_received(c, w) EXCEPT !.counter = Uint8(n)],
                      "TOKEN_RECEIVED")
  BY <1>1 DEF handle_route
<1>4. CASE w.addr = NULL
  BY <1>2, <1>3, <1>4 DEF Holds, Expect, Skip, ContextType
<1>5. CASE w.addr # NULL
  BY <1>3, <1>5 DEF Holds, Expect, handle_token_received, ContextType
<1> QED BY <1>4, <1>5

(* handle_curve_router_exchange: the route up to its null, if it has one   *)
(* in time; the amounts behind it; and if not, nothing before word 278.    *)
LEMMA AnyRouterStep ==
  ASSUME Typed, AnySoFar, ~Overrun, handle_curve_router_exchange
  PROVE  AnySoFar'
<1>1. Handler({"CURVE_ROUTER_EXCHANGE_MULTIPLE"}) /\ Provide
  BY DEF handle_curve_router_exchange, Handler
<1>2. tx.selector = CURVE_ROUTER_EXCHANGE_MULTIPLE_SELECTOR /\ ctx.skip = 0
  BY <1>1, AnyStepFacts, HandlerOfSelector DEF Handler
<1>3. /\ CursorAnyRoute
      /\ ctx \in ContextType /\ pos \in Nat /\ tx' = tx /\ pos' = pos + 1
      /\ parameter = tx.words[pos + 1]
  BY <1>1, <1>2, AnyStepFacts DEF AnyCursor
<1>4. /\ EndSeen => ~RouteLost(tx)
      /\ ~EndSeen /\ pos >= 21 => RouteLost(tx)
      /\ EndSeen' <=> EndSeen \/ (pos + 1 \in 2..21 /\ parameter.addr = NULL)
      /\ EndSeen' => ~RouteLost(tx)
  <2>1. Len(tx.words) \in Nat /\ pos + 1 <= Len(tx.words)
    BY <1>1, <1>3, TransactionParts DEF Typed, Provide
  <2>2. (pos + 1 \in 2..21 /\ parameter.addr = NULL) => ~RouteLost(tx)
    BY <1>3, <2>1 DEF RouteLost
  <2> QED BY <1>2, <1>3, <2>1, <2>2, EndOrLost, EndSeenNext
<1> DEFINE Becomes(a, n, s, r, k, p, i) ==
      Holds(ctx', a, n, s, r, ctx.beneficiary, k, p, i,
            ctx.offset, ctx.selectorIndex)
           Unread(s, r, k, p, i) ==
      Becomes(ctx.amount_sent, ctx.min_amount_received, s, r, k, p, i)
<1>5. \/ pos = 0 /\ Unread(TokenIn(ctx, parameter), ctx.contract_address_received,
                           0, "TOKEN_RECEIVED", 0)
      \/ /\ ~EndSeen /\ pos \in 1..277 /\ parameter.addr = NULL
         /\ Unread(ctx.contract_address_sent, ctx.contract_address_received,
                   IF pos <= 20 THEN 20 - pos ELSE Uint8(276 - pos),
                   "AMOUNT_SENT", 0)
      \/ /\ ~EndSeen /\ pos \in 1..277 /\ parameter.addr # NULL
         /\ Unread(ctx.contract_address_sent, TokenIn(ctx, parameter),
                   0, "TOKEN_RECEIVED", Uint8(pos))
      \/ /\ EndSeen /\ pos = 21
         /\ Becomes(parameter, ctx.min_amount_received,
                    ctx.contract_address_sent, ctx.contract_address_received,
                    0, "MIN_AMOUNT_RECEIVED", ctx.counter)
      \/ /\ EndSeen /\ pos = 22
         /\ Becomes(ctx.amount_sent, parameter,
                    ctx.contract_address_sent, ctx.contract_address_received,
                    0, "NONE", ctx.counter)
      \/ EndSeen /\ pos > 22 /\ ctx' = ctx
      \/ ~EndSeen /\ pos >= 277 /\ ctx'.selectorIndex = ctx.selectorIndex
  <2>1. CASE pos = 0
    <3>1. ~EndSeen
      BY <2>1 DEF EndSeen
    <3>2. ctx.next_param = "TOKEN_SENT" /\ ctx.counter = 0
      BY <2>1, <3>1, <1>3 DEF CursorAnyRoute, Expecting, RouteWrap
    <3>3. ctx' = Expect(handle_token_sent(ctx, parameter), "TOKEN_RECEIVED")
      BY <3>2 DEF handle_curve_router_exchange, On, Otherwise
    <3>4. Unread(TokenIn(ctx, parameter), ctx.contract_address_received,
                 0, "TOKEN_RECEIVED", 0)
      BY <3>2, <3>3, <1>2, <1>3, TokenSentFields
    <3> QED BY <2>1, <3>4
  <2>2. CASE ~EndSeen /\ pos \in 1..277 /\ ctx.next_param = "TOKEN_RECEIVED"
    <3>1. ctx' = handle_route(ctx, parameter)
      BY <2>2 DEF handle_curve_router_exchange, On, Otherwise
    <3>2. ctx.counter = Uint8(pos - 1)
      BY <2>2, <1>3 DEF CursorAnyRoute, Expecting, RouteWrap
    <3> QED BY <2>2, <3>1, <3>2, <1>2, <1>3, AnyRouteFields
  <2>3. CASE EndSeen /\ pos = 21
    BY <2>3, <1>2, <1>3, AmountSentFields
       DEF handle_curve_router_exchange, CursorAnyRoute, Expecting, On, Otherwise,
           RouteWrap
  <2>4. CASE EndSeen /\ pos = 22
    BY <2>4, <1>2, <1>3, MinAmountReceivedFields
       DEF handle_curve_router_exchange, CursorAnyRoute, Expecting, On, Otherwise,
           RouteWrap
  <2>5. CASE EndSeen /\ pos > 22
    BY <2>5, <1>2, <1>3
       DEF handle_curve_router_exchange, CursorAnyRoute, Expecting, On, Otherwise,
           RouteWrap
  <2>6. CASE ~EndSeen /\ pos >= 277
    <3>1. \A w : /\ Expect(handle_token_sent(ctx, w), "TOKEN_RECEIVED").selectorIndex
                      = ctx.selectorIndex
                 /\ Expect(handle_amount_sent(ctx, w),
                           "MIN_AMOUNT_RECEIVED").selectorIndex
                      = ctx.selectorIndex
                 /\ Expect(handle_min_amount_received(ctx, w), "NONE").selectorIndex
                      = ctx.selectorIndex
      BY <1>3, TokenSentFields, AmountSentFields, MinAmountReceivedFields DEF Holds
    <3>2. handle_route(ctx, parameter).selectorIndex = ctx.selectorIndex
      BY <1>3 DEF handle_route, Expect, Skip, handle_token_received, ContextType
    <3>3. ctx'.selectorIndex = ctx.selectorIndex
      BY <3>1, <3>2 DEF handle_curve_router_exchange, On, Otherwise
    <3> QED BY <2>6, <3>3
  <2>7. \/ pos = 0
        \/ ~EndSeen /\ pos \in 1..277 /\ ctx.next_param = "TOKEN_RECEIVED"
        \/ EndSeen /\ pos = 21
        \/ EndSeen /\ pos = 22
        \/ EndSeen /\ pos > 22
        \/ ~EndSeen /\ pos >= 277
    <3>1. RouteWrap = 278
      BY DEF RouteWrap
    <3>2. CASE EndSeen /\ pos \in 2..21 /\ Expecting("AMOUNT_SENT", 21 - pos)
      <4>1. 21 - pos = 0
        BY <1>2, <3>2 DEF Expecting
      <4> QED BY <3>2, <4>1
    <3>3. CASE ~EndSeen /\ pos \in 1..(RouteWrap - 1)
               /\ Expecting("TOKEN_RECEIVED", 0) /\ ctx.counter = Uint8(pos - 1)
      BY <3>1, <3>3 DEF Expecting
    <3>4. CASE /\ ~EndSeen /\ pos \in 22..(RouteWrap - 1)
               /\ Expecting("AMOUNT_SENT", RouteWrap - 1 - pos)
      <4>1. 277 - pos = 0
        BY <1>2, <3>1, <3>4 DEF Expecting
      <4> QED BY <3>4, <4>1
    <3>5. CASE ~EndSeen /\ pos >= RouteWrap
      BY <1>3, <3>1, <3>5
    <3> QED BY <1>3, <3>2, <3>3, <3>4, <3>5 DEF CursorAnyRoute
  <2> QED BY <2>1, <2>2, <2>3, <2>4, <2>5, <2>6, <2>7
<1>6. CursorAnyRoute'
  <2> DEFINE NowExpecting(p, i) == ctx'.next_param = p /\ ctx'.skip = i
  <2>1. \/ pos' = 0 /\ NowExpecting("TOKEN_SENT", 0) /\ ctx'.counter = 0
        \/ EndSeen' /\ pos' \in 2..21 /\ NowExpecting("AMOUNT_SENT", 21 - pos')
        \/ EndSeen' /\ pos' = 22 /\ NowExpecting("MIN_AMOUNT_RECEIVED", 0)
        \/ EndSeen' /\ pos' >= 23 /\ NowExpecting("NONE", 0)
        \/ /\ ~EndSeen' /\ pos' \in 1..277
           /\ NowExpecting("TOKEN_RECEIVED", 0) /\ ctx'.counter = Uint8(pos' - 1)
        \/ /\ ~EndSeen' /\ pos' \in 22..277
           /\ NowExpecting("AMOUNT_SENT", 277 - pos')
        \/ ~EndSeen' /\ pos' >= 278
    <3>1. CASE pos = 0
      <4>1. ~EndSeen'
        BY <1>3, <3>1 DEF EndSeen
      <4>2. NowExpecting("TOKEN_RECEIVED", 0) /\ ctx'.counter = 0
        BY <1>5, <3>1 DEF Holds
      <4> QED BY <1>3, <3>1, <4>1, <4>2 DEF Uint8
    <3>2. CASE ~EndSeen /\ pos \in 1..277 /\ parameter.addr = NULL
               /\ Unread(ctx.contract_address_sent, ctx.contract_address_received,
                         IF pos <= 20 THEN 20 - pos ELSE Uint8(276 - pos),
                         "AMOUNT_SENT", 0)
      <4>1. NowExpecting("AMOUNT_SENT",
                         IF pos <= 20 THEN 20 - pos ELSE Uint8(276 - pos))
        BY <3>2 DEF Holds
      <4>2. pos \in 21..276 => Uint8(276 - pos) = 276 - pos
        BY DEF Uint8
      <4>3. CASE pos \in 1..20
        BY <1>3, <1>4, <3>2, <4>1, <4>3
      <4>4. CASE pos \in 21..276
        BY <1>3, <1>4, <3>2, <4>1, <4>2, <4>4
      <4>5. CASE pos = 277
        BY <1>3, <1>4, <3>2, <4>5
      <4> QED BY <3>2, <4>3, <4>4, <4>5
    <3>3. CASE ~EndSeen /\ pos \in 1..277 /\ parameter.addr # NULL
               /\ Unread(ctx.contract_address_sent, TokenIn(ctx, parameter),
                         0, "TOKEN_RECEIVED", Uint8(pos))
      <4>1. NowExpecting("TOKEN_RECEIVED", 0) /\ ctx'.counter = Uint8(pos' - 1)
        BY <1>3, <3>3 DEF Holds
      <4> QED BY <1>3, <1>4, <3>3, <4>1
    <3>4. CASE EndSeen
      <4>1. \/ pos = 21 /\ NowExpecting("MIN_AMOUNT_RECEIVED", 0)
            \/ pos = 22 /\ NowExpecting("NONE", 0)
            \/ pos > 22 /\ ctx' = ctx
            \/ pos = 0
        BY <1>5, <3>4 DEF Holds
      <4>2. pos > 22 => ctx.next_param = "NONE" /\ ctx.skip = 0
        BY <1>3, <3>4 DEF CursorAnyRoute, Expecting, RouteWrap
      <4> QED BY <1>3, <1>4, <3>1, <3>4, <4>1, <4>2
    <3>5. CASE ~EndSeen /\ pos >= 277
      BY <1>3, <1>4, <3>5
    <3> QED BY <1>5, <3>1, <3>2, <3>3, <3>4, <3>5
  <2> QED BY <2>1, <1>3 DEF CursorAnyRoute, Expecting, RouteWrap
<1>7. ~RouteLost(tx) => WordRead
  <2>1. ~RouteLost(tx) => EndSeen \/ pos < 21
    BY <1>3, <1>4
  <2> QED BY <1>2, <1>3, <1>5, <2>1, AbiWords DEF WordRead, Holds
<1>8. RouteLost(tx) /\ pos + 1 < RouteWrap =>
        /\ ctx'.amount_sent = ctx.amount_sent
        /\ ctx'.min_amount_received = ctx.min_amount_received
        /\ ctx'.beneficiary = ctx.beneficiary
  BY <1>3, <1>4, <1>5 DEF Holds, RouteWrap
<1>9. ctx'.selectorIndex = ctx.selectorIndex
  BY <1>5 DEF Holds
<1> QED BY <1>1, <1>2, <1>6, <1>7, <1>8, <1>9, RouterKept

(* Only the router and the Uniswap functions skip words, whatever the      *)
(* words are.                                                              *)
LEMMA AnySkippingFunctions ==
  ASSUME FunctionFound, AnyCursor, ctx.skip # 0
  PROVE  \/ /\ tx.selector = CURVE_ROUTER_EXCHANGE_MULTIPLE_SELECTOR
            /\ CursorAnyRoute
         \/ tx.selector = UNISWAP_ROUTER_EXACT_INPUT_SELECTOR
         \/ /\ tx.selector = UNISWAP_ROUTER_EXACT_INPUT_SINGLE_SELECTOR
            /\ CursorSingle
<1>1. PICK i \in 1..NUM_SELECTORS : /\ tx.selector = ORIGIN_DEFI_SELECTORS[i]
                                   /\ ctx.selectorIndex = selector_t[i]
  BY DEF FunctionFound
<1>2. \/ tx.selector \in {ZAPPER_DEPOSIT_ETH_SELECTOR,
                           ZAPPER_DEPOSIT_SFRXETH_SELECTOR,
                           VAULT_REDEEM_SELECTOR, VAULT_MINT_SELECTOR}
      \/ tx.selector \in PoolSelectors \cup FlipperSelectors \cup WrapSelectors
      \/ tx.selector = CURVE_ROUTER_EXCHANGE_MULTIPLE_SELECTOR
      \/ tx.selector = UNISWAP_ROUTER_EXACT_INPUT_SELECTOR
      \/ tx.selector = UNISWAP_ROUTER_EXACT_INPUT_SINGLE_SELECTOR
  BY <1>1, SelectorOfFunction
<1>3. /\ ~CursorDeposit /\ ~CursorAmountAndMin /\ ~CursorMint /\ ~CursorPool
      /\ ~CursorFlipper /\ ~CursorWrap
  BY DEF CursorDeposit, CursorAmountAndMin, CursorMint, CursorPool,
         CursorFlipper, CursorWrap, Expecting
<1> QED BY <1>2, <1>3 DEF AnyCursor, FixedCursor

(* A skipped word is no amount and no recipient, unless the route is lost. *)
LEMMA AnySkipStep ==
  ASSUME Typed, AnySoFar, ~Overrun, skip_parameter
  PROVE  AnySoFar'
<1>1. Provide /\ ctx.skip # 0 /\ handle_provide_parameter
  BY DEF skip_parameter, handle_provide_parameter
<1>2. /\ ctx \in ContextType /\ pos \in Nat /\ tx' = tx /\ pos' = pos + 1
      /\ parameter = tx.words[pos + 1]
      /\ FunctionFound /\ AnyCursor
  BY <1>1, AnyStepFacts
<1>3. Holds(ctx', ctx.amount_sent, ctx.min_amount_received,
            ctx.contract_address_sent, ctx.contract_address_received,
            ctx.beneficiary, ctx.skip - 1, ctx.next_param, ctx.counter,
            ctx.offset, ctx.selectorIndex)
  BY <1>2 DEF skip_parameter, Holds, ContextType
<1>4. CASE tx.selector = UNISWAP_ROUTER_EXACT_INPUT_SELECTOR
  <2>1. result' = "OK"
    BY DEF skip_parameter
  <2> QED BY <1>1, <1>4, <2>1, AnyUniswapStep
<1>5. CASE tx.selector = UNISWAP_ROUTER_EXACT_INPUT_SINGLE_SELECTOR
           /\ CursorSingle
  <2>1. \/ pos = 2 /\ Expecting("BENEFICIARY", 1)
        \/ pos = 4 /\ Expecting("AMOUNT_SENT", 1)
    BY <1>1, <1>2, <1>5 DEF CursorSingle, Expecting
  <2>2. CursorSingle'
    BY <1>2, <1>3, <2>1 DEF CursorSingle, Expecting, Holds
  <2>3. AnyCursor'
    BY <1>2, <1>5, <2>2, AnyCursorOfSelector
  <2>4. WordRead
    BY <1>2, <1>3, <1>5, <2>1, AbiWords DEF WordRead, Holds
  <2> QED BY <1>1, <1>5, <2>3, <2>4, AnyKept, ReceivedPlainly
<1>6. CASE tx.selector = CURVE_ROUTER_EXCHANGE_MULTIPLE_SELECTOR
           /\ CursorAnyRoute
  <2>1. \/ EndSeen /\ pos \in 2..20 /\ Expecting("AMOUNT_SENT", 21 - pos)
        \/ ~EndSeen /\ pos \in 22..276 /\ Expecting("AMOUNT_SENT", 277 - pos)
        \/ ~EndSeen /\ pos >= 278
    BY <1>1, <1>2, <1>6 DEF CursorAnyRoute, Expecting, RouteWrap
  <2>2. /\ EndSeen => ~RouteLost(tx)
        /\ ~EndSeen /\ pos >= 21 => RouteLost(tx)
        /\ EndSeen' <=> EndSeen \/ (pos + 1 \in 2..21 /\ parameter.addr = NULL)
    <3>1. Len(tx.words) \in Nat /\ pos <= Len(tx.words)
      BY <1>1, <1>2, TransactionParts DEF Typed, Provide
    <3> QED BY <1>2, <1>6, <3>1, EndOrLost, EndSeenNext
  <2>3. CursorAnyRoute'
    <3>1. CASE EndSeen /\ pos \in 2..20 /\ Expecting("AMOUNT_SENT", 21 - pos)
      <4>1. /\ EndSeen' /\ pos' \in 3..21
            /\ ctx'.next_param = "AMOUNT_SENT" /\ ctx'.skip = 21 - pos'
        BY <1>2, <1>3, <2>2, <3>1 DEF Expecting, Holds
      <4> QED BY <4>1 DEF CursorAnyRoute, Expecting
    <3>2. CASE ~EndSeen /\ pos \in 22..276 /\ Expecting("AMOUNT_SENT", 277 - pos)
      <4>1. /\ ~EndSeen' /\ pos' \in 23..277
            /\ ctx'.next_param = "AMOUNT_SENT" /\ ctx'.skip = 277 - pos'
        BY <1>2, <1>3, <2>2, <3>2 DEF Expecting, Holds
      <4> QED BY <4>1 DEF CursorAnyRoute, Expecting, RouteWrap
    <3>3. CASE ~EndSeen /\ pos >= 278
      <4>1. ~EndSeen' /\ pos' >= 278
        BY <1>2, <2>2, <3>3
      <4> QED BY <4>1 DEF CursorAnyRoute, RouteWrap
    <3> QED BY <2>1, <3>1, <3>2, <3>3
  <2>4. ~RouteLost(tx) => WordRead
    BY <1>2, <1>3, <1>6, <2>1, <2>2, AbiWords DEF WordRead, Holds
  <2> QED BY <1>1, <1>3, <1>6, <2>3, <2>4, RouterKept DEF Holds
<1> QED BY <1>1, <1>2, <1>4, <1>5, <1>6, AnySkippingFunctions

(* Any word of any transaction, whatever its handler.                      *)
LEMMA AnyStep ==
  ASSUME Typed, AnySoFar, handle_provide_parameter, result' = "OK"
  PROVE  AnySoFar'
<1>1. CASE Overrun
  <2>1. Overrun'
    BY <1>1, ProvideOfHandlers, OverrunStays
  <2> QED BY <2>1 DEF AnySoFar
<1>2. CASE ~Overrun /\ handle_uniswap_exchange
  <2>1. FunctionFound /\ ctx.selectorIndex \in {"UNISWAP_ROUTER_EXACT_INPUT"}
    BY <1>2 DEF AnySoFar, handle_uniswap_exchange, Handler
  <2> QED BY <1>2, <2>1, HandlerOfSelector, AnyUniswapStep
<1> QED BY <1>1, <1>2, AnySkipStep, AnyDepositStep, AnyAmountAndMinStep,
           AnyMintStep, AnyPoolStep, AnyRouterStep, AnySingleStep,
           AnyFlipperStep, AnyWrapStep
        DEF handle_provide_parameter

(* Before the first word nothing was read.                                 *)
LEMMA AnyInitStep ==
  ASSUME NEW t, handle_init_contract(t), result' = "OK"
  PROVE  AnySoFar'
<1> DEFINE i == find_selector(t.selector)
           f == selector_t[i]
<1>1. /\ i \in 1..NUM_SELECTORS /\ t.selector = ORIGIN_DEFI_SELECTORS[i]
      /\ ctx' = InitialContext(f)
      /\ tx' = t /\ pos' = 0
  <2>1. i # 0 /\ ctx' = InitialContext(f)
    BY DEF handle_init_contract
  <2> QED BY <2>1, FindSelector DEF handle_init_contract
<1>2. Holds(ctx', ZeroWord, ZeroWord, NULL, NULL, NULL,
            first_skip(f), first_param(f), 0, 0, f)
  BY <1>1, InitialFields
<1>3. FunctionFound'
  BY <1>1, <1>2 DEF FunctionFound, Holds
<1>4. AnyCursor'
  <2>1. tx'.selector = ORIGIN_DEFI_SELECTORS[i] /\ i \in 1..NUM_SELECTORS
    BY <1>1
  <2> HIDE DEF i, f
  <2>2. /\ ctx'.next_param = first_param(f) /\ ctx'.skip = first_skip(f)
        /\ ctx'.counter = 0 /\ pos' = 0
    BY <1>1, <1>2 DEF Holds
  <2>3. /\ f = "CURVE_ROUTER_EXCHANGE_MULTIPLE" => CursorAnyRoute'
        /\ f = "UNISWAP_ROUTER_EXACT_INPUT"
             => CursorPath(HeadWord(tx), PathNumber(tx))'
    BY <2>2, FirstParameters
       DEF CursorAnyRoute, CursorPath, Expecting, PathLengthWord
  <2> QED BY <2>1, <2>2, <2>3, SelectorOfFunction, FirstCursor,
             AnyCursorOfSelector DEF f
<1>5. AmountsInPlace'
  <2> HIDE DEF i, f
  <2>1. \A k : ReadWord(k)' = ZeroWord
    BY <1>1 DEF ReadWord
  <2> QED BY <1>2, <2>1 DEF AmountsInPlace, Holds, ZeroWord
<1> QED BY <1>3, <1>4, <1>5 DEF AnySoFar

---------------------------------------------------------------------------
(* The inductive invariant. *)

(* Every word of a supported transaction, whatever its handler.            *)
LEMMA ParsedStep ==
  ASSUME Typed, ParsedSoFar, Supported(tx), handle_provide_parameter
  PROVE  ParsedSoFar' /\ result' = "OK"
BY SkipStep, DepositStep, AmountAndMinStep, MintStep, PoolStep, RouterStep,
   PathStep, SingleStep, FlipperStep, WrapStep
   DEF handle_provide_parameter

(* IInv is kept by every step.                                             *)
LEMMA Inductive ==
  ASSUME IInv, [Next]_vars
  PROVE  IInv'
<1>1. TypeOK'
  <2>1. TypeOK
    BY DEF IInv
  <2> QED BY <2>1, TypeStep
<1>2. CASE \E t \in Transactions : handle_init_contract(t)
  <2>1. PICK t \in Transactions : handle_init_contract(t)
    BY <1>2
  <2>2. tx' = t
    BY <2>1 DEF handle_init_contract
  <2>3. Accepted' /\ Supported(tx)' => ParsedSoFar'
    BY <2>1, <2>2, InitStep DEF Accepted
  <2>4. Accepted' /\ tx'.selector = UNISWAP_ROUTER_EXACT_INPUT_SELECTOR
          => AnyPathSoFar'
    BY <2>1, <2>2, AnyPathBegins, TransactionsAssumption DEF Accepted
  <2> QED BY <1>1, <2>3, <2>4 DEF IInv
<1>3. CASE handle_provide_parameter
  <2>1. tx' = tx
    BY <1>3, ProvideOfHandlers DEF Provide
  <2>2. Accepted /\ Typed
    BY <1>3, ProvideOfHandlers, TypedTypeOK DEF IInv, Provide, Accepted
  <2>3. Supported(tx)' => ParsedSoFar'
    BY <1>3, <2>1, <2>2, ParsedStep DEF IInv
  <2>4. Accepted' /\ tx'.selector = UNISWAP_ROUTER_EXACT_INPUT_SELECTOR
          => AnyPathSoFar'
    <3>1. WellFormed(tx)
      BY TransactionsAssumption DEF IInv, TypeOK
    <3> QED BY <1>3, <2>1, <2>2, <3>1, AnyPathStep DEF IInv, Accepted
  <2> QED BY <1>1, <2>3, <2>4 DEF IInv
<1>4. CASE end_transaction
  <2>1. ~Accepted'
    BY <1>4 DEF end_transaction, Accepted
  <2> QED BY <1>1, <2>1 DEF IInv
<1>5. CASE UNCHANGED vars
  <2>1. (Accepted' <=> Accepted) /\ tx' = tx
    BY <1>5 DEF vars, Accepted
  <2>2. /\ FunctionFound => FunctionFound'
        /\ SentSoFar => SentSoFar'
        /\ ReceivedSoFar => ReceivedSoFar'
        /\ AmountsSoFar => AmountsSoFar'
        /\ Overrun' <=> Overrun
    BY <1>5 DEF vars, FunctionFound, SentSoFar, ReceivedSoFar, AmountsSoFar,
         Overrun
  <2>3. Cursor => Cursor'
    BY <1>5 DEF vars, Cursor, FixedCursor, Expecting, CursorDeposit, CursorAmountAndMin,
         CursorMint, CursorPool, CursorRouter, CursorPath, CursorSingle,
         CursorFlipper, CursorWrap
  <2>4. ParsedSoFar => ParsedSoFar'
    BY <2>2, <2>3 DEF ParsedSoFar
  <2>5. AnyPathSoFar => AnyPathSoFar'
    BY <1>5, <2>2 DEF vars, AnyPathSoFar, CursorPath, Expecting
  <2> QED BY <1>1, <2>1, <2>4, <2>5 DEF IInv
<1> QED BY <1>2, <1>3, <1>4, <1>5 DEF Next

(* IInv holds at first: no transaction is being parsed.                    *)
LEMMA InitInvariant == Init => IInv
<1>1. Init => TypeOK
  BY TypeInit
<1>2. Init => ~Accepted
  BY DEF Init, Accepted
<1> QED BY <1>1, <1>2 DEF IInv

(* At every moment of every run, a supported transaction is parsed up to   *)
(* where the words stand: the cursor, the two tokens, the amounts and the  *)
(* recipient are those of its ABI.                                         *)
THEOREM Parsed == Spec => []IInv
<1>1. Init => IInv
  BY InitInvariant
<1>2. IInv /\ [Next]_vars => IInv'
  BY Inductive
<1> QED BY <1>1, <1>2, PTL DEF Spec

(* No amount and no recipient is ever read early, late, or from another    *)
(* word or transaction.                                                    *)
THEOREM ReadInPlace == Spec => []ReadAtItsWord
<1>1. IInv => ReadAtItsWord
  BY DEF IInv, ReadAtItsWord, ParsedSoFar
<1> QED BY <1>1, Parsed, PTL

(* Whatever is wrong with a path, the amounts, the recipient and the token *)
(* sent are right, until a copy of negative length is made.                *)
THEOREM PathDamage == Spec => []PathDamageConfined
<1>1. IInv => PathDamageConfined
  BY DEF IInv, PathDamageConfined, AnyPathSoFar, SentSoFar, SentWord
<1> QED BY <1>1, Parsed, PTL

---------------------------------------------------------------------------
(* After the last word. *)

(* The words of a path reach to the end of its last token.                 *)
LEMMA PathComplete ==
  ASSUME NEW t, Supported(t),
         t.selector = UNISWAP_ROUTER_EXACT_INPUT_SELECTOR
  PROVE  /\ Len(t.words) \in Nat
         /\ Len(t.words) >= TokenWord(t)
         /\ Straddles(PathBytes(t)) => Len(t.words) > TokenWord(t)
<1>1. PICK h \in 2..MaxHops : Len(t.path) = h + 1
  <2>1. Len(t.path) - 1 \in 2..MaxHops /\ Len(t.path) \in Nat
    BY DEF Supported, WellFormed, TransactionType
  <2> QED BY <2>1
<1> DEFINE n == PathBytes(t)
<1>2. n = 20 + 23 * h
  BY <1>1 DEF PathBytes, ADDRESS_LENGTH, HopLength, FEE_LENGTH
<1>3. Len(t.words) \in Nat /\ Len(t.words) >= 7 + (n + 31) \div 32
  BY DEF Supported, WellFormed, TransactionType, PathLengthWord
<1>4. TokenWord(t) = 8 + TailWord(n)
  BY DEF TokenWord, PathWord
<1> HIDE DEF n
<1>5. /\ (n + 31) \div 32 >= 1 + TailWord(n)
      /\ Straddles(n) => (n + 31) \div 32 >= 2 + TailWord(n)
      /\ TailWord(n) \in Int /\ (n + 31) \div 32 \in Int
  BY <1>2 DEF Straddles, TailWord, TailByte, MaxHops, ADDRESS_LENGTH,
              PARAMETER_LENGTH
<1>6. TokenWord(t) <= Len(t.words) /\ (Straddles(n) => TokenWord(t) < Len(t.words))
  BY <1>3, <1>4, <1>5
<1> QED BY <1>3, <1>6 DEF n

(* Behind the last word lie all the words with an argument.                *)
LEMMA AllWordsRead ==
  ASSUME ParsedSoFar, pos = Len(tx.words), Supported(tx)
  PROVE  /\ pos = Len(tx.words) /\ pos \in Nat
         /\ AmountWord(tx.selector) <= pos /\ MinWord(tx.selector) <= pos
         /\ RecipientWord(tx.selector) <= pos
         /\ pos < SentWord(tx.selector) => SentOf(tx) = NULL
<1>1. FunctionFound /\ WellFormed(tx) /\ pos = Len(tx.words)
  BY DEF ParsedSoFar, Supported
<1>2. pos \in Nat
  BY <1>1 DEF WellFormed, TransactionType
<1>3. PICK i \in 1..NUM_SELECTORS : /\ tx.selector = ORIGIN_DEFI_SELECTORS[i]
                                   /\ ctx.selectorIndex = selector_t[i]
  BY <1>1 DEF FunctionFound
<1>4. \/ tx.selector = ZAPPER_DEPOSIT_ETH_SELECTOR
      \/ tx.selector \in {ZAPPER_DEPOSIT_SFRXETH_SELECTOR, VAULT_REDEEM_SELECTOR}
      \/ tx.selector = VAULT_MINT_SELECTOR
      \/ tx.selector \in PoolSelectors
      \/ tx.selector = CURVE_ROUTER_EXCHANGE_MULTIPLE_SELECTOR
      \/ tx.selector = UNISWAP_ROUTER_EXACT_INPUT_SELECTOR
      \/ tx.selector = UNISWAP_ROUTER_EXACT_INPUT_SINGLE_SELECTOR
      \/ tx.selector \in FlipperSelectors
      \/ tx.selector \in WrapSelectors
  BY <1>3, SelectorOfFunction
<1>5. tx.selector = UNISWAP_ROUTER_EXACT_INPUT_SELECTOR => pos >= 9
  <2> SUFFICES ASSUME tx.selector = UNISWAP_ROUTER_EXACT_INPUT_SELECTOR
               PROVE  pos >= 9
    OBVIOUS
  <2> DEFINE k == TokenWord(tx)
  <2>1. k \in 9..264
    BY PathLong
  <2>2. pos >= k
    BY <1>1, PathComplete
  <2> HIDE DEF k
  <2> QED BY <1>2, <2>1, <2>2
<1> QED BY <1>1, <1>2, <1>4, <1>5, AbiWords, AbiLengths, AbiTokens

(* Behind the last word the token received is known.                       *)
LEMMA ReceivedRead ==
  ASSUME ParsedSoFar, pos = Len(tx.words), Supported(tx)
  PROVE  ctx.contract_address_received = ReceivedOf(tx)
<1>0. ReceivedSoFar /\ pos \in Nat
  BY AllWordsRead DEF ParsedSoFar
<1>1. WellFormed(tx) /\ pos = Len(tx.words) /\ pos \in Nat
  BY AllWordsRead DEF Supported
<1>2. CASE tx.selector = CURVE_ROUTER_EXCHANGE_MULTIPLE_SELECTOR
  <2> DEFINE m == RouteLength(tx)
  <2>1. pos \in Nat /\ pos >= 23
    BY <1>1, <1>2, AbiLengths
  <2>2. m \in 3..8
    BY <1>2, RouteEnds
  <2>3. ctx.contract_address_received =
          IF pos < 2 THEN NULL
          ELSE IF pos <= m THEN tx.words[pos].addr ELSE ReceivedOf(tx)
    BY <1>0, <1>2 DEF ReceivedSoFar, CURVE_ROUTER_EXCHANGE_MULTIPLE_SELECTOR,
                      UNISWAP_ROUTER_EXACT_INPUT_SELECTOR
  <2> HIDE DEF m
  <2> QED BY <2>1, <2>2, <2>3
<1>3. CASE tx.selector = UNISWAP_ROUTER_EXACT_INPUT_SELECTOR
  <2>1. tx.selector # CURVE_ROUTER_EXCHANGE_MULTIPLE_SELECTOR
    BY <1>3 DEF CURVE_ROUTER_EXCHANGE_MULTIPLE_SELECTOR,
                UNISWAP_ROUTER_EXACT_INPUT_SELECTOR
  <2>2. /\ ~(pos < TokenWord(tx))
        /\ ~(pos = TokenWord(tx) /\ Straddles(PathBytes(tx)))
    <3> DEFINE k == TokenWord(tx)
    <3>1. k \in 9..264
      BY <1>3, PathLong
    <3>2. pos >= k /\ (Straddles(PathBytes(tx)) => pos > k)
      BY <1>1, <1>3, PathComplete
    <3>3. pos \in Nat
      BY <1>1
    <3> HIDE DEF k
    <3>4. ~(pos < k) /\ ~(pos = k /\ Straddles(PathBytes(tx)))
      BY <3>1, <3>2, <3>3
    <3> QED BY <3>4 DEF k
  <2> QED BY <1>0, <1>3, <2>1, <2>2 DEF ReceivedSoFar
<1>4. CASE /\ tx.selector # CURVE_ROUTER_EXCHANGE_MULTIPLE_SELECTOR
           /\ tx.selector # UNISWAP_ROUTER_EXACT_INPUT_SELECTOR
  <2>1. pos < 2 => ReceivedOf(tx) = NULL
    BY <1>1, <1>4, AbiLengths, AbiTokens DEF ReceivedOf
  <2> QED BY <1>0, <1>4, <2>1 DEF ReceivedSoFar
<1> QED BY <1>2, <1>3, <1>4

(* Behind the last word every argument is known.                           *)
LEMMA ArgumentsRead ==
  ASSUME ParsedSoFar, pos = Len(tx.words), Supported(tx)
  PROVE  /\ ctx.amount_sent = AmountOf(tx)
         /\ ctx.min_amount_received = MinOf(tx)
         /\ ctx.beneficiary = RecipientOf(tx)
         /\ ctx.contract_address_sent = SentOf(tx)
         /\ ctx.contract_address_received = ReceivedOf(tx)
<1>1. SentSoFar /\ AmountsSoFar
  BY DEF ParsedSoFar
<1>2. ctx.contract_address_received = ReceivedOf(tx)
  BY ReceivedRead
<1>3. /\ pos \in Nat
      /\ AmountWord(tx.selector) <= pos /\ MinWord(tx.selector) <= pos
      /\ RecipientWord(tx.selector) <= pos
      /\ pos < SentWord(tx.selector) => SentOf(tx) = NULL
  BY AllWordsRead
<1>4. SentWord(tx.selector) \in Nat
  BY DEF SentWord, PathWord
<1>5. ctx.contract_address_sent = SentOf(tx)
  BY <1>1, <1>3, <1>4 DEF SentSoFar
<1>6. /\ AmountWord(tx.selector) \in Nat /\ MinWord(tx.selector) \in Nat
      /\ RecipientWord(tx.selector) \in Nat
  BY DEF AmountWord, MinWord, RecipientWord
<1>7. /\ ctx.amount_sent = AmountOf(tx)
      /\ ctx.min_amount_received = MinOf(tx)
      /\ ctx.beneficiary = RecipientOf(tx)
  BY <1>1, <1>3, <1>6 DEF AmountsSoFar
<1> QED BY <1>2, <1>5, <1>7

(* For every supported transaction, whatever came before it, the fields a  *)
(* user reviews hold the arguments the ABI puts there.                     *)
THEOREM Decoded == Spec => []DecodedAsAbi
<1>1. IInv => DecodedAsAbi
  <2> SUFFICES ASSUME IInv, AllRead, Supported(tx)
               PROVE  /\ ctx.amount_sent = AmountOf(tx)
                      /\ ctx.min_amount_received = MinOf(tx)
                      /\ ctx.beneficiary = RecipientOf(tx)
                      /\ ctx.contract_address_sent = SentOf(tx)
                      /\ ctx.contract_address_received = ReceivedOf(tx)
    BY DEF DecodedAsAbi
  <2>1. ParsedSoFar /\ pos = Len(tx.words)
    BY DEF IInv, AllRead
  <2> QED BY <2>1, ArgumentsRead
<1> QED BY <1>1, Parsed, PTL

---------------------------------------------------------------------------
(* The fields that are for the screens to write.                           *)

(* c and d agree on all that Unwritten is about.                           *)
SameUnwritten(c, d) ==
  /\ c.ticker_sent = d.ticker_sent /\ c.ticker_received = d.ticker_received
  /\ c.decimals_sent = d.decimals_sent
  /\ c.decimals_received = d.decimals_received
  /\ c.tokens_found = d.tokens_found /\ c.amount_length = d.amount_length
  /\ c.selectorIndex = d.selectorIndex
  /\ c.selectorIndex # "CURVE_ROUTER_EXCHANGE_MULTIPLE" => c.counter = d.counter

(* The copies of one parameter.                                            *)
LEMMA HelpersLeave ==
  ASSUME NEW c \in ContextType, NEW w, NEW p
  PROVE  /\ SameUnwritten(Expect(handle_token_sent(c, w), p), c)
         /\ SameUnwritten(Expect(handle_token_received(c, w), p), c)
         /\ SameUnwritten(Expect(handle_amount_sent(c, w), p), c)
         /\ SameUnwritten(Expect(handle_min_amount_received(c, w), p), c)
         /\ SameUnwritten(Expect(handle_beneficiary(c, w), p), c)
         /\ SameUnwritten(Expect(Skip(handle_token_received(c, w), 1), p), c)
         /\ SameUnwritten(Expect(Skip(handle_beneficiary(c, w), 1), p), c)
<1>1. SameUnwritten(Expect(handle_token_sent(c, w), p), c)
  BY DEF SameUnwritten, Expect, handle_token_sent, ContextType
<1>2. SameUnwritten(Expect(handle_token_received(c, w), p), c)
  BY DEF SameUnwritten, Expect, handle_token_received, ContextType
<1>3. SameUnwritten(Expect(handle_amount_sent(c, w), p), c)
  BY DEF SameUnwritten, Expect, handle_amount_sent, ContextType
<1>4. SameUnwritten(Expect(handle_min_amount_received(c, w), p), c)
  BY DEF SameUnwritten, Expect, handle_min_amount_received, ContextType
<1>5. SameUnwritten(Expect(handle_beneficiary(c, w), p), c)
  BY DEF SameUnwritten, Expect, handle_beneficiary, ContextType
<1>6. SameUnwritten(Expect(Skip(handle_token_received(c, w), 1), p), c)
  BY DEF SameUnwritten, Expect, Skip, handle_token_received, ContextType
<1>7. SameUnwritten(Expect(Skip(handle_beneficiary(c, w), 1), p), c)
  BY DEF SameUnwritten, Expect, Skip, handle_beneficiary, ContextType
<1> QED BY <1>1, <1>2, <1>3, <1>4, <1>5, <1>6, <1>7

(* The router's counter is the only one.                                   *)
LEMMA RouteLeaves ==
  ASSUME NEW c \in ContextType, NEW w,
         c.selectorIndex = "CURVE_ROUTER_EXCHANGE_MULTIPLE"
  PROVE  SameUnwritten(handle_route(c, w), c)
<1> DEFINE n == Uint8(c.counter + 1)
<1>1. CASE w.addr = NULL
  BY <1>1 DEF SameUnwritten, handle_route, Expect, Skip, ContextType
<1>2. CASE w.addr # NULL
  BY <1>2 DEF SameUnwritten, handle_route, Expect, handle_token_received,
              ContextType
<1> QED BY <1>1, <1>2

(* A copy runs away with this word. *)
RunsAway ==
  /\ ctx.selectorIndex = "UNISWAP_ROUTER_EXACT_INPUT"
  /\ ctx.next_param = "TOKEN_RECEIVED_REST" /\ Runaway(ctx.offset)

(* Any other word, of any transaction.                                     *)
LEMMA HandlersLeave ==
  ASSUME ctx \in ContextType, handle_provide_parameter, ~RunsAway
  PROVE  SameUnwritten(ctx', ctx)
<1>0. SameUnwritten(ctx, ctx)
  BY DEF SameUnwritten
<1>1. CASE skip_parameter
  BY <1>1 DEF skip_parameter, SameUnwritten, ContextType
<1>2. CASE handle_zapper_deposit_eth
  BY <1>0, <1>2 DEF handle_zapper_deposit_eth, Otherwise
<1>3. CASE handle_amount_and_min
  BY <1>0, <1>3, HelpersLeave DEF handle_amount_and_min, On, Otherwise
<1>4. CASE handle_vault_mint
  BY <1>0, <1>4, HelpersLeave DEF handle_vault_mint, On, Otherwise
<1>5. CASE handle_curve_pool_exchange
  BY <1>0, <1>5, HelpersLeave DEF handle_curve_pool_exchange, On, Otherwise
<1>6. CASE handle_curve_router_exchange
  BY <1>0, <1>6, HelpersLeave, RouteLeaves
     DEF handle_curve_router_exchange, Handler, On, Otherwise
<1>7. CASE handle_uniswap_exchange
  <2>1. \A p, a, n :
          /\ SameUnwritten(Expect([ctx EXCEPT !.offset = n], p), ctx)
          /\ SameUnwritten(Expect([ctx EXCEPT !.contract_address_sent = a,
                                              !.skip = n], p), ctx)
          /\ SameUnwritten(Expect([ctx EXCEPT !.contract_address_received = a], p), ctx)
    BY DEF SameUnwritten, Expect, ContextType
  <2>2. \/ ctx' = ctx
        \/ ctx' = Expect(Skip(handle_beneficiary(ctx, parameter), 1), "AMOUNT_SENT")
        \/ ctx' = Expect(handle_amount_sent(ctx, parameter), "MIN_AMOUNT_RECEIVED")
        \/ ctx' = Expect(handle_min_amount_received(ctx, parameter), "PATH_LENGTH")
        \/ ctx' = Expect([ctx EXCEPT !.offset = parameter.num], "TOKEN_SENT")
        \/ ctx' = Expect([ctx EXCEPT !.contract_address_sent = path_address(pos + 1, 0),
                                     !.skip = path_skip(ctx.offset)],
                         "TOKEN_RECEIVED")
        \/ ctx' = Expect([ctx EXCEPT !.contract_address_received =
                                       token_received_head(ctx.offset)],
                         "TOKEN_RECEIVED_REST")
        \/ ctx' = Expect([ctx EXCEPT !.contract_address_received =
                                       token_received_rest(ctx.offset)],
                         "NONE")
    BY <1>7 DEF handle_uniswap_exchange, runaway_copy, RunsAway, Handler, On,
                Otherwise
  <2> QED BY <1>0, <2>1, <2>2, HelpersLeave
<1>8. CASE handle_uniswap_exchange_single
  BY <1>0, <1>8, HelpersLeave DEF handle_uniswap_exchange_single, On, Otherwise
<1>9. CASE handle_flipper_exchange
  BY <1>0, <1>9, HelpersLeave DEF handle_flipper_exchange, On, Otherwise
<1>10. CASE handle_wrap
  BY <1>0, <1>10, HelpersLeave DEF handle_wrap, On, Otherwise
<1> QED
  BY <1>1, <1>2, <1>3, <1>4, <1>5, <1>6, <1>7, <1>8, <1>9, <1>10
     DEF handle_provide_parameter

(* A copy runs away from no other place than that of Overrun.              *)
LEMMA RunsAwayThere ==
  ASSUME Typed, FunctionFound, AnyCursor, Provide, RunsAway
  PROVE  Overrun'
<1>1. /\ pos \in Nat /\ tx' = tx /\ pos' = pos + 1
      /\ HeadWord(tx) \in 9..264
  BY TypeProvide, HeadFacts DEF Provide
<1>2. tx.selector = UNISWAP_ROUTER_EXACT_INPUT_SELECTOR
  BY HandlerOfSelector DEF RunsAway
<1>3. CursorPath(HeadWord(tx), PathNumber(tx))
  BY <1>2 DEF AnyCursor
<1>4. pos = HeadWord(tx) /\ ctx.offset = PathNumber(tx)
  BY <1>1, <1>3 DEF RunsAway, CursorPath, Expecting, PathLengthWord
<1>5. /\ HeadWord(tx)' = HeadWord(tx) /\ PathNumber(tx)' = PathNumber(tx)
      /\ tx'.selector = tx.selector
  BY <1>1
<1> QED BY <1>1, <1>2, <1>4, <1>5 DEF Overrun, RunsAway, PathWord

(* Of a supported transaction no word is taken for such a rest.            *)
LEMMA NeverOverrun ==
  ASSUME Typed, Supported(tx)
  PROVE  ~Overrun
<1> SUFFICES ASSUME tx.selector = UNISWAP_ROUTER_EXACT_INPUT_SELECTOR,
                    pos > HeadWord(tx), Runaway(PathNumber(tx))
             PROVE  FALSE
  BY DEF Overrun
<1> DEFINE n == PathBytes(tx)
<1>1. /\ tx.words[7].num = n
      /\ TokenWord(tx) \in 9..264 /\ path_skip(n) = TokenWord(tx) - 9
      /\ TailByte(n) \in 0..31 /\ ~Backwards(n)
      /\ ~Straddles(n) => Len(tx.words) = TokenWord(tx)
  BY PathEnds
<1>2. Len(tx.words) \in Nat /\ pos \in 0..Len(tx.words) /\ pos \in Nat
  BY TransactionParts DEF Typed
<1>3. PathNumber(tx) = n
  <2>1. Len(tx.words) >= 7
    <3> DEFINE k == TokenWord(tx)
    <3>1. Len(tx.words) >= k
      BY PathComplete
    <3>2. k \in 9..264
      BY <1>1
    <3> HIDE DEF k
    <3> QED BY <1>2, <3>1, <3>2
  <2> QED BY <1>1, <2>1 DEF PathNumber, PathLengthWord
<1>4. HeadWord(tx) = TokenWord(tx)
  <2>1. HeadWord(tx) = 8 + 1 + path_skip(n)
    BY <1>3 DEF HeadWord, PathWord
  <2> DEFINE k == TokenWord(tx)
  <2>2. path_skip(n) = k - 9 /\ k \in 9..264
    BY <1>1
  <2> HIDE DEF k, n
  <2>3. HeadWord(tx) = k
    BY <2>1, <2>2
  <2> QED BY <2>3 DEF k
<1>5. ~Straddles(n)
  <2>1. Runaway(n)
    BY <1>3
  <2> QED BY <1>1, <2>1, NoRunaway
<1> HIDE DEF n
<1> QED BY <1>1, <1>2, <1>4, <1>5

(* So they stay as memset left them, until a copy runs away.               *)
LEMMA UnwrittenKept ==
  ASSUME Typed, FunctionFound, AnyCursor, Unwritten, handle_provide_parameter,
         ~Overrun'
  PROVE  Unwritten'
<1>1. ~RunsAway /\ ctx \in ContextType
  BY ProvideOfHandlers, RunsAwayThere DEF Typed
<1> QED BY <1>1, HandlersLeave DEF Unwritten, SameUnwritten

(* handle_init_contract clears them.                                       *)
LEMMA UnwrittenAtFirst ==
  ASSUME NEW t, handle_init_contract(t), result' = "OK"
  PROVE  Unwritten'
BY DEF handle_init_contract, InitialContext, ZeroContext, Unwritten

(* Behind the last argument nothing is left to skip.                       *)
LEMMA LateCursors ==
  ASSUME pos \in Nat
  PROVE  /\ pos >= 8 /\ CursorSingle => ctx.skip = 0
         /\ \A k \in 9..264 : \A n : pos >= k /\ CursorPath(k, n) => ctx.skip = 0
BY DEF CursorSingle, CursorPath, Expecting, PathLengthWord

(* Behind the last word nothing is left to skip or to count.               *)
LEMMA CursorAtRest ==
  ASSUME ParsedSoFar, Unwritten, pos = Len(tx.words), Supported(tx)
  PROVE  ctx.skip = 0 /\ ctx.counter = 0
<1>1. Cursor /\ FunctionFound /\ WellFormed(tx) /\ pos \in Nat
  BY AllWordsRead DEF ParsedSoFar, Supported
<1>2. PICK i \in 1..NUM_SELECTORS : /\ tx.selector = ORIGIN_DEFI_SELECTORS[i]
                                   /\ ctx.selectorIndex = selector_t[i]
  BY <1>1 DEF FunctionFound
<1>3. CASE tx.selector = CURVE_ROUTER_EXCHANGE_MULTIPLE_SELECTOR
  <2> DEFINE m == RouteLength(tx)
  <2>1. pos >= 23 /\ m \in 3..8 /\ CursorRouter(m)
    BY <1>1, <1>3, AbiLengths, RouteEnds DEF Cursor
  <2> HIDE DEF m
  <2> QED BY <1>1, <2>1 DEF CursorRouter, Expecting
<1>4. CASE tx.selector # CURVE_ROUTER_EXCHANGE_MULTIPLE_SELECTOR
  <2>1. ctx.selectorIndex # "CURVE_ROUTER_EXCHANGE_MULTIPLE"
    BY <1>1, <1>4, HandlerOfSelector
  <2>2. ctx.counter = 0
    BY <2>1 DEF Unwritten
  <2>3. \/ tx.selector = ZAPPER_DEPOSIT_ETH_SELECTOR
        \/ tx.selector \in {ZAPPER_DEPOSIT_SFRXETH_SELECTOR, VAULT_REDEEM_SELECTOR}
        \/ tx.selector = VAULT_MINT_SELECTOR
        \/ tx.selector \in PoolSelectors
        \/ tx.selector = UNISWAP_ROUTER_EXACT_INPUT_SELECTOR
        \/ tx.selector = UNISWAP_ROUTER_EXACT_INPUT_SINGLE_SELECTOR
        \/ tx.selector \in FlipperSelectors
        \/ tx.selector \in WrapSelectors
    BY <1>2, <1>4, SelectorOfFunction
  <2>4. CASE tx.selector = ZAPPER_DEPOSIT_ETH_SELECTOR
    BY <1>1, <2>2, <2>4 DEF Cursor, FixedCursor, CursorDeposit, Expecting
  <2>5. CASE tx.selector \in {ZAPPER_DEPOSIT_SFRXETH_SELECTOR, VAULT_REDEEM_SELECTOR}
    BY <1>1, <2>2, <2>5 DEF Cursor, FixedCursor, CursorAmountAndMin, Expecting
  <2>6. CASE tx.selector = VAULT_MINT_SELECTOR
    BY <1>1, <2>2, <2>6 DEF Cursor, FixedCursor, CursorMint, Expecting
  <2>7. CASE tx.selector \in PoolSelectors
    BY <1>1, <2>2, <2>7 DEF Cursor, FixedCursor, CursorPool, Expecting
  <2>8. CASE tx.selector = UNISWAP_ROUTER_EXACT_INPUT_SELECTOR
    <3> DEFINE k == TokenWord(tx)
    <3>1. CursorPath(k, PathBytes(tx)) /\ k \in 9..264 /\ pos >= k
      BY <1>1, <2>8, PathLong, PathComplete DEF Cursor
    <3> HIDE DEF k
    <3> QED BY <1>1, <2>2, <3>1, LateCursors
  <2>9. CASE tx.selector = UNISWAP_ROUTER_EXACT_INPUT_SINGLE_SELECTOR
    <3>1. CursorSingle /\ pos >= 8
      BY <1>1, <2>9, AbiLengths DEF Cursor, FixedCursor
    <3> QED BY <1>1, <2>2, <3>1, LateCursors
  <2>10. CASE tx.selector \in FlipperSelectors
    BY <1>1, <2>2, <2>10 DEF Cursor, FixedCursor, CursorFlipper, Expecting
  <2>11. CASE tx.selector \in WrapSelectors
    BY <1>1, <2>2, <2>11 DEF Cursor, FixedCursor, CursorWrap, Expecting
  <2> QED BY <2>2, <2>3, <2>4, <2>5, <2>6, <2>7, <2>8, <2>9, <2>10, <2>11
<1> QED BY <1>3, <1>4

---------------------------------------------------------------------------
(* Refusals. *)

(* A deployed function is in the table.                                    *)
LEMMA DeployedFound ==
  ASSUME NEW t, Supported(t)
  PROVE  find_selector(t.selector) # 0
<1>1. \E i \in 1..NUM_SELECTORS : ORIGIN_DEFI_SELECTORS[i] = t.selector
  <2>1. << t.to, t.selector >> \in Deployed
    BY DEF Supported
  <2>2. \/ t.selector \in ZapperSelectors \cup VaultSelectors
                          \cup FlipperSelectors \cup WrapSelectors
        \/ t.selector \in PoolSelectors
        \/ t.selector = CURVE_ROUTER_EXCHANGE_MULTIPLE_SELECTOR
        \/ t.selector = UNISWAP_ROUTER_EXACT_INPUT_SELECTOR
        \/ t.selector = UNISWAP_ROUTER_EXACT_INPUT_SINGLE_SELECTOR
    BY <2>1 DEF Deployed, PoolSelectors
  <2>3. \E i \in 1..17 : ORIGIN_DEFI_SELECTORS[i] = t.selector
    BY <2>2 DEF ZapperSelectors, VaultSelectors, FlipperSelectors,
               WrapSelectors, PoolSelectors, ORIGIN_DEFI_SELECTORS
  <2> QED BY <2>3 DEF NUM_SELECTORS
<1>2. find_selector(t.selector) \in 1..NUM_SELECTORS
  BY <1>1, FoundSelector
<1> QED BY <1>2 DEF NUM_SELECTORS

(* Nothing but the interface version and the context size stands in the    *)
(* way of a supported transaction.                                         *)
LEMMA RefusedAtOnce ==
  ASSUME NEW t, handle_init_contract(t), Supported(t),
         result' # "OK"
  PROVE  pos' = 0 /\ UNCHANGED ctx
<1> DEFINE i == find_selector(t.selector)
           f == selector_t[i]
<1>1. i # 0
  BY DeployedFound
<1>2. i \in 1..NUM_SELECTORS /\ t.selector = ORIGIN_DEFI_SELECTORS[i]
  BY <1>1, FindSelector
<1>3. destination_supported(f, t.to)
  <2>1. f \in CurvePoolFunctions => t.selector \in PoolSelectors
    <3> HIDE DEF i
    <3> QED BY <1>2, SelectorOfFunction DEF CurvePoolFunctions, FlipperBuys,
               FlipperSells, WrapFunctions
  <2> QED BY <2>1, PoolCalled DEF destination_supported
<1> QED BY <1>1, <1>3 DEF handle_init_contract

(* No word of a supported transaction is refused: the host learns of a     *)
(* refusal before the first word, or never.                                *)
THEOREM RefusedEarly == Spec => NeverRefusedLater
<1>1. ASSUME IInv, [Next]_vars,
             stage' = "parsing", result' # "OK", Supported(tx)'
      PROVE  (pos' = 0 /\ UNCHANGED ctx) \/ UNCHANGED vars
  <2>1. CASE \E t \in Transactions : handle_init_contract(t)
    <3>1. PICK t \in Transactions : handle_init_contract(t)
      BY <2>1
    <3>2. Supported(t)
      BY <1>1, <3>1 DEF handle_init_contract
    <3> QED BY <1>1, <3>1, <3>2, RefusedAtOnce
  <2>2. CASE handle_provide_parameter
    <3>1. Supported(tx) /\ Typed /\ ParsedSoFar
      BY <1>1, <2>2, ProvideOfHandlers, TypedTypeOK DEF IInv, Accepted, Provide
    <3> QED BY <1>1, <2>2, <3>1, ParsedStep
  <2>3. CASE end_transaction
    BY <1>1, <2>3 DEF end_transaction
  <2> QED BY <1>1, <2>1, <2>2, <2>3 DEF Next
<1>2. IInv /\ [Next]_vars =>
        [stage' = "parsing" /\ result' # "OK" /\ Supported(tx')
           => pos' = 0 /\ UNCHANGED ctx]_vars
  BY <1>1
<1> QED BY <1>2, Parsed, PTL DEF Spec, NeverRefusedLater

===============================================================================
