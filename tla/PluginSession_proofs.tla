-------------------------- MODULE PluginSession_proofs --------------------------
(***************************************************************************)
(* Theorems about PluginSession, for every set of transactions (any        *)
(* selector, any words), every token list and every choice of amounts that *)
(* are too long to print.                                                  *)
(***************************************************************************)
EXTENDS PluginSession_instances, FiniteSetTheorems, SequenceTheorems

---------------------------------------------------------------------------
(* What the components guarantee, in the session's terms. *)

(* What each component assumes of its constants holds of those it has in a *)
(* session, so its lemmas hold there.                                      *)
LEMMA ParserAssumptions ==
  /\ {P!NULL, P!GARBLED, P!OETH_VAULT, P!CURVE_OETH_POOL, P!CURVE_OUSD_POOL,
      P!WOETH} \cup P!KnownTokens \subseteq Address
  /\ P!SourceTickers \subseteq Ticker
  /\ \A t \in Whole : P!WellFormed(t)
  /\ Garbage \subseteq P!ContextType
BY SameNames, SameReferences, SameTypes, SessionGarbageAssumption DEF Whole

(* What the screens assume of their constants holds of the session's.      *)
LEMMA ReviewAssumptions ==
  /\ {S!NULL, S!GARBLED, S!OETH_VAULT, S!CURVE_OETH_POOL, S!CURVE_OUSD_POOL,
      S!WOETH} \cup S!KnownTokens \subseteq Address
  /\ S!SourceTickers \subseteq Ticker
  /\ network_ticker \in Ticker
  /\ TokenInfo \subseteq S!Item
  /\ \A t \in {t \in Whole : << t.to, t.selector >> \in Deployed} :
       S!WellFormed(t) /\ << t.to, t.selector >> \in S!Deployed
BY SameNames, SameReferences, SameTypes, NetworkTickerAssumption,
   SessionTokenInfoAssumption DEF Whole

(* What the parser supports can be reviewed.                               *)
LEMMA SupportedReviewable ==
  ASSUME NEW t, Parser!Supported(t)
  PROVE  S!Reviewable(t) /\ WellFormed(t) /\ << t.to, t.selector >> \in Deployed
BY SameReferences DEF Parser!Supported, S!Reviewable

(* No copy runs away for it.                                               *)
LEMMA SupportedInBounds ==
  ASSUME Typed, Parser!Supported(tx)
  PROVE  ~Parser!Overrun
BY SameTyped, SameSupported, SameOverrun, ParserAssumptions, P!NeverOverrun

(* A transaction begins: the fields are of their types, and if it is not   *)
(* refused they are what the parser starts from.                           *)
LEMMA ParserBegins ==
  ASSUME ctx \in ContextType, NEW t \in TransactionType,
         Parser!handle_init_contract(t)
  PROVE  /\ tx' = t /\ stage = "idle" /\ stage' = "parsing"
         /\ Typed'
         /\ result' = "OK" => Parsing'
<1>1. P!handle_init_contract(t)
  BY SameInitContract
<1>2. tx' = t /\ stage = "idle" /\ stage' = "parsing"
  BY <1>1 DEF P!handle_init_contract
<1>3. Typed'
  BY <1>1, ParserAssumptions, P!TypeInitContract, SameTypes, SameTyped
<1>4. result' = "OK" => Parser!Unwritten'
  BY <1>1, ParserAssumptions, P!UnwrittenAtFirst, SameParsing
<1>5. result' = "OK" /\ Parser!Supported(tx') => Parser!ParsedSoFar'
  BY <1>1, <1>2, ParserAssumptions, P!InitStep, SameParsing, SameSupported
<1>6. result' = "OK" => Parser!AnySoFar'
  BY <1>1, ParserAssumptions, P!AnyInitStep, SameAnySoFar
<1> QED BY <1>2, <1>3, <1>4, <1>5, <1>6 DEF Parsing

(* A word is handed over: likewise, and only result, fields and position   *)
(* change.                                                                 *)
LEMMA ParserSteps ==
  ASSUME Typed, result = "OK" => Parsing, Parser!handle_provide_parameter
  PROVE  /\ tx' = tx /\ stage = "parsing" /\ stage' = "parsing" /\ result = "OK"
         /\ Typed'
         /\ result' = "OK" => Parsing'
         /\ Parser!Supported(tx) => result' = "OK"
<1>1. P!handle_provide_parameter /\ P!Typed
  BY SameProvideParameter, SameTyped
<1>2. tx' = tx /\ stage = "parsing" /\ stage' = "parsing" /\ result = "OK"
  BY <1>1, ParserAssumptions, P!ProvideOfHandlers DEF P!Provide
<1>3. Typed'
  BY <1>1, ParserAssumptions, P!TypeHandlers, SameTyped
<1>4. ~Parser!Overrun' => Parser!Unwritten'
  <2> SUFFICES ASSUME ~P!Overrun'
               PROVE  P!Unwritten'
    BY SameOverrun, SameParsing
  <2>1. ~P!Overrun
    BY <1>1, ParserAssumptions, P!ProvideOfHandlers, P!OverrunStays
  <2>2. P!Unwritten /\ P!FunctionFound /\ P!AnyCursor
    BY <1>2, <2>1, SameOverrun, SameParsing, SameAnySoFar
       DEF Parsing, P!AnySoFar
  <2> QED BY <1>1, <2>2, ParserAssumptions, P!UnwrittenKept
<1>5. Parser!Supported(tx) => Parser!ParsedSoFar' /\ result' = "OK"
  <2>1. Parser!Supported(tx) => P!Supported(tx) /\ P!ParsedSoFar
    BY <1>2, SameSupported, SameParsing DEF Parsing
  <2> QED BY <1>1, <2>1, ParserAssumptions, P!ParsedStep, SameParsing
<1>6. result' = "OK" => Parser!AnySoFar'
  <2>1. P!AnySoFar
    BY <1>2, SameAnySoFar DEF Parsing
  <2> QED BY <1>1, <2>1, ParserAssumptions, P!AnyStep, SameAnySoFar
<1> QED BY <1>2, <1>3, <1>4, <1>5, <1>6 DEF Parsing

(* A message of the review keeps the types of all it touches.              *)
LEMMA ReviewKeepsTypes ==
  ASSUME ReviewTyped,
         \/ Screens!handle_finalize
         \/ \E item1, item2 : Screens!handle_provide_token(item1, item2)
         \/ Screens!handle_query_contract_id
         \/ \E i \in 0..(Screens!MaxScreens - 1) : Screens!handle_query_contract_ui(i)
  PROVE  ReviewTyped'
<1>1. S!Typed
  BY SameReviewTyped
<1>2. CASE Screens!handle_finalize
  BY <1>1, <1>2, ReviewAssumptions, S!TypeFinalize, SameMessages, SameReviewTyped
<1>3. CASE \E item1, item2 : Screens!handle_provide_token(item1, item2)
  BY <1>1, <1>3, ReviewAssumptions, S!TypeProvideToken, SameMessages, SameReviewTyped
<1>4. CASE Screens!handle_query_contract_id
  BY <1>1, <1>4, ReviewAssumptions, S!TypeQueryId, SameMessages, SameReviewTyped
<1>5. CASE \E i \in 0..(Screens!MaxScreens - 1) : Screens!handle_query_contract_ui(i)
  BY <1>1, <1>5, ReviewAssumptions, S!TypeQueryUi, SameQuery, SameReviewTyped, SameDisplays
<1> QED BY <1>2, <1>3, <1>4, <1>5

(* And what the context holds for a transaction the parser supports.       *)
LEMMA ReviewKeepsOn ==
  ASSUME ReviewTyped, Parser!Supported(tx), Screens!InReview,
         \/ Screens!handle_finalize
         \/ \E item1, item2 : Screens!handle_provide_token(item1, item2)
         \/ Screens!handle_query_contract_id
         \/ \E i \in Int : Screens!handle_query_contract_ui(i)
  PROVE  Screens!InReview'
<1>1. S!Typed /\ S!Reviewable(tx) /\ S!InReview
  BY SameReviewTyped, SameInReview, SupportedReviewable
<1>2. CASE Screens!handle_finalize
  BY <1>1, <1>2, ReviewAssumptions, S!StepFinalize, SameMessages, SameInReview
<1>3. CASE \E item1, item2 : Screens!handle_provide_token(item1, item2)
  BY <1>1, <1>3, ReviewAssumptions, S!StepProvideToken, SameMessages, SameInReview
<1>4. CASE Screens!handle_query_contract_id
  BY <1>1, <1>4, ReviewAssumptions, S!StepQueryId, SameMessages, SameInReview
<1>5. CASE \E i \in Int : Screens!handle_query_contract_ui(i)
  BY <1>1, <1>5, ReviewAssumptions, S!StepQueryUi, SameQuery, SameInReview
<1> QED BY <1>2, <1>3, <1>4, <1>5

(* The amounts of any transaction stay in place.                           *)
LEMMA ReviewKeepsAmounts ==
  ASSUME ReviewTyped, Parser!FunctionFound, Parser!AmountsInPlace,
         tx' = tx, pos' = pos,
         \/ Screens!handle_finalize
         \/ \E item1, item2 : Screens!handle_provide_token(item1, item2)
         \/ Screens!handle_query_contract_id
         \/ \E i : Screens!handle_query_contract_ui(i)
  PROVE  Parser!FunctionFound' /\ Parser!AmountsInPlace'
<1>1. ctx \in S!ContextType
  BY SameReviewTyped DEF S!Typed
<1>2. CASE \/ Screens!handle_finalize
           \/ \E item1, item2 : Screens!handle_provide_token(item1, item2)
           \/ Screens!handle_query_contract_id
  <2>1. \/ S!handle_finalize
        \/ \E item1, item2 : S!handle_provide_token(item1, item2)
        \/ S!handle_query_contract_id
    BY <1>2, SameMessages
  <2>2. /\ ctx'.selectorIndex = ctx.selectorIndex
        /\ ctx'.beneficiary = ctx.beneficiary
        /\ ctx'.amount_sent = ctx.amount_sent
        /\ ctx'.min_amount_received = ctx.min_amount_received
    BY <1>1, <2>1, ReviewAssumptions, S!AmountsUntouched
  <2> QED BY <2>2, InPlaceStays
<1>3. CASE \E i : Screens!handle_query_contract_ui(i)
  <2>1. PICK i : S!handle_query_contract_ui(i)
    BY <1>3, SameQuery
  <2> QED BY <1>1, <2>1, ReviewAssumptions, S!QueryAmounts, FoundFunction, InPlaceStays
<1> QED BY <1>2, <1>3

(* What is told of the amounts at one place of the display.                *)
ToldRight(d) ==
  /\ d.screen = "SEND_SCREEN" => d.amount = SpentRead
  /\ d.screen = "RECEIVE_SCREEN" => d.amount = AtLeastRead
  /\ d.screen = "BENEFICIARY_SCREEN" =>
       d.address = Parser!ReadWord(RecipientWord(tx.selector)).addr

(* A query tells them as they were handed over, if they are in place.      *)
LEMMA QueryTellsRight ==
  ASSUME ReviewTyped, Parser!FunctionFound, Parser!AmountsInPlace,
         ~(Parser!RouteLost(tx) /\ pos >= Parser!RouteWrap),
         NEW i, Screens!handle_query_contract_ui(i)
  PROVE  \/ shown' = shown
         \/ \E d : ToldRight(d) /\ shown' = [shown EXCEPT ![i] = d]
<1> DEFINE deposit == ctx.selectorIndex = "ZAPPER_DEPOSIT_ETH"
           flipper == ctx.selectorIndex \in S!FlipperBuys \cup S!FlipperSells
<1>1. ctx \in S!ContextType /\ S!handle_query_contract_ui(i)
  BY SameReviewTyped, SameQuery DEF S!Typed
<1>2. \/ shown' = shown
      \/ \E d :
           /\ shown' = [shown EXCEPT ![i] = d]
           /\ d.screen = "SEND_SCREEN" =>
                d.amount = IF deposit THEN tx.value ELSE ctx.amount_sent
           /\ d.screen = "RECEIVE_SCREEN" =>
                d.amount = IF deposit THEN tx.value
                           ELSE IF flipper THEN ctx.amount_sent
                           ELSE ctx.min_amount_received
           /\ d.screen = "BENEFICIARY_SCREEN" => d.address = ctx.beneficiary
  BY <1>1, ReviewAssumptions, S!QueryAmounts
<1>3. /\ deposit <=> tx.selector = ZAPPER_DEPOSIT_ETH_SELECTOR
      /\ flipper <=> tx.selector \in FlipperSelectors
  BY FoundFunction
<1> HIDE DEF deposit, flipper
<1>4. /\ SpentRead = IF deposit THEN tx.value ELSE ctx.amount_sent
      /\ AtLeastRead = IF deposit THEN tx.value
                       ELSE IF flipper THEN ctx.amount_sent
                       ELSE ctx.min_amount_received
      /\ ctx.beneficiary = Parser!ReadWord(RecipientWord(tx.selector)).addr
  BY <1>3, InPlace DEF SpentRead, AtLeastRead
<1> QED BY <1>2, <1>4 DEF ToldRight

(* After the last word of a supported transaction the context is decoded,  *)
(* in the terms of the review.                                             *)
LEMMA HandsOver ==
  ASSUME Typed, Parsing, Parser!Supported(tx), pos = Len(tx.words)
  PROVE  /\ ctx.selectorIndex = Screens!FunctionOf(tx)
         /\ ctx.amount_sent = Screens!AmountOf(tx)
         /\ ctx.min_amount_received = Screens!MinOf(tx)
         /\ ctx.beneficiary = Screens!RecipientOf(tx)
         /\ ctx.contract_address_sent = Screens!SentOf(tx)
         /\ ctx.contract_address_received = Screens!ReceivedOf(tx)
         /\ ctx.skip = 0 /\ ctx.counter = 0
<1>1. P!ParsedSoFar /\ P!Unwritten /\ P!Supported(tx)
  BY SameParsing, SameSupported, SupportedInBounds DEF Parsing
<1>2. ctx.selectorIndex = Screens!FunctionOf(tx)
  <2>1. PICK i \in 1..17 : /\ tx.selector = P!ORIGIN_DEFI_SELECTORS[i]
                           /\ ctx.selectorIndex = P!selector_t[i]
    BY <1>1 DEF P!ParsedSoFar, P!FunctionFound, P!NUM_SELECTORS
  <2> QED BY <2>1, SameFunction
<1>3. ctx.skip = 0 /\ ctx.counter = 0
  BY <1>1, ParserAssumptions, P!CursorAtRest
<1>4. /\ ctx.amount_sent = P!AmountOf(tx)
      /\ ctx.min_amount_received = P!MinOf(tx)
      /\ ctx.beneficiary = P!RecipientOf(tx)
      /\ ctx.contract_address_sent = P!SentOf(tx)
      /\ ctx.contract_address_received = P!ReceivedOf(tx)
  BY <1>1, ParserAssumptions, P!ArgumentsRead
<1> QED BY <1>2, <1>3, <1>4, SameArguments

(* Which is what the review relies on.                                     *)
LEMMA ReviewStarts ==
  ASSUME Typed, Parsing, Parser!Supported(tx), pos = Len(tx.words),
         stage = "parsing", result = "OK", NothingYet
  PROVE  Screens!InReview
<1>1. Screens!DecodedFields /\ Screens!AmountsKept
  BY HandsOver DEF Screens!DecodedFields, Screens!AmountsKept
<1>2. Screens!NothingLookedUp
  BY SupportedInBounds
     DEF Screens!NothingLookedUp, NothingYet, Parsing, Parser!Unwritten
<1> QED BY <1>1, <1>2 DEF Screens!InReview

(* Contexts are equal field by field.                                      *)
LEMMA ContextFields ==
  ASSUME NEW c \in ContextType
  PROVE  c = [amount_sent |-> c.amount_sent,
              min_amount_received |-> c.min_amount_received,
              contract_address_sent |-> c.contract_address_sent,
              contract_address_received |-> c.contract_address_received,
              beneficiary |-> c.beneficiary,
              ticker_sent |-> c.ticker_sent, ticker_received |-> c.ticker_received,
              tokens_found |-> c.tokens_found,
              decimals_sent |-> c.decimals_sent,
              decimals_received |-> c.decimals_received,
              skip |-> c.skip, amount_length |-> c.amount_length,
              next_param |-> c.next_param,
              counter |-> c.counter, offset |-> c.offset,
              selectorIndex |-> c.selectorIndex]
BY DEF ContextType

(* And the whole context, but for what a path leaves in the cursor.        *)
LEMMA HandedOverWhole ==
  ASSUME Typed, Parsing, Parser!Supported(tx), pos = Len(tx.words)
  PROVE  [ctx EXCEPT !.offset = 0, !.next_param = "NONE"]
           = Screens!ParsedContext(tx)
<1> DEFINE c == [ctx EXCEPT !.offset = 0, !.next_param = "NONE"]
           d == Screens!ParsedContext(tx)
<1>1. c \in ContextType
  <2>1. 0 \in uint16_t /\ "NONE" \in Parameter
    BY DEF uint16_t, Parameter
  <2> QED BY <2>1 DEF Typed, ContextType
<1>2. d \in ContextType
  BY SupportedReviewable, SameParsedContext, SameTypes, ReviewAssumptions, S!ParsedTypes
<1>3. /\ c.amount_sent = d.amount_sent
      /\ c.min_amount_received = d.min_amount_received
      /\ c.contract_address_sent = d.contract_address_sent
      /\ c.contract_address_received = d.contract_address_received
      /\ c.beneficiary = d.beneficiary
      /\ c.skip = d.skip /\ c.next_param = d.next_param
      /\ c.counter = d.counter /\ c.offset = d.offset
      /\ c.selectorIndex = d.selectorIndex
  BY HandsOver DEF Typed, ContextType, Screens!ParsedContext, Screens!ZeroContext
<1>4. /\ c.ticker_sent = d.ticker_sent /\ c.ticker_received = d.ticker_received
      /\ c.tokens_found = d.tokens_found /\ c.decimals_sent = d.decimals_sent
      /\ c.decimals_received = d.decimals_received
      /\ c.amount_length = d.amount_length
  BY SupportedInBounds
     DEF Typed, ContextType, Parsing, Parser!Unwritten,
         Screens!ParsedContext, Screens!ZeroContext
<1> HIDE DEF c, d
<1>5. c = d
  BY <1>1, <1>2, <1>3, <1>4, ContextFields
<1> QED BY <1>5 DEF c, d

---------------------------------------------------------------------------
(* The inductive invariant. *)

(* The displays and counts that the session's state is typed with.         *)
LEMMA Bounds ==
  /\ Screens!ID = -1 /\ Screens!MaxScreens = 5 /\ OUTSIDE = -2
  /\ Pages = -2..5 /\ Prompt = screens
  /\ Screens!ReviewStages = {"idle", "parsing", "lookup", "review"}
  /\ NullItem \in Item /\ \A s \in {SENT, RECEIVED} : Screens!NoItems[s] = NullItem
  /\ \A i \in -1..4 : Screens!NothingShown[i] = Screens!Blank
<1>1. NullItem \in Item
  BY SameTypes, SameDisplays, SameNullItem, ReviewAssumptions, S!EmptyTypes
<1>2. /\ Screens!NoItems[SENT] = NullItem /\ Screens!NoItems[RECEIVED] = NullItem
  BY SameNullItem
<1> QED BY <1>1, <1>2
        DEF Screens!ID, Screens!MaxScreens, OUTSIDE, Pages, Prompt,
            Screens!ReviewStages, Screens!NothingShown

(* What the components rely on follows from the session's types.           *)
LEMMA InvariantTyped ==
  ASSUME IInv
  PROVE  Typed /\ ReviewTyped
<1>1. tx \in TransactionType
  BY SessionTransactionsAssumption DEF IInv, TypeOK
<1> QED BY <1>1 DEF IInv, TypeOK, NothingYet, Typed, ReviewTyped

(* The empty display and context of a session that has not begun.          *)
LEMMA EmptyTyped ==
  /\ ZeroContext \in ContextType
  /\ Screens!NoItems \in [{SENT, RECEIVED} -> Item]
  /\ Screens!NothingShown
       \in [Screens!ID..(Screens!MaxScreens - 1) -> Screens!Displays]
BY ReviewAssumptions, S!EmptyTypes, SameTypes, SameDisplays, SameNullItem

(* Nothing shown is seen in order.                                         *)
LEMMA NothingSeen ==
  ASSUME shown = Screens!NothingShown, screens \in 0..Screens!MaxScreens,
         page = OUTSIDE
  PROVE  SeenInOrder
<1>1. \A i \in 0..(screens - 1) : shown[i] = Screens!Blank
  BY Bounds
<1>2. page <= Prompt /\ \A i \in 0..(screens - 1) : ~(i <= page)
  BY Bounds
<1> QED BY <1>1, <1>2, Bounds DEF SeenInOrder

(* The places of a review are among those of the display.                  *)
LEMMA PlacesInRange ==
  ASSUME NEW n \in 0..5
  PROVE  /\ \A i \in 0..(n - 1) : i \in -1..4 /\ ~(i <= -2)
         /\ \A i \in 1..(n - 1) : i \in 0..(n - 1)
OBVIOUS

(* Nor when it is counted but not yet shown.                               *)
LEMMA NothingSeenNext ==
  ASSUME shown' = Screens!NothingShown, screens' \in 0..5, page' = OUTSIDE
  PROVE  SeenInOrder'
<1>1. page' = -2 /\ \A i \in -1..4 : shown'[i] = Screens!Blank
  BY Bounds
<1>2. /\ \A i \in 0..(screens' - 1) : i \in -1..4 /\ ~(i <= -2)
      /\ \A i \in 1..(screens' - 1) : i \in 0..(screens' - 1)
  BY PlacesInRange
<1>3. page' <= screens'
  BY <1>1
<1> QED BY <1>1, <1>2, <1>3 DEF SeenInOrder, Prompt

(* An empty display tells no amount.                                       *)
LEMMA NothingTellsRight ==
  ASSUME stage' = "review" => shown' = Screens!NothingShown
  PROVE  ToldAsHandedOver'
<1>1. \A i \in -1..4 : Screens!NothingShown[i] = Screens!Blank
  BY Bounds
<1>2. Screens!Blank.screen = "BLANK"
  BY DEF Screens!Blank
<1> QED BY <1>1, <1>2, Bounds DEF ToldAsHandedOver

(* What a place of the display is to tell depends on the transaction and   *)
(* on how much of it was read only.                                        *)
LEMMA SameRead ==
  ASSUME tx' = tx, pos' = pos
  PROVE  /\ \A d : ToldRight(d)' <=> ToldRight(d)
         /\ Parser!RouteLost(tx') <=> Parser!RouteLost(tx)
         /\ Parser!Overrun' <=> Parser!Overrun
BY DEF ToldRight, SpentRead, AtLeastRead, Parser!ReadWord, Parser!RouteLost,
       Parser!Overrun, Parser!HeadWord, Parser!PathNumber

(* One place of the display after the other tells the amounts as they were *)
(* handed over.                                                            *)
LEMMA TellsRight ==
  ASSUME ToldAsHandedOver, stage = "review", tx' = tx, pos' = pos,
         shown \in [-1..4 -> Screens!Displays],
         \/ Parser!RouteLost(tx) /\ pos >= Parser!RouteWrap
         \/ Parser!Overrun
         \/ shown' = shown
         \/ \E i, d : ToldRight(d) /\ shown' = [shown EXCEPT ![i] = d]
  PROVE  ToldAsHandedOver'
<1>1. CASE \/ Parser!RouteLost(tx) /\ pos >= Parser!RouteWrap
           \/ Parser!Overrun
  BY <1>1, SameRead DEF ToldAsHandedOver
<1>2. CASE /\ ~(Parser!RouteLost(tx) /\ pos >= Parser!RouteWrap)
           /\ ~Parser!Overrun
  <2>1. \A i \in -1..4 : ToldRight(shown[i])
    BY <1>2, Bounds DEF ToldAsHandedOver, ToldRight
  <2>2. \A i \in -1..4 : ToldRight(shown'[i])
    BY <1>2, <2>1
  <2>3. \A i \in -1..4 : ToldRight(shown[i])'
    BY <2>2, SameRead
  <2> QED BY <2>3, Bounds DEF ToldAsHandedOver, ToldRight
<1> QED BY <1>1, <1>2

(* Nothing has been parsed or shown at first.                              *)
LEMMA InvariantInit ==
  ASSUME Init
  PROVE  IInv
<1>1. TypeOK
  BY EmptyTyped, Bounds, SessionTransactionsAssumption
     DEF Init, TypeOK, TransactionType, Outcomes, Result
<1>2. NothingYet
  BY DEF Init, NothingYet
<1>3. SeenInOrder
  BY Bounds, NothingSeen DEF Init
<1>4. ToldAsHandedOver
  BY DEF Init, ToldAsHandedOver
<1> QED BY <1>1, <1>2, <1>3, <1>4 DEF IInv, Init

(* A session begins: the screens are still empty.                          *)
LEMMA StepInitContract ==
  ASSUME IInv, init_contract
  PROVE  IInv'
<1>1. PICK t \in Transactions : Parser!handle_init_contract(t)
  BY DEF init_contract
<1>2. /\ tx' = t /\ stage = "idle" /\ stage' = "parsing" /\ Typed'
      /\ result' = "OK" => Parsing'
  BY <1>1, ParserBegins, InvariantTyped, SessionTransactionsAssumption DEF Typed
<1>3. UNCHANGED << screens, lookup, items, shown, page >> /\ outcome' = "none"
  BY DEF init_contract, messages
<1>4. TypeOK'
  BY <1>2, <1>3, Bounds DEF IInv, TypeOK, Typed, Outcomes
<1>5. NothingYet'
  BY <1>2, <1>3 DEF IInv, NothingYet
<1>6. SeenInOrder'
  BY <1>2, <1>3 DEF IInv, SeenInOrder, Prompt
<1>7. ToldAsHandedOver'
  BY <1>2, NothingTellsRight
<1> QED BY <1>2, <1>4, <1>5, <1>6, <1>7 DEF IInv

(* A word is handed over.                                                  *)
LEMMA StepProvideParameter ==
  ASSUME IInv, provide_parameter
  PROVE  IInv'
<1>1. /\ tx' = tx /\ stage = "parsing" /\ stage' = "parsing" /\ result = "OK"
      /\ Typed'
      /\ result' = "OK" => Parsing'
  <2>1. stage = "parsing"
    BY SameProvideParameter, P!ProvideOfHandlers, ParserAssumptions
       DEF provide_parameter, P!Provide
  <2> QED BY <2>1, ParserSteps, InvariantTyped DEF provide_parameter, IInv
<1>2. UNCHANGED << screens, lookup, items, shown, page, outcome >>
  BY DEF provide_parameter, messages
<1>3. TypeOK'
  BY <1>1, <1>2, Bounds DEF IInv, TypeOK, Typed
<1>4. NothingYet'
  BY <1>1, <1>2 DEF IInv, NothingYet
<1>5. SeenInOrder'
  BY <1>1, <1>2 DEF IInv, SeenInOrder, Prompt
<1>6. ToldAsHandedOver'
  BY <1>1, NothingTellsRight
<1> QED BY <1>1, <1>3, <1>4, <1>5, <1>6 DEF IInv

(* The last word was read: what the parser left is what the review starts  *)
(* from.                                                                   *)
LEMMA StepFinalize ==
  ASSUME IInv, finalize
  PROVE  IInv'
<1>1. /\ stage = "parsing" /\ result = "OK" /\ pos = Len(tx.words)
      /\ stage' \in {"lookup", "review"} /\ result' = "OK"
      /\ UNCHANGED << tx, pos, items, shown, page, outcome >>
  BY DEF finalize, Screens!handle_finalize
<1>2. ReviewTyped'
  BY InvariantTyped, ReviewKeepsTypes DEF finalize
<1>3. TypeOK'
  BY <1>1, <1>2, Bounds DEF IInv, TypeOK, ReviewTyped
<1>4. shown' = Screens!NothingShown /\ page' = OUTSIDE
  BY <1>1 DEF IInv, NothingYet
<1>5. NothingYet'
  BY <1>1, <1>2, <1>4 DEF NothingYet, ReviewTyped
<1>6. SeenInOrder'
  <2>1. screens' \in 0..5
    BY <1>2, Bounds DEF ReviewTyped
  <2> QED BY <1>4, <2>1, NothingSeenNext
<1>7. Parser!Supported(tx') => Screens!InReview'
  <2>1. Parser!Supported(tx) => Screens!InReview
    BY <1>1, InvariantTyped, ReviewStarts DEF IInv
  <2> QED BY <1>1, <2>1, InvariantTyped, ReviewKeepsOn DEF finalize
<1>8. ~Parser!Overrun' => Parser!FunctionFound' /\ Parser!AmountsInPlace'
  <2>1. ~Parser!Overrun => Parser!FunctionFound /\ Parser!AmountsInPlace
    BY <1>1 DEF IInv, Parsing, Parser!AnySoFar
  <2> QED BY <1>1, <2>1, SameRead, InvariantTyped, ReviewKeepsAmounts DEF finalize
<1>9. ToldAsHandedOver'
  BY <1>4, NothingTellsRight
<1> QED BY <1>1, <1>3, <1>5, <1>6, <1>7, <1>8, <1>9 DEF IInv

(* The tokens are looked up: the screens are counted before any is shown.  *)
LEMMA StepProvideInfo ==
  ASSUME IInv, provide_info
  PROVE  IInv'
<1>1. PICK item1, item2 \in TokenInfo \cup {NullItem} :
        Screens!handle_provide_token(item1, item2)
  BY DEF provide_info
<1>2. /\ stage = "lookup" /\ stage' = "review" /\ result' = "OK"
      /\ UNCHANGED << tx, pos, lookup, shown, page, outcome >>
  BY <1>1 DEF provide_info, Screens!handle_provide_token
<1>3. ReviewTyped'
  BY <1>1, InvariantTyped, ReviewKeepsTypes
<1>4. TypeOK'
  BY <1>2, <1>3, Bounds DEF IInv, TypeOK, ReviewTyped
<1>5. shown' = Screens!NothingShown /\ page' = OUTSIDE
  BY <1>2 DEF IInv, NothingYet
<1>6. NothingYet'
  BY <1>2 DEF NothingYet
<1>7. SeenInOrder'
  <2>1. screens' \in 0..5
    BY <1>3, Bounds DEF ReviewTyped
  <2> QED BY <1>5, <2>1, NothingSeenNext
<1>8. Parser!Supported(tx') => Screens!InReview'
  BY <1>1, <1>2, InvariantTyped, ReviewKeepsOn DEF IInv
<1>9. ~Parser!Overrun' => Parser!FunctionFound' /\ Parser!AmountsInPlace'
  BY <1>1, <1>2, SameRead, InvariantTyped, ReviewKeepsAmounts DEF IInv
<1>10. ToldAsHandedOver'
  BY <1>5, NothingTellsRight
<1> QED BY <1>2, <1>4, <1>6, <1>7, <1>8, <1>9, <1>10 DEF IInv

(* The user turns a page: the next one, or one seen before.                *)
LEMMA StepTurn ==
  ASSUME IInv, page_forward \/ page_back
  PROVE  IInv'
<1>1. PICK p \in Int : /\ turn_to(p)
                       /\ p <= page + 1
                       /\ p = page - 1 => page > Screens!ID
  <2>1. page \in Int
    BY Bounds DEF IInv, TypeOK
  <2> QED BY <2>1 DEF page_forward, page_back
<1>2. /\ stage = "review" /\ stage' = "review" /\ result = "OK" /\ page' = p
      /\ UNCHANGED << tx, pos, screens, lookup, items, outcome >>
  BY <1>1 DEF turn_to, query_contract_id, query_contract_ui, shared, messages,
              Screens!handle_query_contract_id, Screens!handle_query_contract_ui
<1>3. /\ screens \in 0..5 /\ page \in -2..5 /\ page <= screens /\ p \in -1..screens
      /\ shown \in [-1..4 -> Screens!Displays]
  <2>1. /\ screens \in 0..5 /\ page \in -2..5 /\ page <= screens
        /\ shown \in [-1..4 -> Screens!Displays]
    BY <1>2, Bounds DEF IInv, TypeOK, SeenInOrder
  <2>2. p = -1 \/ p \in 0..(screens - 1) \/ p = screens
    BY <1>1, Bounds DEF turn_to
  <2> QED BY <2>1, <2>2
<1>4. /\ ReviewTyped'
      /\ Parser!Supported(tx') => Screens!InReview'
      /\ \/ result' = "ERROR" /\ shown' = shown
         \/ result' = "OK" /\ shown' = shown /\ p = Prompt
         \/ /\ result' = "OK" /\ p \in -1..(screens - 1)
            /\ \E d : d # Screens!Blank /\ shown' = [shown EXCEPT ![p] = d]
  <2>1. CASE p = Screens!ID /\ query_contract_id
    <3>1. /\ result' = "OK"
          /\ \E d : d # Screens!Blank /\ shown' = [shown EXCEPT ![p] = d]
      <4>1. \A v : [screen |-> "CONTRACT_ID", version |-> v] # Screens!Blank
        BY DEF Screens!Blank
      <4> QED BY <2>1, <4>1
              DEF query_contract_id, Screens!handle_query_contract_id
    <3>2. ReviewTyped'
      BY <2>1, InvariantTyped, ReviewKeepsTypes DEF query_contract_id
    <3>3. Parser!Supported(tx') => Screens!InReview'
      BY <1>2, <2>1, InvariantTyped, ReviewKeepsOn DEF query_contract_id, IInv
    <3>4. p \in -1..(screens - 1)
      BY <1>3, <2>1, Bounds
    <3> QED BY <3>1, <3>2, <3>3, <3>4
  <2>2. CASE p \in 0..(screens - 1) /\ query_contract_ui(p)
    <3>1. \/ result' = "ERROR" /\ shown' = shown
          \/ /\ result' = "OK"
             /\ \E d : d # Screens!Blank /\ shown' = [shown EXCEPT ![p] = d]
      BY <2>2, SameQuery, SameDisplays, ReviewAssumptions, S!QueryDisplays
         DEF query_contract_ui
    <3>2. p \in 0..4 /\ p \in Int /\ p \in -1..(screens - 1)
      BY <1>3, <2>2
    <3>3. p \in 0..(Screens!MaxScreens - 1)
      BY <3>2, Bounds
    <3>4. ReviewTyped'
      BY <2>2, <3>3, InvariantTyped, ReviewKeepsTypes DEF query_contract_ui
    <3>5. Parser!Supported(tx') => Screens!InReview'
      BY <1>2, <2>2, <3>2, InvariantTyped, ReviewKeepsOn DEF query_contract_ui, IInv
    <3> QED BY <3>1, <3>2, <3>4, <3>5
  <2>3. CASE p = Prompt /\ UNCHANGED << shared, messages >>
    <3>1. UNCHANGED << tx, stage, pos, ctx, result, screens, lookup, items, shown >>
      BY <2>3 DEF shared, messages
    <3>2. ReviewTyped'
      BY <3>1, InvariantTyped DEF ReviewTyped
    <3>3. Parser!Supported(tx') => Screens!InReview'
      BY <1>2, <3>1, SameInReviewKept DEF IInv
    <3> QED BY <1>2, <2>3, <3>1, <3>2, <3>3
  <2> QED BY <1>1, <2>1, <2>2, <2>3 DEF turn_to
<1>5. TypeOK'
  <2>1. p \in -2..5
    BY <1>3
  <2> QED BY <1>2, <1>4, <2>1, Bounds DEF IInv, TypeOK, ReviewTyped
<1>6. NothingYet'
  BY <1>2 DEF NothingYet
<1>7. SeenInOrder'
  <2>1. /\ \A i \in 1..(screens - 1) :
             shown[i] # Screens!Blank => shown[i - 1] # Screens!Blank
        /\ \A i \in 0..(screens - 1) : i <= page => shown[i] # Screens!Blank
    BY <1>2 DEF IInv, SeenInOrder
  <2>2. CASE result' = "ERROR" /\ shown' = shown
    BY <1>2, <2>1, <2>2 DEF SeenInOrder
  <2>3. CASE shown' = shown /\ p = Prompt
    BY <1>1, <1>2, <1>3, <2>1, <2>3 DEF SeenInOrder, Prompt
  <2>4. CASE /\ p \in -1..(screens - 1)
             /\ \E d : d # Screens!Blank /\ shown' = [shown EXCEPT ![p] = d]
    <3>1. PICK d : d # Screens!Blank /\ shown' = [shown EXCEPT ![p] = d]
      BY <2>4
    <3>2. /\ shown'[p] # Screens!Blank
          /\ \A i \in -1..4 : i # p => shown'[i] = shown[i]
      BY <1>3, <2>4, <3>1
    <3>3. \A i \in 0..(screens - 1) : i <= p => shown'[i] # Screens!Blank
      BY <1>1, <1>3, <2>1, <2>4, <3>2
    <3>4. \A i \in 1..(screens - 1) :
            shown'[i] # Screens!Blank => shown'[i - 1] # Screens!Blank
      BY <1>1, <1>3, <2>1, <2>4, <3>2
    <3> QED BY <1>2, <1>3, <2>4, <3>3, <3>4 DEF SeenInOrder, Prompt
  <2> QED BY <1>4, <2>2, <2>3, <2>4
<1>8. Parser!Overrun => ToldAsHandedOver'
  BY <1>2, SameRead DEF ToldAsHandedOver
<1>9. ~Parser!Overrun =>
        Parser!FunctionFound' /\ Parser!AmountsInPlace' /\ ToldAsHandedOver'
  <2> SUFFICES ASSUME ~Parser!Overrun
               PROVE  /\ Parser!FunctionFound' /\ Parser!AmountsInPlace'
                      /\ ToldAsHandedOver'
    OBVIOUS
  <2>1. /\ Parser!FunctionFound /\ Parser!AmountsInPlace /\ ToldAsHandedOver
        /\ ReviewTyped
    BY <1>2, InvariantTyped DEF IInv
  <2>2. CASE query_contract_id
    <3>1. \E d : ToldRight(d) /\ shown' = [shown EXCEPT ![-1] = d]
      <4>1. \A v : ToldRight([screen |-> "CONTRACT_ID", version |-> v])
        BY DEF ToldRight
      <4> QED BY <2>2, <4>1, Bounds
              DEF query_contract_id, Screens!handle_query_contract_id
    <3> QED BY <1>2, <1>3, <2>1, <2>2, <3>1, ReviewKeepsAmounts, TellsRight
            DEF query_contract_id
  <2>3. CASE query_contract_ui(p)
    <3>1. \/ Parser!RouteLost(tx) /\ pos >= Parser!RouteWrap
          \/ shown' = shown
          \/ \E d : ToldRight(d) /\ shown' = [shown EXCEPT ![p] = d]
      BY <2>1, <2>3, QueryTellsRight DEF query_contract_ui
    <3>2. Parser!FunctionFound' /\ Parser!AmountsInPlace'
      BY <1>2, <2>1, <2>3, ReviewKeepsAmounts DEF query_contract_ui
    <3>3. ToldAsHandedOver'
      BY <1>2, <1>3, <2>1, <3>1, TellsRight
    <3> QED BY <3>2, <3>3
  <2>4. CASE UNCHANGED << shared, messages >>
    <3>1. UNCHANGED << tx, pos, ctx, shown >>
      BY <2>4 DEF shared, messages
    <3> QED BY <1>2, <1>3, <2>1, <3>1, SameAnyKept, TellsRight
  <2> QED BY <1>1, <2>2, <2>3, <2>4 DEF turn_to
<1> QED BY <1>2, <1>4, <1>5, <1>6, <1>7, <1>8, <1>9, SameRead DEF IInv

(* A session ends, one way or another: nothing of it stays on display.     *)
LEMMA StepEnd ==
  ASSUME IInv, decide \/ refuse \/ drop
  PROVE  IInv'
<1>1. /\ stage' = "idle" /\ page' = OUTSIDE /\ outcome' \in Outcomes
      /\ screens' = 0 /\ lookup' = {}
      /\ items' = Screens!NoItems /\ shown' = Screens!NothingShown
      /\ UNCHANGED << tx, pos, ctx, result >>
  BY DEF decide, refuse, drop, end, Outcomes
<1>2. TypeOK'
  BY <1>1, EmptyTyped, Bounds DEF IInv, TypeOK
<1>3. NothingYet'
  BY <1>1 DEF NothingYet
<1>4. SeenInOrder'
  BY <1>1, Bounds DEF SeenInOrder
<1>5. ToldAsHandedOver'
  BY <1>1, NothingTellsRight
<1> QED BY <1>1, <1>2, <1>3, <1>4, <1>5 DEF IInv

(* Between two messages nothing changes.                                   *)
LEMMA StepNone ==
  ASSUME IInv, UNCHANGED vars
  PROVE  IInv'
<1>1. UNCHANGED << tx, stage, pos, ctx, result, screens, lookup, items, shown,
                   page, outcome >>
  BY DEF vars, shared, messages
<1>2. TypeOK' /\ NothingYet' /\ SeenInOrder'
  BY <1>1 DEF IInv, TypeOK, NothingYet, SeenInOrder, Prompt
<1>3. (stage = "parsing" /\ result = "OK" => Parsing)'
  BY <1>1, SameParsingKept, SameAnyKept DEF IInv, Parsing
<1>4. (stage \in {"lookup", "review"} /\ Parser!Supported(tx) => Screens!InReview)'
  BY <1>1, SameInReviewKept DEF IInv
<1>5. (stage \in {"lookup", "review"} /\ ~Parser!Overrun =>
         Parser!FunctionFound /\ Parser!AmountsInPlace)'
  BY <1>1, SameAnyKept DEF IInv
<1>6. ToldAsHandedOver'
  <2>1. CASE stage = "review"
    <3>1. shown \in [-1..4 -> Screens!Displays]
      BY Bounds DEF IInv, TypeOK
    <3> QED BY <1>1, <2>1, <3>1, TellsRight DEF IInv
  <2>2. CASE stage # "review"
    BY <1>1, <2>2, NothingTellsRight
  <2> QED BY <2>1, <2>2
<1> QED BY <1>2, <1>3, <1>4, <1>5, <1>6 DEF IInv

(* Every message keeps the invariant.                                      *)
LEMMA InvariantStep ==
  ASSUME IInv, [Next]_vars
  PROVE  IInv'
BY StepInitContract, StepProvideParameter, StepFinalize, StepProvideInfo,
   StepTurn, StepEnd, StepNone
   DEF Next

(* From the first session on, for whatever transactions come and wherever  *)
(* they are dropped: each component finds what it relies on, a new session *)
(* nothing of the last, and the pages on display were seen in order.       *)
THEOREM SessionInvariant == Spec => []IInv
<1>1. Init => IInv
  BY InvariantInit
<1>2. IInv /\ [Next]_vars => IInv'
  BY InvariantStep
<1> QED BY <1>1, <1>2, PTL DEF Spec

(* Types, for any session: at most five screens, and no page beyond them.  *)
THEOREM SessionTypes == Spec => []TypeOK
<1>1. IInv => TypeOK
  BY DEF IInv
<1> QED BY <1>1, SessionInvariant, PTL

(* The parser hands over the very context the review is checked to start   *)
(* from, whatever sessions went before in the same memory.                 *)
THEOREM HandsOverAll == Spec => []HandedOver
<1>1. IInv => HandedOver
  BY HandedOverWhole, InvariantTyped DEF IInv, HandedOver
<1> QED BY <1>1, SessionInvariant, PTL

(* For any calldata at all, whole or cut short, an amount or a recipient   *)
(* on a screen is the word the called function has for it, or zero if that *)
(* word was not handed over; unless a route without an end is so long that *)
(* the byte skip comes round, or a word was handed over behind that in     *)
(* which a path's token ends too early for a second copy, so that a copy   *)
(* of negative length was made.                                            *)
THEOREM TellsWhatWasRead == Spec => []ToldAsHandedOver
<1>1. IInv => ToldAsHandedOver
  BY DEF IInv
<1> QED BY <1>1, SessionInvariant, PTL

---------------------------------------------------------------------------
(* Nothing trusted is refused once it was accepted. *)

(* A page of a transaction whose amounts can be printed is not refused.    *)
LEMMA PageAnswered ==
  ASSUME IInv, NEW p \in Int, query_contract_ui(p), tx \in Trusted, Printable(tx)
  PROVE  result' = "OK"
<1>1. stage = "review" /\ Parser!Supported(tx)
  BY DEF query_contract_ui, Screens!handle_query_contract_ui, Trusted
<1>2. /\ S!Typed /\ S!Reviewable(tx) /\ S!InReview
      /\ S!handle_query_contract_ui(p)
      /\ << tx.to, tx.selector >> \in S!Deployed
  BY <1>1, InvariantTyped, SameReviewTyped, SameInReview, SupportedReviewable,
     SameQuery, SameReferences
     DEF IInv, query_contract_ui
<1>3. /\ p + 1 \in 1..Len(S!Expected)
      /\ result' = "OK" \/ S!TooLong(S!ToldAt(p + 1))
  BY <1>2, ReviewAssumptions, S!QueryShows
<1>4. ~S!TooLong(S!ToldAt(p + 1))
  <2>1. ASSUME S!TooLong(S!ToldAt(p + 1))
        PROVE  \E entry \in Unprintable : entry[1] \in {S!Spent(tx), S!AtLeast(tx)}
    BY <1>2, <1>3, <2>1, ReviewAssumptions, S!TooLongAmount
  <2> QED BY <2>1, SameArguments DEF Printable
<1> QED BY <1>3, <1>4

(* Every step of a session that was accepted is answered with OK.          *)
LEMMA StaysStep ==
  ASSUME IInv, [Next]_vars, stage # "idle", result = "OK",
         tx \in Trusted, Printable(tx)
  PROVE  result' = "OK"
<1>1. CASE init_contract
  BY <1>1, ParserBegins, InvariantTyped, SessionTransactionsAssumption
     DEF Typed, init_contract
<1>2. CASE provide_parameter
  <2>1. stage = "parsing"
    BY <1>2, SameProvideParameter, P!ProvideOfHandlers, ParserAssumptions
       DEF provide_parameter, P!Provide
  <2> QED BY <1>2, <2>1, ParserSteps, InvariantTyped
          DEF provide_parameter, IInv, Trusted
<1>3. CASE finalize \/ provide_info
  BY <1>3 DEF finalize, provide_info, Screens!handle_finalize,
              Screens!handle_provide_token
<1>4. CASE page_forward \/ page_back
  <2>1. PICK p \in Int : turn_to(p)
    <3>1. page \in Int
      BY Bounds DEF IInv, TypeOK
    <3> QED BY <1>4, <3>1 DEF page_forward, page_back
  <2>2. CASE query_contract_id
    BY <2>2 DEF query_contract_id, Screens!handle_query_contract_id
  <2>3. CASE query_contract_ui(p)
    BY <2>3, PageAnswered
  <2>4. CASE UNCHANGED << shared, messages >>
    BY <2>4 DEF shared
  <2> QED BY <2>1, <2>2, <2>3, <2>4 DEF turn_to
<1>5. CASE decide \/ refuse \/ drop
  BY <1>5 DEF decide, refuse, drop, end
<1>6. CASE UNCHANGED vars
  BY <1>6 DEF vars, shared
<1> QED BY <1>1, <1>2, <1>3, <1>4, <1>5, <1>6 DEF Next

(* A trusted transaction with printable amounts that was accepted is not   *)
(* refused by any later message: not by a word of it, not by the lookup,   *)
(* and not by a page, seen for the first time or again.                    *)
THEOREM AcceptedIsReviewed == Spec => AcceptedStays
<1>1. IInv /\ [Next]_vars =>
        (stage # "idle" /\ result = "OK" /\ tx \in Trusted /\ Printable(tx)
           => result' = "OK")
  BY StaysStep
<1> QED BY <1>1, SessionInvariant, PTL DEF Spec, AcceptedStays

---------------------------------------------------------------------------
(* InformedReview is implemented, step by step. *)

(* A prefix of at most five places is counted by its length.               *)
LEMMA PrefixCounted ==
  ASSUME NEW n \in 0..5, NEW f, NEW blank,
         \A i \in 1..(n - 1) : f[i] # blank => f[i - 1] # blank
  PROVE  /\ Cardinality({i \in 0..(n - 1) : f[i] # blank}) \in 0..n
         /\ \A i \in 0..(n - 1) :
              f[i] # blank <=> i < Cardinality({j \in 0..(n - 1) : f[j] # blank})
<1> DEFINE Shown(i) == f[i] # blank
<1>1. \E k \in 0..n : \A i \in 0..(n - 1) : Shown(i) <=> i < k
  <2>1. \A i \in 1..(n - 1) : Shown(i) => Shown(i - 1)
    OBVIOUS
  <2> HIDE DEF Shown
  <2>2. /\ 1 <= n - 1 /\ Shown(1) => Shown(0)
        /\ 2 <= n - 1 /\ Shown(2) => Shown(1)
        /\ 3 <= n - 1 /\ Shown(3) => Shown(2)
        /\ 4 <= n - 1 /\ Shown(4) => Shown(3)
    <3>1. /\ 1 - 1 = 0 /\ 2 - 1 = 1 /\ 3 - 1 = 2 /\ 4 - 1 = 3
      OBVIOUS
    <3>2. \A i \in {1, 2, 3, 4} : i <= n - 1 => i \in 1..(n - 1)
      OBVIOUS
    <3> QED BY <2>1, <3>1, <3>2
  <2>3. CASE 0 <= n - 1 => ~Shown(0)
    <3>1. \A i \in 0..(n - 1) : Shown(i) <=> i < 0
      BY <2>2, <2>3
    <3> QED BY <3>1
  <2>4. CASE 0 <= n - 1 /\ Shown(0) /\ (1 <= n - 1 => ~Shown(1))
    <3>1. 1 \in 0..n /\ \A i \in 0..(n - 1) : Shown(i) <=> i < 1
      BY <2>2, <2>4
    <3> QED BY <3>1
  <2>5. CASE 1 <= n - 1 /\ Shown(0) /\ Shown(1) /\ (2 <= n - 1 => ~Shown(2))
    <3>1. 2 \in 0..n /\ \A i \in 0..(n - 1) : Shown(i) <=> i < 2
      BY <2>2, <2>5
    <3> QED BY <3>1
  <2>6. CASE /\ 2 <= n - 1 /\ Shown(0) /\ Shown(1) /\ Shown(2)
             /\ 3 <= n - 1 => ~Shown(3)
    <3>1. 3 \in 0..n /\ \A i \in 0..(n - 1) : Shown(i) <=> i < 3
      BY <2>2, <2>6
    <3> QED BY <3>1
  <2>7. CASE /\ 3 <= n - 1 /\ Shown(0) /\ Shown(1) /\ Shown(2) /\ Shown(3)
             /\ 4 <= n - 1 => ~Shown(4)
    <3>1. 4 \in 0..n /\ \A i \in 0..(n - 1) : Shown(i) <=> i < 4
      BY <2>2, <2>7
    <3> QED BY <3>1
  <2>8. CASE /\ 4 <= n - 1 /\ Shown(0) /\ Shown(1) /\ Shown(2) /\ Shown(3)
             /\ Shown(4)
    <3>1. 5 \in 0..n /\ \A i \in 0..(n - 1) : Shown(i) <=> i < 5
      BY <2>2, <2>8
    <3> QED BY <3>1
  <2> QED BY <2>2, <2>3, <2>4, <2>5, <2>6, <2>7, <2>8
<1>2. PICK k \in 0..n : \A i \in 0..(n - 1) : Shown(i) <=> i < k
  BY <1>1
<1>3. {i \in 0..(n - 1) : Shown(i)} = 0..(k - 1)
  <2> HIDE DEF Shown
  <2> QED BY <1>2
<1>4. Cardinality(0..(k - 1)) = k
  BY <1>2, FS_Interval
<1> QED BY <1>2, <1>3, <1>4

(* One place more is one fact appended.                                    *)
LEMMA Appended ==
  ASSUME NEW n \in Nat, NEW f, NEW g,
         \A i \in 1..n : g[i - 1] = f[i - 1]
  PROVE  /\ Len([i \in 1..n |-> f[i - 1]]) = n
         /\ [i \in 1..(n + 1) |-> g[i - 1]]
              = Append([i \in 1..n |-> f[i - 1]], g[n])
<1> DEFINE s == [i \in 1..n |-> f[i - 1]]
           D == {f[i - 1] : i \in 1..n} \cup {g[n]}
<1>1. s \in Seq(D) /\ Len(s) = n /\ g[n] \in D
  <2>1. s \in [1..n -> D] /\ g[n] \in D
    OBVIOUS
  <2> HIDE DEF s, D
  <2> QED BY <2>1
<1>2. \A i \in 1..(n + 1) :
        g[i - 1] = IF i <= n THEN s[i] ELSE g[n]
  <2>1. \A i \in 1..(n + 1) : IF i <= n THEN i \in 1..n ELSE i - 1 = n
    OBVIOUS
  <2> QED BY <2>1
<1>3. /\ Append(s, g[n]) \in Seq(D) /\ Len(Append(s, g[n])) = n + 1
      /\ \A i \in 1..(n + 1) :
           Append(s, g[n])[i] = IF i <= n THEN s[i] ELSE g[n]
  <2> HIDE DEF s, D
  <2> QED BY <1>1, AppendProperties
<1>4. Append(s, g[n]) = [i \in 1..(n + 1) |-> Append(s, g[n])[i]]
  <2> HIDE DEF s, D
  <2> QED BY <1>3
<1> QED BY <1>1, <1>2, <1>3, <1>4


(* How far the review was told, read off the screens.                      *)
LEMMA ToldInOrder ==
  ASSUME IInv, Reviewing
  PROVE  /\ screens \in 0..5 /\ screens = Len(Screens!Expected)
         /\ Told \in 0..screens
         /\ \A i \in 0..(screens - 1) : shown[i] # Screens!Blank <=> i < Told
         /\ \A i \in 0..(screens - 1) :
              shown[i] # Screens!Blank => shown[i] = Screens!Expected[i + 1]
<1>1. screens \in 0..5
  BY Bounds DEF IInv, TypeOK
<1>2. S!InReview /\ stage = "review"
      /\ tx.selector # ZAPPER_DEPOSIT_SFRXETH_SELECTOR
  BY SameInReview DEF IInv, Reviewing, Trusted
<1>3. screens = Len(Screens!Expected)
  BY <1>2, SameExpected DEF S!InReview
<1>4. /\ Told \in 0..screens
      /\ \A i \in 0..(screens - 1) : shown[i] # Screens!Blank <=> i < Told
  BY <1>1, PrefixCounted DEF IInv, SeenInOrder, Told
<1>5. ASSUME NEW i \in 0..(screens - 1), shown[i] # Screens!Blank
      PROVE  shown[i] = Screens!Expected[i + 1]
  <2>1. i + 1 \in 1..5 /\ (i + 1) - 1 = i
    BY <1>1
  <2>2. \A j \in 1..5 : shown[j - 1] # Screens!Blank => shown[j - 1] = S!ToldAt(j)
    BY <1>2, Bounds, SameDisplays DEF S!InReview, S!ShownSoFar
  <2>3. shown[i] = S!ToldAt(i + 1)
    BY <1>5, <2>1, <2>2
  <2> QED BY <1>2, <2>3, SameExpected
<1> QED BY <1>1, <1>3, <1>4, <1>5

(* A step that shows no further screen and keeps the review, or the        *)
(* reading, going is no step of InformedReview.                            *)
LEMMA NothingTold ==
  ASSUME IInv, UNCHANGED << tx, outcome >>,
         (stage = "idle" <=> stage' = "idle") /\ (stage = "review" <=> stage' = "review"),
         Reviewing => /\ UNCHANGED << items, screens >>
                      /\ \A i \in 0..(screens - 1) : shown'[i] = shown[i]
  PROVE  UNCHANGED Informed!vars
<1>1. Reviewing' <=> Reviewing
  BY DEF Reviewing
<1>2. CASE Reviewing
  <2>1. Screens!Expected' = Screens!Expected
    BY <1>2, SameExpected
  <2>2. Told' = Told
    BY <1>2 DEF Told
  <2>3. [i \in 1..Told |-> shown[i - 1]]' = [i \in 1..Told |-> shown[i - 1]]
    <3>1. \A i \in 1..Told : i - 1 \in 0..(screens - 1)
      BY <1>2, ToldInOrder
    <3>2. \A i \in 1..Told : shown'[i - 1] = shown[i - 1]
      BY <1>2, <3>1
    <3> QED BY <2>2, <3>2
  <2> QED BY <1>1, <1>2, <2>1, <2>3 DEF Informed!vars
<1>3. CASE ~Reviewing
  BY <1>1, <1>3 DEF Informed!vars
<1> QED BY <1>2, <1>3


(* A transaction begins.                                                   *)
LEMMA TellsInitContract ==
  ASSUME IInv, init_contract
  PROVE  \E t \in Transactions : Informed!Begin(t)
<1>1. PICK t \in Transactions : Parser!handle_init_contract(t)
  BY DEF init_contract
<1>2. tx' = t /\ stage = "idle" /\ stage' = "parsing" /\ outcome' = "none"
  BY <1>1, ParserBegins, InvariantTyped, SessionTransactionsAssumption
     DEF Typed, init_contract
<1> QED BY <1>2 DEF Informed!Begin, Reviewing

(* The review is settled on: nothing was told, and what is to be told is   *)
(* one of the reviews the token list may call for.                         *)
LEMMA Settles ==
  ASSUME IInv, finalize \/ provide_info, stage' = "review"
  PROVE  Informed!Settle
<1>1. stage \in {"parsing", "lookup"} /\ UNCHANGED << tx, outcome, shown >>
  BY DEF finalize, provide_info, Screens!handle_finalize,
         Screens!handle_provide_token
<1>2. \E item1, item2 \in TokenInfo \cup {NullItem} :
        items'[SENT] = item1 /\ items'[RECEIVED] = item2
  <2>1. CASE finalize
    <3>1. items' = items /\ items = Screens!NoItems
      BY <2>1 DEF finalize, Screens!handle_finalize, IInv, NothingYet
    <3> QED BY <3>1, SameNullItem
  <2>2. CASE provide_info
    BY <2>2, SameAnswers DEF provide_info
  <2> QED BY <2>1, <2>2
<1>3. Screens!Expected' \in PossibleReviews(tx')
  BY <1>2, SameExpected DEF PossibleReviews
<1>4. Told' = 0
  <2>1. screens' \in 0..5 /\ shown' = Screens!NothingShown
    BY <1>1, StepFinalize, StepProvideInfo, Bounds DEF IInv, TypeOK, NothingYet
  <2>2. \A i \in 0..(screens' - 1) : shown'[i] = Screens!Blank
    BY <2>1, PlacesInRange, Bounds
  <2>3. {i \in 0..(screens' - 1) : shown'[i] # Screens!Blank} = {}
    BY <2>2
  <2> QED BY <2>3, FS_EmptySet DEF Told
<1>5. [i \in 1..Told |-> shown[i - 1]]' = << >>
  BY <1>4
<1> QED BY <1>1, <1>3, <1>5 DEF Informed!Settle, Reviewing


(* A page is turned to: its screen is the next fact, or one told before.   *)
LEMMA Tells ==
  ASSUME IInv, IInv', page_forward \/ page_back
  PROVE  Informed!Tell \/ UNCHANGED Informed!vars
<1>1. PICK p \in Int : turn_to(p) /\ p <= page + 1
  <2>1. page \in Int
    BY Bounds DEF IInv, TypeOK
  <2> QED BY <2>1 DEF page_forward, page_back
<1>2. /\ stage = "review" /\ stage' = "review" /\ result = "OK"
      /\ UNCHANGED << tx, pos, screens, lookup, items, outcome >>
  BY <1>1 DEF turn_to, query_contract_id, query_contract_ui, shared, messages,
              Screens!handle_query_contract_id, Screens!handle_query_contract_ui
<1>3. /\ screens \in 0..5 /\ page \in -2..5
      /\ shown \in [-1..4 -> Screens!Displays]
  BY Bounds DEF IInv, TypeOK
<1>4. CASE Reviewing => \A i \in 0..(screens - 1) : shown'[i] = shown[i]
  <2> QED BY <1>2, <1>4, NothingTold
<1>5. CASE p = Screens!ID /\ query_contract_id
  <2>1. \E d : shown' = [shown EXCEPT ![-1] = d]
    BY <1>5, Bounds DEF query_contract_id, Screens!handle_query_contract_id
  <2>2. \A i \in 0..(screens - 1) : shown'[i] = shown[i]
    BY <1>3, <2>1
  <2> QED BY <1>4, <2>2
<1>6. CASE p = Prompt /\ UNCHANGED << shared, messages >>
  BY <1>4, <1>6 DEF messages
<1>7. CASE Reviewing /\ p \in 0..(screens - 1) /\ query_contract_ui(p)
  <2>1. /\ Told \in 0..screens
        /\ \A i \in 0..(screens - 1) : shown[i] # Screens!Blank <=> i < Told
        /\ \A i \in 0..(screens - 1) :
             shown[i] # Screens!Blank => shown[i] = Screens!Expected[i + 1]
        /\ screens = Len(Screens!Expected)
    BY <1>7, ToldInOrder
  <2>2. Screens!Expected' = Screens!Expected /\ Reviewing'
    BY <1>2, <1>7, SameExpected DEF Reviewing
  <2>3. \/ shown' = shown
        \/ shown' = [shown EXCEPT ![p] = Screens!Expected[p + 1]]
    <3>1. S!Typed /\ S!Reviewable(tx) /\ S!InReview
      BY <1>7, InvariantTyped, SameReviewTyped, SameInReview, SupportedReviewable
         DEF Reviewing, Trusted, IInv
    <3>2. S!handle_query_contract_ui(p)
      BY <1>7, SameQuery DEF query_contract_ui
    <3>3. shown' = shown \/ shown' = [shown EXCEPT ![p] = S!ToldAt(p + 1)]
      BY <3>1, <3>2, ReviewAssumptions, S!QueryShows
    <3>4. S!ToldAt(p + 1) = Screens!Expected[p + 1]
      BY <1>7, SameExpected DEF Reviewing, Trusted
    <3> QED BY <3>3, <3>4
  <2>4. CASE shown' = shown
    BY <1>4, <2>4
  <2>5. CASE shown' # shown
    <3>1. shown' = [shown EXCEPT ![p] = Screens!Expected[p + 1]]
      BY <2>3, <2>5
    <3>2. shown[p] = Screens!Blank
      BY <1>3, <1>7, <2>1, <2>5, <3>1
    <3>3. Told = p
      <4>1. \A i \in 0..(screens - 1) : i <= page => i < Told
        BY <1>2, <2>1 DEF IInv, SeenInOrder
      <4>2. ~(p < Told)
        BY <1>7, <2>1, <3>2
      <4>3. p - 1 \in 0..(screens - 1) \/ p = 0
        BY <1>3, <1>7
      <4> QED BY <1>1, <1>3, <1>7, <2>1, <4>1, <4>2, <4>3
    <3>4. shown'[p] # Screens!Blank
      <4>1. page' = p /\ stage' = "review" /\ result' = "OK"
        <5>1. S!handle_query_contract_ui(p)
          BY <1>7, SameQuery DEF query_contract_ui
        <5>2. result' = "OK"
          BY <2>5, <5>1, ReviewAssumptions, S!QueryDisplays
        <5> QED BY <1>1, <1>2, <5>2 DEF turn_to
      <4>2. \A i \in 0..(screens' - 1) : i <= page' => shown'[i] # Screens!Blank
        BY <4>1 DEF IInv, SeenInOrder
      <4> QED BY <1>2, <1>7, <4>1, <4>2
    <3>5. Told' = p + 1
      <4>1. /\ Told' \in 0..screens
            /\ \A i \in 0..(screens - 1) : shown'[i] # Screens!Blank <=> i < Told'
        <5>1. \A i \in 1..(screens - 1) :
                shown'[i] # Screens!Blank => shown'[i - 1] # Screens!Blank
          BY <1>2 DEF IInv, SeenInOrder
        <5> QED BY <1>2, <1>3, <5>1, PrefixCounted DEF Told
      <4>2. p < Told'
        BY <1>7, <3>4, <4>1
      <4>3. p + 1 \in 0..(screens - 1) => ~(p + 1 < Told')
        <5>1. p + 1 \in 0..(screens - 1) => shown'[p + 1] = shown[p + 1]
          BY <1>3, <3>1
        <5> QED BY <2>1, <3>3, <4>1, <5>1
      <4> QED BY <1>3, <1>7, <4>1, <4>2, <4>3
    <3>6. /\ \A i \in 1..p : shown'[i - 1] = shown[i - 1]
          /\ shown'[p] = Screens!Expected[p + 1]
      BY <1>3, <1>7, <3>1
    <3>7. /\ Len([i \in 1..Told |-> shown[i - 1]]) = p
          /\ [i \in 1..Told' |-> shown'[i - 1]]
               = Append([i \in 1..Told |-> shown[i - 1]], Screens!Expected[p + 1])
      <4>1. p \in Nat
        BY <1>7
      <4> QED BY <3>3, <3>5, <3>6, <4>1, Appended
    <3>8. p < Len(Screens!Expected)
      BY <1>3, <1>7, <2>1
    <3> QED BY <1>2, <1>7, <2>2, <3>7, <3>8 DEF Informed!Tell, Reviewing
  <2> QED BY <2>4, <2>5
<1>8. CASE ~Reviewing
  BY <1>4, <1>8
<1> QED BY <1>1, <1>5, <1>6, <1>7, <1>8 DEF turn_to

(* It is signed: then the last page was seen, so every fact was told.      *)
LEMMA Signs ==
  ASSUME IInv, decide, outcome' = "signed"
  PROVE  Informed!Sign
<1>1. /\ stage = "review" /\ result = "OK" /\ page = screens
      /\ stage' = "idle" /\ tx' = tx
  BY DEF decide, end, Prompt
<1>2. CASE Reviewing
  <2>1. /\ screens \in 0..5 /\ screens = Len(Screens!Expected)
        /\ Told \in 0..screens
        /\ \A i \in 0..(screens - 1) : shown[i] # Screens!Blank <=> i < Told
        /\ \A i \in 0..(screens - 1) :
             shown[i] # Screens!Blank => shown[i] = Screens!Expected[i + 1]
    BY <1>2, ToldInOrder
  <2>2. \A i \in 0..(screens - 1) : i <= page => shown[i] # Screens!Blank
    BY <1>1 DEF IInv, SeenInOrder
  <2>3. \A i \in 0..(screens - 1) : shown[i] = Screens!Expected[i + 1] /\ i < Told
    BY <1>1, <2>1, <2>2
  <2>4. Told = screens
    <3>1. screens - 1 \in 0..(screens - 1) \/ screens = 0
      BY <2>1
    <3> QED BY <2>1, <2>3, <3>1
  <2>5. \A i \in 1..screens : shown[i - 1] = Screens!Expected[i]
    <3>1. \A i \in 1..screens : i - 1 \in 0..(screens - 1) /\ (i - 1) + 1 = i
      BY <2>1
    <3> QED BY <2>3, <3>1
  <2>6. Screens!Expected = [i \in 1..screens |-> Screens!Expected[i]]
    BY <2>1, SameExpected, SameReview, ReviewAssumptions, S!ReviewSequence
  <2>7. [i \in 1..Told |-> shown[i - 1]] = Screens!Expected
    BY <2>4, <2>5, <2>6
  <2> QED BY <1>1, <1>2, <2>7 DEF Informed!Sign, Informed!End, Reviewing
<1>3. CASE ~Reviewing
  BY <1>1, <1>3 DEF Informed!Sign, Informed!End, Reviewing
<1> QED BY <1>2, <1>3

(* It ends without a signature.                                            *)
LEMMA GivesUp ==
  ASSUME decide \/ refuse \/ drop, outcome' # "signed"
  PROVE  Informed!GiveUp
<1>1. /\ stage # "idle" /\ stage' = "idle" /\ tx' = tx
      /\ outcome' \in {"rejected", "refused", "dropped"}
  BY DEF decide, refuse, drop, end
<1> QED BY <1>1 DEF Informed!GiveUp, Informed!End, Reviewing

(* Every step of the session is one of the abstract review, or none.       *)
LEMMA InformedStep ==
  ASSUME IInv, IInv', [Next]_vars
  PROVE  [Informed!Next]_(Informed!vars)
<1>1. CASE init_contract
  BY <1>1, TellsInitContract DEF Informed!Next
<1>2. CASE provide_parameter
  <2>1. tx' = tx /\ stage = "parsing" /\ stage' = "parsing" /\ outcome' = outcome
    <3>1. P!handle_provide_parameter
      BY <1>2, SameProvideParameter DEF provide_parameter
    <3>2. stage = "parsing" /\ stage' = "parsing" /\ tx' = tx
      BY <3>1, ParserAssumptions, P!ProvideOfHandlers DEF P!Provide
    <3> QED BY <1>2, <3>2 DEF provide_parameter
  <2> QED BY <2>1, NothingTold DEF Reviewing
<1>3. CASE finalize \/ provide_info
  <2>1. /\ stage \in {"parsing", "lookup"} /\ stage' \in {"lookup", "review"}
        /\ UNCHANGED << tx, outcome >>
    BY <1>3 DEF finalize, provide_info, Screens!handle_finalize,
                Screens!handle_provide_token
  <2>2. CASE stage' = "review"
    BY <1>3, <2>2, Settles DEF Informed!Next
  <2>3. CASE stage' = "lookup"
    BY <2>1, <2>3, NothingTold DEF Reviewing
  <2> QED BY <2>1, <2>2, <2>3
<1>4. CASE page_forward \/ page_back
  BY <1>4, Tells DEF Informed!Next
<1>5. CASE decide \/ refuse \/ drop
  <2>1. CASE outcome' = "signed"
    <3>1. decide
      BY <1>5, <2>1 DEF refuse, drop, end
    <3> QED BY <2>1, <3>1, Signs DEF Informed!Next
  <2>2. CASE outcome' # "signed"
    BY <1>5, <2>2, GivesUp DEF Informed!Next
  <2> QED BY <2>1, <2>2
<1>6. CASE UNCHANGED vars
  BY <1>6, NothingTold DEF vars, shared, messages
<1> QED BY <1>1, <1>2, <1>3, <1>4, <1>5, <1>6 DEF Next

(* Every step of a session is one of InformedReview or none: for a trusted *)
(* transaction the facts are told one after the other, as ABI and token    *)
(* list prescribe them, and it is not signed before all were told.         *)
THEOREM ImplementsStepByStep == Spec => InformedStepByStep
<1>1. Init => Informed!Init
  BY DEF Init, Informed!Init, Reviewing
<1>2. IInv /\ IInv' /\ [Next]_vars => [Informed!Next]_(Informed!vars)
  BY InformedStep
<1> QED BY <1>1, <1>2, SessionInvariant, PTL DEF Spec, InformedStepByStep

================================================================================
