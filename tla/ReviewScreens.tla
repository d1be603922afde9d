---------------------------- MODULE ReviewScreens ----------------------------
(***************************************************************************)
(* handle_finalize, handle_provide_token, handle_query_contract_id and     *)
(* handle_query_contract_ui: once the calldata is parsed the plugin says   *)
(* how many screens it needs and which tokens to look up, is given what    *)
(* was found, and then fills in one screen per query.  Queries write to    *)
(* the context too (tickers, decimals, amounts and the one amount_length   *)
(* the two amounts share), and the user may page back and forth.           *)
(*                                                                         *)
(* The Ethereum application is external: it hands over parsed transactions *)
(* (what ParamParser's DecodedAsAbi promises), looks tokens up, queries    *)
(* screens in any order, and lets the user sign after the last one.        *)
(***************************************************************************)
EXTENDS Review

CONSTANTS
  Transactions,
  TokenInfo,     \* answers the token list may give
  Unprintable    \* << amount, token >> whose text exceeds the message buffer

ASSUME ReviewTransactionsAssumption ==
  \A t \in Transactions : /\ WellFormed(t)
                          /\ << t.to, t.selector >> \in Deployed
ASSUME TokenInfoAssumption == TokenInfo \subseteq Item

VARIABLES
  screens,   \* numScreens + additionalScreens
  lookup,    \* which of tokenLookup1 (SENT) and tokenLookup2 (RECEIVED) is set
  items,     \* item1 and item2, by the same names
  shown      \* what the user was shown: at ID, then by screenIndex

vars == << tx, stage, pos, ctx, result, screens, lookup, items, shown >>

ReviewStages == {"idle", "parsing", "lookup", "review"}

ID == -1
MaxScreens == 5
Blank == [screen |-> "BLANK"]
NothingShown == [i \in ID..(MaxScreens - 1) |-> Blank]
NoItems == [s \in {SENT, RECEIVED} |-> NullItem]

---------------------------------------------------------------------------
(* The parsed context: decoded as the ABI of the function called.          *)

FunctionOf(t) ==
  selector_t[CHOOSE i \in 1..NUM_SELECTORS : ORIGIN_DEFI_SELECTORS[i] = t.selector]

ParsedContext(t) ==
  [ZeroContext EXCEPT !.selectorIndex = FunctionOf(t),
                      !.next_param = "NONE",
                      !.amount_sent = AmountOf(t),
                      !.min_amount_received = MinOf(t),
                      !.beneficiary = RecipientOf(t),
                      !.contract_address_sent = SentOf(t),
                      !.contract_address_received = ReceivedOf(t)]

parsed(t) ==
  /\ stage = "idle"
  /\ stage' = "parsing"
  /\ tx' = t /\ pos' = Len(t.words) /\ ctx' = ParsedContext(t) /\ result' = "OK"
  /\ screens' = 0 /\ lookup' = {} /\ items' = NoItems /\ shown' = NothingShown

---------------------------------------------------------------------------
(* handle_finalize *)

UniswapScreens(c) ==
  IF c.selectorIndex \in UniswapFunctions /\ tx.from # c.beneficiary THEN 1 ELSE 0

(* Mutant: a wrap to oneself keeps its second screen. *)
WrapScreens_kept(c) == 0

WrapScreens(c) ==
  IF c.selectorIndex \in WrapFunctions /\ tx.from = c.beneficiary THEN 1 ELSE 0

(* Mutant: one screen too many. *)
numScreens_three(c) == 3 + UniswapScreens(c) - WrapScreens(c)

numScreens(c) == 2 + UniswapScreens(c) - WrapScreens(c)

sent_network_token(c) ==
  [c EXCEPT !.decimals_sent = ETHER_DECIMALS, !.tokens_found = @ \cup {SENT}]
received_network_token(c) ==
  [c EXCEPT !.decimals_received = ETHER_DECIMALS,
            !.tokens_found = @ \cup {RECEIVED}]

finalize_sent(c) ==
  IF c.contract_address_sent = NULL THEN sent_network_token(c) ELSE c
finalize_received(c) ==
  IF c.contract_address_received = NULL THEN received_network_token(c) ELSE c

(* The application looks tokens up, and calls handle_provide_token, only   *)
(* if at least one was asked for.                                          *)
handle_finalize ==
  /\ stage = "parsing" /\ result = "OK" /\ pos = Len(tx.words)
  /\ screens' = numScreens(ctx)
  /\ lookup' = {s \in {SENT, RECEIVED} :
                  NULL # IF s = SENT THEN ctx.contract_address_sent
                                     ELSE ctx.contract_address_received}
  /\ ctx' = finalize_received(finalize_sent(ctx))
  /\ stage' = IF lookup' = {} THEN "review" ELSE "lookup"
  /\ result' = "OK"
  /\ UNCHANGED << tx, pos, items, shown >>

---------------------------------------------------------------------------
(* handle_provide_token *)

known_decimals(a) == IF a \in {USDC, USDT} THEN 6 ELSE ETHER_DECIMALS

(* check_token_sent, then the network token, the token found, or default.  *)
provide_sent(c, item) ==
  CASE c.contract_address_sent \in KnownTokens ->
         [c EXCEPT !.decimals_sent = known_decimals(c.contract_address_sent),
                   !.tokens_found = @ \cup {SENT}]
    [] c.contract_address_sent = NULL -> sent_network_token(c)
    [] c.contract_address_sent \notin KnownTokens \cup {NULL} /\ item.found ->
         [c EXCEPT !.decimals_sent = item.decimals,
                   !.ticker_sent = item.ticker,
                   !.tokens_found = @ \cup {SENT}]
    [] OTHER -> [c EXCEPT !.decimals_sent = ETHER_DECIMALS, !.ticker_sent = ""]

(* A redeem without a token found needs no warning.                        *)
provide_received(c, item) ==
  CASE c.contract_address_received \in KnownTokens ->
         [c EXCEPT !.decimals_received = known_decimals(c.contract_address_received),
                   !.tokens_found = @ \cup {RECEIVED}]
    [] c.contract_address_received = NULL -> received_network_token(c)
    [] c.contract_address_received \notin KnownTokens \cup {NULL} /\ item.found ->
         [c EXCEPT !.decimals_received = item.decimals,
                   !.ticker_received = item.ticker,
                   !.tokens_found = @ \cup {RECEIVED}]
    [] OTHER -> [c EXCEPT !.decimals_received = ETHER_DECIMALS,
                          !.ticker_received = IF c.selectorIndex = "VAULT_REDEEM"
                                                THEN "UNITS" ELSE ""]

(* Mutant: a token the source knows counts as missing when it is not listed. *)
Missing_known(a, item) == IF a # NULL /\ ~item.found THEN 1 ELSE 0

Missing(a, item) == IF a \notin KnownTokens \cup {NULL} /\ ~item.found THEN 1 ELSE 0
additionalScreens(c, item1, item2) ==
  Missing(c.contract_address_sent, item1)
  + IF c.selectorIndex = "VAULT_REDEEM"
      THEN 0 ELSE Missing(c.contract_address_received, item2)

Answers(s) == IF s \in lookup THEN TokenInfo \cup {NullItem} ELSE {NullItem}

handle_provide_token(item1, item2) ==
  /\ stage = "lookup" /\ result = "OK"
  /\ item1 \in Answers(SENT) /\ item2 \in Answers(RECEIVED)
  /\ items' = [s \in {SENT, RECEIVED} |-> IF s = SENT THEN item1 ELSE item2]
  /\ ctx' = provide_received(provide_sent(ctx, item1), item2)
  /\ screens' = screens + additionalScreens(ctx, item1, item2)
  /\ stage' = "review"
  /\ result' = "OK"
  /\ UNCHANGED << tx, pos, lookup, shown >>

---------------------------------------------------------------------------
(* handle_query_contract_id: the first screen, plugin name and operation.  *)

operation(index) ==
  CASE index \in {"ZAPPER_DEPOSIT_ETH", "ZAPPER_DEPOSIT_SFRXETH", "VAULT_MINT"}
         -> "Mint"
    [] index = "VAULT_REDEEM" -> "Redeem"
    [] index = "WRAP" -> "Wrap"
    [] index = "UNWRAP" -> "Unwrap"
    [] OTHER -> "Swap"

handle_query_contract_id ==
  /\ stage = "review" /\ result = "OK"
  /\ shown' = [shown EXCEPT ![ID] = [screen |-> "CONTRACT_ID",
                                     version |-> operation(ctx.selectorIndex)]]
  /\ result' = "OK"
  /\ UNCHANGED << tx, stage, pos, ctx, screens, lookup, items >>

---------------------------------------------------------------------------
(* handle_query_contract_ui *)

get_screen(c, index) ==
  LET sent_found == SENT \in c.tokens_found
      received_found == RECEIVED \in c.tokens_found
      both == sent_found /\ received_found
      neither == ~sent_found /\ ~received_found
  IN  CASE index = 0 -> IF sent_found THEN "SEND_SCREEN" ELSE "WARN_SCREEN"
        [] index = 1 -> IF c.selectorIndex \in WrapFunctions
                          THEN "BENEFICIARY_SCREEN"
                        ELSE IF both THEN "RECEIVE_SCREEN"
                        ELSE IF sent_found THEN "WARN_SCREEN"
                        ELSE "SEND_SCREEN"
        [] index = 2 -> IF both THEN "BENEFICIARY_SCREEN"
                        ELSE IF neither THEN "WARN_SCREEN"
                        ELSE "RECEIVE_SCREEN"
        [] index = 3 -> IF both THEN "ERROR"
                        ELSE IF neither THEN "RECEIVE_SCREEN"
                        ELSE "BENEFICIARY_SCREEN"
        [] index = 4 -> IF neither THEN "BENEFICIARY_SCREEN" ELSE "ERROR"
        [] OTHER -> "ERROR"

(* The tickers of the tokens the source knows (named as the tokens are) are *)
(* written over the one the context holds; so is the network's.            *)
address_ticker(a, ticker) ==
  IF a = NULL THEN network_ticker ELSE IF a \in KnownTokens THEN a ELSE ticker

send_ticker(c) ==
  CASE c.selectorIndex = "ZAPPER_DEPOSIT_SFRXETH" -> "sfrxETH"
    [] c.selectorIndex = "VAULT_REDEEM"
         -> IF tx.to = OETH_VAULT THEN "OETH" ELSE "OUSD"
    [] c.selectorIndex = "FLIPPER_BUY_OUSD_WITH_USDT" -> "USDT"
    [] c.selectorIndex = "FLIPPER_BUY_OUSD_WITH_DAI" -> "DAI"
    [] c.selectorIndex = "FLIPPER_BUY_OUSD_WITH_USDC" -> "USDC"
    [] c.selectorIndex \in FlipperSells -> "OUSD"
    [] c.selectorIndex = "WRAP" -> IF tx.to = WOETH THEN "OETH" ELSE "OUSD"
    [] c.selectorIndex = "UNWRAP" -> IF tx.to = WOETH THEN "WOETH" ELSE "WOUSD"
    [] OTHER -> address_ticker(c.contract_address_sent, c.ticker_sent)

(* ZAPPER_DEPOSIT_SFRXETH falls through to the case of VAULT_MINT.         *)
receive_ticker(c) ==
  CASE c.selectorIndex = "ZAPPER_DEPOSIT_ETH" -> "OETH"
    [] c.selectorIndex \in {"ZAPPER_DEPOSIT_SFRXETH", "VAULT_MINT"}
         -> IF tx.to = OETH_VAULT THEN "OETH" ELSE "OUSD"
    [] c.selectorIndex = "VAULT_REDEEM"
         -> IF tx.to = OETH_VAULT THEN "LST MIX" ELSE "USD MIX"
    [] c.selectorIndex \in FlipperBuys -> "OUSD"
    [] c.selectorIndex = "FLIPPER_SELL_OUSD_FOR_USDT" -> "USDT"
    [] c.selectorIndex = "FLIPPER_SELL_OUSD_FOR_DAI" -> "DAI"
    [] c.selectorIndex = "FLIPPER_SELL_OUSD_FOR_USDC" -> "USDC"
    [] OTHER -> address_ticker(c.contract_address_received, c.ticker_received)

(* DEFAULT_DECIMAL, DAI_DECIMALS and OUSD_DECIMALS are all 18.             *)
ui_decimals(c, decimals) ==
  IF c.selectorIndex \in FlipperBuys \cup FlipperSells THEN ETHER_DECIMALS
                                                       ELSE decimals

(* The transaction's value is copied to the front of an amount field, over *)
(* its first value_length bytes; every other amount fills the 32 bytes.    *)
CopiesValue(c) == c.selectorIndex = "ZAPPER_DEPOSIT_ETH"

(* Mutant: the length of the value is not taken over. *)
amount_length_word(c) == PARAMETER_LENGTH

amount_length(c) == IF CopiesValue(c) THEN tx.value_length ELSE PARAMETER_LENGTH

set_send_ui(c) ==
  [c EXCEPT !.ticker_sent = send_ticker(c),
            !.decimals_sent = ui_decimals(c, @),
            !.amount_length = amount_length(c),
            !.amount_sent = IF CopiesValue(c) THEN tx.value ELSE @]

(* Mutant: the flipper's amounts are copied the wrong way round. *)
set_receive_ui_swapped(c) ==
  [c EXCEPT !.ticker_received = receive_ticker(c),
            !.decimals_received = ui_decimals(c, @),
            !.amount_length = amount_length(c),
            !.amount_sent =
               IF c.selectorIndex \in FlipperBuys \cup FlipperSells
                 THEN c.min_amount_received ELSE @]

set_receive_ui(c) ==
  [c EXCEPT !.ticker_received = receive_ticker(c),
            !.decimals_received = ui_decimals(c, @),
            !.amount_length = amount_length(c),
            !.min_amount_received =
               IF CopiesValue(c) THEN tx.value
               ELSE IF c.selectorIndex \in FlipperBuys \cup FlipperSells
                 THEN c.amount_sent ELSE @]

(* The number in the first amount_length bytes of a field: the amount, or  *)
(* another number when that is not how many bytes the amount was put in.   *)
stored_length(c) == IF CopiesValue(c) THEN tx.value_length ELSE PARAMETER_LENGTH
Misread == [addr |-> GARBLED, num |-> 0]
NumberIn(c, amount) ==
  IF c.amount_length = stored_length(c) THEN amount ELSE Misread

(* amountToString throws when the text does not fit.  main catches the     *)
(* exception and answers ERROR; what the handler had written to the        *)
(* context stays written.                                                  *)
handle_query_ui_exception == result' = "ERROR" /\ UNCHANGED shown

ShowAmount(i, kind, c, amount, token) ==
  /\ ctx' = c
  /\ IF << NumberIn(c, amount), token >> \in Unprintable
       THEN handle_query_ui_exception
       ELSE /\ result' = "OK"
            /\ shown' = [shown EXCEPT ![i] =
                           AmountScreen(kind, NumberIn(c, amount), token)]

show_send(i) ==
  LET c == set_send_ui(ctx)
  IN  /\ get_screen(ctx, i) = "SEND_SCREEN"
      /\ ShowAmount(i, "SEND_SCREEN", c, c.amount_sent,
                    Token(c.ticker_sent, c.decimals_sent))

show_receive(i) ==
  LET c == set_receive_ui(ctx)
  IN  /\ get_screen(ctx, i) = "RECEIVE_SCREEN"
      /\ \/ /\ c.selectorIndex \notin WrapFunctions
            /\ ShowAmount(i, "RECEIVE_SCREEN", c, c.min_amount_received,
                          Token(c.ticker_received, c.decimals_received))
         \/ \* default: the switch has no case for them
            /\ c.selectorIndex \in WrapFunctions
            /\ ctx' = c /\ result' = "ERROR" /\ UNCHANGED shown

show_beneficiary(i) ==
  /\ get_screen(ctx, i) = "BENEFICIARY_SCREEN"
  /\ shown' = [shown EXCEPT ![i] = BeneficiaryScreen(ctx.beneficiary)]
  /\ result' = "OK" /\ UNCHANGED ctx

(* The warning; or no screen has this index.                               *)
show_warning(i) ==
  /\ get_screen(ctx, i) \in {"WARN_SCREEN", "ERROR"}
  /\ IF get_screen(ctx, i) = "ERROR"
       THEN result' = "ERROR" /\ UNCHANGED shown
       ELSE result' = "OK" /\ shown' = [shown EXCEPT ![i] = Warning]
  /\ UNCHANGED ctx

handle_query_contract_ui(i) ==
  /\ stage = "review" /\ result = "OK"
  /\ i \in 0..(screens - 1)
  /\ show_send(i) \/ show_receive(i) \/ show_beneficiary(i) \/ show_warning(i)
  /\ UNCHANGED << tx, stage, pos, screens, lookup, items >>

---------------------------------------------------------------------------
(* The user signs or refuses after the screens, or a failed query ends the *)
(* review; the host may also drop the transaction before it starts.        *)
end_review ==
  /\ stage # "idle"
  /\ stage' = "idle"
  /\ UNCHANGED << tx, pos, ctx, result, screens, lookup, items, shown >>

Init ==
  /\ tx \in Transactions
  /\ stage = "idle"
  /\ pos = Len(tx.words)
  /\ ctx = ZeroContext
  /\ result = "OK"
  /\ screens = 0 /\ lookup = {} /\ items = NoItems /\ shown = NothingShown

Next ==
  \/ \E t \in Transactions : parsed(t)
  \/ handle_finalize
  \/ \E item1, item2 \in TokenInfo \cup {NullItem} :
       handle_provide_token(item1, item2)
  \/ handle_query_contract_id
  \/ \E i \in 0..(MaxScreens - 1) : handle_query_contract_ui(i)
  \/ end_review

Spec == Init /\ [][Next]_vars

---------------------------------------------------------------------------
(* Properties. *)

Displays ==
  {Blank, Warning}
  \cup [screen : {"CONTRACT_ID"},
        version : {"Mint", "Redeem", "Wrap", "Unwrap", "Swap"}]
  \cup [screen : {"BENEFICIARY_SCREEN"}, address : Address]
  \cup [screen : {"SEND_SCREEN", "RECEIVE_SCREEN"}, amount : Word,
        token : [ticker : Ticker, decimals : uint8_t]]

(* Every field keeps its C type, and the plugin never asks for more        *)
(* screens than get_screen has indices.                                    *)
TypeOK ==
  /\ tx \in Transactions
  /\ stage \in ReviewStages
  /\ pos = Len(tx.words)
  /\ ctx \in ContextType
  /\ result \in Result
  /\ screens \in 0..MaxScreens
  /\ lookup \in SUBSET {SENT, RECEIVED}
  /\ items \in [{SENT, RECEIVED} -> Item]
  /\ shown \in [ID..(MaxScreens - 1) -> Displays]

(* What the user is to be told of the transaction under review. *)
Expected == ReviewOf(tx, items[SENT], items[RECEIVED])

(* The number of screens, which handle_finalize and handle_provide_token   *)
(* add up from the addresses and the recipient, and the screen get_screen  *)
(* derives for each index from the found flags and the function, agree     *)
(* with each other and with the review due: no screen is missing, none is  *)
(* an error, and every unknown token is warned about right before its      *)
(* amount.                                                                 *)
ScreensAsPlanned ==
  stage = "review" =>
    /\ screens = Len(Expected)
    /\ \A i \in 1..screens : get_screen(ctx, i - 1) = Expected[i].screen

(* The receive screen of depositSFRXETH names another token than the one   *)
(* received; SfrxethBuysOeth below is about it.                            *)
KnownWrong(screen) ==
  /\ tx.selector = ZAPPER_DEPOSIT_SFRXETH_SELECTOR
  /\ screen.screen = "RECEIVE_SCREEN"

(* Whatever the order of the queries, a screen that was shown tells the    *)
(* amount, token and decimals (or the recipient) due at its place, though  *)
(* they come from different handlers: the amount from the calldata or the  *)
(* transaction's value, the decimals from the lookup, the ticker from the  *)
(* lookup or the query.                                                    *)
ShownAsMeant ==
  stage = "review" =>
    \A i \in 1..Len(Expected) :
      shown[i - 1] \in {Blank, Expected[i]} \/ KnownWrong(Expected[i])

(* A query fails only for an amount whose text does not fit the            *)
(* application's buffer: a transaction with printable amounts can be       *)
(* reviewed to its last screen.                                            *)
FailsOnlyIfTooLong ==
  stage = "review" /\ result # "OK" =>
    \E i \in 1..Len(Expected) :
      /\ Expected[i].screen \in {"SEND_SCREEN", "RECEIVE_SCREEN"}
      /\ \E entry \in Unprintable : entry[1] = Expected[i].amount

(* Paging back never changes a screen: a query of a screen that was shown  *)
(* succeeds again with the same content, although the queries in between   *)
(* wrote tickers, decimals, amounts and amount_length to the context.      *)
ShownAgainAlike ==
  [][stage = "review" =>
       \A i \in ID..(MaxScreens - 1) :
         shown[i] # Blank =>
           /\ shown'[i] = shown[i]
           /\ handle_query_contract_ui(i) => result' = "OK"]_vars

(* "depositSFRXETH(uint256 amount,uint256 minOETH)" (main.c:34): the token *)
(* to receive is OETH.                                                     *)
SfrxethBuysOeth ==
  stage = "review" /\ tx.selector = ZAPPER_DEPOSIT_SFRXETH_SELECTOR =>
    \A i \in ID..(MaxScreens - 1) :
      shown[i].screen = "RECEIVE_SCREEN" => shown[i].token.ticker = "OETH"

(* "Address is not network token (0xeee...) so we will need to look up the *)
(* token in the CAL" (handle_finalize.c:18): the address 0xeee..., by      *)
(* which Curve's router calls ether, is not looked up.                     *)
ETHER_PLACEHOLDER == "0xeee"
NetworkTokenNotLookedUp ==
  stage = "lookup" =>
    /\ ctx.contract_address_sent = ETHER_PLACEHOLDER => SENT \notin lookup
    /\ ctx.contract_address_received = ETHER_PLACEHOLDER => RECEIVED \notin lookup

---------------------------------------------------------------------------
(* The inductive invariant: what the context holds from message to message *)
(* for the transaction under review.                                       *)

Fields(a, b) == [s \in {SENT, RECEIVED} |-> IF s = SENT THEN a ELSE b]
TokenField == Fields(ctx.contract_address_sent, ctx.contract_address_received)

(* Nothing after the parser writes to these. *)
DecodedFields ==
  /\ ctx.selectorIndex = FunctionOf(tx)
  /\ ctx.beneficiary = RecipientOf(tx)
  /\ ctx.contract_address_sent = SentOf(tx)
  /\ ctx.contract_address_received = ReceivedOf(tx)

(* Queries overwrite the amounts of a deposit and what the flipper gives;  *)
(* every other amount stays as it was parsed.                              *)
AmountsKept ==
  tx.selector # ZAPPER_DEPOSIT_ETH_SELECTOR =>
    /\ ctx.amount_sent = AmountOf(tx)
    /\ tx.selector \notin FlipperSelectors => ctx.min_amount_received = MinOf(tx)

(* Up to the lookup only ether is found, and nothing was shown.            *)
NothingLookedUp ==
  /\ items = NoItems /\ shown = NothingShown /\ result = "OK"
  /\ stage = "parsing" => ctx.tokens_found = {}
  /\ stage = "lookup" =>
       /\ screens = numScreens(ctx)
       /\ ctx.tokens_found = {s \in {SENT, RECEIVED} : TokenField[s] = NULL}

(* From then on a token is found unless it is to be warned about, and the  *)
(* next query will show the right ticker and decimals, whichever of the    *)
(* two earlier handlers left them or the query itself sets them.           *)
(* depositSFRXETH is the one exception.                                    *)
TokensSettled ==
  /\ ctx.tokens_found = {s \in {SENT, RECEIVED} : ~IsUnknown(TokenField[s], items[s])}
  /\ Token(send_ticker(ctx), ui_decimals(ctx, ctx.decimals_sent))
       = TokenSent(tx, items[SENT])
  /\ Token(receive_ticker(ctx), ui_decimals(ctx, ctx.decimals_received))
       = IF tx.selector = ZAPPER_DEPOSIT_SFRXETH_SELECTOR
           THEN NamedToken(OUSD) ELSE TokenReceived(tx, items[RECEIVED])

(* What the plugin tells at the place of screen i of the review.           *)
ToldAt(i) == IF KnownWrong(Expected[i])
               THEN AmountScreen("RECEIVE_SCREEN", AtLeast(tx), NamedToken(OUSD))
               ELSE Expected[i]

TooLong(screen) == /\ screen.screen \in {"SEND_SCREEN", "RECEIVE_SCREEN"}
                   /\ << screen.amount, screen.token >> \in Unprintable

ShownSoFar ==
  /\ shown[ID] \in {Blank, [screen |-> "CONTRACT_ID",
                             version |-> operation(FunctionOf(tx))]}
  /\ \A i \in 1..MaxScreens :
       shown[i - 1] # Blank => /\ i <= Len(Expected)
                               /\ shown[i - 1] = ToldAt(i)
                               /\ ~TooLong(ToldAt(i))
  /\ result # "OK" => \E i \in 1..Len(Expected) : TooLong(ToldAt(i))

InReview ==
  /\ DecodedFields /\ AmountsKept
  /\ stage # "review" => NothingLookedUp
  /\ stage = "review" =>
       TokensSettled /\ screens = Len(Expected) /\ ShownSoFar

IInv == TypeOK /\ (stage # "idle" => InReview)

===============================================================================
