----------------------------- MODULE ParamParser -----------------------------
(***************************************************************************)
(* handle_init_contract and handle_provide_parameter: the plugin is told   *)
(* of a transaction and then handed its argument words one by one, keeping *)
(* in next_param which field it expects, in skip how many words to ignore  *)
(* and, for the Curve router, in counter how far the route has been read.  *)
(*                                                                         *)
(* One action per handler; the disjuncts of an action are the cases of its *)
(* switch on next_param.  The Ethereum application is external: it stops   *)
(* at a result that is not OK, and may drop a transaction at any word.     *)
(***************************************************************************)
EXTENDS PluginContext, Abi

CONSTANTS
  Transactions,
  Garbage      \* contexts made of the bytes a runaway copy may write

ASSUME TransactionsAssumption == \A t \in Transactions : WellFormed(t)
ASSUME GarbageAssumption == Garbage \subseteq ContextType

vars == << tx, stage, pos, ctx, result >>

Stages == {"idle", "parsing"}

---------------------------------------------------------------------------
(* handle_init_contract *)

(* First match in the table, or 0. *)
find_selector(selector) ==
  LET matches == {i \in 1..NUM_SELECTORS : ORIGIN_DEFI_SELECTORS[i] = selector}
  IN  IF matches = {} THEN 0
      ELSE CHOOSE i \in matches : \A j \in matches : i <= j

first_param(index) ==
  CASE index = "ZAPPER_DEPOSIT_ETH" -> "NONE"
    [] index \in {"ZAPPER_DEPOSIT_SFRXETH", "VAULT_REDEEM"} \cup FlipperBuys
                 \cup FlipperSells \cup WrapFunctions -> "AMOUNT_SENT"
    [] index = "UNISWAP_ROUTER_EXACT_INPUT" -> "BENEFICIARY"
    [] OTHER -> "TOKEN_SENT"

(* Mutant: one word is skipped before the recipient of exactInput. *)
first_skip_short(index) ==
  IF index = "UNISWAP_ROUTER_EXACT_INPUT" THEN 1 ELSE 0

first_skip(index) == IF index = "UNISWAP_ROUTER_EXACT_INPUT" THEN 2 ELSE 0

(* Mutant: the check of the underlying exchange accepts the OETH pool only. *)
destination_supported_oeth(index, to) ==
  index \in CurvePoolFunctions => to = CURVE_OETH_POOL

(* The two Curve pool functions are refused for any other pool. *)
destination_supported(index, to) == index \in CurvePoolFunctions => to \in Pools

(* Mutant: no memset. *)
InitialContext_stale(index) ==
  [ctx EXCEPT !.selectorIndex = index,
              !.skip = first_skip(index),
              !.next_param = first_param(index)]

InitialContext(index) ==
  [ZeroContext EXCEPT !.selectorIndex = index,
                      !.skip = first_skip(index),
                      !.next_param = first_param(index)]

handle_init_contract(t) ==
  /\ stage = "idle"
  /\ tx' = t
  /\ stage' = "parsing"
  /\ pos' = 0
  /\ \/ \* interface version, before the context is touched
        result' = "UNAVAILABLE" /\ UNCHANGED ctx
     \/ \* context too small, likewise
        result' = "ERROR" /\ UNCHANGED ctx
     \/ /\ find_selector(t.selector) = 0
        /\ ctx' = ZeroContext
        /\ result' = "UNAVAILABLE"
     \/ /\ find_selector(t.selector) # 0
        /\ LET index == selector_t[find_selector(t.selector)]
           IN  IF destination_supported(index, t.to)
                 THEN ctx' = InitialContext(index) /\ result' = "OK"
                 ELSE /\ ctx' = [ZeroContext EXCEPT !.selectorIndex = index]
                      /\ result' = "ERROR"

---------------------------------------------------------------------------
(* handle_provide_parameter: helpers.  w is the word, c the context. *)

PoolCoin(w) ==
  LET coin == (w.num % 256) + 1     \* the last byte of the parameter
  IN  IF tx.to \in Pools /\ coin <= Len(PoolCoins(tx.to))
        THEN PoolCoins(tx.to)[coin]
        ELSE NULL                   \* "Param not supported": stays zeroed

TokenIn(c, w) == IF c.selectorIndex \in CurvePoolFunctions THEN PoolCoin(w)
                                                           ELSE w.addr

handle_token_sent(c, w) == [c EXCEPT !.contract_address_sent = TokenIn(c, w)]
handle_token_received(c, w) ==
  [c EXCEPT !.contract_address_received = TokenIn(c, w)]
handle_amount_sent(c, w) == [c EXCEPT !.amount_sent = w]
handle_min_amount_received(c, w) == [c EXCEPT !.min_amount_received = w]
handle_beneficiary(c, w) == [c EXCEPT !.beneficiary = w.addr]

(* Fields are bytes: additions wrap. *)
Uint8(n) == n % 256
Skip(c, n) == [c EXCEPT !.skip = Uint8(c.skip + n)]
Expect(c, p) == [c EXCEPT !.next_param = p]

(* A message PROVIDE_PARAMETER, while the last result was OK and words are *)
(* left; skip is counted down before anything else is looked at.           *)
Provide ==
  /\ stage = "parsing" /\ result = "OK" /\ pos < Len(tx.words)
  /\ pos' = pos + 1
  /\ UNCHANGED << tx, stage >>

parameter == tx.words[pos + 1]

skip_parameter ==
  /\ Provide
  /\ ctx.skip # 0
  /\ ctx' = [ctx EXCEPT !.skip = ctx.skip - 1]
  /\ result' = "OK"

Handler(functions) ==
  /\ Provide
  /\ ctx.skip = 0
  /\ ctx.selectorIndex \in functions

On(param, c) == ctx.next_param = param /\ ctx' = c /\ result' = "OK"

(* case NONE, and default. *)
Otherwise(handled) ==
  /\ ctx.next_param \notin handled
  /\ UNCHANGED ctx
  /\ result' = IF ctx.next_param = "NONE" THEN "OK" ELSE "ERROR"

---------------------------------------------------------------------------
(* handle_provide_parameter: the handlers, one per group of functions. *)

handle_zapper_deposit_eth ==
  Handler({"ZAPPER_DEPOSIT_ETH"}) /\ Otherwise({})

(* handle_zapper_deposit_sfrxeth and handle_vault_redeem are the same code. *)
handle_amount_and_min ==
  /\ Handler({"ZAPPER_DEPOSIT_SFRXETH", "VAULT_REDEEM"})
  /\ \/ On("AMOUNT_SENT",
           Expect(handle_amount_sent(ctx, parameter), "MIN_AMOUNT_RECEIVED"))
     \/ On("MIN_AMOUNT_RECEIVED",
           Expect(handle_min_amount_received(ctx, parameter), "NONE"))
     \/ Otherwise({"AMOUNT_SENT", "MIN_AMOUNT_RECEIVED"})

handle_vault_mint ==
  /\ Handler({"VAULT_MINT"})
  /\ \/ On("TOKEN_SENT",
           Expect(handle_token_sent(ctx, parameter), "AMOUNT_SENT"))
     \/ On("AMOUNT_SENT",
           Expect(handle_amount_sent(ctx, parameter), "MIN_AMOUNT_RECEIVED"))
     \/ On("MIN_AMOUNT_RECEIVED",
           Expect(handle_min_amount_received(ctx, parameter), "NONE"))
     \/ Otherwise({"TOKEN_SENT", "AMOUNT_SENT", "MIN_AMOUNT_RECEIVED"})

handle_curve_pool_exchange ==
  /\ Handler(CurvePoolFunctions)
  /\ \/ On("TOKEN_SENT",
           Expect(handle_token_sent(ctx, parameter), "TOKEN_RECEIVED"))
     \/ On("TOKEN_RECEIVED",
           Expect(handle_token_received(ctx, parameter), "AMOUNT_SENT"))
     \/ On("AMOUNT_SENT",
           Expect(handle_amount_sent(ctx, parameter), "MIN_AMOUNT_RECEIVED"))
     \/ On("MIN_AMOUNT_RECEIVED",
           Expect(handle_min_amount_received(ctx, parameter), "NONE"))
     \/ Otherwise({"TOKEN_SENT", "TOKEN_RECEIVED", "AMOUNT_SENT",
                   "MIN_AMOUNT_RECEIVED"})

(* Mutants: off by one; no wrap-around behind the swap parameters. *)
route_skip_late(counter) == 21 - counter
route_skip_clamped(counter) == IF counter > 20 THEN 0 ELSE 20 - counter

(* The route is read up to its first null address; what is left of the     *)
(* nine addresses and the twelve swap parameters is then skipped.          *)
route_skip(counter) == 20 - counter

handle_route(c, w) ==
  LET counter == Uint8(c.counter + 1)
  IN  IF w.addr = NULL
        THEN Expect([Skip(c, route_skip(counter)) EXCEPT !.counter = 0],
                    "AMOUNT_SENT")
        ELSE Expect([handle_token_received(c, w) EXCEPT !.counter = counter],
                    "TOKEN_RECEIVED")

handle_curve_router_exchange ==
  /\ Handler({"CURVE_ROUTER_EXCHANGE_MULTIPLE"})
  /\ \/ On("TOKEN_SENT",
           Expect(handle_token_sent(ctx, parameter), "TOKEN_RECEIVED"))
     \/ On("TOKEN_RECEIVED", handle_route(ctx, parameter))
     \/ On("AMOUNT_SENT",
           Expect(handle_amount_sent(ctx, parameter), "MIN_AMOUNT_RECEIVED"))
     \/ On("MIN_AMOUNT_RECEIVED",
           Expect(handle_min_amount_received(ctx, parameter), "NONE"))
     \/ Otherwise({"TOKEN_SENT", "TOKEN_RECEIVED", "AMOUNT_SENT",
                   "MIN_AMOUNT_RECEIVED"})

(* exactInput: 20 bytes of the path, r bytes into the k-th word of the     *)
(* calldata and on into the next.                                          *)
path_address(k, r) ==
  IF k >= PathWord
    THEN PathAddress(tx, PARAMETER_LENGTH * (k - PathWord) + r) ELSE GARBLED

(* Mutants: no wrap-around of the byte; the token is not subtracted. *)
path_skip_wide(n) == TailWord(n) - 1
path_skip_end(n) == Uint8(n \div PARAMETER_LENGTH - 1)

(* A length no path has: offset - ADDRESS_LENGTH is a negative int.        *)
Backwards(n) == n < ADDRESS_LENGTH

(* Words between the first word of the path and the one its last token     *)
(* starts in; C's division rounds a negative quotient up to 0.             *)
path_skip(n) == Uint8((IF Backwards(n) THEN 0 ELSE TailWord(n)) - 1)

(* The first copy of the received token: all of it, or the bytes up to the *)
(* end of the parameter and then whatever lies behind the buffer (or       *)
(* before it).                                                             *)
token_received_head(n) ==
  IF Backwards(n) \/ Straddles(n) THEN GARBLED
                                  ELSE path_address(pos + 1, TailByte(n))

(* The second copy completes it from the word that follows.  For a token   *)
(* that ends with its word there is nothing left to copy.                  *)
token_received_rest(n) ==
  IF Straddles(n) THEN path_address(pos, TailByte(n))
                  ELSE ctx.contract_address_received

(* For a token that ends before its word the length is negative, a size_t  *)
(* of all but the whole memory, and the destination behind the token       *)
(* received: in the recipient or, for a length that no path has, further.  *)
Runaway(n) == Backwards(n) \/ TailByte(n) + ADDRESS_LENGTH < PARAMETER_LENGTH

(* What is undefined then: the copy faults and with it the application     *)
(* (which also stands for a selectorIndex behind the enumeration, refused  *)
(* at its next use), or memcpy returns and has written anything to the     *)
(* fields behind the token received.                                       *)
overrun(g) ==
  [g EXCEPT !.amount_sent = ctx.amount_sent,
            !.min_amount_received = ctx.min_amount_received,
            !.contract_address_sent = ctx.contract_address_sent,
            !.contract_address_received = ctx.contract_address_received,
            !.next_param = "NONE"]

runaway_copy ==
  /\ ctx.next_param = "TOKEN_RECEIVED_REST" /\ Runaway(ctx.offset)
  /\ \/ result' = "FAULT" /\ UNCHANGED ctx
     \/ result' = "OK" /\ \E g \in Garbage : ctx' = overrun(g)

handle_uniswap_exchange ==
  /\ Handler({"UNISWAP_ROUTER_EXACT_INPUT"})
  /\ \/ On("BENEFICIARY",
           Expect(Skip(handle_beneficiary(ctx, parameter), 1), "AMOUNT_SENT"))
     \/ On("AMOUNT_SENT",
           Expect(handle_amount_sent(ctx, parameter), "MIN_AMOUNT_RECEIVED"))
     \/ On("MIN_AMOUNT_RECEIVED",
           Expect(handle_min_amount_received(ctx, parameter), "PATH_LENGTH"))
     \/ On("PATH_LENGTH",
           Expect([ctx EXCEPT !.offset = parameter.num], "TOKEN_SENT"))
     \/ On("TOKEN_SENT",
           Expect([ctx EXCEPT !.contract_address_sent = path_address(pos + 1, 0),
                              !.skip = path_skip(ctx.offset)],
                  "TOKEN_RECEIVED"))
     \/ On("TOKEN_RECEIVED",
           Expect([ctx EXCEPT !.contract_address_received =
                                token_received_head(ctx.offset)],
                  "TOKEN_RECEIVED_REST"))
     \/ /\ ~Runaway(ctx.offset)
        /\ On("TOKEN_RECEIVED_REST",
              Expect([ctx EXCEPT !.contract_address_received =
                                   token_received_rest(ctx.offset)],
                     "NONE"))
     \/ runaway_copy
     \/ Otherwise({"BENEFICIARY", "AMOUNT_SENT", "MIN_AMOUNT_RECEIVED",
                   "PATH_LENGTH", "TOKEN_SENT", "TOKEN_RECEIVED",
                   "TOKEN_RECEIVED_REST"})

handle_uniswap_exchange_single ==
  /\ Handler({"UNISWAP_ROUTER_EXACT_INPUT_SINGLE"})
  /\ \/ On("TOKEN_SENT",
           Expect(handle_token_sent(ctx, parameter), "TOKEN_RECEIVED"))
     \/ On("TOKEN_RECEIVED",
           Expect(Skip(handle_token_received(ctx, parameter), 1),
                  "BENEFICIARY"))
     \/ On("BENEFICIARY",
           Expect(Skip(handle_beneficiary(ctx, parameter), 1), "AMOUNT_SENT"))
     \/ On("AMOUNT_SENT",
           Expect(handle_amount_sent(ctx, parameter), "MIN_AMOUNT_RECEIVED"))
     \/ On("MIN_AMOUNT_RECEIVED",
           Expect(handle_min_amount_received(ctx, parameter), "NONE"))
     \/ Otherwise({"TOKEN_SENT", "TOKEN_RECEIVED", "BENEFICIARY",
                   "AMOUNT_SENT", "MIN_AMOUNT_RECEIVED"})

handle_flipper_exchange ==
  /\ Handler(FlipperBuys \cup FlipperSells)
  /\ \/ On("AMOUNT_SENT",
           Expect(handle_amount_sent(ctx, parameter), "NONE"))
     \/ Otherwise({"AMOUNT_SENT"})

handle_wrap ==
  /\ Handler(WrapFunctions)
  /\ \/ On("AMOUNT_SENT",
           Expect(handle_amount_sent(ctx, parameter), "BENEFICIARY"))
     \/ On("BENEFICIARY",
           Expect(handle_beneficiary(ctx, parameter), "NONE"))
     \/ Otherwise({"AMOUNT_SENT", "BENEFICIARY"})

handle_provide_parameter ==
  \/ skip_parameter
  \/ handle_zapper_deposit_eth
  \/ handle_amount_and_min
  \/ handle_vault_mint
  \/ handle_curve_pool_exchange
  \/ handle_curve_router_exchange
  \/ handle_uniswap_exchange
  \/ handle_uniswap_exchange_single
  \/ handle_flipper_exchange
  \/ handle_wrap

---------------------------------------------------------------------------
(* The application moves on: after the last word, a refusal or a fault, or *)
(* because the host dropped the transaction between two of its packets.    *)
(* The plugin is not told; its context stays as it is.                     *)
end_transaction ==
  /\ stage = "parsing"
  /\ stage' = "idle"
  /\ UNCHANGED << tx, pos, ctx, result >>

Init ==
  /\ tx \in Transactions
  /\ stage = "idle"
  /\ pos = 0
  /\ ctx = ZeroContext
  /\ result = "OK"

Next ==
  \/ \E t \in Transactions : handle_init_contract(t)
  \/ handle_provide_parameter
  \/ end_transaction

Spec == Init /\ [][Next]_vars

---------------------------------------------------------------------------
(* Properties. *)

(* Every field of the context and of the protocol keeps its C type: the    *)
(* bytes skip and counter stay in 0..255, offset in 16 bits.               *)
TypeOK ==
  /\ tx \in Transactions
  /\ stage \in Stages
  /\ pos \in 0..Len(tx.words)
  /\ ctx \in ContextType
  /\ result \in Result

(* The transactions the parser is meant for: deployed, with a route that   *)
(* ends before its last slot, a path of at least two hops whose tail is    *)
(* within reach of the byte skip, and no word after a path whose last      *)
(* token needs no second copy.                                             *)
MaxHops == 357

Supported(t) ==
  /\ WellFormed(t)
  /\ << t.to, t.selector >> \in Deployed
  /\ t.selector = CURVE_ROUTER_EXCHANGE_MULTIPLE_SELECTOR =>
       t.words[RouteWords].addr = NULL
  /\ t.selector = UNISWAP_ROUTER_EXACT_INPUT_SELECTOR =>
       /\ Len(t.path) - 1 \in 2..MaxHops
       /\ Straddles(PathBytes(t)) \/ Len(t.words) = PathWord + TailWord(PathBytes(t))

Accepted == stage = "parsing" /\ result = "OK"
AllRead == Accepted /\ pos = Len(tx.words)

(* Once the last word has been handed over, every field the user will      *)
(* review holds the argument the ABI of the called function puts there,    *)
(* and a field the function has no argument for is zero, whatever          *)
(* transaction left its context behind: the skips and the route counter of *)
(* handle_provide_parameter land on the words the signatures in main.c     *)
(* name, and the selector table agrees with the enumeration.               *)
DecodedAsAbi ==
  AllRead /\ Supported(tx) =>
    /\ ctx.amount_sent = AmountOf(tx)
    /\ ctx.min_amount_received = MinOf(tx)
    /\ ctx.beneficiary = RecipientOf(tx)
    /\ ctx.contract_address_sent = SentOf(tx)
    /\ ctx.contract_address_received = ReceivedOf(tx)

AmountsSoFar ==
  /\ ctx.amount_sent =
       IF pos >= AmountWord(tx.selector) THEN AmountOf(tx) ELSE ZeroWord
  /\ ctx.min_amount_received =
       IF pos >= MinWord(tx.selector) THEN MinOf(tx) ELSE ZeroWord
  /\ ctx.beneficiary =
       IF pos >= RecipientWord(tx.selector) THEN RecipientOf(tx) ELSE NULL

(* At every word, not only at the last one: an amount or the recipient is  *)
(* zero until its word has been handed over and right from then on.        *)
(* Nothing of an earlier transaction and no other word is ever in them, so *)
(* no later word repairs a field that was read too early.                  *)
ReadAtItsWord == Accepted /\ Supported(tx) => AmountsSoFar

(* Of exactInput calldata of any kind: the number it gives as its path's   *)
(* length, and the word from which the first copy of the token is made.    *)
PathNumber(t) ==
  IF Len(t.words) >= PathLengthWord THEN t.words[PathLengthWord].num ELSE 0
HeadWord(t) == PathWord + 1 + path_skip(PathNumber(t))

(* A copy of negative length has been made: by the word behind that one,   *)
(* if the token ends before its word.                                      *)
Overrun ==
  /\ tx.selector = UNISWAP_ROUTER_EXACT_INPUT_SELECTOR
  /\ pos > PathWord /\ pos > HeadWord(tx) /\ Runaway(PathNumber(tx))

(* What goes wrong with a path that is one, of one hop or more than the    *)
(* byte skip reaches, and whatever words follow it, goes wrong in the      *)
(* token received: recipient, amounts and the token sent are right from    *)
(* their words on.  This ends where a word is taken for the rest of a      *)
(* token that has none, as it is behind a path of 358 hops or behind one   *)
(* of three with a word added: nothing is claimed from there on.           *)
PathDamageConfined ==
  /\ Accepted /\ ~Overrun
  /\ tx.selector = UNISWAP_ROUTER_EXACT_INPUT_SELECTOR
  /\ << tx.to, tx.selector >> \in Deployed
  => /\ AmountsSoFar
     /\ ctx.contract_address_sent = IF pos >= PathWord THEN SentOf(tx) ELSE NULL

(* A route none of whose nine slots, nor of the swap parameters behind     *)
(* them, is null runs past its own end.                                    *)
RouteLost(t) ==
  /\ t.selector = CURVE_ROUTER_EXCHANGE_MULTIPLE_SELECTOR
  /\ \A k \in 2..21 : k <= Len(t.words) => t.words[k].addr # NULL
RouteWrap == 278      \* 22, and once around the byte skip

(* Word k of the calldata as far as it was handed over: zero when it was   *)
(* not, when k = 0, and behind a lost route.                               *)
ReadWord(k) ==
  IF k \in 1..pos /\ ~RouteLost(tx) THEN tx.words[k] ELSE ZeroWord

(* AmountsSoFar for any calldata at all.  (Queries write to the amounts of *)
(* a deposit and to what a flipper gives; no word does.)                   *)
AmountsInPlace ==
  \/ RouteLost(tx) /\ pos >= RouteWrap
  \/ /\ tx.selector # ZAPPER_DEPOSIT_ETH_SELECTOR =>
          ctx.amount_sent = ReadWord(AmountWord(tx.selector))
     /\ tx.selector \notin {ZAPPER_DEPOSIT_ETH_SELECTOR} \cup FlipperSelectors =>
          ctx.min_amount_received = ReadWord(MinWord(tx.selector))
     /\ ctx.beneficiary = ReadWord(RecipientWord(tx.selector)).addr

(* A supported transaction is refused for the interface version or the     *)
(* context size only, before the context is touched; no word of it runs    *)
(* into the "Param not supported" branch of a handler.                     *)
NeverRefusedLater ==
  [][stage' = "parsing" /\ result' # "OK" /\ Supported(tx')
       => pos' = 0 /\ UNCHANGED ctx]_vars

(* "address of token received starts at 20 bytes from end of path"         *)
(* (handle_provide_parameter.c:310): for any path, the token the plugin    *)
(* ends up with is the last one.                                           *)
PathEndDecoded ==
  /\ AllRead
  /\ tx.selector = UNISWAP_ROUTER_EXACT_INPUT_SELECTOR
  /\ Len(tx.words) = PathWord + (PathBytes(tx) - 1) \div PARAMETER_LENGTH
  => ctx.contract_address_received = ReceivedOf(tx)

(* "address[9] _route" (handle_provide_parameter.c:239): for any route     *)
(* that fits the nine slots, the token received is the last address of it. *)
RouteEndDecoded ==
  AllRead /\ tx.selector = CURVE_ROUTER_EXCHANGE_MULTIPLE_SELECTOR
    => ctx.contract_address_received = ReceivedOf(tx)

---------------------------------------------------------------------------
(* The inductive invariant: where in the calldata of a supported           *)
(* transaction the parser stands, and what it has read so far.             *)

(* The field of the context that find_selector picked is the function      *)
(* called.                                                                 *)
FunctionFound ==
  \E i \in 1..NUM_SELECTORS : /\ tx.selector = ORIGIN_DEFI_SELECTORS[i]
                              /\ ctx.selectorIndex = selector_t[i]

(* p is expected, after s more words. *)
Expecting(p, s) == ctx.next_param = p /\ ctx.skip = s

CursorDeposit == Expecting("NONE", 0)

CursorAmountAndMin ==
  \/ pos = 0 /\ Expecting("AMOUNT_SENT", 0)
  \/ pos = 1 /\ Expecting("MIN_AMOUNT_RECEIVED", 0)
  \/ pos >= 2 /\ Expecting("NONE", 0)

CursorMint ==
  \/ pos = 0 /\ Expecting("TOKEN_SENT", 0)
  \/ pos = 1 /\ Expecting("AMOUNT_SENT", 0)
  \/ pos = 2 /\ Expecting("MIN_AMOUNT_RECEIVED", 0)
  \/ pos >= 3 /\ Expecting("NONE", 0)

CursorPool ==
  \/ pos = 0 /\ Expecting("TOKEN_SENT", 0)
  \/ pos = 1 /\ Expecting("TOKEN_RECEIVED", 0)
  \/ pos = 2 /\ Expecting("AMOUNT_SENT", 0)
  \/ pos = 3 /\ Expecting("MIN_AMOUNT_RECEIVED", 0)
  \/ pos >= 4 /\ Expecting("NONE", 0)

(* A route of m addresses is read up to the null that ends it. *)
CursorRouter(m) ==
  \/ pos = 0 /\ Expecting("TOKEN_SENT", 0) /\ ctx.counter = 0
  \/ pos \in 1..m /\ Expecting("TOKEN_RECEIVED", 0) /\ ctx.counter = pos - 1
  \/ pos \in (m + 1)..21 /\ Expecting("AMOUNT_SENT", 21 - pos) /\ ctx.counter = 0
  \/ pos = 22 /\ Expecting("MIN_AMOUNT_RECEIVED", 0) /\ ctx.counter = 0
  \/ pos >= 23 /\ Expecting("NONE", 0) /\ ctx.counter = 0

(* The word the last token of the path starts in, and the cursor when the  *)
(* plugin takes it to be word k of a path of n bytes.                      *)
TokenWord(t) == PathWord + TailWord(PathBytes(t))

CursorPath(k, n) ==
  /\ \/ pos \in 0..2 /\ Expecting("BENEFICIARY", 2 - pos)
     \/ pos \in 3..4 /\ Expecting("AMOUNT_SENT", 4 - pos)
     \/ pos = 5 /\ Expecting("MIN_AMOUNT_RECEIVED", 0)
     \/ pos = 6 /\ Expecting("PATH_LENGTH", 0)
     \/ pos = 7 /\ Expecting("TOKEN_SENT", 0)
     \/ pos \in 8..(k - 1) /\ Expecting("TOKEN_RECEIVED", k - 1 - pos)
     \/ pos = k /\ Expecting("TOKEN_RECEIVED_REST", 0)
     \/ pos > k /\ Expecting("NONE", 0)
  /\ pos >= PathLengthWord => ctx.offset = n

CursorSingle ==
  \/ pos = 0 /\ Expecting("TOKEN_SENT", 0)
  \/ pos = 1 /\ Expecting("TOKEN_RECEIVED", 0)
  \/ pos \in 2..3 /\ Expecting("BENEFICIARY", 3 - pos)
  \/ pos \in 4..5 /\ Expecting("AMOUNT_SENT", 5 - pos)
  \/ pos = 6 /\ Expecting("MIN_AMOUNT_RECEIVED", 0)
  \/ pos >= 7 /\ Expecting("NONE", 0)

CursorFlipper ==
  \/ pos = 0 /\ Expecting("AMOUNT_SENT", 0)
  \/ pos >= 1 /\ Expecting("NONE", 0)

CursorWrap ==
  \/ pos = 0 /\ Expecting("AMOUNT_SENT", 0)
  \/ pos = 1 /\ Expecting("BENEFICIARY", 0)
  \/ pos >= 2 /\ Expecting("NONE", 0)

(* Where the position alone decides, whatever the words are.               *)
FixedCursor ==
  /\ tx.selector = ZAPPER_DEPOSIT_ETH_SELECTOR => CursorDeposit
  /\ tx.selector \in {ZAPPER_DEPOSIT_SFRXETH_SELECTOR, VAULT_REDEEM_SELECTOR}
       => CursorAmountAndMin
  /\ tx.selector = VAULT_MINT_SELECTOR => CursorMint
  /\ tx.selector \in PoolSelectors => CursorPool
  /\ tx.selector = UNISWAP_ROUTER_EXACT_INPUT_SINGLE_SELECTOR => CursorSingle
  /\ tx.selector \in FlipperSelectors => CursorFlipper
  /\ tx.selector \in WrapSelectors => CursorWrap

Cursor ==
  /\ FixedCursor
  /\ tx.selector = CURVE_ROUTER_EXCHANGE_MULTIPLE_SELECTOR
       => CursorRouter(RouteLength(tx))
  /\ tx.selector = UNISWAP_ROUTER_EXACT_INPUT_SELECTOR
       => CursorPath(TokenWord(tx), PathBytes(tx))

(* The token sent is read from the first word, or from that of the path.   *)
SentWord(s) == IF s = UNISWAP_ROUTER_EXACT_INPUT_SELECTOR THEN PathWord ELSE 1

SentSoFar ==
  ctx.contract_address_sent =
    IF pos >= SentWord(tx.selector) THEN SentOf(tx) ELSE NULL

(* The token received: each address of a route in turn, a path's in one or *)
(* two pieces, the second word otherwise.                                  *)
ReceivedSoFar ==
  ctx.contract_address_received =
    CASE tx.selector = CURVE_ROUTER_EXCHANGE_MULTIPLE_SELECTOR ->
           IF pos < 2 THEN NULL
           ELSE IF pos <= RouteLength(tx) THEN tx.words[pos].addr
           ELSE ReceivedOf(tx)
      [] tx.selector = UNISWAP_ROUTER_EXACT_INPUT_SELECTOR ->
           IF pos < TokenWord(tx) THEN NULL
           ELSE IF pos = TokenWord(tx) /\ Straddles(PathBytes(tx)) THEN GARBLED
           ELSE ReceivedOf(tx)
      [] OTHER -> IF pos < 2 THEN NULL ELSE ReceivedOf(tx)

(* No parameter handler writes to these, nor reads them; and only a route  *)
(* is counted.                                                             *)
Unwritten ==
  /\ ctx.ticker_sent = "" /\ ctx.ticker_received = ""
  /\ ctx.decimals_sent = 0 /\ ctx.decimals_received = 0
  /\ ctx.tokens_found = {} /\ ctx.amount_length = 0
  /\ ctx.selectorIndex # "CURVE_ROUTER_EXCHANGE_MULTIPLE" => ctx.counter = 0

ParsedSoFar ==
  /\ FunctionFound /\ Cursor /\ SentSoFar /\ ReceivedSoFar /\ AmountsSoFar

(* exactInput with a path of any length and any words behind it, until a   *)
(* copy runs away.                                                         *)
AnyPathSoFar ==
  ~Overrun => /\ FunctionFound /\ AmountsSoFar /\ SentSoFar
              /\ CursorPath(HeadWord(tx), PathNumber(tx))

(* The router with any words: the null that ends the route may come among  *)
(* the swap parameters, behind the amounts or not at all.  Behind the      *)
(* parameters it is no end of a route any more: the byte skip wraps around *)
(* and leaves the cursor waiting for word 278.                             *)
EndSeen == \E i \in 2..21 : i <= pos /\ tx.words[i].addr = NULL

CursorAnyRoute ==
  \/ pos = 0 /\ Expecting("TOKEN_SENT", 0) /\ ctx.counter = 0
  \/ EndSeen /\ pos \in 2..21 /\ Expecting("AMOUNT_SENT", 21 - pos)
  \/ EndSeen /\ pos = 22 /\ Expecting("MIN_AMOUNT_RECEIVED", 0)
  \/ EndSeen /\ pos >= 23 /\ Expecting("NONE", 0)
  \/ /\ ~EndSeen /\ pos \in 1..(RouteWrap - 1)
     /\ Expecting("TOKEN_RECEIVED", 0) /\ ctx.counter = Uint8(pos - 1)
  \/ /\ ~EndSeen /\ pos \in 22..(RouteWrap - 1)
     /\ Expecting("AMOUNT_SENT", RouteWrap - 1 - pos)
  \/ ~EndSeen /\ pos >= RouteWrap

AnyCursor ==
  /\ FixedCursor
  /\ tx.selector = CURVE_ROUTER_EXCHANGE_MULTIPLE_SELECTOR => CursorAnyRoute
  /\ tx.selector = UNISWAP_ROUTER_EXACT_INPUT_SELECTOR
       => CursorPath(HeadWord(tx), PathNumber(tx))

(* Any calldata at all: cut short, longer than its function, malformed, or *)
(* sent to another contract; until a copy runs away.                       *)
AnySoFar == ~Overrun => FunctionFound /\ AnyCursor /\ AmountsInPlace

IInv ==
  /\ TypeOK
  /\ Accepted /\ Supported(tx) => ParsedSoFar
  /\ Accepted /\ tx.selector = UNISWAP_ROUTER_EXACT_INPUT_SELECTOR => AnyPathSoFar

===============================================================================
