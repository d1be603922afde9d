---------------------------- MODULE PluginSession ----------------------------
(***************************************************************************)
(* The plugin as main.c runs it: one message of the Ethereum application   *)
(* at a time, dispatched to the parser or to the review screens, which     *)
(* meet in the context only.  Sessions follow one another in the same      *)
(* memory, and any of them may be dropped between two messages.            *)
(*                                                                         *)
(* External: the application, which begins, feeds words until the calldata *)
(* is over (as the contract wants it, shorter or longer), asks for the     *)
(* screens next to the one on display, and stops at a result that is not   *)
(* OK; and the user, who pages to the next or the previous screen and can  *)
(* sign or reject after the last one.                                      *)
(***************************************************************************)
EXTENDS Review, FiniteSets

CONSTANTS Transactions, Garbage, TokenInfo, Unprintable

ASSUME SessionTransactionsAssumption == Transactions \subseteq TransactionType
ASSUME SessionGarbageAssumption == Garbage \subseteq ContextType
ASSUME SessionTokenInfoAssumption == TokenInfo \subseteq Item

VARIABLES
  screens, lookup, items, shown,    \* of ReviewScreens
  page,      \* what is on display: a screen, ID before, the prompt after them
  outcome    \* how the last session ended

shared == << tx, stage, pos, ctx, result >>
messages == << screens, lookup, items, shown >>
vars == << shared, messages, page, outcome >>

Whole == {t \in Transactions : WellFormed(t)}

Parser == INSTANCE ParamParser WITH Transactions <- Whole
Screens == INSTANCE ReviewScreens
             WITH Transactions <- {t \in Whole : << t.to, t.selector >> \in Deployed}

OUTSIDE == Screens!ID - 1       \* nothing on display yet
Prompt == screens               \* past the last screen: sign or reject
Pages == OUTSIDE..Screens!MaxScreens

Outcomes == {"none", "signed", "rejected", "refused", "dropped"}

---------------------------------------------------------------------------
(* Messages, as dispatch_plugin_calls hands them to their handlers. *)

(* A new session: the application's side of every message starts afresh.   *)
init_contract ==
  /\ \E t \in Transactions : Parser!handle_init_contract(t)
  /\ outcome' = "none"
  /\ UNCHANGED << messages, page >>

provide_parameter ==
  /\ Parser!handle_provide_parameter
  /\ UNCHANGED << messages, page, outcome >>

finalize == Screens!handle_finalize /\ UNCHANGED << page, outcome >>

provide_info ==
  /\ \E item1, item2 \in TokenInfo \cup {NullItem} :
       Screens!handle_provide_token(item1, item2)
  /\ UNCHANGED << page, outcome >>

query_contract_id == Screens!handle_query_contract_id

query_contract_ui(i) == Screens!handle_query_contract_ui(i)

---------------------------------------------------------------------------
(* The user turns to page p; the application asks for what is on it. *)

turn_to(p) ==
  /\ stage = "review" /\ result = "OK"
  /\ page' = p
  /\ \/ p = Screens!ID /\ query_contract_id
     \/ p \in 0..(screens - 1) /\ query_contract_ui(p)
     \/ p = Prompt /\ UNCHANGED << shared, messages >>
  /\ UNCHANGED outcome

page_forward == page < Prompt /\ turn_to(page + 1)
page_back == page > Screens!ID /\ turn_to(page - 1)

end(how) ==
  /\ stage' = "idle" /\ page' = OUTSIDE /\ outcome' = how
  /\ screens' = 0 /\ lookup' = {}
  /\ items' = Screens!NoItems /\ shown' = Screens!NothingShown
  /\ UNCHANGED << tx, pos, ctx, result >>

decide ==
  /\ stage = "review" /\ result = "OK" /\ page = Prompt
  /\ end("signed") \/ end("rejected")

refuse == stage # "idle" /\ result # "OK" /\ end("refused")

(* The cable, or the host.  The plugin is not told. *)
drop == stage # "idle" /\ end("dropped")

Init ==
  /\ tx \in Transactions
  /\ stage = "idle" /\ pos = 0 /\ ctx = ZeroContext /\ result = "OK"
  /\ screens = 0 /\ lookup = {}
  /\ items = Screens!NoItems /\ shown = Screens!NothingShown
  /\ page = OUTSIDE /\ outcome = "none"

Next ==
  \/ init_contract
  \/ provide_parameter
  \/ finalize
  \/ provide_info
  \/ page_forward
  \/ page_back
  \/ decide
  \/ refuse
  \/ drop

(* The application goes on by itself: there is always a next message while *)
(* it has words, tokens or a refusal to deal with (if the host is gone,    *)
(* the session is dropped).  The user goes on too: turns back from a page  *)
(* now and then but not every time, and decides in the end.                *)
application == provide_parameter \/ finalize \/ provide_info \/ refuse

Fairness ==
  /\ WF_vars(application)
  /\ \A p \in Pages : SF_vars(page = p /\ page_forward)
  /\ SF_vars(decide)

Spec == Init /\ [][Next]_vars /\ Fairness

---------------------------------------------------------------------------
(* Properties. *)

(* Types of all that a session keeps, across both components.              *)
TypeOK ==
  /\ tx \in Transactions
  /\ stage \in Screens!ReviewStages
  /\ pos \in 0..Len(tx.words)
  /\ ctx \in ContextType
  /\ result \in Result
  /\ screens \in 0..Screens!MaxScreens
  /\ lookup \in SUBSET {SENT, RECEIVED}
  /\ items \in [{SENT, RECEIVED} -> Item]
  /\ shown \in [Screens!ID..(Screens!MaxScreens - 1) -> Screens!Displays]
  /\ page \in Pages
  /\ outcome \in Outcomes

(* What ReviewScreens assumes of the context (ParsedContext) is what the   *)
(* parser hands over, to the last field: those no parameter handler writes *)
(* (tickers, decimals, found flags, amount_length) are zero although the   *)
(* screens of an earlier session wrote to all of them.  Only what a path   *)
(* leaves of the cursor (offset, and the second copy its token may not     *)
(* need) is different, and no later handler reads it.                      *)
HandedOver ==
  /\ stage = "parsing" /\ result = "OK" /\ pos = Len(tx.words)
  /\ Parser!Supported(tx)
  => [ctx EXCEPT !.offset = 0, !.next_param = "NONE"] = Screens!ParsedContext(tx)

(* What was handed over of the two amounts; a deposit has the value of the *)
(* transaction, a flipper gives what it takes.                             *)
SpentRead == IF tx.selector = ZAPPER_DEPOSIT_ETH_SELECTOR
               THEN tx.value ELSE Parser!ReadWord(AmountWord(tx.selector))
AtLeastRead ==
  IF tx.selector \in {ZAPPER_DEPOSIT_ETH_SELECTOR} \cup FlipperSelectors
    THEN SpentRead ELSE Parser!ReadWord(MinWord(tx.selector))

(* Any calldata whose selector is known is accepted, for the two pool      *)
(* functions if it goes to one of the pools: cut short (as handle_finalize *)
(* does not look at next_param), too long, malformed, or sent to a         *)
(* contract that is not Origin's.  Whatever it is, an amount or recipient  *)
(* on a screen is the argument's own word or, if that was not handed over, *)
(* zero: never a leftover of an earlier session and never the word of      *)
(* another argument.  There are two exceptions: a route that never ends,   *)
(* with words enough to take the skip once around its byte, and a path     *)
(* whose last token ends before its word, with a word behind that one,     *)
(* which is copied over the recipient and the function's index.            *)
ToldAsHandedOver ==
  stage = "review" =>
    \/ Parser!RouteLost(tx) /\ pos >= Parser!RouteWrap
    \/ Parser!Overrun
    \/ \A i \in Screens!ID..(Screens!MaxScreens - 1) :
         /\ shown[i].screen = "SEND_SCREEN" => shown[i].amount = SpentRead
         /\ shown[i].screen = "RECEIVE_SCREEN" => shown[i].amount = AtLeastRead
         /\ shown[i].screen = "BENEFICIARY_SCREEN" =>
              shown[i].address = Parser!ReadWord(RecipientWord(tx.selector)).addr

(* The transactions the review is to be trusted for: those the parser      *)
(* decodes, without depositSFRXETH (see ReviewScreens.SfrxethBuysOeth).    *)
Trusted == {t \in Whole : /\ Parser!Supported(t)
                          /\ t.selector # ZAPPER_DEPOSIT_SFRXETH_SELECTOR}

Printable(t) == \A entry \in Unprintable : entry[1] \notin {Spent(t), AtLeast(t)}

(* A trusted transaction with printable amounts that was accepted is not   *)
(* refused by any later message, neither by a word of it nor by a page the *)
(* user turns to, forward or back.                                         *)
AcceptedStays ==
  [][stage # "idle" /\ result = "OK" /\ tx \in Trusted /\ Printable(tx)
       => result' = "OK"]_vars

(* So it comes, word by word and page by page, to the prompt, unless it is *)
(* dropped.                                                                *)
ComesToPrompt ==
  (/\ stage = "parsing" /\ result = "OK" /\ tx \in Trusted /\ Printable(tx))
    ~> (stage = "review" /\ page = Prompt) \/ outcome = "dropped"

(* The code implements InformedReview: what is told, at each page in turn, *)
(* is the review of the transaction that ABI and token list prescribe;     *)
(* paging back tells nothing new; and nothing is signed before all was     *)
(* told.                                                                   *)
Reviewing == stage = "review" /\ tx \in Trusted
Told == Cardinality({i \in 0..(screens - 1) : shown[i] # Screens!Blank})

PossibleReviews(t) ==
  {ReviewOf(t, item1, item2) : item1, item2 \in TokenInfo \cup {NullItem}}

Informed == INSTANCE InformedReview WITH
  Reviews <- PossibleReviews,
  phase <- CASE stage = "idle" -> "idle"
             [] stage = "review" -> "reviewing"
             [] OTHER -> "reading",
  agenda <- IF Reviewing THEN Screens!Expected ELSE << >>,
  told <- IF Reviewing THEN [i \in 1..Told |-> shown[i - 1]] ELSE << >>

ImplementsInformedReview == Informed!Spec

(* Of this, what no fairness is needed for: every step of a session is one *)
(* of InformedReview or none.                                              *)
InformedStepByStep == Informed!Init /\ [][Informed!Next]_(Informed!vars)

(* "Param not supported" (handle_provide_parameter.c:22): a pool exchange  *)
(* whose coin is not one of the pool's is not supported, and not reviewed. *)
UnknownCoinRefused ==
  /\ stage = "review"
  /\ tx.selector \in PoolSelectors /\ tx.to \in Pools
  => \A k \in 1..2 : Len(tx.words) >= k =>
       tx.words[k].num < Len(PoolCoins(tx.to))

---------------------------------------------------------------------------
(* The inductive invariant: what each component left for the next message. *)

(* What the parser left: the amounts, for any transaction; the whole       *)
(* context, for one it decodes.                                            *)
Parsing == /\ Parser!AnySoFar
           /\ ~Parser!Overrun => Parser!Unwritten
           /\ Parser!Supported(tx) => Parser!ParsedSoFar

(* The application's side: nothing is left of an earlier session, and      *)
(* nothing is displayed, counted or looked up before its time.             *)
NothingYet ==
  /\ stage # "review" => shown = Screens!NothingShown /\ page = OUTSIDE
  /\ stage \in {"idle", "parsing"} =>
       screens = 0 /\ lookup = {} /\ items = Screens!NoItems
  /\ stage = "lookup" => screens <= 3 /\ result = "OK"

(* Pages are seen in order: what was shown is a prefix of the screens, and *)
(* unless the last query failed it reaches to the page on display.         *)
SeenInOrder ==
  /\ \A i \in 1..(screens - 1) :
       shown[i] # Screens!Blank => shown[i - 1] # Screens!Blank
  /\ stage = "review" /\ result = "OK" =>
       /\ page <= Prompt
       /\ \A i \in 0..(screens - 1) : i <= page => shown[i] # Screens!Blank

IInv ==
  /\ TypeOK /\ NothingYet /\ SeenInOrder /\ ToldAsHandedOver
  /\ stage = "parsing" /\ result = "OK" => Parsing
  /\ stage \in {"lookup", "review"} =>
       /\ ~Parser!Overrun => Parser!FunctionFound /\ Parser!AmountsInPlace
       /\ Parser!Supported(tx) => Screens!InReview

===============================================================================
