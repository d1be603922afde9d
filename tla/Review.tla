-------------------------------- MODULE Review --------------------------------
(***************************************************************************)
(* The reference the review screens are compared with: what a user is to   *)
(* be told of a transaction before signing it.  Tokens that are arguments  *)
(* of the function are looked up; the others follow from the function and  *)
(* its contract, as the signatures in main.c and the titles of the tests   *)
(* name them.  Nothing here is code of the plugin.                         *)
(***************************************************************************)
EXTENDS Abi, PluginContext

CONSTANT network_ticker       \* "ETH" on Ethereum
ASSUME NetworkTickerAssumption == network_ticker \in Ticker

(* What the application's token list (CAL) answers to a lookup: a token,   *)
(* or the null pointer.                                                    *)
Item == [found : BOOLEAN, ticker : Ticker, decimals : uint8_t]
NullItem == [found |-> FALSE, ticker |-> "", decimals |-> 0]

ETHER_DECIMALS == 18

Token(ticker, decimals) == [ticker |-> ticker, decimals |-> decimals]
Unknown == Token("", ETHER_DECIMALS)

NamedToken(a) == Token(a, IF a \in {USDC, USDT} THEN 6 ELSE ETHER_DECIMALS)

TokenAt(a, item) ==
  CASE a = NULL -> Token(network_ticker, ETHER_DECIMALS)
    [] a \in KnownTokens -> NamedToken(a)
    [] a \notin KnownTokens \cup {NULL} /\ item.found
         -> Token(item.ticker, item.decimals)
    [] OTHER -> Unknown

IsUnknown(a, item) == a \notin KnownTokens \cup {NULL} /\ ~item.found

(* Tokens the contract, not an argument, decides on. *)
VaultToken(vault) ==
  Token(IF vault = OETH_VAULT THEN OETH ELSE OUSD, ETHER_DECIMALS)
Unwrapped(wrapper) ==
  Token(IF wrapper = WOETH THEN OETH ELSE OUSD, ETHER_DECIMALS)
Wrapped(wrapper) ==
  Token(IF wrapper = WOETH THEN "WOETH" ELSE "WOUSD", ETHER_DECIMALS)

(* The flipper trades one for one: its amounts count OUSD on both sides.   *)
FlipperToken(s) ==
  Token(CASE s \in {FLIPPER_BUY_OUSD_WITH_USDT_SELECTOR,
                    FLIPPER_SELL_OUSD_FOR_USDT_SELECTOR} -> USDT
          [] s \in {FLIPPER_BUY_OUSD_WITH_USDC_SELECTOR,
                    FLIPPER_SELL_OUSD_FOR_USDC_SELECTOR} -> USDC
          [] OTHER -> DAI, ETHER_DECIMALS)
FlipperBuySelectors ==
  {FLIPPER_BUY_OUSD_WITH_USDT_SELECTOR, FLIPPER_BUY_OUSD_WITH_DAI_SELECTOR,
   FLIPPER_BUY_OUSD_WITH_USDC_SELECTOR}

TokenSent(t, item) ==
  CASE t.selector = ZAPPER_DEPOSIT_SFRXETH_SELECTOR
         -> Token("sfrxETH", ETHER_DECIMALS)
    [] t.selector = VAULT_REDEEM_SELECTOR -> VaultToken(t.to)
    [] t.selector \in FlipperBuySelectors -> FlipperToken(t.selector)
    [] t.selector \in FlipperSelectors \ FlipperBuySelectors -> NamedToken(OUSD)
    [] t.selector = WRAP_SELECTOR -> Unwrapped(t.to)
    [] t.selector = UNWRAP_SELECTOR -> Wrapped(t.to)
    [] OTHER -> TokenAt(SentOf(t), item)

TokenReceived(t, item) ==
  CASE t.selector \in ZapperSelectors -> NamedToken(OETH)
    [] t.selector = VAULT_MINT_SELECTOR -> VaultToken(t.to)
    [] t.selector = VAULT_REDEEM_SELECTOR
         -> Token(IF t.to = OETH_VAULT THEN "LST MIX" ELSE "USD MIX",
                  ETHER_DECIMALS)
    [] t.selector \in FlipperBuySelectors -> NamedToken(OUSD)
    [] t.selector \in FlipperSelectors \ FlipperBuySelectors
         -> FlipperToken(t.selector)
    [] OTHER -> TokenAt(ReceivedOf(t), item)

(* A deposit sends the transaction's value, for as much OETH; a flipper    *)
(* gives as much as it takes.                                              *)
Spent(t) == IF t.selector = ZAPPER_DEPOSIT_ETH_SELECTOR THEN t.value
                                                        ELSE AmountOf(t)
AtLeast(t) == IF t.selector = ZAPPER_DEPOSIT_ETH_SELECTOR
                 \/ t.selector \in FlipperSelectors
                THEN Spent(t) ELSE MinOf(t)

---------------------------------------------------------------------------
(* Screens, and the review: those of one transaction in order.             *)

AmountScreen(kind, amount, token) ==
  [screen |-> kind, amount |-> amount, token |-> token]
Warning == [screen |-> "WARN_SCREEN"]
BeneficiaryScreen(a) == [screen |-> "BENEFICIARY_SCREEN", address |-> a]

Warnings(a, item) == IF IsUnknown(a, item) THEN << Warning >> ELSE << >>

(* An unknown token is warned about right before its amount; a wrap is     *)
(* one for one, so what it gives is not shown; the recipient is shown only *)
(* where the function names one and it is not the sender.                  *)
ReviewOf(t, sent, received) ==
  Warnings(SentOf(t), sent)
  \o << AmountScreen("SEND_SCREEN", Spent(t), TokenSent(t, sent)) >>
  \o (IF t.selector \in WrapSelectors THEN << >>
      ELSE Warnings(ReceivedOf(t), received)
           \o << AmountScreen("RECEIVE_SCREEN", AtLeast(t),
                              TokenReceived(t, received)) >>)
  \o (IF RecipientWord(t.selector) # 0 /\ RecipientOf(t) # t.from
        THEN << BeneficiaryScreen(RecipientOf(t)) >> ELSE << >>)

===============================================================================
