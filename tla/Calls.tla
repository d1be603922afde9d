-------------------------------- MODULE Calls --------------------------------
(***************************************************************************)
(* Transactions for the instances that TLC checks: words, and one operator *)
(* per shape of calldata the plugin distinguishes.                         *)
(***************************************************************************)
EXTENDS Abi, PluginContext

CallAddress == {"SENDER", "FRIEND", "TOKEN_A", "TOKEN_B", "POOL_A", "NUMBER"}
MCAddress ==
  {NULL, GARBLED, OETH_VAULT, CURVE_OETH_POOL, CURVE_OUSD_POOL, WOETH,
   OETH_ZAPPER, CURVE_ROUTER, OUSD_VAULT, OUSD_FLIPPER, UNISWAP_ROUTER, WOUSD}
    \cup KnownTokens \cup CallAddress

(* Words: an address, or a number (its low 20 bytes are null if it is 0). *)
Addr(a) == [addr |-> a, num |-> 1]
Num(n) == [addr |-> IF n = 0 THEN NULL ELSE "NUMBER", num |-> n]

Amount == Num(1001)
Least == Num(1002)
More == Num(1003)       \* a word after the last argument
Huge == Num(65535)      \* stands for 2^256 - 1, "unlimited"

Call(to, selector, words) ==
  [from |-> "SENDER", to |-> to, selector |-> selector, words |-> words,
   path |-> << >>, value |-> Num(5), value_length |-> 1]

DepositCall(value, value_length) ==
  [Call(OETH_ZAPPER, ZAPPER_DEPOSIT_ETH_SELECTOR, << >>)
     EXCEPT !.value = value, !.value_length = value_length]
DepositSfrxethCall ==
  Call(OETH_ZAPPER, ZAPPER_DEPOSIT_SFRXETH_SELECTOR, << Amount, Least >>)
MintCall(vault, asset) ==
  Call(vault, VAULT_MINT_SELECTOR, << Addr(asset), Amount, Least >>)
RedeemCall(vault, amount) == Call(vault, VAULT_REDEEM_SELECTOR, << amount, Least >>)
FlipperCall(selector) == Call(OUSD_FLIPPER, selector, << Amount >>)
WrapCall(vault, to) == Call(vault, WRAP_SELECTOR, << Amount, Addr(to) >>)
UnwrapCall(vault, to) ==
  Call(vault, UNWRAP_SELECTOR, << Amount, Addr(to), Addr("SENDER") >>)

PoolCall(pool, selector, i, j) ==
  Call(pool, selector, << Num(i), Num(j), Amount, Least >>)
OethPoolCall(i, j) == PoolCall(CURVE_OETH_POOL, CURVE_POOL_EXCHANGE_SELECTOR, i, j)
OusdPoolCall(i, j) ==
  PoolCall(CURVE_OUSD_POOL, CURVE_POOL_EXCHANGE_UNDERLYING_SELECTOR, i, j)

(* exchange_multiple with a route of m addresses between two tokens; the   *)
(* first swap parameter of each hop is a coin index (0 or 1).              *)
RouteCall(m, sent, received, least, index) ==
  Call(CURVE_ROUTER, CURVE_ROUTER_EXCHANGE_MULTIPLE_SELECTOR,
       [k \in 1..23 |->
          CASE k <= 9 -> IF k > m THEN Num(0)
                         ELSE IF k = 1 THEN Addr(sent)
                         ELSE IF k = m THEN Addr(received)
                         ELSE IF k % 2 = 0 THEN Addr("POOL_A") ELSE Addr("TOKEN_A")
            [] k \in 10..21 -> Num((k + index) % 2)
            [] k = 22 -> Amount
            [] k = 23 -> least])

(* exactInput with a path of the given number of hops between two tokens. *)
PathCall(hops, sent, received, recipient) ==
  LET n == ADDRESS_LENGTH + HopLength * hops
  IN  [Call(UNISWAP_ROUTER, UNISWAP_ROUTER_EXACT_INPUT_SELECTOR,
            << Num(32), Num(160), Addr(recipient), Num(9), Amount, Least, Num(n) >>
              \o [k \in 1..((n + 31) \div 32) |-> Addr(GARBLED)])
       EXCEPT !.path = [k \in 1..(hops + 1) |->
                          IF k = 1 THEN sent
                          ELSE IF k = hops + 1 THEN received ELSE "TOKEN_A"]]

SingleCall(sent, received, recipient) ==
  Call(UNISWAP_ROUTER, UNISWAP_ROUTER_EXACT_INPUT_SINGLE_SELECTOR,
       << Addr(sent), Addr(received), Num(500), Addr(recipient), Num(9), Amount,
          Least, Num(0) >>)

(* What a runaway copy may leave behind the token received: bytes of the   *)
(* calldata, and with them another function and half-set flags.            *)
MCGarbage ==
  {[ZeroContext EXCEPT !.beneficiary = GARBLED, !.ticker_sent = "UNITS",
                       !.tokens_found = {SENT}, !.decimals_sent = 255,
                       !.skip = 1, !.amount_length = 7, !.counter = 255,
                       !.offset = 65535, !.selectorIndex = index] :
     index \in {"WRAP", "VAULT_REDEEM"}}

(* The same call followed by one more word; and only its first n words.    *)
Extended(t) == [t EXCEPT !.words = Append(@, More)]
CutShort(t, n) == [t EXCEPT !.words = SubSeq(@, 1, n)]

===============================================================================
