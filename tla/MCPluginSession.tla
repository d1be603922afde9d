--------------------------- MODULE MCPluginSession ---------------------------
(***************************************************************************)
(* Instance of PluginSession: for every group of functions a call the      *)
(* parser decodes, the recipient being the sender or not, tokens the list  *)
(* knows or not, one amount that cannot be printed; calls that lack words  *)
(* at each place where the parser may be left, or have one too many; and   *)
(* calls outside what the parser decodes: routes that never end, paths of  *)
(* a wrong length, contracts that are not Origin's.                        *)
(***************************************************************************)
EXTENDS PluginSession, Calls

MCTicker == SourceTickers \cup {"TKA"}
MCTokenInfo == {[found |-> TRUE, ticker |-> "TKA", decimals |-> 8]}
MCUnprintable == {Huge} \X [ticker : MCTicker, decimals : {6, 8, 18}]

Sound ==
  {DepositCall(Num(5), 1), DepositSfrxethCall,
   MintCall(OETH_VAULT, "TOKEN_A"), MintCall(OUSD_VAULT, USDC),
   RedeemCall(OETH_VAULT, Amount), RedeemCall(OUSD_VAULT, Huge),
   FlipperCall(FLIPPER_BUY_OUSD_WITH_USDC_SELECTOR),
   FlipperCall(FLIPPER_SELL_OUSD_FOR_DAI_SELECTOR),
   WrapCall(WOETH, "SENDER"), Extended(WrapCall(WOUSD, "FRIEND")),
   UnwrapCall(WOETH, "FRIEND"), OethPoolCall(0, 1), OusdPoolCall(2, 0),
   RouteCall(3, "TOKEN_A", "TOKEN_B", Least, 0),
   RouteCall(5, OETH, "TOKEN_A", Huge, 0), PathCall(2, OETH, "TOKEN_B", "FRIEND"),
   PathCall(3, "TOKEN_B", USDT, "SENDER"),
   SingleCall("TOKEN_A", "TOKEN_B", "FRIEND")}

Truncated ==
  {CutShort(MintCall(OETH_VAULT, DAI), 1), CutShort(WrapCall(WOETH, "FRIEND"), 1),
   CutShort(FlipperCall(FLIPPER_BUY_OUSD_WITH_USDT_SELECTOR), 0),
   CutShort(OusdPoolCall(3, 1), 3),
   CutShort(RouteCall(3, OETH, USDT, Least, 0), 2),
   CutShort(RouteCall(3, OETH, USDT, Least, 0), 22),
   CutShort(PathCall(2, OETH, USDT, "FRIEND"), 5),
   CutShort(SingleCall(OETH, USDT, "FRIEND"), 6)}

Unsound ==
  {RouteCall(9, OETH, "TOKEN_B", Least, 0), PathCall(1, OETH, "TOKEN_B", "FRIEND"),
   PoolCall("POOL_A", CURVE_POOL_EXCHANGE_SELECTOR, 0, 1),
   Extended(PathCall(3, OETH, "TOKEN_B", "FRIEND")),
   Call(OETH_VAULT, "0x00000000", << Amount >>)}

(* A route whose swap parameters are not null either, given n words; its   *)
(* first null is word k.                                                   *)
OpenRoute(n, k) ==
  Call(CURVE_ROUTER, CURVE_ROUTER_EXCHANGE_MULTIPLE_SELECTOR,
       [i \in 1..n |-> IF i = k THEN Num(0) ELSE Num(i)])

(* A path that says it is n bytes long.                                    *)
PathOfLength(hops, n) ==
  [PathCall(hops, OETH, "TOKEN_B", "FRIEND") EXCEPT !.words[PathLengthWord] = Num(n)]

(* Calldata past the place where the byte skip comes round: routes without *)
(* an end, the longest path within reach of it (Parser!MaxHops), a longer  *)
(* one that loses its last token (360 hops), and two whose second copy     *)
(* runs away, the one for its length and the other for what it says it is. *)
MCLongCalldata ==
  {OpenRoute(25, 22), OpenRoute(25, 0), OpenRoute(280, 25), OpenRoute(280, 277),
   OpenRoute(280, 0), RouteCall(9, OETH, "TOKEN_B", Least, 0),
   PathCall(357, OETH, "TOKEN_B", "FRIEND"),
   PathCall(358, OETH, "TOKEN_B", "FRIEND"),
   PathCall(360, OETH, "TOKEN_B", "FRIEND"), PathOfLength(357, 5)}

Foreign ==
  {Call("POOL_A", VAULT_MINT_SELECTOR, << Addr(USDC), Amount, Least >>),
   Call("POOL_A", ZAPPER_DEPOSIT_ETH_SELECTOR, << Amount, Least >>),
   Call("POOL_A", FLIPPER_BUY_OUSD_WITH_DAI_SELECTOR, << Amount, Least >>)}

(* A coin the pool does not have. *)
UnknownCoin == {OusdPoolCall(0, 4), OethPoolCall(1, 0)}

MCTransactions ==
  Sound \cup Truncated \cup Unsound \cup UnknownCoin \cup Foreign
  \cup {OpenRoute(23, 22), PathOfLength(1, 0), PathOfLength(1, 52)}

(* One call per shape of review, for the liveness properties: one screen,  *)
(* two without and with a token lookup, three to five with warnings and a  *)
(* recipient, one that cannot be printed, one cut short, one not decoded.  *)
MCFewTransactions ==
  {DepositCall(Num(5), 1), WrapCall(WOETH, "SENDER"), UnwrapCall(WOETH, "FRIEND"),
   RedeemCall(OETH_VAULT, Huge), OethPoolCall(0, 1),
   PathCall(2, OETH, "TOKEN_B", "FRIEND"), SingleCall("TOKEN_A", "TOKEN_B", "FRIEND"),
   CutShort(SingleCall(OETH, USDT, "FRIEND"), 6),
   RouteCall(9, OETH, "TOKEN_B", Least, 0),
   Call(OETH_VAULT, "0x00000000", << Amount >>)}

===============================================================================
