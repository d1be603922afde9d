--------------------------- MODULE MCReviewScreens ---------------------------
(***************************************************************************)
(* Instance of ReviewScreens: every deployed function, with known, unknown *)
(* and network tokens on both sides, the sender and somebody else as the   *)
(* recipient, printable amounts and one too long for the message buffer,   *)
(* and a token list that knows two tokens or nothing.                      *)
(***************************************************************************)
EXTENDS ReviewScreens, Calls

MCTicker == SourceTickers \cup {"TKA", "TKB"}
MCTokenInfo == {[found |-> TRUE, ticker |-> "TKA", decimals |-> 8],
                [found |-> TRUE, ticker |-> "TKB", decimals |-> 18]}
MCUnprintable == {Huge} \X [ticker : MCTicker, decimals : {6, 8, 18}]

EtherAddress == MCAddress \cup {ETHER_PLACEHOLDER}

Recipients == {"SENDER", "FRIEND"}
Vaults == {OETH_VAULT, OUSD_VAULT}
Wrappers == {WOETH, WOUSD}

Fixed ==
  {DepositCall(Num(5), 1), DepositCall(Num(0), 0), DepositSfrxethCall}
  \cup {RedeemCall(v, n) : v \in Vaults, n \in {Amount, Huge}}
  \cup {FlipperCall(s) : s \in FlipperSelectors}
  \cup {WrapCall(v, r) : v \in Wrappers, r \in Recipients}
  \cup {UnwrapCall(v, r) : v \in Wrappers, r \in Recipients}

Mints == {MintCall(v, a) : v \in Vaults, a \in {DAI, USDC, "TOKEN_A"}}

Exchanges ==
  {OethPoolCall(i, 1 - i) : i \in 0..1}
  \cup {OusdPoolCall(ij[1], ij[2]) : ij \in {p \in (0..3) \X (0..3) : p[1] # p[2]}}

Tokens == {OETH, USDT, "TOKEN_A", "TOKEN_B"}
Pairs == {p \in Tokens \X Tokens : p[1] # p[2]}
Routes == {RouteCall(3, p[1], p[2], least, 0) : p \in Pairs, least \in {Least, Huge}}
Swaps == {PathCall(2, p[1], p[2], r) : p \in Pairs, r \in Recipients}
         \cup {SingleCall(p[1], p[2], r) : p \in Pairs, r \in Recipients}

MCTransactions == Fixed \cup Mints \cup Exchanges \cup Routes \cup Swaps

(* Routes from and to ether, as tests/src/curve_router_exchange_multiple   *)
(* .test.js writes it.                                                     *)
EtherRoutes == {RouteCall(3, ETHER_PLACEHOLDER, OETH, Least, 0),
                RouteCall(3, OETH, ETHER_PLACEHOLDER, Least, 0)}

===============================================================================
