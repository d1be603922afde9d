---------------------------- MODULE MCParamParser ----------------------------
(***************************************************************************)
(* Instance of ParamParser: at least one transaction of every deployed     *)
(* (contract, function) pair, every coin pair of the two pools, routes and *)
(* paths of every shape the parser distinguishes, words after the last     *)
(* argument, and transactions the plugin does not support.                 *)
(***************************************************************************)
EXTENDS ParamParser, Calls

WithMore(calls) == calls \cup {Extended(t) : t \in calls}

Plain ==
  WithMore(
    {DepositCall(Num(5), 1), DepositSfrxethCall}
    \cup {MintCall(v, a) : v \in {OETH_VAULT, OUSD_VAULT}, a \in {DAI, "TOKEN_A"}}
    \cup {RedeemCall(v, Amount) : v \in {OETH_VAULT, OUSD_VAULT}}
    \cup {FlipperCall(s) : s \in FlipperSelectors}
    \cup {WrapCall(v, "FRIEND") : v \in {WOETH, WOUSD}}
    \cup {UnwrapCall(v, "FRIEND") : v \in {WOETH, WOUSD}}
    \cup {SingleCall(OUSD, "TOKEN_A", "FRIEND")})

Exchanges ==
  WithMore({OethPoolCall(1, 0)}) \cup {OethPoolCall(0, 1)}
  \cup {OusdPoolCall(ij[1], ij[2]) : ij \in {p \in (0..3) \X (0..3) : p[1] # p[2]}}

Routes == WithMore({RouteCall(m, OETH, "TOKEN_B", Least, 0) : m \in {3, 5, 7}})
          \cup {RouteCall(9, OETH, "TOKEN_B", Least, index) : index \in 0..1}

Path(hops) == PathCall(hops, OETH, "TOKEN_B", "FRIEND")
Paths == {Path(h) : h \in 1..6 \cup {358, 360}} \cup WithMore({Path(2), Path(3)})

(* A selector the plugin does not know, and a pool it does not know. *)
Unsupported ==
  {Call(OETH_VAULT, "0x00000000", << Amount >>),
   PoolCall("POOL_A", CURVE_POOL_EXCHANGE_SELECTOR, 0, 1)}

MCTransactions == Plain \cup Exchanges \cup Routes \cup Paths \cup Unsupported

===============================================================================
