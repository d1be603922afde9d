-------------------------- MODULE ParamParser_proofs --------------------------
(***************************************************************************)
(* Theorems about ParamParser, for every set of well-formed transactions.  *)
(***************************************************************************)
EXTENDS ParamParser, TLAPS

---------------------------------------------------------------------------
(* The selector table. *)

(* A selector of the table is found, at a position that holds it.          *)
LEMMA FoundSelector ==
  ASSUME NEW s, NEW k \in 1..NUM_SELECTORS, ORIGIN_DEFI_SELECTORS[k] = s
  PROVE  /\ find_selector(s) \in 1..NUM_SELECTORS
         /\ ORIGIN_DEFI_SELECTORS[find_selector(s)] = s
<1> DEFINE matches == {i \in 1..NUM_SELECTORS : ORIGIN_DEFI_SELECTORS[i] = s}
<1>1. k \in matches
  OBVIOUS
<1>2. \E i \in matches : \A j \in matches : i <= j
  <2>1. CASE \A i \in matches : \E j \in matches : j < i
    <3>1. \A n \in 0..NUM_SELECTORS : n \notin matches
      BY <2>1 DEF NUM_SELECTORS
    <3> QED BY <1>1, <3>1 DEF NUM_SELECTORS
  <2> QED BY <2>1 DEF NUM_SELECTORS
<1>3. find_selector(s) = CHOOSE i \in matches : \A j \in matches : i <= j
  BY <1>1 DEF find_selector
<1>4. find_selector(s) \in matches
  BY <1>2, <1>3
<1> QED BY <1>4

(* What find_selector does not answer with 0 is in the table.              *)
LEMMA FindSelector ==
  ASSUME NEW s, find_selector(s) # 0
  PROVE  /\ find_selector(s) \in 1..NUM_SELECTORS
         /\ ORIGIN_DEFI_SELECTORS[find_selector(s)] = s
<1>1. PICK k \in 1..NUM_SELECTORS : ORIGIN_DEFI_SELECTORS[k] = s
  BY DEF find_selector
<1> QED BY <1>1, FoundSelector

---------------------------------------------------------------------------
(* Type correctness. *)

(* What the handlers read and write is of its type, whatever the           *)
(* transaction: they do not rely on the calldata being well-formed.        *)
Typed ==
  /\ tx \in TransactionType
  /\ pos \in 0..Len(tx.words)
  /\ ctx \in ContextType
  /\ result \in Result

(* What a transaction is made of.                                          *)
LEMMA TransactionParts ==
  ASSUME NEW t \in TransactionType
  PROVE  /\ t.words \in Seq(Word)
         /\ t.path \in Seq(Address)
         /\ Len(t.words) \in Nat
BY DEF TransactionType

(* TypeOK is Typed, of the transactions and stages of this component.      *)
LEMMA TypedTypeOK == TypeOK <=> Typed /\ tx \in Transactions /\ stage \in Stages
BY TransactionsAssumption DEF TypeOK, Typed, WellFormed

(* What the constants the source names are members of. *)
LEMMA NamedAddresses ==
  /\ NULL \in Address
  /\ GARBLED \in Address
  /\ ZeroWord \in Word
  /\ \A p \in Pools : \A c \in 1..Len(PoolCoins(p)) : PoolCoins(p)[c] \in Address
BY AddressAssumption
   DEF KnownTokens, ZeroWord, Word, uint16_t, Pools, PoolCoins, CURVE_OETH_POOL, CURVE_OUSD_POOL

(* memset leaves a context of the right type.                              *)
LEMMA ZeroContextType == ZeroContext \in ContextType
<1>1. "" \in Ticker
  BY TickerAssumption DEF SourceTickers
<1>2. "ZAPPER_DEPOSIT_ETH" \in SelectorIndex
  BY DEF SelectorIndex, selector_t, NUM_SELECTORS
<1>3. 0 \in uint8_t /\ 0 \in uint16_t /\ {} \in FoundFlags
  BY DEF uint8_t, uint16_t, FoundFlags
<1> QED
  BY <1>1, <1>2, <1>3, NamedAddresses DEF ZeroContext, ContextType, Parameter

(* A read of the packed path is an address, if only a garbled one.         *)
LEMMA PathAddressType ==
  ASSUME NEW t \in TransactionType, NEW b \in Int
  PROVE  PathAddress(t, b) \in Address
<1>1. CASE b % HopLength = 0 /\ b \div HopLength \in 0..(Len(t.path) - 1)
  <2>1. b \div HopLength + 1 \in 1..Len(t.path)
    BY <1>1, TransactionParts
  <2> QED BY <1>1, <2>1, TransactionParts DEF PathAddress
<1>2. CASE ~(b % HopLength = 0 /\ b \div HopLength \in 0..(Len(t.path) - 1))
  BY <1>2, NamedAddresses DEF PathAddress
<1> QED BY <1>1, <1>2

(* handle_init_contract, on each of its five ways out, leaves every field  *)
(* its type.                                                               *)
LEMMA TypeInitContract ==
  ASSUME ctx \in ContextType, NEW t \in TransactionType, handle_init_contract(t)
  PROVE  Typed'
<1>1. tx' \in TransactionType /\ pos' \in 0..Len(tx'.words) /\ result' \in Result
  BY TransactionParts DEF handle_init_contract, Result
<1>2. ctx' \in ContextType
  <2>1. ASSUME find_selector(t.selector) # 0,
               ctx' = [ZeroContext EXCEPT
                         !.selectorIndex = selector_t[find_selector(t.selector)]]
        PROVE  ctx' \in ContextType
    <3>1. selector_t[find_selector(t.selector)] \in SelectorIndex
      BY <2>1, FindSelector DEF SelectorIndex
    <3> QED BY <2>1, <3>1, ZeroContextType DEF ContextType
  <2>2. ASSUME find_selector(t.selector) # 0,
               ctx' = InitialContext(selector_t[find_selector(t.selector)])
        PROVE  ctx' \in ContextType
    <3> DEFINE index == selector_t[find_selector(t.selector)]
    <3>1. index \in SelectorIndex
      BY <2>2, FindSelector DEF SelectorIndex
    <3>2. first_param(index) \in Parameter
      BY DEF first_param, Parameter
    <3>3. first_skip(index) \in uint8_t
      BY DEF first_skip, uint8_t
    <3> QED BY <2>2, <3>1, <3>2, <3>3, ZeroContextType
            DEF ContextType, InitialContext
  <2> QED BY <2>1, <2>2, ZeroContextType DEF handle_init_contract
<1> QED BY <1>1, <1>2 DEF Typed

(* A handler leaves the application's own variables in their types.        *)
LEMMA TypeProvide ==
  ASSUME Typed, Provide
  PROVE  /\ tx \in TransactionType
         /\ tx' = tx
         /\ stage' = stage
         /\ pos \in Nat
         /\ pos' \in 0..Len(tx'.words)
         /\ parameter \in Word
         /\ parameter.addr \in Address
         /\ parameter.num \in uint16_t
<1>1. tx \in TransactionType /\ tx' = tx /\ stage' = stage
      /\ pos \in Nat /\ pos' \in 0..Len(tx'.words) /\ pos + 1 \in 1..Len(tx.words)
  BY TransactionParts DEF Typed, Provide
<1>2. parameter \in Word
  BY <1>1, TransactionParts DEF parameter
<1> QED BY <1>1, <1>2 DEF Word

(* The elements of uint16_t are integers.                                  *)
LEMMA ShortIsInt == \A n \in uint16_t : n \in Int
BY DEF uint16_t

(* Uint8 wraps into a byte.                                                *)
LEMMA Uint8Type ==
  ASSUME NEW n \in Int
  PROVE  Uint8(n) \in uint8_t
BY DEF Uint8, uint8_t

(* The helpers store what they are handed, and keep every field its type.  *)
LEMMA HelperTypes ==
  ASSUME Typed, Provide, NEW c \in ContextType
  PROVE  /\ handle_token_sent(c, parameter) \in ContextType
         /\ handle_token_received(c, parameter) \in ContextType
         /\ handle_amount_sent(c, parameter) \in ContextType
         /\ handle_min_amount_received(c, parameter) \in ContextType
         /\ handle_beneficiary(c, parameter) \in ContextType
         /\ \A n \in Int : Skip(c, n) \in ContextType
         /\ \A p \in Parameter : Expect(c, p) \in ContextType
<1>1. TokenIn(c, parameter) \in Address
  <2>1. PoolCoin(parameter) \in Address
    <3> DEFINE coin == (parameter.num % 256) + 1
    <3>1. coin \in Nat /\ coin >= 1
      <4>1. parameter.num \in Int
        BY TypeProvide, ShortIsInt
      <4> HIDE DEF coin
      <4>2. parameter.num % 256 \in 0..255
        BY <4>1, Uint8Type DEF Uint8, uint8_t
      <4> QED BY <4>2 DEF coin
    <3>2. CASE tx.to \in Pools /\ coin <= Len(PoolCoins(tx.to))
      <4>1. Len(PoolCoins(tx.to)) \in Nat
        BY DEF PoolCoins
      <4>2. coin \in 1..Len(PoolCoins(tx.to))
        BY <3>1, <3>2, <4>1
      <4>3. PoolCoins(tx.to)[coin] \in Address
        BY <3>2, <4>2, NamedAddresses
      <4> QED BY <3>2, <4>3 DEF PoolCoin
    <3> QED BY <3>2, NamedAddresses DEF PoolCoin
  <2> QED BY <2>1, TypeProvide DEF TokenIn
<1>2. \A n \in Int : Uint8(c.skip + n) \in uint8_t
  <2>1. c.skip \in uint8_t
    BY DEF ContextType
  <2>2. \A n \in Int : c.skip + n \in Int
    BY <2>1 DEF uint8_t
  <2> QED BY <2>2, Uint8Type
<1>3. handle_token_sent(c, parameter) \in ContextType
  BY <1>1 DEF handle_token_sent, ContextType
<1>4. handle_token_received(c, parameter) \in ContextType
  BY <1>1 DEF handle_token_received, ContextType
<1>5. handle_amount_sent(c, parameter) \in ContextType
  BY TypeProvide DEF handle_amount_sent, ContextType
<1>6. handle_min_amount_received(c, parameter) \in ContextType
  BY TypeProvide DEF handle_min_amount_received, ContextType
<1>7. handle_beneficiary(c, parameter) \in ContextType
  BY TypeProvide DEF handle_beneficiary, ContextType
<1>8. \A n \in Int : Skip(c, n) \in ContextType
  BY <1>2 DEF Skip, ContextType
<1>9. \A p \in Parameter : Expect(c, p) \in ContextType
  BY DEF Expect, ContextType
<1> QED BY <1>3, <1>4, <1>5, <1>6, <1>7, <1>8, <1>9

(* The cases of the handlers that are not a copy of a whole parameter.     *)
LEMMA RouteType ==
  ASSUME Typed, Provide
  PROVE  handle_route(ctx, parameter) \in ContextType
<1> DEFINE counter == Uint8(ctx.counter + 1)
<1>1. ctx \in ContextType /\ ctx.counter \in uint8_t
  BY DEF Typed, ContextType
<1>2. ctx.counter + 1 \in Int
  BY <1>1 DEF uint8_t
<1>3. counter \in uint8_t /\ 20 - counter \in Int /\ 0 \in uint8_t
  BY <1>2, Uint8Type DEF uint8_t
<1> HIDE DEF counter
<1>4. {"AMOUNT_SENT", "TOKEN_RECEIVED"} \subseteq Parameter
  BY DEF Parameter
<1>5. Skip(ctx, route_skip(counter)) \in ContextType
  BY <1>1, <1>3, HelperTypes DEF route_skip
<1>6. [Skip(ctx, route_skip(counter)) EXCEPT !.counter = 0] \in ContextType
  BY <1>3, <1>5 DEF ContextType
<1>7. handle_token_received(ctx, parameter) \in ContextType
  BY <1>1, HelperTypes
<1>8. [handle_token_received(ctx, parameter) EXCEPT !.counter = counter]
        \in ContextType
  BY <1>3, <1>7 DEF ContextType
<1>9. CASE parameter.addr = NULL
  BY <1>4, <1>6, <1>9, HelperTypes DEF handle_route, counter
<1>10. CASE parameter.addr # NULL
  BY <1>4, <1>8, <1>10, HelperTypes DEF handle_route, counter
<1> QED BY <1>9, <1>10

(* So do the three reads of the packed path.                               *)
LEMMA PathTypes ==
  ASSUME Typed, Provide
  PROVE  /\ path_skip(ctx.offset) \in uint8_t
         /\ path_address(pos + 1, 0) \in Address
         /\ token_received_head(ctx.offset) \in Address
         /\ token_received_rest(ctx.offset) \in Address
<1>1. ctx.offset \in Int /\ pos \in Int /\ tx \in TransactionType
      /\ ctx.contract_address_received \in Address
  <2>1. ctx \in ContextType
    BY DEF Typed
  <2>2. ctx.offset \in uint16_t /\ ctx.contract_address_received \in Address
    BY <2>1 DEF ContextType
  <2> QED BY <2>2, TypeProvide, ShortIsInt
<1>2. TailWord(ctx.offset) - 1 \in Int /\ TailByte(ctx.offset) \in Int
  BY <1>1 DEF TailWord, TailByte, ADDRESS_LENGTH, PARAMETER_LENGTH
<1>3. \A k \in Int, r \in Int : path_address(k, r) \in Address
  BY <1>1, PathAddressType, NamedAddresses
     DEF path_address, PARAMETER_LENGTH, PathWord
<1>4. path_skip(ctx.offset) \in uint8_t
  BY <1>2, Uint8Type DEF path_skip
<1>5. token_received_head(ctx.offset) \in Address
  BY <1>1, <1>2, <1>3, NamedAddresses DEF token_received_head
<1>6. token_received_rest(ctx.offset) \in Address
  BY <1>1, <1>2, <1>3, NamedAddresses DEF token_received_rest
<1> QED BY <1>1, <1>3, <1>4, <1>5, <1>6

(* Every handler answers one PROVIDE_PARAMETER message.                    *)
LEMMA ProvideOfHandlers ==
  ASSUME handle_provide_parameter
  PROVE  Provide
BY DEF handle_provide_parameter, Handler, skip_parameter,
       handle_zapper_deposit_eth, handle_amount_and_min, handle_vault_mint,
       handle_curve_pool_exchange, handle_curve_router_exchange,
       handle_uniswap_exchange, handle_uniswap_exchange_single,
       handle_flipper_exchange, handle_wrap

(* No handler of handle_provide_parameter leaves the type.                 *)
LEMMA TypeHandlers ==
  ASSUME Typed, handle_provide_parameter
  PROVE  Typed'
<1>1. Provide
  BY ProvideOfHandlers
<1>2. ctx \in ContextType
  BY DEF Typed
<1>0. \A c \in ContextType :
        /\ handle_token_sent(c, parameter) \in ContextType
        /\ handle_token_received(c, parameter) \in ContextType
        /\ handle_amount_sent(c, parameter) \in ContextType
        /\ handle_min_amount_received(c, parameter) \in ContextType
        /\ handle_beneficiary(c, parameter) \in ContextType
        /\ Skip(c, 1) \in ContextType
        /\ \A p \in Parameter : Expect(c, p) \in ContextType
  <2> SUFFICES ASSUME NEW c \in ContextType
               PROVE  /\ handle_token_sent(c, parameter) \in ContextType
                      /\ handle_token_received(c, parameter) \in ContextType
                      /\ handle_amount_sent(c, parameter) \in ContextType
                      /\ handle_min_amount_received(c, parameter) \in ContextType
                      /\ handle_beneficiary(c, parameter) \in ContextType
                      /\ \A n \in Int : Skip(c, n) \in ContextType
                      /\ \A p \in Parameter : Expect(c, p) \in ContextType
    OBVIOUS
  <2> QED BY <1>1, HelperTypes
<1>3. Parameter = {"TOKEN_SENT", "TOKEN_RECEIVED", "TOKEN_RECEIVED_REST",
                   "AMOUNT_SENT", "MIN_AMOUNT_RECEIVED", "BENEFICIARY",
                   "PATH_LENGTH", "UNEXPECTED_PARAMETER", "NONE"}
  BY DEF Parameter
<1>4. ASSUME skip_parameter
      PROVE  ctx' \in ContextType /\ result' \in Result
  <2>1. ctx.skip - 1 \in uint8_t
    BY <1>2, <1>4 DEF skip_parameter, ContextType, uint8_t
  <2> QED BY <1>2, <1>4, <2>1 DEF skip_parameter, ContextType, Result
<1>5. ASSUME handle_zapper_deposit_eth
      PROVE  ctx' \in ContextType /\ result' \in Result
  BY <1>2, <1>5 DEF handle_zapper_deposit_eth, Otherwise, Result
<1>6. ASSUME handle_amount_and_min
      PROVE  ctx' \in ContextType /\ result' \in Result
  BY <1>0, <1>2, <1>3, <1>6 DEF handle_amount_and_min, On, Otherwise, Result
<1>7. ASSUME handle_vault_mint
      PROVE  ctx' \in ContextType /\ result' \in Result
  BY <1>0, <1>2, <1>3, <1>7 DEF handle_vault_mint, On, Otherwise, Result
<1>8. ASSUME handle_curve_pool_exchange
      PROVE  ctx' \in ContextType /\ result' \in Result
  BY <1>0, <1>2, <1>3, <1>8 DEF handle_curve_pool_exchange, On, Otherwise, Result
<1>9. ASSUME handle_curve_router_exchange
      PROVE  ctx' \in ContextType /\ result' \in Result
  BY <1>0, <1>1, <1>2, <1>3, <1>9, RouteType
     DEF handle_curve_router_exchange, On, Otherwise, Result
<1>10. ASSUME handle_uniswap_exchange
       PROVE  ctx' \in ContextType /\ result' \in Result
  <2>1. /\ [ctx EXCEPT !.contract_address_sent = path_address(pos + 1, 0),
                       !.skip = path_skip(ctx.offset)] \in ContextType
        /\ [ctx EXCEPT !.contract_address_received =
                         token_received_head(ctx.offset)] \in ContextType
        /\ [ctx EXCEPT !.contract_address_received =
                         token_received_rest(ctx.offset)] \in ContextType
    BY <1>1, <1>2, PathTypes DEF ContextType
  <2>2. [ctx EXCEPT !.offset = parameter.num] \in ContextType
    BY <1>1, <1>2, TypeProvide DEF ContextType
  <2>3. ASSUME runaway_copy
        PROVE  ctx' \in ContextType /\ result' \in Result
    <3>1. ASSUME NEW g \in Garbage
          PROVE  overrun(g) \in ContextType
      <4>1. g \in ContextType
        BY GarbageAssumption
      <4> QED BY <1>2, <1>3, <4>1 DEF overrun, ContextType
    <3> QED BY <1>2, <2>3, <3>1 DEF runaway_copy, Result
  <2> QED BY <1>0, <1>2, <1>3, <1>10, <2>1, <2>2, <2>3
          DEF handle_uniswap_exchange, On, Otherwise, Result
<1>11. ASSUME handle_uniswap_exchange_single
       PROVE  ctx' \in ContextType /\ result' \in Result
  <2>1. /\ Skip(handle_beneficiary(ctx, parameter), 1) \in ContextType
        /\ Skip(handle_token_received(ctx, parameter), 1) \in ContextType
    BY <1>0, <1>2
  <2> QED BY <1>0, <1>2, <1>3, <1>11, <2>1
          DEF handle_uniswap_exchange_single, On, Otherwise, Result
<1>12. ASSUME handle_flipper_exchange
       PROVE  ctx' \in ContextType /\ result' \in Result
  BY <1>0, <1>2, <1>3, <1>12 DEF handle_flipper_exchange, On, Otherwise, Result
<1>13. ASSUME handle_wrap
       PROVE  ctx' \in ContextType /\ result' \in Result
  BY <1>0, <1>2, <1>3, <1>13 DEF handle_wrap, On, Otherwise, Result
<1>14. ctx' \in ContextType /\ result' \in Result
  BY <1>4, <1>5, <1>6, <1>7, <1>8, <1>9, <1>10, <1>11, <1>12, <1>13
     DEF handle_provide_parameter
<1> QED BY <1>1, <1>14, TypeProvide DEF Typed

(* The first state is of the right type.                                   *)
LEMMA TypeInit == Init => TypeOK
<1>1. Init => Typed
  BY TransactionParts, TransactionsAssumption, ZeroContextType
     DEF Init, Typed, Result, WellFormed
<1> QED BY <1>1, TypedTypeOK DEF Init, Stages

(* No step leaves the type.                                                *)
LEMMA TypeStep ==
  ASSUME TypeOK, [Next]_vars
  PROVE  TypeOK'
<1>1. Typed /\ tx \in Transactions /\ stage \in Stages
  BY TypedTypeOK
<1>2. CASE \E t \in Transactions : handle_init_contract(t)
  <2>1. PICK t \in Transactions : handle_init_contract(t)
    BY <1>2
  <2>2. t \in TransactionType /\ ctx \in ContextType
    BY <1>1, TransactionsAssumption DEF WellFormed, Typed
  <2>3. Typed'
    BY <2>1, <2>2, TypeInitContract
  <2> QED BY <2>1, <2>3 DEF handle_init_contract, Typed, TypeOK, Stages
<1>3. CASE handle_provide_parameter
  <2>1. Provide /\ Typed'
    BY <1>1, <1>3, TypeHandlers, ProvideOfHandlers
  <2> QED BY <1>1, <2>1 DEF Provide, Typed, TypeOK
<1>4. CASE end_transaction
  BY <1>4 DEF TypeOK, end_transaction, Stages
<1>5. CASE UNCHANGED vars
  BY <1>5 DEF TypeOK, vars
<1> QED BY <1>2, <1>3, <1>4, <1>5 DEF Next

(* For every set of well-formed transactions, whatever the application     *)
(* drops and in whatever order they come, the fields of the context keep   *)
(* their C types: no skip or counter leaves its byte, no offset its two,   *)
(* and no index leaves the enumeration.                                    *)
THEOREM TypeCorrect == Spec => []TypeOK
BY TypeInit, TypeStep, PTL DEF Spec

===============================================================================
