# Origin DeFi Ledger plugin: models, checks and proofs

The plugin helps a Ledger device show what an Origin DeFi transaction does
before its owner signs it. The Ethereum application calls it with one message
at a time: here is a transaction (`INIT_CONTRACT`), here is the next 32-byte
word of its calldata (`PROVIDE_PARAMETER`), the calldata is over
(`FINALIZE`), here is what the token list knows (`PROVIDE_INFO`), what is the
first screen (`QUERY_CONTRACT_ID`), what is screen *i* (`QUERY_CONTRACT_UI`).
Between two messages the plugin keeps one structure,
`origin_defi_parameters_t`, in memory the application lends it. All its
difficulty is in that structure: a small cursor (`next_param`, `skip`,
`counter`, `offset`) steers a parser that never sees the calldata as a whole,
and six handlers write the fields the screens are made of.

## Inventory

| Component | Code | State | Operations | Status |
|---|---|---|---|---|
| shared definitions | `main.c`, `origin_defi_plugin.h` | none (tables, types) | | `OriginDefi`, `PluginContext`, reference `Abi` |
| parameter parser | `handle_init_contract.c`, `handle_provide_parameter.c` | cursor and decoded fields of the context | init; one handler per group of functions | `ParamParser`, checked and proved |
| review screens | `handle_finalize.c`, `handle_provide_token.c`, `handle_query_contract_id.c`, `handle_query_contract_ui.c`, helpers of the header | tickers, decimals, `tokens_found`, `amount_length`, amounts; `numScreens`, `additionalScreens` of the messages | finalize, provide token, query id, query screen | `ReviewScreens`, reference `Review`, checked and proved |
| message dispatch, exceptions | `main.c:138-172, 188-240` | none of its own | dispatch, exception to `ERROR` | `PluginSession` (parser and screens composed), abstract `InformedReview`, checked; safety proved |
| amount formatting | SDK `eth_internals.c:78-210` | none | `uint256_to_decimal`, `adjustDecimals`, `amountToString` | `DecimalFormat`, reference `Numerals`, checked and proved |
| address formatting | SDK `eth_internals.c:5-56` | none | `getEthAddressStringFromBinary` | `AddressFormat`, checked and proved |
| plugin interface | SDK headers (generated) | message structures | | the fields used are parameters and variables |
| debug printf | `dbg/printf.c` | none that matters | | not modelled: third-party, debug builds only |
| tests, icons, binaries | `tests/`, `icons/`, `bin/`, `debug/` | | | not modelled; tests and `b2c.json` are read for deployed contracts and calldata |

Components interact through the shared context only: the parser writes the
fields and stops; `handle_finalize` and `handle_provide_token` read the
addresses and recipient and write flags, decimals and tickers; the query
handlers read all of these and write some of them again. The application
chooses the order of messages, stops at a result that is not OK, and decides
how often and in which order screens are queried. Nothing runs concurrently
and nothing is persisted. What is hard is

* *sequences*: a cursor that is off by one reads a neighbouring argument, and
  no later step notices;
* *bytes*: `skip` and `counter` are `uint8_t`, `offset` is `uint16_t`, and are
  computed from lengths the caller chooses;
* *stale state*: the context survives a transaction that was dropped half-way,
  one `amount_length` serves two amounts, queries write what they read;
* *agreement* of computations in different handlers: number of screens and
  meaning of a screen index, ticker and decimals of one token, selector table
  and enumeration.

What makes each component correct:

* parser: after the last word, each field is the argument that the ABI of the
  function called puts there; no field ever holds another word's or another
  transaction's content; a supported transaction is not refused half-way;
* screens: exactly the screens due, in order, with a warning right before each
  unknown token; each tells the right amount, ticker, decimals or recipient;
  none changes when shown again; a query fails only for a too long amount;
* session: the context the parser hands over is the one the screens assume, to
  the last field and whatever came before it in the same memory; nothing is
  signed before every fact was told; an accepted review comes to its prompt; and
  for calldata of any kind, an amount on a screen is the one that was handed
  over, or zero, unless a copy of negative length (finding 6) or an endless route
  (finding 2) came before;
* address formatting: the text reads back to the recipient, and its capitals
  are the checksum other wallets show;
* amount formatting: the text reads back to the amount, there is one text per
  amount, no buffer is overrun, and a text is refused only if it leaves less than
  one byte free (two without decimals, finding 7).

## Modules

| Module | What it is |
|---|---|
| `OriginDefi` | selectors, enumeration, addresses, words, transactions |
| `PluginContext` | the shared variables `tx`, `stage`, `pos`, `ctx`, `result` and their types |
| `Abi` | reference: where each function's ABI puts the arguments to review (signatures quoted in `main.c:32-67`), and which contracts are deployed with which functions (`b2c.json`) |
| `ParamParser` | `handle_init_contract`, `handle_provide_parameter`, properties, inductive invariant |
| `Review` | reference: the screens a user is to see for a transaction |
| `ReviewScreens` | the four handlers after the calldata, properties |
| `PluginSession` | the dispatcher: one message at a time to `ParamParser` or `ReviewScreens` (both by `INSTANCE`), sessions one after another in the same memory, the user paging and deciding |
| `InformedReview` | abstract specification: read, settle on a review, tell its facts in order, sign only when all are told |
| `DecimalFormat` | `amountToString` with the two functions it calls, one digit per step |
| `AddressFormat` | `getEthAddressStringFromBinary` with chain id 0, one byte or digit per step; the hash is any function |
| `Calls` | words and calldata shapes for the instances |
| `MCParamParser`, `MCReviewScreens`, `MCPluginSession`, `MCDecimalFormat`, `MCAddressFormat` | instances for TLC |
| `Numerals` | reference: powers, and the number a sequence of digits stands for |
| `ParamParser_proofs` | type correctness of the parser |
| `ParamParser_decoding` | the parser's inductive invariant and the theorems that follow |
| `ReviewScreens_proofs` | the same for the four handlers after the calldata |
| `PluginSession_instances` | what those proofs say inside a session, where both components are instances |
| `PluginSession_proofs` | the session's invariant, the handing over, what is told of any calldata, no late refusal, the refinement of `InformedReview` |
| `Numerals_proofs` | induction, powers and values of digits, for sequences of any length |
| `DecimalFormat_proofs` | the text is the amount, the only one, and stays in its buffer |
| `AddressFormat_proofs` | the text is the recipient, its capitals the checksum |

`ParamParser` and `ReviewScreens` share the variables of `PluginContext` and
meet at `ParsedContext(t)`: `ReviewScreens` starts from a context whose five
decoded fields are `AmountOf(t)`, `MinOf(t)`, `RecipientOf(t)`, `SentOf(t)` and
`ReceivedOf(t)`, which is what `DecodedAsAbi` says and `Decoded` proves the
parser leaves behind. `PluginSession` puts the two together: its `HandedOver`
checks that the whole context, with the fields no parameter handler writes, is
`ParsedContext(t)` (but for what a path leaves of the cursor, which no later
handler reads), and no transaction but the supported ones is assumed there.

### State and actions

`ctx` is `origin_defi_parameters_t` field by field. Left out are `valid`, which
nothing uses, and the NUL-terminated layout of tickers. `result` is the result
byte of the last message. `tx` is the transaction behind the messages and `pos`
the number of words handed over; `stage` is how far the application got.

A word is abstracted to `addr`, what its low 20 bytes mean, and `num`, its low
16 bits, which is all the code reads of one (apart from copying it whole). The
packed path of `exactInput` is kept as a sequence of tokens and read by byte
offset, so that copies across the boundary of two words are modelled by
position. `GARBLED` stands for 20 bytes that are no address of the calldata.

In `ParamParser` each handler is one action, and the cases of its
`switch (next_param)` are its disjuncts (`On` is a case that handles the word,
`Otherwise` the cases `NONE` and default). `handle_zapper_deposit_sfrxeth` and
`handle_vault_redeem` are the same code and one action.

The second copy of `exactInput`'s last token (`handle_provide_parameter.c:319`)
has a negative length if that token ended before its word (`Runaway`); as a
`size_t` that is all but the whole memory, and the destination is behind the
token received, in `beneficiary`. What is undefined is a choice (`runaway_copy`):
the copy faults, and the result `FAULT` ends the session, or it returns, and every
field from `beneficiary` on holds whatever `Garbage`, a constant, has for it
(`overrun`), except `next_param`, which is assigned afterwards. `Overrun` says that
a transaction has come past such a copy. Nothing is claimed of its fields from
there on; of the next transaction in the same memory, everything is.

In `ReviewScreens`, `screens` is `numScreens + additionalScreens`, `lookup` the
set of token lookups requested, `items` the answers, `shown` what was last
displayed at each index. Texts are not modelled: a screen is its kind with
amount, ticker and decimals, or the recipient. An amount field is read by
`amount_length` bytes from its front, so a length that is not the one it was
stored with gives another number (`Misread`). `Unprintable` says which amounts
overflow the message buffer; the exception `amountToString` then throws, and
`main.c:219` catches, is `handle_query_ui_exception`: the result is `ERROR`, and
the context keeps what the handler had written.

`PluginSession` has one action per message of `dispatch_plugin_calls`, which is
the action of the component it is handed to. `page` is the page on display:
`ID` (plugin name and operation), a screen index, or the prompt after the last
screen; to turn to a page is to query it. `outcome` is how the last session
ended: signed or rejected at the prompt, refused because of a result that was
not OK, dropped. `end` resets what the application keeps (screens, lookups,
displays) and leaves the plugin's context alone, so the next session finds it.

`InformedReview` knows none of this: `agenda` is the review of the transaction
for one answer of the token list, `told` the part of it told so far. Under the
refinement mapping, `told` is what `shown` holds up to the first blank screen,
an abstract `Tell` is a query of the next screen, and paging back, the identity
screen and the messages before the review are stuttering steps. `Trusted` are
the transactions the promise is about: those the parser decodes, less
`depositSFRXETH` (finding 3).

`DecimalFormat` is one call of `amountToString`: `n` the limbs of the number,
`out` the digits in `tmp_buffer` from `pos` to its end, `text` what stands in
`out_buffer` behind the ticker, which is only its length. Its widths are
constants: `BYTE` (256 in the code), `INT256_LENGTH` (32), `TMP_SIZE` (100),
`MAX_TICKER_LEN` (11). A limb is two bytes. That `tmp_buffer` has room for the
widest amount and a NUL, which 100 bytes have for 2^256, is an assumption on the
constants (`TmpSizeAssumption`, with the `Power` of `Numerals`). `AddressFormat` is one call of
`getEthAddressStringFromBinary`: `tmp` what is hashed, `hashChecksum` the bytes
of the hash that are looked at, `out` the characters, each a digit that is a
capital or not.

External, modelled from the way the plugin uses it: the application's loop over
the words, its token list, its paging (any screen, any order, any number of
times) and the user's decision; the host may drop a transaction at any point
(`end_transaction`, `end_review`, `drop`).

## Runs

| Run | Expect | Shows |
|---|---|---|
| `param_parser` | pass | types, decoding, fields read only at their word, no late refusal; whatever the length of the path, only the token received suffers, until a copy runs away; the inductive invariant |
| `single_hop` | violation of `PathEndDecoded` | a one-hop `exactInput` path loses its received token |
| `full_route` | violation of `RouteEndDecoded` | a nine-address Curve route loses its end |
| `review_screens` | pass | screens as planned, contents as meant, stable, failing only when too long; the inductive invariant |
| `sfrxeth_receives` | violation of `SfrxethBuysOeth` | `depositSFRXETH` announces OUSD |
| `network_token` | violation of `NetworkTokenNotLookedUp` | 0xeee... is not taken for ether |
| `plugin_session` | pass | types across the session; the context handed over; for any of the calls, amounts and recipient as they were handed over, or zero, but after a copy that runs away; no refusal of a trusted transaction once accepted; step by step, a session is one of `InformedReview`; the inductive invariant |
| `long_calldata` | pass | the context handed over for the longest path within reach of the byte `skip`; the amounts and the recipient of one that only loses its token (360 hops); of two whose second copy runs away (358 hops, and a length of 5), that the session and those behind it keep their invariants; the amounts of routes that never end, up to and beyond the word where the `skip` comes round; the inductive invariant |
| `session_liveness` | pass | an accepted review comes to the prompt; the session implements `InformedReview` with its fairness |
| `unknown_coin` | violation of `UnknownCoinRefused` | an exchange of a coin the pool has not is reviewed |
| `decimal_format` | pass | digits, text and buffers of `amountToString`, and how much room is left at most when it refuses; the inductive invariant |
| `address_format` | pass | digits and capitals of an address; the inductive invariant |

Bounds. `MCParamParser` has a transaction of every deployed pair of contract
and function, every ordered pair of coins of both pools, routes of 3, 5, 7 and
9 addresses, paths of 1 to 6 hops (the last token straddles two words for some
of them, ends with or before its word for others) and of 358 and 360, beyond the
byte `skip` (the second copy of the first runs away, that of the other does not),
calls followed by one more word, an unknown selector and an unknown pool. Any transaction may follow any
other, stopped at any word, which is what stale state needs; the context depends
on no more than the current and the previous one. Paths between 7 and 357 hops
repeat the same residues modulo 32 bytes; the ends of the range are in
`long_calldata`, and the proof covers all of it. `MCGarbage` is what a copy that
runs away and returns may leave: a wrong recipient, ticker, flags and cursor, and
two functions, one that has no receive screen and one that has. `MCReviewScreens` has every deployed function
with tokens the source knows (18 and 6 decimals), tokens it does not, ether,
the recipient being the sender or not, a zero-length value, an amount too long,
and a list that answers either of two tokens or nothing: every combination of
the conditions in `handle_finalize`, `handle_provide_token` and `get_screen`
that a transaction can reach.

`MCPluginSession` has 18 calls the parser decodes, one or more for each group of
functions and each number of screens from one to five; eight that end before
their last argument, at each place where a cursor may be left (with nothing
read, between amounts, in the middle of a route, before a path's length); five
outside what is decoded (one of them a path of three hops with one more word), two with a coin the pool has not, three sent to a
contract that is not Origin's, one with a route that ends among its swap
parameters, and two whose path's length is wrong (0, where `offset - 20` is
negative, and 52): 39 in all. All follow all others in the same memory, so a context of
every kind is found by a session of every kind. `long_calldata` has paths of 357, 358
and 360 hops, one of 357 that says it is 5 bytes long, and routes of 25 words, which are over before the skip comes round, and of 280, which reach word
278 where it does; without a null, with one among the swap parameters, and with
one at either end of the words the cursor then waits for. `session_liveness` keeps ten of them, one per shape of review,
because its temporal properties are checked on the product with the strong
fairness of each page.

`MCDecimalFormat` scales the widths: bytes of six values, amounts of zero to
four of them (every one, 1555 with leading zeroes), hence two limbs of 36 with
carries between them and numbers of up to four digits, for which a `tmp_buffer`
of five bytes is the smallest allowed; zero to six decimals, which is fewer than
the digits, as many, and more; no ticker and one, buffers from the shortest
allowed to one that holds every text. Nothing in the loops depends on a width
but through these cases: number of digits below, at or above the decimals; text
below, at or above the buffer. `MCAddressFormat` has every address of two
bytes: a digit depends on one half of one byte and the same half of the hash.

Deadlock is checked in every passing run but `decimal_format` and
`address_format`, where a call returns.

### Fairness

`ParamParser`, `ReviewScreens`, `DecimalFormat` and `AddressFormat` state safety
only.
`PluginSession` assumes of its environment:

* `WF(application)`: the Ethereum application, which runs the session, hands over
  the next word, finalizes, answers the lookup, or ends a session whose result is
  not OK. It is a loop over calldata it already has or is being sent; if the
  host stops sending, the session is dropped, which `drop` models and
  `ComesToPrompt` allows for.
* `SF(page = p /\ page_forward)` for every page, `SF(decide)`: a user who looks at
  the same page again and again turns forward some time, and decides some time.
  Weak fairness would not do, as paging back disables both.

No fairness is put on `init_contract` (no new session need come) or `drop`. The
plugin itself has nothing that runs unless called.

What the supported transactions of the parser's properties (`Supported`) leave
out is what `single_hop` and `full_route` show to be wrong, paths longer than
357 hops, and words appended to `exactInput` calldata whose last token needs no
second copy. `PathDamageConfined`, `AnySoFar` and `ToldAsHandedOver` speak of these
too, up to a copy that runs away.
`ShownAsMeant` leaves out the one screen that `sfrxeth_receives` is about.

## Findings

1. `handle_provide_parameter.c:306`: for one hop `(43 - 20) / 32 - 1` is stored
   as 255 and the token received stays null, shown as ether.
2. `handle_provide_parameter.c:251`: a full route has no null address; the
   parser takes the swap parameters up to the first null one for addresses. The
   amounts are still found if there is a null one; the token received is not.
   Without one `20 - counter` wraps around the byte `skip`, the amounts are not
   read before word 278, and calldata that ends earlier is reviewed with zeroes
   (`long_calldata`).
3. `handle_query_contract_ui.c:144`: `ZAPPER_DEPOSIT_SFRXETH` shares the code of
   `VAULT_MINT`, which asks whether the destination is the OETH vault; it is the
   zapper, so the user reads "OUSD" for OETH.
4. `handle_finalize.c:17`: the comment says the network token is 0xeee..., the
   code tests for the null address.
5. `handle_provide_parameter.c:22`: for a coin the pool has not, "Param not
   supported" is printed, the result stays OK and the token stays null: the
   review shows an amount of ether. (The pool would revert the call.)
6. `handle_provide_parameter.c:319-325`: the second copy of the last token is
   made of any word that follows the first, also when nothing is left to copy. If
   the token ended before its word, its length is negative and its destination
   the recipient and the fields behind. Word 10 of a path of 358 hops does it,
   where the skip comes round to 0, and any word appended to a path of three.
   There is no run that this violates, as nothing in the repository says what
   happens then; the model has it as `runaway_copy`.
7. `eth_internals.c:109`: `adjustDecimals` demands room for a point where no
   point is written (no decimals), and `amountToString` keeps a byte of the
   buffer free behind the NUL: a number may be refused though one or two
   bytes would be left. `RefusedIfTooLong` states how much at most.

## Proofs

Every safety property that a passing run checks, invariant or action property,
is a theorem. The theorems hold for all values of the constants that
satisfy these assumptions, each named in the module that declares the constant:

* `AddressAssumption`, `TickerAssumption`, `NetworkTickerAssumption`: the types
  contain what the source names;
* `TransactionsAssumption` (parser): transactions are `WellFormed`, that is
  calldata as an ABI encoder makes it, of any number of words;
  `ReviewTransactionsAssumption` (screens): they are of deployed functions too,
  as the parser starts no other; `SessionTransactionsAssumption` (session): they
  have the type of transactions and need not be well-formed;
* `GarbageAssumption`, `SessionGarbageAssumption`: a copy that runs away leaves
  fields of their types, as any bytes are;
* `TokenInfoAssumption`, `SessionTokenInfoAssumption`: the token list answers with
  items. Which amounts are too long to print (`Unprintable`) is arbitrary;
* `WidthsAssumption`, `TmpSizeAssumption`, `RequestsAssumption`,
  `AddressLengthAssumption`, `AddressesAssumption`, `KeccakAssumption`: widths of
  the buffers and types of what is formatted; the hash is any function.

| Module | Theorem | States |
|---|---|---|
| `ParamParser_proofs` | `TypeCorrect` | `Spec => []TypeOK` |
| `ParamParser_decoding` | `Parsed` | `Spec => []IInv` |
| | `ReadInPlace` | `Spec => []ReadAtItsWord` |
| | `Decoded` | `Spec => []DecodedAsAbi` |
| | `PathDamage` | `Spec => []PathDamageConfined` |
| | `RefusedEarly` | `Spec => NeverRefusedLater` |
| `ReviewScreens_proofs` | `ReviewInvariant`, `ReviewTypes` | `Spec => []IInv`, `[]TypeOK` |
| | `Planned` | `Spec => []ScreensAsPlanned` |
| | `Meant` | `Spec => []ShownAsMeant` |
| | `FailsOnlyTooLong` | `Spec => []FailsOnlyIfTooLong` |
| | `ShownAlike` | `Spec => ShownAgainAlike` |
| `PluginSession_proofs` | `SessionInvariant`, `SessionTypes` | `Spec => []IInv`, `[]TypeOK` |
| | `HandsOverAll` | `Spec => []HandedOver` |
| | `TellsWhatWasRead` | `Spec => []ToldAsHandedOver` |
| | `AcceptedIsReviewed` | `Spec => AcceptedStays` |
| | `ImplementsStepByStep` | `Spec => InformedStepByStep` |
| `DecimalFormat_proofs` | `AmountInvariant`, `AmountTypes` | `Spec => []IInv`, `[]TypeOK` |
| | `DivisionExact` | `Spec => []DigitsSoFar` |
| | `TextIsAmount` | `Spec => []TextReadsBack` |
| | `TextIsUnique` | `Spec => []TextIsCanonical` |
| | `TextInBuffer` | `Spec => []TextWithinBuffer` |
| | `RefusedForLength` | `Spec => []RefusedIfTooLong` |
| `AddressFormat_proofs` | `FormatInvariant`, `FormatTypes` | `Spec => []IInv`, `[]TypeOK` |
| | `RecipientReadsBack` | `Spec => []AddressReadsBack` |
| | `CapitalsAreChecksum` | `Spec => []ChecksumAsOthers` |

Each component has its inductive invariant `IInv`, stated in the component's
module and checked by its run before it is proved; one lemma per handler shows
that it is preserved, and the theorems follow from it.

**Parser.** `DecodedAsAbi` speaks of the end of the calldata and says nothing of
the cursor, so it is not inductive. `IInv` adds, for a supported transaction that
was accepted, that `selectorIndex` is the member of the enumeration at the place
of the called selector in the table (`FunctionFound`); that `next_param`, `skip`,
`counter` and `offset` are those that belong to position `pos` of this function
(`Cursor`, one predicate per group of functions, with the route's length and the
path's last word as parameters); and that each field holds what was to be read
up to `pos` (`SentSoFar`, `ReceivedSoFar`, `AmountsSoFar`).
`handle_init_contract` establishes it whatever the context held before (the
`memset`). For `exactInput` with a path that is not supported, `AnyPathSoFar` is
the part that survives until `Overrun`: the cursor, which follows the number the
calldata gives as length through the byte `skip` (`CursorPath` with `HeadWord` and
`PathNumber` in place of the true last word and length), and every field but the
token received. `PathDamage` rests on it. That a supported transaction never comes
to `Overrun` is the lemma `SupportedInBounds`. Two more facts are
proved for the session: what no parameter handler writes stays zero
(`Unwritten`), and `skip` and `counter` are back at 0 after the last word of a
supported transaction (`CursorAtRest`).

**Any calldata.** A session takes whatever words come for a selector it knows:
too few, too many, no coherent route or path. Nothing is then known of the
tokens, but the amounts are still where they belong, and `AnySoFar` is why.
Where the handlers go one word after the other, the position alone decides what
is expected (`FixedCursor`). A path steers the cursor only behind the amounts,
and as its length says (`CursorPath` as above). A route steers it in front of them, and `CursorAnyRoute` follows
it for any words: a null among words 2 to 21 (`EndSeen`) sends the cursor to
word 22, wherever it stands; without one, the route is lost (`RouteLost`),
`counter` goes round its byte, and a null at any later word leaves the cursor
waiting for word 278 (`RouteWrap`), since `20 - counter` is computed modulo 256
as well. So `AmountsInPlace`: an amount is zero until its word was handed over,
and that word from then on. Two cases are left out: a lost route of which word
278 was handed over, and a path behind a copy that ran away. `AnyStep` proves it of every handler and of every word,
with no assumption on the words.

**Screens.** Queries write to the context they read: tickers, decimals, the
amounts of a deposit, `amount_length`. `IInv` says what each query may rely on
nevertheless: the fields that nothing writes after the parser (`DecodedFields`);
the amounts, for the functions whose handlers do not overwrite them
(`AmountsKept`); until the lookup is answered, that only ether is found and
nothing is displayed (`NothingLookedUp`); afterwards, that a token is marked
found unless it is due a warning, and that ticker and decimals are right *as the
next query will find them*, whichever handler set them last (`TokensSettled`);
and that what was shown at an index is what is due there (`ShownSoFar`). The
proof goes through every group of functions and every combination of known,
looked up and unknown tokens; `depositSFRXETH`, whose ticker is wrong (finding 3),
has the wrong screen as the value of `ToldAt`, and its other screens are proved
right. `TypeOK` needs no invariant beside types and holds of any transaction.

**Session.** `PluginSession` contains both components as instances, and TLAPS
treats each instance's copy of a definition as a symbol of its own:
`PluginSession_instances` shows that the copies agree and restates the
components' lemmas, and `ParserAssumptions` and `ReviewAssumptions` show that
what a component assumes of its constants holds of those the session gives it.
The session's `IInv` is the seam: while parsing, `AnySoFar` and, short of `Overrun`,
`Unwritten`, and for a supported transaction `ParsedSoFar`; during lookup and
review, `AmountsInPlace` for any transaction short of `Overrun`, as no query writes to an amount but a
deposit's or what a flipper gives; from `finalize` on, for a supported one, the
screens' invariant (`InReview`), of which the parser's end (`Decoded`,
`CursorAtRest`) is the beginning; between sessions,
nothing that the application keeps is left over (`NothingYet`), whereas the
context may hold anything of its type, as a session may be dropped at any
message; and pages are seen in order (`SeenInOrder`). `HandsOverAll` follows, and
the refinement: `told` grows by the fact that the query of a new page displays,
a prefix of the agenda because no page is skipped, and the signature at the
prompt finds all of them told. That is the safety part of `InformedReview`
(`InformedStepByStep`), for every transaction, with nothing assumed of the
calldata of those that are not `Trusted`.

Of those, `TellsWhatWasRead` says what can be said: each place of the display keeps
what it shows or is given an amount of the context, read back with the length it
was stored with (`QueryAmounts`), and the context has it in its place: as long as no
copy ran away, which its statement excepts and no later message can bring about.
`AcceptedIsReviewed` is the counterpart for trusted transactions: a word meets the
case that expects it (`ParsedStep`), the lookup has no error path, and a page can
only fail for a text that is too long, which is one of the transaction's two
amounts (`TooLongAmount`). With liveness, which TLC checks, this gives
`ComesToPrompt`.

**Amounts.** That the text *reads back to the amount* is a statement about
sequences of any length, so it needs induction, and the library's theorems of
induction and of recursive definitions have an operator as parameter.
`Numerals_proofs` goes round them: induction is on a set, by the least number
outside of it (`UpTo`), and a recursive function exists by induction on its
domain (`Recursion`). From these come the values of joined, cut and padded
sequences of digits. `DigitsSoFar` then says that the limbs, shifted by the digits
written, plus these digits, are the amount (a division by ten loses nothing,
carry by carry); with `TmpSizeAssumption` it bounds the number of digits, so
`pos` never reaches 0. `DigitsWhole` adds that the first digit is not zero once
nothing is left; `TextPlaced`, that the text that is about to be stripped is
`adjustDecimals` of the digits and that there was room for it. The point is
shown to stand `decimals` digits from the end, and what `lastZeroOffset` cuts off
to be zeroes behind it. `RefusedForLength` counts the digits the other way round:
from the amount, and the characters from the digits and the decimals, a point
only if there are decimals.

**Addresses.** `HashedText` and `ShownText` say that character *k* is half *k* of the
address, in lower case where it is hashed, and a capital where it is a letter and
the hash has a half of 8 or more there. Both are inductive with the types.

Only model-checked:

* Liveness: `ComesToPrompt`, and `ImplementsInformedReview`, which is the
  refinement with fairness. Fairness and `ENABLED` are out of the prover's reach.
* The findings, which are counterexamples.

## Not modelled

* `u64_to_string`, `U2BE_from_parameter`, `U4BE_from_parameter`,
  `getEthAddressFromKey`, `getEthDisplayableAddress` and the chain id in front of
  a checksum: not reached from the plugin, which formats addresses with chain id
  0.
* Starting the Ethereum application from the dashboard and the check of presence
  in `main`: no handler runs.
* Memory outside the context. A copy of negative length (finding 6) would go on
  behind it, into the application's own: the model has it fault or return, and
  what it wrote to the context, but not what the application does afterwards. A
  path length below 20 makes the first copy start in front of the parameter:
  what it reads there is `GARBLED`, as is what a straddling token has from behind
  the parameter. Of a longer path length than 16 bits the model has the low 16,
  as the code.
* `printf.c` is third-party and without effect on the plugin; tests, icons and
  binaries are read or ignored, as the inventory says.

## Plan

Every component that keeps state is modelled, every safety property proved, with
the two exceptions that the statements about calldata of any kind name.
What could be added is not in this repository's code: a model of the Ethereum
application's own handling of tokens and of its prompt, in place of the external
actions here.
