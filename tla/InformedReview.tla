---------------------------- MODULE InformedReview ----------------------------
(***************************************************************************)
(* What the plugin is for, without its memory, its messages or its screens:*)
(* a transaction is read, a review of it is settled on, its facts are told *)
(* one after the other, and the transaction is signed only when all of     *)
(* them have been told.  A review that was begun does not hang: it ends    *)
(* with a signature or without one.                                        *)
(***************************************************************************)
EXTENDS Naturals, Sequences

CONSTANTS
  Transactions,
  Trusted,       \* those of them the promise is about
  Reviews(_)     \* the reviews of a transaction: one per state of the token list

VARIABLES
  tx,
  phase,     \* idle, reading, reviewing
  agenda,    \* the facts to be told, in order
  told,      \* the facts told so far
  outcome    \* how the last review ended

vars == << tx, phase, agenda, told, outcome >>

Begin(t) ==
  /\ phase = "idle"
  /\ tx' = t /\ phase' = "reading" /\ outcome' = "none"
  /\ UNCHANGED << agenda, told >>

Settle ==
  /\ phase = "reading"
  /\ phase' = "reviewing"
  /\ IF tx \in Trusted THEN agenda' \in Reviews(tx) ELSE UNCHANGED agenda
  /\ UNCHANGED << tx, told, outcome >>

Tell ==
  /\ phase = "reviewing"
  /\ Len(told) < Len(agenda)
  /\ told' = Append(told, agenda[Len(told) + 1])
  /\ UNCHANGED << tx, phase, agenda, outcome >>

End(how) ==
  /\ phase' = "idle" /\ agenda' = << >> /\ told' = << >> /\ outcome' = how
  /\ UNCHANGED tx

Sign == phase = "reviewing" /\ told = agenda /\ End("signed")

GiveUp == phase # "idle" /\ \E how \in {"rejected", "refused", "dropped"} : End(how)

Init ==
  /\ tx \in Transactions /\ phase = "idle"
  /\ agenda = << >> /\ told = << >> /\ outcome = "none"

Next == (\E t \in Transactions : Begin(t)) \/ Settle \/ Tell \/ Sign \/ GiveUp

Spec == Init /\ [][Next]_vars /\ WF_vars(Settle \/ Tell \/ Sign \/ GiveUp)

===============================================================================
