------------------------------ MODULE DailySpend ------------------------------
(***************************************************************************)
(* The relayer's daily budget: every transaction reserves what it may cost *)
(* before it is signed (reserve_daily_spend in                             *)
(* apps/web-rs/src/registry_chain.rs).  The database does not report       *)
(* whether a statement changed a row, so a caller reads the day before and *)
(* after its conditional update and compares.  Callers overlap: the        *)
(* deliveries of different forecasts are leased one by one.                *)
(***************************************************************************)
EXTENDS Integers

CONSTANTS
  Callers,        \* deliveries, each reserving once
  Amounts,        \* what a transaction may cost
  Limit,          \* DAILY_SPEND_LIMIT
  Days

ASSUME SpendAssumption == Limit \in Nat /\ Amounts \subseteq Nat

VARIABLES
  reserved,       \* registry_spend: [Days -> reserved_lamports]
  caller          \* [Callers -> [pc, day, amount, before]]

spend == <<reserved, caller>>

SpendInit ==
  /\ reserved = [d \in Days |-> 0]
  /\ caller \in [Callers -> [pc : {"new"}, day : Days, amount : Amounts, before : {0}]]

\* The checks on the amount, and the first read of the day.
ReadBefore(c) ==
  LET me == caller[c] IN
  /\ me.pc = "new"
  /\ caller' = [caller EXCEPT ![c] =
       IF me.amount > Limit THEN [@ EXCEPT !.pc = "exhausted"]
       ELSE [@ EXCEPT !.pc = "reserving", !.before = reserved[me.day]]]
  /\ UNCHANGED reserved

\* Mutant: the update carries no condition, what was read decides.
Unconditioned(c) == caller[c].before <= Limit - caller[c].amount

\* The condition of the update.
Fits(c) == reserved[caller[c].day] <= Limit - caller[c].amount

\* One statement: the update applies or changes no row.
Reserve(c) ==
  LET me == caller[c] IN
  /\ me.pc = "reserving"
  /\ reserved' = IF Fits(c) THEN [reserved EXCEPT ![me.day] = @ + me.amount] ELSE reserved
  /\ caller' = [caller EXCEPT ![c].pc = "confirming"]

\* The second read: the day has to have moved by exactly the amount.
MovedByAmount(c) == reserved[caller[c].day] = caller[c].before + caller[c].amount

ReadAfter(c) ==
  /\ caller[c].pc = "confirming"
  /\ caller' = [caller EXCEPT ![c].pc = IF MovedByAmount(c) THEN "authorized" ELSE "exhausted"]
  /\ UNCHANGED reserved

SpendNext == \E c \in Callers : ReadBefore(c) \/ Reserve(c) \/ ReadAfter(c)

SpendSpec == SpendInit /\ [][SpendNext]_spend

-----------------------------------------------------------------------------
(***************************************************************************)
(* Properties                                                              *)
(***************************************************************************)
\* However reservations interleave, the ledger of a day stays within the
\* limit: the condition is evaluated in the statement that adds.
LedgerWithinLimit == \A d \in Days : reserved[d] <= Limit
=============================================================================
