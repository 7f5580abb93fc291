-------------------------------- MODULE Relay --------------------------------
(***************************************************************************)
(* The registry relay for one forecast: the intents its commits leave in   *)
(* D1, the passes of `sync` that deliver them to the chain one revision at *)
(* a time, and the gate that keeps the local record from becoming final    *)
(* before the chain would (apps/web-rs/src/registry_chain.rs, with the     *)
(* transport of solana_rpc.rs and the tables of 0012_registry.sql).        *)
(*                                                                         *)
(* The chain is external: an account that takes a revision when it is the  *)
(* successor of the one it holds.  A read is answered by a node that may   *)
(* be behind; a transaction may be lost, land late, or land although its   *)
(* sender never heard of it.  The slot of an account is the revision it    *)
(* holds there, the account being all the relay compares slots for.        *)
(*                                                                         *)
(* Times are kept as what is left of them, so that no bound on the clock   *)
(* is needed and passes may recur for ever.  A pass reads the clock once:  *)
(* `late` is how long ago, and what is left of a time as the pass sees it  *)
(* is that much more.                                                      *)
(***************************************************************************)
EXTENDS Integers, Sequences, FiniteSets

CONSTANTS
  Workers,        \* passes of sync that may overlap
  MaxRev,         \* bound on the local history
  Lease,          \* LEASE_MS, 120 s
  Backoff,        \* the 30 s a stale read or a pending transaction waits
  Resend,         \* the 600 s after which an unconfirmed send is repeated
  TxLife,         \* how long a blockhash stays valid
  Challenge,      \* the chain's 48 hours
  MaxLate,        \* bound: how long a pass may run
  MaxSends,       \* bound on transactions per revision
  MaxFaults,      \* bound: reads that fail, transactions lost, passes killed
  Lag,            \* TRUE: nodes may answer from behind
  MaxEarly,       \* bound: early locks in the history (0 or 1)
  Held,           \* TRUE: a hold may be placed on what is already final
  None

ASSUME RelayAssumption ==
  /\ MaxRev \in Nat \ {0, 1} /\ {Lease, Backoff, Resend, TxLife, Challenge} \subseteq Nat \ {0}
  /\ MaxLate \in Nat /\ MaxSends \in Nat \ {0} /\ MaxFaults \in Nat
  /\ {Lag, Held} \subseteq BOOLEAN /\ MaxEarly \in {0, 1} /\ None \notin Workers \union Int

Revs == 1..MaxRev
Signatures == Revs \X (1..MaxSends)

\* What is left of a time that has long passed.
Past == -MaxLate
Left(t) == IF t > Past THEN t - 1 ELSE Past
Aged(t) == IF t < Resend + MaxLate THEN t + 1 ELSE t

VARIABLES
  log,            \* the states the published record went through, by revision
  early,          \* the first revision of its v2 form, or 0
  intents,        \* registry_intents.snapshot: [Revs -> None, "whole" or "base"]
  delivery,       \* [Revs -> a row of registry_delivery]
  enabled,        \* registry_forecasts.enabled
  observed,       \* registry_forecasts.confirmed_*: [rev, ready], or None
  chain,          \* the revision the account holds, 0 before it is registered
  due,            \* what is left until chain_finalize_not_before_ms, or None
  txs,            \* [Signatures -> what became of the transaction, or None]
  worker,         \* [Workers -> a pass of sync]
  finalizer,      \* a finalize under way: [pc, rev, ready]
  gated,          \* history: the record became final while enabled
  faults          \* faults so far

local == <<log, early, intents, enabled, gated>>
vars == <<log, early, intents, delivery, enabled, observed, chain, due, txs,
          worker, finalizer, gated, faults>>

-----------------------------------------------------------------------------
(***************************************************************************)
(* The rows of registry_delivery                                           *)
(***************************************************************************)
Queued == [status |-> "pending", token |-> None, lease |-> Past, retry |-> Past,
           signature |-> None, age |-> 0, error |-> None]
Open(row) == row.status \in {"pending", "submitted"}

Confirmed == {r \in Revs : delivery[r] # None /\ delivery[r].status = "confirmed"}
MaxConfirmed == IF Confirmed = {} THEN 0 ELSE CHOOSE r \in Confirmed : \A q \in Confirmed : q <= r

PredecessorsConfirmed(r) ==
  \A p \in 1..(r - 1) : delivery[p] # None => delivery[p].status = "confirmed"

\* The row a pass that began `late` ago selects.
Due(r, late) ==
  /\ delivery[r] # None /\ Open(delivery[r])
  /\ delivery[r].retry + late <= 0 /\ delivery[r].lease + late <= 0
  /\ PredecessorsConfirmed(r)

\* Revisions an account read may be answered with.
Views == IF Lag THEN 0..chain ELSE {chain}

\* signature_finalized, where an answer that fails is no.
Landed(signature) == signature # None /\ txs[signature] # None /\ txs[signature].fate = "landed"

Fault == faults < MaxFaults /\ faults' = faults + 1

-----------------------------------------------------------------------------
(***************************************************************************)
(* The local record                                                        *)
(***************************************************************************)
Idle == [pc |-> "idle", late |-> 0, rev |-> 0, row |-> None, sent |-> None, result |-> None,
         retry |-> Past]

Init ==
  /\ log \in {<<"LIVE">>, <<"LIVE", "CHALLENGE">>}
  /\ enabled \in BOOLEAN
  /\ early \in IF enabled \/ MaxEarly = 0 THEN {0} ELSE {0, Len(log)}
  \* Publication enrolls; what was published before the registry existed has
  \* no intents until it is enrolled by hand.
  /\ intents = [r \in Revs |-> IF enabled /\ r <= Len(log) THEN "whole" ELSE None]
  /\ delivery = [r \in Revs |-> IF enabled /\ r <= Len(log) THEN Queued ELSE None]
  /\ observed = None /\ chain = 0 /\ due = None
  /\ txs = [s \in Signatures |-> None]
  /\ worker = [w \in Workers |-> Idle]
  /\ finalizer = [pc |-> "idle", rev |-> 0, ready |-> FALSE]
  /\ gated = FALSE /\ faults = 0

\* A commit: the snapshot, its event and its intent in one batch; the trigger
\* registry_intent_queue adds the delivery.
Record(state) ==
  LET n == Len(log) + 1 IN
  /\ n <= MaxRev
  /\ log' = Append(log, state)
  /\ intents' = [intents EXCEPT ![n] = "whole"]
  /\ delivery' = [delivery EXCEPT ![n] = Queued]

Commit ==
  /\ log[Len(log)] # "FINALIZED"
  /\ \E state \in {"LIVE", "CHALLENGE"}, upgrade \in BOOLEAN :
       /\ upgrade => MaxEarly = 1 /\ early = 0 /\ state = "LIVE"
       /\ Record(state)
       /\ early' = IF upgrade THEN Len(log) + 1 ELSE early
  /\ UNCHANGED <<enabled, observed, chain, due, txs, worker, finalizer, gated, faults>>

\* The form a replay stores: the base of the snapshot, whatever its version.
Stored(r) == "base"

\* Does an intent carry the snapshot its event committed to?
Faithful(r) == intents[r] = "whole" \/ early = 0 \/ r < early

\* A stored intent that is not the base of the replayed snapshot is a conflict.
Conflict == \E r \in 1..Len(log) : intents[r] = "whole" /\ early # 0 /\ r >= early

\* backfill, then registry_enable_sql.
Enable ==
  /\ ~enabled /\ ~Conflict
  /\ enabled' = TRUE
  /\ LET missing == {r \in 1..Len(log) : intents[r] = None} IN
     /\ intents' = [r \in Revs |-> IF r \in missing THEN Stored(r) ELSE intents[r]]
     /\ delivery' = [r \in Revs |-> IF r \in missing THEN Queued ELSE delivery[r]]
  /\ UNCHANGED <<log, early, observed, chain, due, txs, worker, finalizer, gated, faults>>

-----------------------------------------------------------------------------
(***************************************************************************)
(* A pass of sync                                                          *)
(***************************************************************************)
\* What of a selected row a pass looks at later.
Selected(row) == [status |-> row.status, signature |-> row.signature, age |-> row.age]

\* The pass reads the clock and selects the row that is due.
Sync(w) ==
  /\ worker[w].pc = "idle" /\ enabled
  /\ \E r \in Revs :
       /\ Due(r, 0)
       /\ worker' = [worker EXCEPT ![w] =
            [Idle EXCEPT !.pc = "selected", !.rev = r, !.row = Selected(delivery[r])]]
  /\ UNCHANGED <<local, delivery, observed, chain, due, txs, finalizer, faults>>

\* The lease is taken unless another holds it, and read back.  The row the
\* pass goes on with is the one it selected.
Claim(w) ==
  LET me == worker[w]  row == delivery[me.rev] IN
  /\ me.pc = "selected"
  /\ IF Open(row) /\ row.lease + me.late <= 0
     THEN /\ delivery' = [delivery EXCEPT ![me.rev] =
                            [@ EXCEPT !.token = w, !.lease = Lease - me.late]]
          /\ worker' = [worker EXCEPT ![w] = [@ EXCEPT !.pc = "leased"]]
     ELSE /\ worker' = [worker EXCEPT ![w] = Idle]
          /\ UNCHANGED delivery
  /\ UNCHANGED <<local, observed, chain, due, txs, finalizer, faults>>

Conclude(w, result, retry) ==
  worker' = [worker EXCEPT ![w] = [@ EXCEPT !.pc = "concluding", !.result = result, !.retry = retry]]

\* Mutant: reads older than the last confirmation are believed.
NeverStale(view) == FALSE

\* An observation older than the last one confirmed.
Stale(view) == MaxConfirmed > 0 /\ view < MaxConfirmed

\* A transaction that was sent and may still land.
Awaited(me) ==
  me.row.signature # None /\ ~Landed(me.row.signature) /\ me.row.age - me.late < Resend

\* deliver, up to what it decides on the account it read.
Observe(w) ==
  LET me == worker[w] IN
  /\ me.pc = "leased"
  /\ \E view \in Views :
       IF ~Faithful(me.rev) THEN Conclude(w, "local_intent_mismatch", Past)
       ELSE IF Stale(view) THEN Conclude(w, "chain_observation_stale", Backoff - me.late)
       ELSE IF view = 0 /\ me.rev # 1 THEN Conclude(w, "chain_predecessor_missing", Past)
       ELSE IF view = me.rev THEN Conclude(w, "confirmed", Past)
       ELSE IF view # me.rev - 1 THEN Conclude(w, "chain_revision_mismatch", Past)
       ELSE IF log[me.rev] = "FINALIZED" /\ due # None /\ due + me.late > 0
            THEN Conclude(w, "chain_challenge_pending", due)
       ELSE IF Awaited(me) THEN Conclude(w, "transaction_pending", Backoff - me.late)
       ELSE worker' = [worker EXCEPT ![w] = [@ EXCEPT !.pc = "sending"]]
  /\ UNCHANGED <<local, delivery, observed, chain, due, txs, finalizer, faults>>

\* A final record under a hold is not relayed: forecast_resolution_blockers.
Withheld(w) ==
  /\ Held /\ worker[w].pc = "leased" /\ log[worker[w].rev] = "FINALIZED"
  /\ Conclude(w, "resolution_eligibility_blocked", Past)
  /\ UNCHANGED <<local, delivery, observed, chain, due, txs, finalizer, faults>>

Unused(r) == {n \in 1..MaxSends : txs[<<r, n>>] = None}

\* The transport reads the account again, signs and sends; a target that is
\* not the predecessor is an error.
Send(w) ==
  LET me == worker[w] IN
  /\ me.pc = "sending"
  /\ \E view \in Views :
       IF view # me.rev - 1
       THEN Conclude(w, "transport", Past) /\ UNCHANGED txs
       ELSE \E n \in Unused(me.rev) :
              /\ txs' = [txs EXCEPT ![<<me.rev, n>>] = [fate |-> "sent", life |-> TxLife]]
              /\ worker' = [worker EXCEPT ![w] =
                   [@ EXCEPT !.pc = "concluding", !.sent = <<me.rev, n>>, !.result = "sent"]]
  /\ UNCHANGED <<local, delivery, observed, chain, due, finalizer, faults>>

\* A call of the transport fails; if it was the one that sends, the
\* transaction may be on its way.
TransportFails(w) ==
  /\ worker[w].pc \in {"leased", "sending"} /\ Fault
  /\ Conclude(w, "transport", Past)
  /\ \/ UNCHANGED txs
     \/ /\ worker[w].pc = "sending" /\ chain = worker[w].rev - 1
        /\ \E n \in Unused(worker[w].rev) :
             txs' = [txs EXCEPT ![<<worker[w].rev, n>>] = [fate |-> "sent", life |-> TxLife]]
  /\ UNCHANGED <<local, delivery, observed, chain, due, finalizer>>

\* Mutant: an outcome is written whoever holds the lease by now.
AnyHolder(w) == TRUE

Holds(w) == delivery[worker[w].rev].token = w

Free(row) == [row EXCEPT !.token = None, !.lease = Past]

Submitted(me, row) ==
  [Free(row) EXCEPT !.status = "submitted", !.signature = me.sent, !.age = me.late,
                    !.retry = 1 - me.late, !.error = None]

\* Mutant: waiting for the chain's deadline is taken for an error.
OnlyTransient == {"chain_observation_stale", "transaction_pending"}

\* release: the status is the one the pass selected, or blocked for an error.
Waiting == {"chain_observation_stale", "chain_challenge_pending", "transaction_pending"}
Released(me, row) ==
  [Free(row) EXCEPT !.status = IF me.result \in Waiting THEN me.row.status ELSE "blocked",
                    !.error = me.result, !.retry = me.retry]

\* The outcome is written if the lease is still held.
Finish(w) ==
  LET me == worker[w]
      outcome(row) ==
        IF me.result = "confirmed"
        THEN [Free(row) EXCEPT !.status = "confirmed", !.error = None]
        ELSE IF me.result = "sent" THEN Submitted(me, row)
        ELSE Released(me, row)
  IN
  /\ me.pc = "concluding"
  /\ delivery' = IF Holds(w) THEN [delivery EXCEPT ![me.rev] = outcome(@)] ELSE delivery
  /\ worker' = [worker EXCEPT ![w] = Idle]
  /\ UNCHANGED <<local, observed, chain, due, txs, finalizer, faults>>

\* The platform ends a pass; its lease runs out.
Killed(w) ==
  /\ worker[w].pc # "idle" /\ Fault
  /\ worker' = [worker EXCEPT ![w] = Idle]
  /\ UNCHANGED <<local, delivery, observed, chain, due, txs, finalizer>>

-----------------------------------------------------------------------------
(***************************************************************************)
(* The chain                                                               *)
(***************************************************************************)
\* A transaction is executed: the program takes it if it extends the account.
\* A proposal under challenge is given 48 hours, or keeps what it was given.
Execute(s) ==
  /\ txs[s] # None /\ txs[s].fate = "sent"
  /\ IF s[1] = chain + 1 /\ ~(log[s[1]] = "FINALIZED" /\ due # None /\ due > 0)
     THEN /\ chain' = s[1]
          /\ txs' = [txs EXCEPT ![s].fate = "landed", ![s].life = 0]
          /\ IF log[s[1]] = "CHALLENGE"
             THEN \E d \in {Challenge} \union ({due} \ {None}) : due' = d
             ELSE UNCHANGED due
     ELSE /\ txs' = [txs EXCEPT ![s].fate = "failed", ![s].life = 0]
          /\ UNCHANGED <<chain, due>>
  /\ UNCHANGED <<local, delivery, observed, worker, finalizer, faults>>

Lose(s) ==
  /\ txs[s] # None /\ txs[s].fate = "sent" /\ Fault
  /\ txs' = [txs EXCEPT ![s].fate = "failed", ![s].life = 0]
  /\ UNCHANGED <<local, delivery, observed, chain, due, worker, finalizer>>

-----------------------------------------------------------------------------
(***************************************************************************)
(* Finalization                                                            *)
(***************************************************************************)
\* The finalize command is decided on the record as it stands.
BeginFinalize ==
  /\ finalizer.pc = "idle" /\ log[Len(log)] = "CHALLENGE" /\ Len(log) < MaxRev
  /\ finalizer' = [pc |-> "loaded", rev |-> Len(log), ready |-> FALSE]
  /\ UNCHANGED <<local, delivery, observed, chain, due, txs, worker, faults>>

\* Mutant: the chain's own deadline is not asked for.
ReadyAtOnce(seen) == TRUE

\* Has the deadline of the account passed on the clock that was read, which
\* may be behind?
DeadlinePassed(seen) == due # None /\ due <= 0 /\ seen

\* prepare_finalization: the account must hold the record as it is now, and
\* its deadline must have passed.
Prepare ==
  /\ finalizer.pc = "loaded"
  /\ IF ~enabled
     THEN /\ finalizer' = [finalizer EXCEPT !.pc = "ready"]
          /\ UNCHANGED observed
     ELSE \E view \in Views, seen \in IF Lag THEN BOOLEAN ELSE {TRUE} :
            IF view = Len(log) /\ log[view] = "CHALLENGE"
            THEN /\ observed' = [rev |-> view, ready |-> DeadlinePassed(seen)]
                 /\ finalizer' = IF DeadlinePassed(seen) THEN [finalizer EXCEPT !.pc = "ready"]
                                                         ELSE [finalizer EXCEPT !.pc = "idle"]
            ELSE /\ finalizer' = [finalizer EXCEPT !.pc = "idle"]
                 /\ UNCHANGED observed
  /\ UNCHANGED <<local, delivery, chain, due, txs, worker, faults>>

\* The trigger registry_finalization_guard.
TriggerAllows == enabled => observed # None /\ observed.rev = Len(log) /\ observed.ready

\* The commit: refused when the revision moved on, or by the trigger.
CommitFinal ==
  /\ finalizer.pc = "ready"
  /\ finalizer' = [finalizer EXCEPT !.pc = "idle"]
  /\ IF finalizer.rev = Len(log) /\ TriggerAllows
     THEN Record("FINALIZED") /\ gated' = enabled
     ELSE UNCHANGED <<log, intents, delivery, gated>>
  /\ UNCHANGED <<early, enabled, observed, chain, due, txs, worker, faults>>

-----------------------------------------------------------------------------
\* Time goes by.  A transaction is executed while its blockhash is valid, or
\* it is lost.
Tick ==
  /\ \A w \in Workers : worker[w].pc # "idle" => worker[w].late < MaxLate
  /\ \A s \in Signatures : txs[s] # None /\ txs[s].fate = "sent" => txs[s].life > 0
  /\ worker' = [w \in Workers |->
       IF worker[w].pc = "idle" THEN Idle
       ELSE [worker[w] EXCEPT !.late = @ + 1, !.retry = Left(@), !.row.age = Aged(@)]]
  /\ delivery' = [r \in Revs |-> IF delivery[r] = None THEN None
       ELSE [delivery[r] EXCEPT !.lease = Left(@), !.retry = Left(@),
                                !.age = IF delivery[r].signature = None THEN @ ELSE Aged(@)]]
  /\ due' = IF due = None THEN None ELSE Left(due)
  /\ txs' = [s \in Signatures |-> IF txs[s] = None \/ txs[s].fate # "sent" THEN txs[s]
       ELSE [txs[s] EXCEPT !.life = @ - 1]]
  /\ UNCHANGED <<local, observed, chain, finalizer, faults>>

Pass(w) == Sync(w) \/ Claim(w) \/ Observe(w) \/ Send(w) \/ Finish(w)

Next ==
  \/ Commit \/ Enable \/ Tick
  \/ \E w \in Workers : Pass(w) \/ Withheld(w) \/ TransportFails(w) \/ Killed(w)
  \/ \E s \in Signatures : Execute(s) \/ Lose(s)
  \/ BeginFinalize \/ Prepare \/ CommitFinal

Spec == Init /\ [][Next]_vars

-----------------------------------------------------------------------------
(***************************************************************************)
(* Properties                                                              *)
(***************************************************************************)
States == {"LIVE", "CHALLENGE", "FINALIZED"}
Forms == {"whole", "base"}
Retries == Past..(Backoff + Challenge)
Ages == 0..(Resend + MaxLate)
Verdicts == {"local_intent_mismatch", "chain_observation_stale", "chain_predecessor_missing",
             "confirmed", "chain_revision_mismatch", "chain_challenge_pending",
             "transaction_pending", "resolution_eligibility_blocked", "transport"}
Optional(S) == S \union {None}

Rows ==
  [status : {"pending", "submitted", "confirmed", "blocked"}, token : Optional(Workers),
   lease : Past..Lease, retry : Retries, signature : Optional(Signatures), age : Ages,
   error : Optional(Verdicts)]

Selections == [status : {"pending", "submitted"}, signature : Optional(Signatures), age : Ages]

Passes ==
  [pc : {"idle", "selected", "leased", "sending", "concluding"}, late : 0..MaxLate,
   rev : 0..MaxRev, row : Optional(Selections), sent : Optional(Signatures),
   result : Optional(Verdicts \union {"sent"}), retry : Retries]

\* NULL is no row, no part of one, no verdict and no snapshot.
ASSUME ValuesAssumption ==
  None \notin Rows /\ None \notin Selections /\ None \notin Verdicts /\ None \notin Forms

TypeOK ==
  /\ log \in Seq(States) /\ Len(log) \in Revs
  /\ early \in 0..MaxRev /\ enabled \in BOOLEAN /\ gated \in BOOLEAN
  /\ intents \in [Revs -> Optional(Forms)]
  /\ delivery \in [Revs -> Optional(Rows)]
  /\ observed \in Optional([rev : Revs, ready : BOOLEAN])
  /\ chain \in 0..MaxRev /\ due \in Optional(Past..Challenge)
  /\ txs \in [Signatures -> Optional([fate : {"sent", "landed", "failed"}, life : 0..TxLife])]
  /\ worker \in [Workers -> Passes]
  /\ finalizer \in [pc : {"idle", "loaded", "ready"}, rev : 0..MaxRev, ready : BOOLEAN]
  /\ faults \in 0..MaxFaults

\* The replica the relay keeps: what is acknowledged is the prefix of
\* confirmed deliveries.
Acknowledged == Cardinality({r \in Revs : \A p \in 1..r : p \in Confirmed})
R == INSTANCE Replica WITH appended <- Len(log), copied <- chain, acked <- Acknowledged

\* The chain copies the local history in order, and a delivery is recorded as
\* confirmed only when it and all before it are on the chain: `sync` orders
\* them, `deliver` takes the account for proof and never the transaction.
ChainFollows == R!Spec

\* No read, however far behind the node that answers it, leads `deliver` to
\* the verdict that the chain disagrees with the record: both verdicts block
\* the forecast's deliveries for good.
NeverMisjudged ==
  \A r \in DOMAIN delivery : delivery[r] # None =>
    delivery[r].error \notin {"chain_revision_mismatch", "chain_predecessor_missing"}

\* A tracked record that became final could have been finalized on chain at
\* that moment: the account held its last revision, or goes on from it, and
\* the chain's deadline had passed (prepare_finalization and the trigger).
FinalOnlyAfterChain ==
  log[Len(log)] = "FINALIZED" /\ gated =>
    /\ chain >= Len(log) - 1
    /\ due # None /\ due <= 0

\* "A delivery that fails is a retry" (operator_routes.rs:321): a failure of
\* the transport leaves the delivery to later passes.
TransportFailuresRetried ==
  \A r \in Revs : delivery[r] # None /\ delivery[r].error = "transport" => Open(delivery[r])
=============================================================================
