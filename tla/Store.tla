-------------------------------- MODULE Store --------------------------------
(***************************************************************************)
(* The database record of one published forecast (D1, one row of           *)
(* `forecasts` and the rows its commits write) and the ways it changes:    *)
(* apps/web-rs/src/mutate.rs, with the dispute request of writes.rs and    *)
(* the operator's adjudication of adjudication.rs.                         *)
(*                                                                         *)
(* Every writer loads a snapshot, awaits (evidence, a model, the chain),   *)
(* applies its command to the snapshot it loaded, and commits one batch    *)
(* that the database refuses unless the row is still at the revision that  *)
(* was loaded.  A commit of a scheduler job must also hold the job's       *)
(* token.  The scheduler's own steps are in Scheduler.                     *)
(*                                                                         *)
(* The snapshot is a v1 forecast after publication; the engine that        *)
(* decides on it is Lifecycle's, which StepsAreLifecycle makes sure of.    *)
(***************************************************************************)
EXTENDS Integers, FiniteSets

CONSTANTS
  Keys,           \* dispute requests, by idempotency key (and dispute)
  Outcomes,       \* outcomes a resolution may propose
  Passes,         \* scheduler passes, by the token they draw
  CloseAt,        \* close_at_ms; participation opens at 0
  Challenge,      \* CHALLENGE_MS
  MaxDisputes,    \* MAX_ACTIVE_DISPUTES
  MaxTime,        \* bound on the clock
  None            \* NULL

States == {"OPEN", "LOCKED", "RESOLVING", "PROPOSED", "CHALLENGE", "DISPUTED",
           "ESCALATED", "PAUSED", "FINALIZED"}
Statuses == {"pending", "awaiting_adapter", "processed"}
Dispositions == {"RETAIN", "MATERIAL"}
Resolutions == [outcome : Outcomes, at : Nat, hash : Nat]

ASSUME StoreAssumption ==
  /\ CloseAt \in Nat \ {0} /\ Challenge \in Nat \ {0}
  /\ MaxDisputes \in Nat \ {0} /\ MaxTime \in Nat /\ CloseAt <= MaxTime
  /\ None \notin Passes /\ None \notin Int /\ None \notin Resolutions
  /\ None \notin States \cup Statuses \cup Dispositions

Pausable == {"RESOLVING", "PROPOSED", "CHALLENGE", "DISPUTED", "ESCALATED"}
Contested == {"CHALLENGE", "DISPUTED", "ESCALATED"}
Effects == {"RESOLUTION_COMMITMENT_REQUIRED", "REPUTATION_UPDATE_REQUIRED",
            "RESULT_NOTIFICATION_REQUIRED"}

VARIABLES
  clock,          \* real time
  snapshot,       \* forecasts.snapshot, with revision and state
  job,            \* forecasts.job_token, job_until, retry_at, failure_count
  outbox,         \* [Effects -> outbox.status, or None]
  operations,     \* operations: [Keys -> the proposal disputed, or None]
  filing          \* dispute requests in flight: [Keys -> what was loaded]

store == <<snapshot, job, outbox, operations, filing>>

-----------------------------------------------------------------------------
(***************************************************************************)
(* apply_command, on a snapshot that may be stale                          *)
(***************************************************************************)
Pending(s)  == {k \in s.disputes : s.reviews[k] = None}
Material(s) == {k \in s.disputes : s.reviews[k] = "MATERIAL"}
Unreviewed  == [k \in Keys |-> None]

\* Mutant: a command may carry a time before the record's last change.
Backdated(s, now) == TRUE

InOrder(s, now) == now >= s.at

\* The command is allowed in the snapshot's state and at the time it carries.
Legal(s, c, now) ==
  /\ InOrder(s, now)
  /\ CASE c.kind = "Lock" -> s.state = "OPEN" /\ now >= CloseAt
       [] c.kind = "BeginResolution" -> s.state = "LOCKED"
       [] c.kind = "ProposeResolution" -> s.state = "RESOLVING"
       [] c.kind = "BeginChallenge" -> s.state = "PROPOSED"
       [] c.kind = "SubmitDispute" ->
            /\ s.state \in {"CHALLENGE", "DISPUTED"} /\ now < s.until
            /\ c.key \notin s.disputes
            /\ Cardinality(s.disputes) < MaxDisputes
       [] c.kind = "ReviewDispute" -> s.state = "DISPUTED" /\ c.key \in Pending(s)
       [] c.kind = "RetainProposal" ->
            s.state = "DISPUTED" /\ Pending(s) = {} /\ Material(s) = {}
       [] c.kind = "Escalate" ->
            s.state = "DISPUTED" /\ Pending(s) = {} /\ Material(s) # {}
       [] c.kind = "AdjudicateResolution" -> s.state = "ESCALATED"
       [] c.kind = "Finalize" -> s.state = "CHALLENGE" /\ now >= s.until
       [] c.kind = "Pause" -> s.state \in Pausable
       [] c.kind = "Resume" -> s.state = "PAUSED"

\* The snapshot the command produces.  A resolution differs from every other
\* in its hash, for which the revision that proposed it stands.
Applied(s, c, now) ==
  LET new == [s EXCEPT !.revision = @ + 1, !.at = now,
                       !.exposed = IF s.state \in Contested
                                   THEN @ + (now - s.at)
                                   ELSE IF s.state = "PAUSED" THEN @ ELSE 0]
      Proposal == [outcome |-> c.outcome, at |-> now, hash |-> s.revision]
  IN CASE c.kind = "Lock" -> [new EXCEPT !.state = "LOCKED"]
       [] c.kind = "BeginResolution" -> [new EXCEPT !.state = "RESOLVING"]
       [] c.kind = "ProposeResolution" ->
            [new EXCEPT !.state = "PROPOSED", !.resolution = Proposal]
       [] c.kind = "BeginChallenge" ->
            [new EXCEPT !.state = "CHALLENGE", !.start = now,
                        !.until = now + Challenge]
       [] c.kind = "SubmitDispute" ->
            [new EXCEPT !.state = "DISPUTED", !.disputes = @ \cup {c.key}]
       [] c.kind = "ReviewDispute" ->
            [new EXCEPT !.reviews[c.key] = c.disposition]
       [] c.kind = "RetainProposal" -> [new EXCEPT !.state = "CHALLENGE"]
       [] c.kind = "Escalate" -> [new EXCEPT !.state = "ESCALATED"]
       [] c.kind = "AdjudicateResolution" ->
            [new EXCEPT !.state = "PROPOSED", !.resolution = Proposal,
                        !.start = None, !.until = None,
                        !.disputes = {}, !.reviews = Unreviewed]
       [] c.kind = "Finalize" -> [new EXCEPT !.state = "FINALIZED"]
       [] c.kind = "Pause" ->
            [new EXCEPT !.state = "PAUSED", !.pausedFrom = s.state,
                        !.pausedAt = now]
       [] c.kind = "Resume" ->
            [new EXCEPT !.state = s.pausedFrom, !.pausedFrom = None,
                        !.pausedAt = None,
                        !.until = IF @ = None THEN @ ELSE @ + now - s.pausedAt]

-----------------------------------------------------------------------------
(***************************************************************************)
(* mutate                                                                  *)
(***************************************************************************)
\* Mutant: the guard row does not look at the revision.
GuardTokenOnly(s, token, at) ==
  token # None => job.token = token /\ job.until > at

\* Mutant: the guard row does not look at the job's token.
GuardRevisionOnly(s, token, at) == snapshot.revision = s.revision

\* The guard row of the batch: still at the loaded revision, and the job's
\* lease still held.  `at` is the time the caller took before it awaited.
Guard(s, token, at) ==
  /\ snapshot.revision = s.revision
  /\ token # None => job.token = token /\ job.until > at

Accepted(s, c, now, token) == Legal(s, c, now) /\ Guard(s, token, now)

\* The batch: the snapshot, and the effects its event owes.
Batch(s, c, now) ==
  /\ snapshot' = Applied(s, c, now)
  /\ outbox' = IF c.kind = "Finalize"
               THEN [e \in Effects |->
                       IF outbox[e] = None THEN "pending" ELSE outbox[e]]
               ELSE outbox

Published == [revision |-> 0, state |-> "OPEN", at |-> 0, resolution |-> None,
              start |-> None, until |-> None, disputes |-> {},
              reviews |-> Unreviewed, pausedFrom |-> None, pausedAt |-> None,
              exposed |-> 0]

\* Published, at the end of participation; or already open to challenge, the
\* record that four commits at CloseAt lead to.
Records ==
  {Published} \cup
  {[Published EXCEPT !.revision = 4, !.state = "CHALLENGE", !.at = CloseAt,
                     !.resolution = [outcome |-> o, at |-> CloseAt, hash |-> 2],
                     !.start = CloseAt, !.until = CloseAt + Challenge] :
     o \in Outcomes}

StoreInit ==
  /\ clock = CloseAt
  /\ snapshot \in Records
  /\ job = [token |-> None, until |-> 0, retry |-> 0, failures |-> 0]
  /\ outbox = [e \in Effects |-> None]
  /\ operations = [k \in Keys |-> None]
  /\ filing = [k \in Keys |-> None]

Tick ==
  /\ clock < MaxTime
  /\ clock' = clock + 1
  /\ UNCHANGED store

\* submit_dispute, up to the collection of evidence: no earlier success under
\* the key, and the window open at the request's time.  The user's AI lease
\* keeps a second request of the same user out.
ReceiveDispute(k) ==
  /\ filing[k] = None /\ operations[k] = None
  /\ snapshot.state \in {"CHALLENGE", "DISPUTED"} /\ clock < snapshot.until
  /\ filing' = [filing EXCEPT ![k] = [snap |-> snapshot, now |-> clock]]
  /\ UNCHANGED <<clock, snapshot, job, outbox, operations>>

\* submit_dispute, once the evidence is there: commit, with the receipt that
\* answers a retry.
FileDispute(k) ==
  /\ filing[k] # None
  /\ LET s == filing[k].snap
         c == [kind |-> "SubmitDispute", key |-> k]
     IN /\ Accepted(s, c, filing[k].now, None)
        /\ Batch(s, c, filing[k].now)
        /\ operations' = [operations EXCEPT ![k] = s.resolution]
  /\ filing' = [filing EXCEPT ![k] = None]
  /\ UNCHANGED <<clock, job>>

\* The evidence is refused, the commit loses its race, or the request dies.
DropDispute(k) ==
  /\ filing[k] # None
  /\ filing' = [filing EXCEPT ![k] = None]
  /\ UNCHANGED <<clock, snapshot, job, outbox, operations>>

\* adjudicate_forecast.  The decision was made at `at`, since the record last
\* changed.  A commit that finds its revision is one step with its load.
Adjudicate(outcome, at) ==
  /\ snapshot.at <= at /\ at <= clock
  /\ LET c == [kind |-> "AdjudicateResolution", outcome |-> outcome]
     IN Accepted(snapshot, c, at, None) /\ Batch(snapshot, c, at)
  /\ UNCHANGED <<clock, job, operations, filing>>

-----------------------------------------------------------------------------
\* The engine, on the stored snapshot.
L == INSTANCE Lifecycle WITH
  Specs <- {"spec"}, OpenAt <- [s \in {"spec"} |-> 0],
  CloseAt <- [s \in {"spec"} |-> CloseAt],
  YES <- CHOOSE o \in Outcomes : TRUE, DisputeIds <- Keys,
  Providers <- {"ai"}, Durations <- {Challenge},
  MaxTime <- 2 * MaxTime + Challenge,
  state <- snapshot.state, updatedAt <- snapshot.at,
  spec <- "spec", assessment <- "passed", publishedAt <- 0,
  trigger <- None, upgradedAt <- None,
  resolution <- IF snapshot.resolution = None THEN None
                ELSE [early |-> FALSE, outcome |-> snapshot.resolution.outcome,
                      at |-> snapshot.resolution.at, trigger |-> None],
  challengeStart <- snapshot.start, challengeUntil <- snapshot.until,
  disputes <- snapshot.disputes, reviews <- snapshot.reviews,
  pausedFrom <- snapshot.pausedFrom, pausedAt <- snapshot.pausedAt,
  configured <- IF snapshot.pausedFrom = None THEN {} ELSE {"ai"},
  final <- IF snapshot.state # "FINALIZED" THEN None
           ELSE [early |-> FALSE, outcome |-> snapshot.resolution.outcome,
                 at |-> snapshot.resolution.at, trigger |-> None],
  granted <- IF snapshot.until = None THEN 0 ELSE Challenge,
  exposed <- snapshot.exposed
=============================================================================
