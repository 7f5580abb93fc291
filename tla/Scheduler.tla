------------------------------ MODULE Scheduler ------------------------------
(***************************************************************************)
(* The scheduler of apps/web-rs/src/scheduler.rs: overlapping passes of    *)
(* run_due_jobs over one forecast, racing with users and the operator on   *)
(* the record of Store.                                                    *)
(*                                                                         *)
(* A pass reads the clock once, when it starts, and uses that time for     *)
(* every lease, guard and command it issues, however late it comes to the  *)
(* row (application.rs gives it no other clock).  The other rows of a pass *)
(* are only the time that goes by between its steps.  A pass may die at    *)
(* any await.  Its job token is new, so the token is the pass.             *)
(*                                                                         *)
(* What the reviews of eligibility and of publication time (the blockers   *)
(* view, resolution_timing) and the chain decide is left open.             *)
(***************************************************************************)
EXTENDS Store

CONSTANTS
  Lease,          \* LEASE_MS
  AITimeout,      \* AI_WORKFLOW_TIMEOUT_SECONDS
  Counted,        \* failures in a row that still lengthen the delay
  Delays,         \* [0..Counted -> the delay of a retry after that many]
  MaxTransitions  \* MAX_TRANSITIONS_PER_LEASE

ASSUME SchedulerAssumption ==
  /\ Lease \in Nat \ {0} /\ AITimeout \in Nat \ {0} /\ AITimeout < Lease
  /\ Counted \in Nat /\ Delays \in [0..Counted -> Nat \ {0}]
  /\ MaxTransitions \in Nat \ {0}

VARIABLES
  pass,           \* [Passes -> the state of the pass]
  leases,         \* ai_leases: [tasks -> a token and its expiry, or None]
  delivered       \* history: how often each effect was delivered

vars == <<clock, store, pass, leases, delivered>>

Tasks == {"resolution", "review", "recovery"}

Idle == [phase |-> "ready", now |-> 0, left |-> 0, snap |-> None,
         cmd |-> None, then |-> None, asked |-> None, waited |-> 0, todo |-> {}]

SchedulerInit ==
  /\ StoreInit
  /\ pass = [p \in Passes |-> Idle]
  /\ leases = [t \in Tasks |-> None]
  /\ delivered = [e \in Effects |-> 0]

At(p, phase) == pass[p].phase = phase
Go(p, phase) == pass' = [pass EXCEPT ![p].phase = phase]
\* Leave the job's work behind.
Stop(p, phase) ==
  pass' = [pass EXCEPT ![p] = [Idle EXCEPT !.phase = phase,
                                           !.now = pass[p].now]]
Holds(p) == job.token = p

-----------------------------------------------------------------------------
(***************************************************************************)
(* The claim                                                               *)
(***************************************************************************)
\* The selection of run_due_jobs.
Due(now) ==
  /\ job.until <= now /\ job.retry <= now
  /\ \/ snapshot.state = "OPEN" /\ CloseAt <= now
     \/ snapshot.state \in {"LOCKED", "RESOLVING", "PROPOSED", "DISPUTED",
                            "PAUSED"}
     \/ snapshot.state = "CHALLENGE" /\ snapshot.until <= now

Start(p) ==
  /\ At(p, "ready")
  /\ pass' = [pass EXCEPT ![p].now = clock,
                          ![p].phase = IF Due(clock) THEN "selected"
                                       ELSE "drain"]
  /\ UNCHANGED <<clock, store, leases, delivered>>

\* The compare-and-set on the job's lease.
Claimed(p) ==
  IF job.until <= pass[p].now
  THEN [job EXCEPT !.token = p, !.until = pass[p].now + Lease]
  ELSE job

Claim(p) ==
  /\ At(p, "selected")
  /\ job' = Claimed(p)
  /\ Go(p, "claimed")
  /\ UNCHANGED <<clock, snapshot, outbox, operations, filing, leases, delivered>>

\* The claim is confirmed by reading the token back.
ReadBack(p) ==
  /\ At(p, "claimed")
  /\ pass' = [pass EXCEPT ![p].phase = IF Holds(p) THEN "job" ELSE "drain",
                          ![p].left = IF Holds(p) THEN MaxTransitions ELSE 0]
  /\ UNCHANGED <<clock, store, leases, delivered>>

-----------------------------------------------------------------------------
(***************************************************************************)
(* advance_job                                                             *)
(***************************************************************************)
\* The command a state calls for, where no model is needed for it.
Direct(s, now) ==
  CASE s.state = "OPEN"     -> "Lock"
    [] s.state = "LOCKED"   -> "BeginResolution"
    [] s.state = "PROPOSED" -> "BeginChallenge"
    [] s.state = "CHALLENGE" /\ now >= s.until -> "Finalize"
    [] s.state = "DISPUTED" /\ Pending(s) = {} ->
         IF Material(s) # {} THEN "Escalate" ELSE "RetainProposal"
    [] OTHER -> None

\* The question a state asks the models.
Task(s) ==
  CASE s.state = "RESOLVING" -> "resolution"
    [] s.state = "DISPUTED" /\ Pending(s) # {} -> "review"
    [] s.state = "PAUSED" /\ s.pausedFrom \in {"RESOLVING", "DISPUTED"} ->
         "recovery"
    [] OTHER -> None

InBudget(p) == pass[p].left > 0

\* Load the snapshot and decide what is next, at most MaxTransitions times.
Load(p) ==
  /\ At(p, "job")
  /\ LET s == snapshot
         d == Direct(s, pass[p].now)
     IN pass' = [pass EXCEPT ![p] =
          IF InBudget(p) /\ d # None
          THEN [@ EXCEPT !.phase = "commit", !.snap = s, !.cmd = [kind |-> d]]
          ELSE IF InBudget(p) /\ Task(s) # None
          THEN [@ EXCEPT !.phase = "ask", !.snap = s]
          ELSE [@ EXCEPT !.phase = "ok", !.left = 0]]
  /\ UNCHANGED <<clock, store, leases, delivered>>

\* ai_lease: one call per question, unless its lease has run out.
Free(t, now) == leases[t] = None \/ leases[t].until <= now

Ask(p) ==
  /\ At(p, "ask")
  /\ LET t == Task(pass[p].snap)
     IN IF Free(t, pass[p].now)
        THEN /\ leases' = [leases EXCEPT ![t] =
                             [token |-> p, until |-> pass[p].now + Lease]]
             /\ pass' = [pass EXCEPT ![p].phase = "asking",
                                     ![p].asked = clock]
        ELSE Stop(p, "failed") /\ UNCHANGED leases
  /\ UNCHANGED <<clock, store, delivered>>

\* release_ai: delete the lease, if it is still this pass's.
Released(p) ==
  [t \in Tasks |-> IF leases[t] # None /\ leases[t].token = p
                   THEN None ELSE leases[t]]

\* workflow_deadline_passed, on the clock the application passes in: the time
\* of the pass, before the call and after it.
DeadlinePassed(p) == pass[p].now - pass[p].now >= AITimeout

\* What the models may answer: the command their verdict makes.
Verdicts(s) ==
  IF (IF s.state = "PAUSED" THEN s.pausedFrom ELSE s.state) = "RESOLVING"
  THEN {[kind |-> "ProposeResolution", outcome |-> o] : o \in Outcomes}
  ELSE {[kind |-> "ReviewDispute", key |-> k, disposition |-> d] :
          k \in Pending(s), d \in Dispositions}

\* The answer, used unless it is late.  A recovery first lifts the pause.
Answer(p) ==
  /\ At(p, "asking")
  /\ leases' = Released(p)
  /\ \E c \in Verdicts(pass[p].snap) :
       pass' = [pass EXCEPT ![p] =
         IF DeadlinePassed(p) THEN [@ EXCEPT !.phase = "failed"]
         ELSE LET used == [@ EXCEPT !.phase = "commit", !.asked = None,
                                    !.waited = clock - pass[p].asked]
              IN IF @.snap.state = "PAUSED"
                 THEN [used EXCEPT !.cmd = [kind |-> "Resume"], !.then = c]
                 ELSE [used EXCEPT !.cmd = c]]
  /\ UNCHANGED <<clock, store, delivered>>

\* Every configured provider is unreachable.
Outage(p) ==
  /\ At(p, "asking")
  /\ leases' = Released(p)
  /\ Stop(p, "outage")
  /\ UNCHANGED <<clock, store, delivered>>

\* The blockers view refuses the job before the models are asked, the lease's
\* daily budget or the models refuse, or the timing review or the chain
\* refuses the commit.
Refused(p) ==
  /\ \/ At(p, "job") /\ InBudget(p)
     \/ At(p, "ask") \/ At(p, "asking")
     \/ At(p, "commit") /\ pass[p].cmd.kind \in {"ProposeResolution", "Finalize"}
  /\ leases' = Released(p)
  /\ Stop(p, "failed")
  /\ UNCHANGED <<clock, store, delivered>>

\* The chain's clock has not reached its deadline (wait_for_chain): not a
\* failure; the row waits for `at`.
Defer(p, at) ==
  /\ At(p, "commit") /\ pass[p].cmd.kind = "Finalize"
  /\ at > pass[p].now
  /\ job' = IF Holds(p) THEN [job EXCEPT !.retry = at] ELSE job
  /\ Stop(p, "release")
  /\ UNCHANGED <<clock, snapshot, outbox, operations, filing, leases, delivered>>

\* mutate, under the job's token.  The work of a recovery follows its resume.
Commit(p) ==
  /\ At(p, "commit")
  /\ LET q == pass[p]
         next == IF q.cmd.kind = "Resume"
                 THEN [q EXCEPT !.snap = snapshot', !.cmd = q.then,
                                !.then = None, !.left = 1]
                 ELSE [q EXCEPT !.phase = "job", !.left = @ - 1,
                                !.snap = None, !.cmd = None, !.waited = 0]
     IN IF Accepted(q.snap, q.cmd, q.now, p)
        THEN /\ Batch(q.snap, q.cmd, q.now)
             /\ pass' = [pass EXCEPT ![p] = next]
        ELSE Stop(p, "failed") /\ UNCHANGED <<snapshot, outbox>>
  /\ UNCHANGED <<clock, job, operations, filing, leases, delivered>>

-----------------------------------------------------------------------------
(***************************************************************************)
(* The end of a job                                                        *)
(***************************************************************************)
\* A full outage: load again, and pause what can be paused.
Reload(p) ==
  /\ At(p, "outage")
  /\ pass' = [pass EXCEPT ![p].snap = snapshot,
                          ![p].phase = IF snapshot.state \in Pausable
                                       THEN "pausing" ELSE "failed"]
  /\ UNCHANGED <<clock, store, leases, delivered>>

\* A pause that cannot be committed is raised out of run_due_jobs.
PauseForProviderOutage(p) ==
  /\ At(p, "pausing")
  /\ LET q == pass[p]
         c == [kind |-> "Pause"]
     IN IF Accepted(q.snap, c, q.now, p)
        THEN Batch(q.snap, c, q.now) /\ Stop(p, "failed")
        ELSE Stop(p, "aborted") /\ UNCHANGED <<snapshot, outbox>>
  /\ UNCHANGED <<clock, job, operations, filing, leases, delivered>>

Delay == Delays[IF job.failures < Counted THEN job.failures ELSE Counted]

\* Record the outcome, under the token.
Record(p) ==
  /\ At(p, "ok") \/ At(p, "failed")
  /\ job' = IF ~Holds(p) THEN job
            ELSE IF At(p, "failed")
            THEN [job EXCEPT !.retry = pass[p].now + Delay, !.failures = @ + 1]
            ELSE [job EXCEPT !.retry = 0, !.failures = 0]
  /\ Stop(p, "release")
  /\ UNCHANGED <<clock, snapshot, outbox, operations, filing, leases, delivered>>

\* Mutant: the lease is released whoever holds it.
FreedAny(p) == [job EXCEPT !.token = None, !.until = 0]

\* WHERE id=? AND job_token=?
Freed(p) == IF Holds(p) THEN [job EXCEPT !.token = None, !.until = 0] ELSE job

Release(p) ==
  /\ At(p, "release")
  /\ job' = Freed(p)
  /\ Stop(p, "drain")
  /\ UNCHANGED <<clock, snapshot, outbox, operations, filing, leases, delivered>>

-----------------------------------------------------------------------------
(***************************************************************************)
(* process_outbox and housekeeping                                         *)
(***************************************************************************)
Commitment == "RESOLUTION_COMMITMENT_REQUIRED"

\* Select what is pending; a commitment the chain has confirmed is done.
Drain(p) ==
  /\ At(p, "drain")
  /\ \E confirmed \in BOOLEAN, blocked \in BOOLEAN :
       /\ outbox' = IF confirmed /\ outbox[Commitment] = "awaiting_adapter"
                    THEN [outbox EXCEPT ![Commitment] = "processed"]
                    ELSE outbox
       /\ pass' = [pass EXCEPT ![p].phase = "deliver",
                     ![p].todo = IF blocked THEN {}
                                 ELSE {e \in Effects : outbox[e] = "pending"}]
  /\ UNCHANGED <<clock, snapshot, job, operations, filing, leases, delivered>>

\* Mutant: the batch does not check that the row is still pending.
Owed(e) == TRUE

\* EXISTS(SELECT 1 FROM outbox WHERE id=? AND status='pending').
StillPending(e) == outbox[e] = "pending"

Deliver(p, e) ==
  /\ At(p, "deliver") /\ e \in pass[p].todo
  /\ pass' = [pass EXCEPT ![p].todo = @ \ {e}]
  /\ outbox' = IF outbox[e] # "pending" THEN outbox
               ELSE [outbox EXCEPT ![e] = IF e = Commitment
                                          THEN "awaiting_adapter"
                                          ELSE "processed"]
  /\ delivered' = IF e # Commitment /\ StillPending(e)
                  THEN [delivered EXCEPT ![e] = @ + 1] ELSE delivered
  /\ UNCHANGED <<clock, snapshot, job, operations, filing, leases>>

\* The pass ends and removes the AI leases that had run out when it began.
End(p) ==
  /\ At(p, "deliver") /\ pass[p].todo = {}
  /\ pass' = [pass EXCEPT ![p] = [Idle EXCEPT !.phase = "done"]]
  /\ leases' = [t \in Tasks |-> IF Free(t, pass[p].now) THEN None ELSE leases[t]]
  /\ UNCHANGED <<clock, store, delivered>>

\* The runtime ends the pass at an await; what it held stays held.
Crash(p) ==
  /\ pass[p].phase \notin {"ready", "done", "aborted", "crashed"}
  /\ pass' = [pass EXCEPT ![p] = [Idle EXCEPT !.phase = "crashed"]]
  /\ UNCHANGED <<clock, store, leases, delivered>>

-----------------------------------------------------------------------------
Pass(p) ==
  \/ Start(p) \/ Claim(p) \/ ReadBack(p)
  \/ Load(p) \/ Ask(p) \/ Answer(p) \/ Outage(p) \/ Refused(p)
  \/ \E at \in 0..MaxTime : Defer(p, at)
  \/ Commit(p)
  \/ Reload(p) \/ PauseForProviderOutage(p)
  \/ Record(p) \/ Release(p)
  \/ Drain(p) \/ End(p) \/ \E e \in Effects : Deliver(p, e)
  \/ Crash(p)

Writers ==
  \/ Tick
  \/ \E k \in Keys : ReceiveDispute(k) \/ FileDispute(k) \/ DropDispute(k)
  \/ \E o \in Outcomes, at \in 0..MaxTime : Adjudicate(o, at)

Next ==
  \/ \E p \in Passes : Pass(p)
  \/ Writers /\ UNCHANGED <<pass, leases, delivered>>

Spec == SchedulerInit /\ [][Next]_vars

-----------------------------------------------------------------------------
(***************************************************************************)
(* Properties                                                              *)
(***************************************************************************)
Phases == {"ready", "selected", "claimed", "job", "ask", "asking", "commit",
           "outage", "pausing", "ok", "failed", "release", "drain",
           "deliver", "done", "aborted", "crashed"}

\* Every column, lease and pass holds a value of its kind.
TypeOK ==
  /\ clock \in 0..MaxTime
  /\ snapshot.revision \in Nat /\ snapshot.at \in 0..MaxTime
  /\ snapshot.disputes \subseteq Keys
  /\ job.token \in Passes \cup {None} /\ job.until \in Nat
  /\ job.retry \in Nat /\ job.failures \in Nat
  /\ outbox \in [Effects -> Statuses \cup {None}]
  /\ \A p \in Passes : /\ pass[p].phase \in Phases
                       /\ pass[p].left \in 0..MaxTransitions
                       /\ pass[p].now <= clock
  /\ \A t \in Tasks : leases[t] # None => leases[t].token \in Passes

\* However the passes, the users and the operator interleave, the stored
\* record only ever takes a step the engine allows from the record as it
\* stands: no update is lost and none is applied to a record it did not see.
StepsAreLifecycle == [][L!Next]_(L!vars)

\* A user who was told that a dispute is filed finds it in the record for as
\* long as the proposal it disputes stands.
FiledDisputesStand ==
  \A k \in Keys :
    operations[k] # None /\ operations[k] = snapshot.resolution =>
      k \in snapshot.disputes

\* A job's lease passes to another only when it has run out, and ends before
\* that only by its holder's hand.
NoLeaseStolen ==
  [][\A p \in Passes :
       Holds(p) /\ job.until > clock /\ job'.token # p =>
         job'.token = None /\ pass'[p] # pass[p]]_vars

\* Settlement and notices are delivered at most once, by however many passes
\* drain the outbox, and only for a final result.
DeliveredOnce ==
  \A e \in Effects : /\ delivered[e] <= 1
                     /\ delivered[e] = 1 => snapshot.state = "FINALIZED"

\* A forecast is paused only where recover_job can pick its work up again:
\* while resolving, or while disputed with a dispute left to review.
PausesRecoverable ==
  /\ TypeOK
  /\ snapshot.state = "PAUSED" =>
       \/ snapshot.pausedFrom = "RESOLVING"
       \/ snapshot.pausedFrom = "DISPUTED" /\ Pending(snapshot) # {}

\* No result that arrives after the acceptance deadline is used (scheduler.rs,
\* on _bounded_ai).
LateAnswersRefused == \A p \in Passes : pass[p].waited < AITimeout

\* Every failure is recorded, not raised: no pass is cut short, leaving the
\* rest of its rows untried (run_due_jobs).
FailuresRecorded == \A p \in Passes : ~At(p, "aborted")
=============================================================================
