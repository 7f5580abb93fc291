------------------------------ MODULE Lifecycle ------------------------------
(***************************************************************************)
(* The forecast aggregate of packages/domain-rs/src/lifecycle.rs: the pure *)
(* engine that decides every lifecycle command.  One forecast is modelled. *)
(*                                                                         *)
(* The engine never reads a clock: each command carries the time it is     *)
(* decided at, and apply_command accepts any time that does not run before *)
(* the aggregate's own history.  So time is an input of each action, not a *)
(* variable.  apply_command re-validates the whole successor snapshot      *)
(* (validate_rules).  What that check asks of the command's inputs is in   *)
(* the actions' guards; that the rest of it can never refuse a command is  *)
(* the invariant SnapshotRules.                                            *)
(*                                                                         *)
(* The revision, one more with every commit, and the audit event belong to *)
(* the modules that race on them and relay them, Store and Registry.       *)
(***************************************************************************)
EXTENDS Integers, FiniteSets

CONSTANTS
  Specs,          \* the immutable specifications a draft may be given
  OpenAt,         \* [Specs -> time]: open_at_ms
  CloseAt,        \* [Specs -> time]: close_at_ms, after open_at_ms
  Outcomes,       \* YES, NO, INVALID
  YES,            \* the outcome an early resolution is confined to
  DisputeIds,     \* dispute identities
  MaxDisputes,    \* MAX_ACTIVE_DISPUTES
  Providers,      \* AI providers a routing policy may configure
  Durations,      \* challenge durations the application may choose
  MaxTime,        \* MAX_SAFE_INTEGER, as the limit of a time
  None            \* an absent optional field

Times == 0..MaxTime

States == {"DRAFT", "VALIDATING", "OPEN", "LOCKED", "RESOLVING", "PROPOSED",
           "CHALLENGE", "DISPUTED", "ESCALATED", "PAUSED", "FINALIZED",
           "ARCHIVED"}
Pausable == {"RESOLVING", "PROPOSED", "CHALLENGE", "DISPUTED", "ESCALATED"}
Dispositions == {"RETAIN", "INVALID_EVIDENCE", "MATERIAL"}

ASSUME LifecycleAssumption ==
  /\ OpenAt \in [Specs -> Times] /\ CloseAt \in [Specs -> Times]
  /\ \A s \in Specs : OpenAt[s] < CloseAt[s]
  /\ YES \in Outcomes
  /\ MaxDisputes \in Nat \ {0} /\ MaxTime \in Nat
  /\ Durations \subseteq Nat \ {0}
  /\ None \notin Int /\ None \notin {"passed", "failed"}
  /\ None \notin Dispositions /\ None \notin Pausable
  /\ \A r \in [early : BOOLEAN, outcome : Outcomes, at : Times,
               trigger : Times \cup {None}] : r # None

VARIABLES
  state,          \* Forecast.state
  updatedAt,      \* Forecast.updated_at_ms
  spec,           \* Forecast.specification
  assessment,     \* validation_assessment: None or whether it is publishable
  publishedAt,    \* published_at_ms
  trigger,        \* ForecastV2.early_trigger (its qualified_at_ms), None in v1
  upgradedAt,     \* ForecastV2.upgraded_at_ms, None in v1
  resolution,     \* the proposal, or None
  challengeStart, \* challenge_started_at_ms
  challengeUntil, \* challenge_until_ms
  disputes,       \* the active disputes, by identity
  reviews,        \* [DisputeIds -> a disposition, or None]
  pausedFrom,     \* Pause.previous_state, or None
  pausedAt,       \* Pause.paused_at_ms, or None
  configured,     \* Pause.configured_providers
  final,          \* the finalized resolution, or None
  granted,        \* history: the duration begin_challenge granted
  exposed         \* history: how long the proposal has stood open to
                  \* challenge, the time spent PAUSED not counted

publication == <<spec, assessment, publishedAt>>
early       == <<trigger, upgradedAt>>
challenge   == <<challengeStart, challengeUntil, granted>>
objections  == <<disputes, reviews>>
pause       == <<pausedFrom, pausedAt, configured>>
vars == <<state, updatedAt, exposed, publication, early, resolution,
          challenge, objections, pause, final>>

Resolutions == [early : BOOLEAN, outcome : Outcomes, at : Times,
                trigger : Times \cup {None}]

\* resolution_not_before_ms: expiry in v1, the moment of the upgrade in v2.
NotBefore == IF upgradedAt = None THEN CloseAt[spec] ELSE upgradedAt

\* AnyResolution::resolution_hash covers every field; Resolution::
\* resolution_hash, reached through base(), leaves the trigger out.
FullHash(r) == [early |-> r.early, outcome |-> r.outcome, at |-> r.at,
                trigger |-> r.trigger]
BaseHash(r) == [FullHash(r) EXCEPT !.trigger = None]

Pending  == {d \in disputes : reviews[d] = None}
Material == {d \in disputes : reviews[d] = "MATERIAL"}

-----------------------------------------------------------------------------
\* create_forecast: a new draft at revision 0.
Init ==
  /\ state = "DRAFT" /\ updatedAt \in Times
  /\ spec \in Specs /\ assessment = None /\ publishedAt = None
  /\ trigger = None /\ upgradedAt = None
  /\ resolution = None
  /\ challengeStart = None /\ challengeUntil = None
  /\ granted = 0 /\ exposed = 0
  /\ disputes = {} /\ reviews = [d \in DisputeIds |-> None]
  /\ pausedFrom = None /\ pausedAt = None /\ configured = {}
  /\ final = None

Contested == {"CHALLENGE", "DISPUTED", "ESCALATED"}

\* What apply_command and commit_transition do for every command: the state
\* table and no backdating; then the new state and the time.
Commit(allowed, now, new) ==
  /\ state \in allowed
  /\ now \in Times /\ now >= updatedAt
  /\ state' = new
  /\ updatedAt' = now
  /\ exposed' = IF state \in Contested THEN exposed + (now - updatedAt)
                ELSE IF state \in {"PAUSED", "FINALIZED"} THEN exposed
                ELSE 0

EditSpecification(now, s) ==
  /\ Commit({"DRAFT"}, now, "DRAFT")
  /\ spec' = s /\ assessment' = None
  /\ UNCHANGED <<publishedAt, early, resolution, challenge, objections,
                 pause, final>>

BeginValidation(now) ==
  /\ Commit({"DRAFT"}, now, "VALIDATING")
  /\ assessment' = None
  /\ UNCHANGED <<spec, publishedAt, early, resolution, challenge, objections,
                 pause, final>>

\* A publishable assessment cannot be recorded as a rejection.
RejectValidation(now) ==
  /\ Commit({"VALIDATING"}, now, "DRAFT")
  /\ assessment' = "failed"
  /\ UNCHANGED <<spec, publishedAt, early, resolution, challenge, objections,
                 pause, final>>

Publish(now) ==
  /\ Commit({"VALIDATING"}, now, "OPEN")
  /\ now < CloseAt[spec]
  /\ assessment' = "passed" /\ publishedAt' = now
  /\ UNCHANGED <<spec, early, resolution, challenge, objections, pause, final>>

SubmitForecast(now) ==
  /\ Commit({"OPEN"}, now, "OPEN")
  /\ OpenAt[spec] <= now /\ now < CloseAt[spec]
  /\ UNCHANGED <<publication, early, resolution, challenge, objections, pause,
                 final>>

Lock(now) ==
  /\ Commit({"OPEN"}, now, "LOCKED")
  /\ now >= CloseAt[spec]
  /\ UNCHANGED <<publication, early, resolution, challenge, objections, pause,
                 final>>

\* apply_early_lock: a qualified YES trigger closes the forecast before
\* expiry and upgrades the snapshot to v2.
LockEarly(now, qualified) ==
  /\ Commit({"OPEN"}, now, "LOCKED")
  /\ upgradedAt = None
  /\ now < CloseAt[spec]
  /\ OpenAt[spec] <= qualified /\ qualified <= now
  /\ trigger' = qualified /\ upgradedAt' = now
  /\ UNCHANGED <<publication, resolution, challenge, objections, pause, final>>

BeginResolution(now) ==
  /\ Commit({"LOCKED"}, now, "RESOLVING")
  /\ now >= NotBefore
  /\ UNCHANGED <<publication, early, resolution, challenge, objections, pause,
                 final>>

\* An ordinary resolution judges evidence collected after expiry.
ProposeResolution(now, outcome) ==
  /\ Commit({"RESOLVING"}, now, "PROPOSED")
  /\ now >= CloseAt[spec]
  /\ resolution' = [early |-> FALSE, outcome |-> outcome, at |-> now,
                    trigger |-> None]
  /\ UNCHANGED <<publication, early, challenge, objections, pause, final>>

\* An early resolution is YES and carries its trigger: the accepted one in
\* v2; a v1 snapshot accepts one that qualified inside the open window.
ProposeEarlyResolution(now, qualified) ==
  /\ Commit({"RESOLVING"}, now, "PROPOSED")
  /\ OpenAt[spec] <= qualified /\ qualified < CloseAt[spec]
  /\ qualified <= now
  /\ upgradedAt # None => qualified = trigger
  /\ resolution' = [early |-> TRUE, outcome |-> YES, at |-> now,
                    trigger |-> qualified]
  /\ UNCHANGED <<publication, early, challenge, objections, pause, final>>

BeginChallenge(now, duration) ==
  /\ Commit({"PROPOSED"}, now, "CHALLENGE")
  /\ now + duration <= MaxTime
  /\ challengeStart' = now /\ challengeUntil' = now + duration
  /\ granted' = duration
  /\ UNCHANGED <<publication, early, resolution, objections, pause, final>>

\* writes.rs builds the dispute around the proposal's full hash, and
\* Dispute::validate_for compares it with the base hash.
SubmitDispute(now, d) ==
  /\ Commit({"CHALLENGE", "DISPUTED"}, now, "DISPUTED")
  /\ now < challengeUntil
  /\ Cardinality(disputes) < MaxDisputes
  /\ d \notin disputes
  /\ FullHash(resolution) = BaseHash(resolution)
  /\ disputes' = disputes \cup {d}
  /\ UNCHANGED <<publication, early, resolution, challenge, reviews, pause,
                 final>>

\* Mutant: a review may be overwritten by a later one.
ReviewAgain(now, d, disposition) ==
  /\ Commit({"DISPUTED"}, now, "DISPUTED")
  /\ d \in disputes
  /\ reviews' = [reviews EXCEPT ![d] = disposition]
  /\ UNCHANGED <<publication, early, resolution, challenge, disputes, pause,
                 final>>

ReviewDispute(now, d, disposition) ==
  /\ Commit({"DISPUTED"}, now, "DISPUTED")
  /\ d \in Pending
  /\ reviews' = [reviews EXCEPT ![d] = disposition]
  /\ UNCHANGED <<publication, early, resolution, challenge, disputes, pause,
                 final>>

\* Mutant: a material dispute does not stop the proposal from being retained.
RetainRefuted(now) ==
  /\ Commit({"DISPUTED"}, now, "CHALLENGE")
  /\ Pending = {}
  /\ UNCHANGED <<publication, early, resolution, challenge, objections, pause,
                 final>>

RetainProposal(now) ==
  /\ Commit({"DISPUTED"}, now, "CHALLENGE")
  /\ Pending = {} /\ Material = {}
  /\ UNCHANGED <<publication, early, resolution, challenge, objections, pause,
                 final>>

\* Mutant: one dispute that was not material prevents escalation.
EscalateUnanimous(now) ==
  /\ Commit({"DISPUTED"}, now, "ESCALATED")
  /\ Pending = {} /\ Material = disputes
  /\ UNCHANGED <<publication, early, resolution, challenge, objections, pause,
                 final>>

\* Mutant: escalation without a material conflict.
EscalateAny(now) ==
  /\ Commit({"DISPUTED"}, now, "ESCALATED")
  /\ Pending = {}
  /\ UNCHANGED <<publication, early, resolution, challenge, objections, pause,
                 final>>

Escalate(now) ==
  /\ Commit({"DISPUTED"}, now, "ESCALATED")
  /\ Pending = {} /\ Material # {}
  /\ UNCHANGED <<publication, early, resolution, challenge, objections, pause,
                 final>>

\* The replacement is an ordinary resolution; the challenge starts afresh.
AdjudicateResolution(now, outcome) ==
  /\ Commit({"ESCALATED"}, now, "PROPOSED")
  /\ Pending = {}
  /\ now >= CloseAt[spec]
  /\ resolution' = [early |-> FALSE, outcome |-> outcome, at |-> now,
                    trigger |-> None]
  /\ challengeStart' = None /\ challengeUntil' = None
  /\ granted' = 0
  /\ disputes' = {} /\ reviews' = [d \in DisputeIds |-> None]
  /\ UNCHANGED <<publication, early, pause, final>>

\* finalize compares the command's time with the deadline.
WindowEnded(now) == now >= challengeUntil

Finalize(now) ==
  /\ Commit({"CHALLENGE"}, now, "FINALIZED")
  /\ WindowEnded(now)
  /\ Pending = {} /\ Material = {}
  /\ final' = resolution
  /\ UNCHANGED <<publication, early, resolution, challenge, objections, pause>>

Archive(now) ==
  /\ Commit({"FINALIZED"}, now, "ARCHIVED")
  /\ UNCHANGED <<publication, early, resolution, challenge, objections, pause,
                 final>>

\* Every configured provider must be unavailable.
PauseForProviderOutage(now, routing, unavailable) ==
  /\ Commit(Pausable, now, "PAUSED")
  /\ routing # {} /\ routing = unavailable
  /\ pausedFrom' = state /\ pausedAt' = now /\ configured' = routing
  /\ UNCHANGED <<publication, early, resolution, challenge, objections, final>>

\* Mutant: the outage is taken out of the challenge window.
KeepDeadline(now) == UNCHANGED challengeUntil

\* The deadline, where there is one, moves by the length of the outage.
ExtendDeadline(now) ==
  IF challengeUntil = None
  THEN UNCHANGED challengeUntil
  ELSE /\ challengeUntil + now - pausedAt <= MaxTime
       /\ challengeUntil' = challengeUntil + now - pausedAt

ResumeAfterProviderRecovery(now, provider) ==
  /\ Commit({"PAUSED"}, now, pausedFrom)
  /\ provider \in configured
  /\ ExtendDeadline(now)
  /\ pausedFrom' = None /\ pausedAt' = None /\ configured' = {}
  /\ UNCHANGED <<publication, early, resolution, challengeStart, granted,
                 objections, final>>

Next ==
  \E now \in Times :
    \/ \E s \in Specs : EditSpecification(now, s)
    \/ BeginValidation(now)
    \/ RejectValidation(now)
    \/ Publish(now)
    \/ SubmitForecast(now)
    \/ Lock(now)
    \/ \E q \in Times : LockEarly(now, q) \/ ProposeEarlyResolution(now, q)
    \/ BeginResolution(now)
    \/ \E o \in Outcomes : ProposeResolution(now, o)
                           \/ AdjudicateResolution(now, o)
    \/ \E n \in Durations : BeginChallenge(now, n)
    \/ \E d \in DisputeIds :
         SubmitDispute(now, d)
         \/ \E x \in Dispositions : ReviewDispute(now, d, x)
    \/ RetainProposal(now)
    \/ Escalate(now)
    \/ Finalize(now)
    \/ Archive(now)
    \/ \E p, u \in SUBSET Providers : PauseForProviderOutage(now, p, u)
    \/ \E p \in Providers : ResumeAfterProviderRecovery(now, p)

Spec == Init /\ [][Next]_vars

-----------------------------------------------------------------------------
(***************************************************************************)
(* Properties                                                              *)
(***************************************************************************)
Optional(S) == S \cup {None}

\* Every field of the snapshot holds a value of its declared type.
TypeOK ==
  /\ state \in States
  /\ updatedAt \in Times
  /\ exposed \in Int
  /\ spec \in Specs
  /\ assessment \in Optional({"passed", "failed"})
  /\ publishedAt \in Optional(Times)
  /\ trigger \in Optional(Times) /\ upgradedAt \in Optional(Times)
  /\ resolution \in Optional(Resolutions)
  /\ challengeStart \in Optional(Times) /\ challengeUntil \in Optional(Times)
  /\ granted \in Durations \cup {0}
  /\ disputes \subseteq DisputeIds
  /\ reviews \in [DisputeIds -> Optional(Dispositions)]
  /\ pausedFrom \in Optional(Pausable) /\ pausedAt \in Optional(Times)
  /\ configured \subseteq Providers
  /\ final \in Optional(Resolutions)

\* The state a paused forecast will return to.
Effective == IF pausedFrom = None THEN state ELSE pausedFrom

Terminal   == {"FINALIZED", "ARCHIVED"}
Challenged == Contested \cup Terminal
Unresolved == {"DRAFT", "VALIDATING", "OPEN", "LOCKED", "RESOLVING"}
PreLock    == {"DRAFT", "VALIDATING", "OPEN"}

\* The pause record is there exactly while PAUSED and lies in the past.
PauseRules ==
  /\ (state = "PAUSED") <=> (pausedFrom # None)
  /\ (pausedFrom = None) <=> (pausedAt = None)
  /\ pausedAt # None => pausedAt <= updatedAt /\ configured # {}

\* A forecast is published exactly from OPEN on, before expiry, as validated.
PublicationRules ==
  /\ (Effective \in {"DRAFT", "VALIDATING"}) <=> (publishedAt = None)
  /\ publishedAt # None => /\ publishedAt <= updatedAt
                           /\ publishedAt < CloseAt[spec]
                           /\ assessment = "passed"
  /\ publishedAt = None => assessment # "passed"
  /\ state = "VALIDATING" => assessment = None

\* A proposal exists exactly from PROPOSED on and was made no earlier than
\* resolution is allowed.
ResolutionRules ==
  /\ (Effective \in Unresolved) <=> (resolution = None)
  /\ Effective \notin PreLock => updatedAt >= NotBefore
  /\ resolution # None =>
       /\ NotBefore <= resolution.at /\ resolution.at <= updatedAt
       /\ resolution.early =>
            /\ resolution.outcome = YES /\ resolution.trigger <= resolution.at
            /\ OpenAt[spec] <= resolution.trigger
            /\ resolution.trigger < CloseAt[spec]

\* The v2 upgrade closes participation before expiry and fixes the trigger; an
\* ordinary resolution still waits for expiry.
EarlyRules ==
  /\ (trigger = None) <=> (upgradedAt = None)
  /\ upgradedAt # None =>
       /\ Effective \notin PreLock
       /\ OpenAt[spec] <= trigger /\ trigger <= upgradedAt
       /\ upgradedAt <= updatedAt /\ upgradedAt < CloseAt[spec]
       /\ resolution # None => IF resolution.early
                               THEN resolution.trigger = trigger
                               ELSE resolution.at >= CloseAt[spec]

\* A challenge window exists exactly while challenged, and is not empty.
ChallengeRules ==
  /\ (Effective \in Challenged) <=> (challengeStart # None)
  /\ (Effective \in Challenged) <=> (challengeUntil # None)
  /\ challengeStart # None => /\ resolution.at <= challengeStart
                              /\ challengeStart <= updatedAt
                              /\ challengeStart < challengeUntil

\* Disputes exist only while challenged; each state says how far their review
\* has come.
DisputeRules ==
  /\ disputes # {} => Effective \in Challenged
  /\ IsFiniteSet(disputes) /\ Cardinality(disputes) <= MaxDisputes
  /\ \A d \in DisputeIds : reviews[d] # None => d \in disputes
  /\ Effective = "DISPUTED" => disputes # {}
  /\ Effective = "ESCALATED" => Pending = {} /\ Material # {}
  /\ Effective \in {"CHALLENGE"} \cup Terminal => Pending = {} /\ Material = {}

\* What was finalized is the proposal that stood, after its window had ended.
FinalRules ==
  /\ (Effective \in Terminal) <=> (final # None)
  /\ final # None => final = resolution /\ updatedAt >= challengeUntil

\* commit_transition re-validates every successor snapshot (validate_rules,
\* and ForecastV2::validate after the upgrade).  None of those rules refuses
\* a command the state table and the guards have let through.
SnapshotRules ==
  /\ PauseRules /\ PublicationRules /\ ResolutionRules /\ EarlyRules
  /\ ChallengeRules /\ DisputeRules /\ FinalRules

\* Every snapshot the engine commits is one it would accept again: of the
\* declared layout and within the rules (validate_rules, ForecastV2::validate).
WellFormed == TypeOK /\ SnapshotRules

\* Pauses never eat the challenge window: while a proposal is contested, what
\* is left of the window and the time it has stood open always make up the
\* duration begin_challenge granted, however often providers failed meanwhile.
WindowPreserved ==
  challengeUntil # None /\ state \notin Terminal =>
    challengeUntil + exposed
      = granted + (IF state = "PAUSED" THEN pausedAt ELSE updatedAt)

\* finalize settles nothing that has not stood open to challenge for the whole
\* granted duration, outages not counted.
FullyExposed == state \in Terminal => exposed >= granted

\* The window begin_challenge granted is honoured through every outage, and at
\* finalization (resume_after_provider_recovery, finalize).
WindowHonoured == WindowPreserved /\ FullyExposed

Refuted ==
  resolution # None /\ resolution' # resolution =>
    /\ Pending = {} /\ Material # {}
    /\ final = None /\ final' = None

\* A proposal is replaced only by adjudication, after every dispute of it was
\* reviewed and one was material, and never once it is final.
ReplacedOnlyIfRefuted == [][Refuted]_vars

\* What predictors were shown when they took part (publish) is what the
\* forecast is later judged by, with or without an early lock.
PublishedStays ==
  publishedAt # None =>
    publishedAt' = publishedAt /\ spec' = spec /\ assessment' = assessment

\* A dispute, once filed, leaves the record only when adjudication takes up the
\* refuted proposal, and its review is never changed.
DisputesStay ==
  \A d \in disputes :
    \/ d \in disputes' /\ (reviews[d] # None => reviews'[d] = reviews[d])
    \/ Pending = {} /\ Material # {} /\ challengeUntil' = None

\* Nothing the engine commits rewrites what was published, or takes a dispute
\* or its review off the record.
RecordKept == [][PublishedStays /\ DisputesStay]_vars

\* Commands that take a forecast forward, outages aside.
Progress ==
  \E now \in Times :
    \/ BeginValidation(now) \/ RejectValidation(now)
    \/ Lock(now) \/ BeginResolution(now)
    \/ \E o \in Outcomes : ProposeResolution(now, o)
                           \/ AdjudicateResolution(now, o)
    \/ \E n \in Durations : BeginChallenge(now, n)
    \/ \E d \in DisputeIds, x \in Dispositions : ReviewDispute(now, d, x)
    \/ RetainProposal(now) \/ Escalate(now) \/ Finalize(now) \/ Archive(now)
    \/ \E p \in Providers : ResumeAfterProviderRecovery(now, p)

\* No reachable snapshot is stuck: until a forecast is ARCHIVED the engine
\* accepts some command that takes it forward, short of time itself running out
\* for a new window.
NeverStuck ==
  \/ ENABLED Progress
  \/ state = "ARCHIVED"
  \/ state = "PROPOSED" /\ \A n \in Durations : updatedAt + n > MaxTime

\* Every contested proposal, early ones included, can be disputed before its
\* deadline (docs/architecture/lifecycle.md; the early-resolution tests submit
\* a dispute against an early proposal).
OpenToDispute ==
  /\ state \in {"CHALLENGE", "DISPUTED"}
  /\ updatedAt < challengeUntil
  /\ Cardinality(disputes) < MaxDisputes
  => \A d \in DisputeIds \ disputes : ENABLED SubmitDispute(updatedAt, d)
=============================================================================
