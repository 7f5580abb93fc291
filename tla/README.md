# Forecast Network: verification

TLA+ models of Forecast Network: how a forecast is decided and recorded, how
the Solana program and the relay keep up with it, and what profiles hold. TLC
checks the models on small instances; TLAPS proves the theorems listed below
for every value of the constants.

    tlc -config MCMirrors.cfg MCMirrors.tla     # a run (all are in PROJECT.json)
    tlapm RelayProofs.tla                       # the proofs of one module

## The system

A forecast is a question with a fixed specification. Users take part until it
closes, an AI workflow proposes an outcome, anyone may dispute it for a
challenge window (48 h), material disputes go to an operator, and the outcome
becomes final, settling points and reputation. Production is `apps/web-rs`, a
Rust worker on Cloudflare D1 with a sweep every five minutes. It was ported
from the Python service in `packages/application`; the pure domain is
`packages/domain-rs`. `programs/forecast_registry` is the Solana program.

| Component | State | Operations | Interacts by |
|---|---|---|---|
| Lifecycle engine (`packages/domain-rs/src/lifecycle.rs`, `models.rs`) | none; a snapshot in, a snapshot out | 19 commands | called by every writer |
| Record store (`mutate.rs`, `writes.rs`, `adjudication.rs`) | `forecasts`, `events`, `outbox`, `operations` | one guarded batch per command | compare-and-set on revision and job token |
| Scheduler (`scheduler.rs`, `application.rs`) | `job_*`, `retry_at`, `ai_leases` | claim, advance, recover, pause, drain the outbox | passes overlap; each awaits models and the chain |
| Registry program (`programs/forecast_registry`) | config, reviewer, forecast, gate and receipt accounts | tags 0 to 14 | transactions of relayer, reviewer, administrator and users |
| Registry relay (`registry_chain.rs`, `solana.rs`) | `registry_intents`, `registry_delivery`, `registry_forecasts`, the daily spend | enrol, publish, confirm, prepare finalization | RPC, lossy and slow |
| Dispute intake mirror (`dispute_intake.rs`, `dispute_wire.rs`) | mirrored receipts, seals, admissions | refresh, import, verify a seal | RPC |
| AI workflows (`coordinator.rs`, `resolution.rs`, `dispute.rs`, `early.rs`, ...) | retained artifacts | compile, judge, review | calls to providers |
| Timing, eligibility, holds (`resolution_timing.rs`, `eligibility.rs`, `participation_holds.rs`) | reviews, decisions, holds | check, close, classify | a view that blocks the scheduler |
| Automation (`automation.rs`, `source_watch.rs`) | watches, observations, reviews, holds | poll, review, report, lock early | leases, the engine |
| Points and markets (`points.rs`, `point_markets.rs`, `pricing.rs`) | ledgers, positions, quotes, fills | stake, trade, settle, refund | batches, the outbox |
| Sign-in (`auth.rs`, `wallet_login.rs`, `wallets.rs`, `seeker.rs`) | challenges, sessions, links, badges | challenge, verify, link | guarded batches |
| Attestations (`attestation.rs`) | stamps | prepare, confirm, status | several devices |
| Translations, billing, risk feed (`translations.rs`, `billing.rs`, `risk_*.rs`) | a queue, reservations, a signed chain | generate, reserve, publish | leases, versions, callbacks |
| Read models, routes, canonical encoding, Python reference, clients | | stateless reads, pure functions, I/O | not modelled |

What is hard here:

- **Stale decisions.** Every writer decides on what it loaded before an await.
  One batch with a guard decides whether the commit still applies.
- **One time per pass.** A pass reads the clock once and uses it for claims,
  leases, deadlines and commands, however late it comes to a row.
- **Outages move deadlines.** A pause suspends the challenge window in the
  engine, the forecast account and the gate, each with its own arithmetic.
- **Three records of one truth.** Record, account and gate have to agree
  although nodes lag, transactions are lost or land late, and passes overlap.
- **No row counts.** Several writers read before and after an update to learn
  whether it was theirs.
- **Crashes at any await**, leaving leases held and work half recorded.

PROJECT.json lists 40 such hazards at their lines with the properties that
cover them. Three have none: the return of a backed-off forecast (the scheduler
model bounds its clock), and the unpaid reporter and the balance of the badge
below.

## Modules

| Module | Models |
|---|---|
| `Lifecycle` | `apply_command`, `commit_transition`, `validate_rules`: one forecast under every command, at any time that does not run backwards |
| `Store` | the record of one published v1 forecast: the guarded batch, dispute requests, adjudication, and the mapping `L` to `Lifecycle` |
| `Scheduler` | overlapping passes of `run_due_jobs` over `Store` |
| `Registry`, `RegistryRoles` | the program: a forecast account with its gate and receipts; the config and reviewer accounts |
| `Wire` | the layouts and instructions the program and the Worker exchange, both sides |
| `Relay`, `Replica` | the relay of one forecast; what it promises, a log copied in order |
| `DailySpend` | `reserve_daily_spend`, with its reads before and after |
| `Intake` | the mirror of one dispute intake |
| `Commitments` | what evidence, verifications, resolutions, disputes and reviews must prove of one another |
| `Judging` | the AI workflows over providers that fail, decline or answer |
| `Timing` | evidence placed against the last receipt: check, analyze, close |
| `SourceWatch` | polls, reviews, holds and their release |
| `Points`, `Markets` | participation points and their barriers; market books, refunds and settlement |
| `SignIn`, `Seeker`, `Attestations` | sessions and wallets; the badge; stamps |
| `Translations`, `RiskFeed`, `Billing` | generated editions; the operated feed; sandbox invoices |
| `*Proofs` | the theorems: `LifecycleProofs` of `Lifecycle`, `Timing` and `Translations`; `SchedulerProofs` and `IntakeProofs` of their modules; `SignInProofs` of `SignIn` and `Seeker`; `RegistryProofs` of `Registry` and `RegistryRoles`; `RelayProofs` of `Relay` and `DailySpend`; `AccountsProofs` of `Attestations` and the cutoffs of `Points`; `AutomationProofs` of `SourceWatch`, `Judging` and `RiskFeed` |
| `MC*` | instances for TLC |

An action is a handler up to its next await, or one batch; its guard is the
code's conditions. Times, texts, hashes and addresses are reduced to what the
rules compare. History variables (`exposed`, `gated`, `held`, `told`,
`delivered`, ...) are marked where they are declared.

**Lifecycle.** One action per command. Time is an input of each command, so
nothing is assumed of clocks except that a command may not predate the last.
`granted` and `exposed` are history: the duration `begin_challenge` was given,
and how long the proposal has stood contested outside pauses. The conjuncts of
`SnapshotRules` are `validate_rules`, one by one; that they are an invariant
says that the re-validation of a successor never refuses a command.

**Store, Scheduler.** `Legal` and `Applied` are the engine on a possibly stale
snapshot; `Guard` is the guard row, `Batch` the statements that go with it. A
pass is a program counter (`phase`) with what its Rust frame holds. `Crash` may
happen at any await. What the blockers view, the timing review and the chain
decide is left open (`Refused`, `Defer`). The delays of retries are a table
(`Delays`), since only their order matters.

**Registry.** `Advance` payloads are arbitrary within `Payloads`: the relayer
is not trusted with order, times or counts. `Accepts` is
`Forecast::advance_intake` with its closing `validate`. A payload that names
the wrong predecessor is refused first thing, so hashes of events are left
out. `RegistryRoles` lets every appointment ever signed land at any time.

**Relay.** Rows of `registry_delivery` with their leases, kept as what is left
of them so that passes may recur for ever. A pass selects, leases, reads an
account from a node that may be behind, decides, sends, and writes its outcome
if it still holds the lease. The chain, external, takes a revision that
succeeds the one it holds. A finalize is two steps around `prepare_finalization`,
with the trigger `registry_finalization_guard` at the commit.

**SourceWatch.** A pass reads, awaits and writes, and its leases end four
minutes after it began (`LEASE_MS`), whatever it is doing: `Expire` may take any
lease at any time. The pass goes on, since it compares the lease with the clock
it began with, until another has taken the row. Selecting a row, claiming it,
taking the hold, asking, storing, dismissing and releasing are steps of their
own; only storing, acting and completing ask whose row it is, and the release
does not. A key of `participation_holds` is used once: it answers the same
request as it did (`Replays`) and any other with a conflict. `armed` and
`cleared` are history: what was queued and held, and what stood dismissed when
the watch released.

**Attestations.** Prepares of several devices, each a count, two reads and an
insert with awaits in between; confirms that report any signature; receipts and
links that change meanwhile.

**One forecast, one part.** Most modules are about one forecast, user or pool.
The MC modules put several of them side by side: a behaviour chooses its
`part` at the start and the others rest, since none reads another's rows.

## Runs

| Run | Instance | Shows |
|---|---|---|
| `records` | the engine with 2 specifications, 3 disputes (cap 2), 2 providers, times 0..5; three ticks of a feed, and two among two callbacks; two translation requests; 1 to 3 providers under one redeployment; two passes and an operator placing evidence | the snapshot rules and the window survive outages (`WellFormed`, `WindowHonoured`), no snapshot is stuck (`NeverStuck`), what was published and disputed is kept; a feed publishes what is stored; a translation is of what is shown; nobody reviews its own decision; a result that counts rests on evidence after the last receipt |
| `registry` | 4 keys and 3 appointments; two epochs with one disputing wallet; one epoch with two; records with up to 2 altered fields | the config stays readable, appointments are fresh, 48 unpaused hours before finality, seals that stay valid and override no dispute, both sides read what the other wrote or refuse it |
| `mirrors` | two overlapping relay passes with lagging nodes and two faults over 2 revisions, one pass over 3 with an early lock and a hold; two spenders; two mirror requests, and one over a longer chain; two passes of the source watch that may outlive their leases: over two contents of an article while the question is open, and over one with a second attempt and an operator or a crash, until it is locked | the chain copies the record in order, no lagging answer is taken for a conflict, finality waits for the chain, the budget holds, the mirror holds the past of the chain, what the watch found stays held |
| `scheduler` | 2 passes, a dispute request, 5 times; answers of three providers about two questions | every commit is an engine step on the record as it stands; disputes stand, effects go out once, pauses recover, leases hold; a decision rests on answers about it |
| `accounts` | points with early cutoffs and with rewards; markets with two refund passes, and two buyers at the limits; sign-in with two contexts; a badge; two devices and their stamps; two billing commands | balances are their ledgers, books balance, trades are as quoted, refunds meet the cutoff, wallets convert once, evidence never gets older, cents are accounted for, stamps are kept |
| `live` | one pass of the relay, the books and the watch each, no faults but one crash of the watch | deliveries are confirmed, markets settled and refunded, reviews end |

The bounds are the least that reach the cases in question: two disputes and a
cap of two give a pending and a reviewed dispute together and a refused third;
two epochs a replacement with receipts in the replaced one; two passes one that
holds a lease and one that takes it over; leases and windows of one or two
ticks within four to six let them end, be extended and end again. Each property
has a mutant of the code in PROJECT.json that its run rejects. A review is
claimed at most `MaxClaims` times, since a pass may die or be overtaken for ever
without its attempts being looked at: two claims are one pass that overtakes
another, and `live` allows more than its attempts and its crash can use. The runs
set
`CHECK_DEADLOCK FALSE`: a finished forecast, or a clock at its bound, has
nothing left to do.

**Fairness** is assumed in `live` only. The cron trigger starts passes for ever
and a pass that is not killed goes on: weak fairness of time, of each pass of
the relay, of the refund and settlement passes, of the polls and reviews of the
watch. The chain executes what it received or loses it, without a fault it
executes: weak fairness of `Execute`. Everything else is safety, an action
property, or possibility (`NeverStuck`, with `ENABLED`).

## Disagreements

Six runs end in a violation; each states what a comment, a document or a test
of the repository says and the code does not do. They check:

- `lifecycle_dispute`: a dispute of an early proposal is never accepted. The
  caller binds it to the hash of the whole proposal, the engine compares it
  with the hash of the resolution inside it.
- `scheduler_late`: a late answer is used, since the clock given to the
  deadline is the constant time of the request.
- `scheduler_abort`: a pause that loses its race ends the whole pass.
- `relay_retry`: one failed call of the transport blocks a forecast's
  deliveries for good.
- `points_restore`: the stake that `apply()` voided stays committed.
- `watch_overtaken`: a pass of the source watch whose lease has ended still
  releases the hold, while the pass that took the review over asks the model.
  The row itself keeps new entries out until it is complete, but an acceptance is
  then refused for want of a hold, and the hold cannot be taken again under its
  used key.

Met while modelling, without a run of their own (files of `apps/web-rs/src`
unless said otherwise):

- Scheduler: an AI lease runs from the time the pass began (scheduler.rs:169),
  so that two passes may be in a call for one forecast; the comment at :13
  speaks of one. The relay's `backfill` compares a stored intent with the
  base of its snapshot (registry_chain.rs:1057), so that the intent of a v2
  revision, which is of the whole snapshot, looks like a conflict.
- Daily spend: the read before and the read after an update (registry_chain.rs:220)
  may take another delivery's equal amount for its own, so that two are
  authorized where one fits. The ledger stays within the limit, what is spent
  may not.
- Points: the reporter is paid in a batch after the lock (automation.rs:507); a
  crash between them is repaired by nobody, the retry answers success.
- Translations: the global count is taken before the minute limit refuses
  (translations.rs:966), and the deadline check at :988 never
  fires, on a clock that stands still. Wallet sign-in (wallet_login.rs:532) and
  the risk feed have such clocks as well.
- AI workflows: `preceding_provider_failures` is always empty, and artifacts of
  failed providers are dropped on success (coordinator.rs:225, :327); a
  resolution or a dispute review drops earlier artifacts when a later call
  fails. early.rs:475 dismisses a page for a time stated after the observation,
  against early.rs:17. An early resolution of two providers can only be
  reviewed by a third.
- Attestations: a second confirm with another signature changes no row and is
  answered as a success; a stamp may pair a receipt and a wallet that were
  never looked at together.
- Timing: a pass with an old review, a close as INVALID and a commit of YES can
  follow one another so that finalize is refused for good: reviews and closures
  are not guarded by the job token. An adjudication whose evidence has no
  publication time leaves a review that blocks every later one.
- Wire: `decode_forecast` (solana.rs:484) accepts a finalized account without a
  reputation commitment, which the program refuses; `Accumulator::decode` and
  `Receipt::decode` ask less than the program does. The relay still encodes
  tag 2, which the program refuses (`LegacyAdvanceDisabled`), and
  `docs/architecture/devnet-registry-protocol.md` describes it.
- Source watch: no validator of a response is ever stored (source_watch.rs:557);
  a review whose lease ran out is asked again by whoever comes first (:877), and
  an answer may replace a dismissal that already released the hold (:976);
  `hold()` answers a conflict once a hold under its key was released, by an
  operator or the watch.
- Seeker badge: the balance is stored as text (seeker.rs:486) and read as a
  number with zero for the rest (:241), so that every badge shows zero, where
  `tests/test_seeker.py:104` expects the balance.
- Risk feed: a tick tries a revoked upcoming episode again every time, and the
  seed that lost a race is answered with a conflict.
- Billing: a release is refused for ever when it would take the pool's
  available amount beyond `MAX_CENTS`.

## Proofs

Every theorem has the form `Spec => []Inv` or `Spec => [][A]_vars`, for the
whole specification of its module and under the named assumptions on the
constants (as hypothesis `Assumption /\ Spec` where the module is instantiated
by the runs): times, limits and bounds are natural numbers, sets of users, keys,
passes or wallets are arbitrary (finite where they are counted), the value for
NULL is none of the present values, specifications open before they close. TLC
evaluates the assumptions in the runs.

| Module | Theorems | Inductive invariant, and what it adds |
|---|---|---|
| `LifecycleProofs` | `SnapshotsValid`, `FullExposure`, `ReplacementsRefuted`, `RecordStays` | the snapshot rules, with `WindowPreserved` |
| | of the placing: `TimingInvariant`, `ResultsPlacedInTime` | `Sound`, `Resolved`, with the property's `Placed`, `AsDetermined`, `Admitted` |
| | of the translations: `TextInvariant`, `TextsAreAsShown` | `Asked`, `Leased`, `LeasedOrOvertaken`, `Charged` |
| `RegistryProofs` | `Invariant`, `WindowGranted`, `SealsRespect`, `SealsStay`, `ReplacementsReviewed` | `ExposureCounted`, `ReceiptsOfEpochs`, `AcceptedInTime`, `SealedClean` |
| | of the roles: `RolesTypeCorrect`, `ConfigStaysReadable`, `AppointmentsAreFresh` | `RevisionCounts`, `SignedOverRevision` |
| `SchedulerProofs` | `Invariant`, `DisputesStand`, `EffectsOnce`, `Recovery`, `LeaseHeld`, `RecordRefinesEngine` | `InHand` (`AsLoaded`), `Ruled`, `Asking`, `Owing`, `Receipts` |
| `RelayProofs` | `Invariant`, `FinalBehindChain`, `RelayRefinesReplica`, `NothingMisjudged` | `Tracked`, `Copied`, `InHand`, `Sent`, `Gate`; `Ordered`, `Overtaken` |
| | of the daily spend: `WithinLimit` | types: the condition of the update is the invariant |
| `IntakeProofs` | `Mirrored`, `FiledAsHeld`, `HonestChainRaisesNothing`, `FinalIsSealed`, `FilingsOnlyAdvance`, together `HoldsThePast` | `Chained`, `Counted`, `OfProposal`; `Filings`, `Faithful` |
| `AutomationProofs` | `Watched`, `RowsTyped`, `StaysHeld` | `Noticed`, `Preserved`, `KeysArmed`, `Carried`, `Counted` |
| | of the workflows: `WorkflowInvariant`, `ApartAndRetained` | `Retaining`, `WatchPart`, `EarlyPart`, `DisputePart` |
| | of the risk feed: `FeedInvariant`, `PublishedAsStored` | `OneEach`, `BoundTo`, `InOrderSoFar`, `Ticking` (`Drafted`) |
| `SignInProofs` | `WaysInInvariant`, `OnlyByWallet`, `OneProfileEach` | `Linked`, `Proven`, `Closed`, `Held` |
| | of the badge: `BadgesInvariant`, `NeverOlderEvidence` | `AsRead`, `LookedUp`, `Past` |
| `AccountsProofs` | `StampsInvariant`, `StampsAreKept` | `HeldNow`, `Budget`, `StampsSound`, `AllSound` |
| | of the cutoffs: `CutoffsInvariant`, `CutoffsAreGuarded` | `Numbered`, `Classed`, `Guided` |

Why the invariants need what they add:

- **Lifecycle.** `finalize` only compares its time with the deadline, so the
  deadline has to account for the exposure: deadline + exposed = granted + the
  time of the record, or of the pause. That needs the deadline to exist exactly
  while challenged and a pause to remember its beginning.
- **Timing.** `check`, `analyze` and the commit are reads before an await, and
  nothing guards reviews and closures by the job token. What a pass carries
  stays true all the same (`Sound`), because the last receipt stands still once
  the forecast is locked, a decision or a closure is never taken back, retained
  bodies are never removed and the revision it read is compared at the commit.
- **Translations.** The batch compares the rows a request read, so the request
  must carry the document of just those rows and a draft validated against it
  (`Asked`). A generator is alone because of its lease, or some request that
  began a lease later found it run out (`LeasedOrOvertaken`). This property was
  first stated of the two generators alone and is false of three requests: the
  one that overtook may be done, and its lease taken by a third that began
  earlier. What is about to call counts as a call already (`Charged`), so that
  the limits hold between the count and the call.
- **Roles.** The role's revision counts its changes and an appointment
  names the revision at its signing; one that matches was signed since the last
  change.
- **Registry.** The program keeps an account without naming it: what a proposal
  has stood open and what it must still wait make up the window
  (`ExposureCounted`). Receipts are never of an epoch to come, every receipt was
  accepted by a deadline that has not moved back, and a gate that is sealed or
  closed has nothing pending, nothing material and a payload that finalizes.
- **Scheduler.** What a writer holds is the record as it stands, or of an
  earlier revision, which the guard row refuses (`AsLoaded`). So every commit is
  a command on the record itself: the record keeps the engine's rules (`Ruled`),
  what is asked of models can still be answered (`Asking`), a lost or refused
  request left no receipt (`Receipts`), and an effect is owed or delivered, not
  both (`Owing`). `RecordRefinesEngine` maps each step to the engine's command
  or to a stutter.
- **Relay.** A pass carries a revision whose predecessors are all confirmed
  (`InHand`), what is confirmed is a prefix of what the chain holds (`Copied`),
  nothing is sent that is not in the history (`Sent`), and what the gate
  recorded of the record's last revision stays true of the chain (`Gate`).
  Refinement of `Replica` follows: a step appends, copies, confirms the next
  revision, or rests. For `NeverMisjudged` the chain is at most one revision
  ahead of what is confirmed (`Ordered`), so an answer that is not older than
  the last confirmation shows the revision or its predecessor, unless another
  pass has confirmed it meanwhile (`Overtaken`); a confirmed delivery has no
  lease, and the verdict is not written.
- **Attestations.** The rows of a day and the requests on their way to one are
  together within what was counted (`Budget`); the receipt and the wallet a
  request has read were held together at some time since (`HeldNow`,
  `AllSound`).

- **Intake.** Accounts are read one by one while the chain moves. Every change of
  a gate is a revision of it and a sealed gate is the last (`Chained`), so a gate
  that reads the same twice has stood in between, and what was read in between
  is what it counts (`Counted`) and of the proposal it names (`OfProposal`). What
  a request is about to write (`Faithful`) and what is filed (`Filings`) is what
  the chain held at the slot beside it.
- **Source watch.** Nothing is asked of leases: a pass that was overtaken may
  store, dismiss and release as it likes. A content is armed under a hold that is
  in force, or again by the request that took one for it (`KeysArmed`), and its
  row is queued before that and never removed (`Preserved`, `Carried`). So the
  guard of a release, which looks at every row once more, sees everything that
  is armed, and all of it is then cleared. That an attempt given back never goes
  below zero needs that it was counted by the pass that still has the row
  (`Counted`). What does not hold is that the content stays dismissed
  afterwards, or is asked about under a hold: `watch_overtaken`.
- **Workflows.** Who may answer is settled when a call is made, by the deployment
  of the moment, and judged against the record when it ends: a lead's call is
  asked of the lead alone, a counter judge is another provider than the judge it
  was given (`CounteredApart`), a re-judge is none of the resolution's. That a
  call has one configuration to try is what keeps a failover from reaching the
  judge itself.
- **Sign-in.** A request acts on tables it read before an await, so its batch
  repeats the guards, and the invariant speaks of the tables alone: the proof
  that opened a session is used, by that session only, and its wallet is the
  profile's (`Proven`); a converted profile has no code and no live session that
  a proof did not open (`Closed`); a session bound to a context is the one the
  context calls active (`Held`). `Linked` makes a wallet one profile's.
- **Badge.** A refresh writes over what it read before it asked the chain. The
  revision of a row counts its writes, so a batch that finds the revision it
  read finds the row it read (`AsRead`), whose evidence is no younger than what was
  looked up since (`LookedUp`), because no row is of a time to come (`Past`).
- **Risk feed.** A tick signs long after it collected. What it is about to sign
  was told of its question at the tick's instant by some state of it (`Drafted`);
  the batch finds the same snapshot, and a snapshot tells all that is signed
  (`SnapshotTells`), so it is still told by the question as it stands. The head a
  tick read is at most the feed's length, and the feed's last instant is no later
  than the tick's if it is that length (`Ticking`). An episode has one question
  since publishing it finds none (`OneEach`), and a tick that dies before it
  binds leaves a question that the next one finds (`BoundTo`).
- **Cutoffs.** Receipts are numbered as they come (`Numbered`), a class is what
  the decided cutoff says of a receipt (`Classed`), and past its decision
  `accept()` carries the trigger that was decided (`Guided`), whichever trigger
  it came with.

Only model-checked, and why:

- liveness under fairness (the run `live`) and `NeverStuck` (`ENABLED`): out of
  the prover's reach;
- `PointsBalance`, `BooksBalance`, `CentsAccounted`: sums over ledgers, which
  need induction over data;
- `TradesAsQuoted`, `RefundsMeetPrefix`: tabulated costs and prefixes of fills;
- `DecidedAsBound`, `ReadAsWritten`: hold of finitely many record shapes, which
  TLC enumerates.

## What the models leave out

Wording, layout, hashes and signatures (identities), fetching, parsing and
prompting (inputs), rate limits and read models. Beyond that:

- Store: v2 records, submissions, comments, shares and profiles. Scheduler:
  other rows of a pass are time that goes by.
- Relay: address derivation and messages. Its chain is external and cut down to
  what the relay reads, as is that of `Intake`; `Registry` is the program
  itself. `Intake` is not called by the Worker's routes so far.
- Judging: one workflow at a time. Commitments: three answers, a hash is its
  kind and parts. The adjudicator's decision is an operator's.
- Points: restoring a void stake is known from the Python reference only.
  Markets: one operating mode, gates of `open_guard` omitted (more behaviours),
  the cost function a table. Billing: refused commands.
- Timing: one v1 forecast; a lease may run out at any time; early resolutions
  are exempt, as in the code. RiskFeed: a collection is read at once, the v1
  publisher is left out. Translations: taking the lease is one step.
- Wire: a byte string is the placement of its fields; records within two
  altered fields of one that was written.

The components marked `partly` or `not_modelled` in PROJECT.json say the same
at their place.

## Plan

1. The sums behind `PointsBalance` and `BooksBalance` as ledgers that carry
   their totals, so that each step's change can be proved.
2. The initial states of `RecordRefinesEngine`: publication as an action of
   `Store`, so that the mapping starts at a draft.
3. Relative timers in `Scheduler`, for the return of a forecast that backs off.
