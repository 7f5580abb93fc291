------------------------------ MODULE RiskFeed ------------------------------
(***************************************************************************)
(* The operated risk feed of one channel and one series: the scheduled     *)
(* tick that seeds and binds the next episode's question ahead of its      *)
(* start, refreshes one aging estimate under a lease, and signs a          *)
(* publication of what is current (risk_feed_series.rs, risk_refresh.rs,   *)
(* risk_feed_v2.rs, risk_ops.rs, the callbacks of admin_risk.rs).          *)
(*                                                                         *)
(* The cron trigger starts a tick every minute and does not wait for the   *)
(* last one, so that ticks overlap; the clock of a tick stands still at    *)
(* the instant it began.  Records admitted by an operator (definitions,    *)
(* profiles, the series) are constants; the body of an estimate or of a    *)
(* submission is the time it was made.                                     *)
(***************************************************************************)
EXTENDS Integers, Sequences, FiniteSets, FiniteSetsExt

CONSTANTS
  Ticks,          \* ticks under way at once
  Users,          \* people whose submissions the crowd signal pools
  Last,           \* bound: episodes are 1..Last
  Cadence, Window, LeadTime,   \* of the series
  Mappings,       \* the mappings looked at: TRUE for exact_dated
  Grid,           \* sampling_grid_ms of the definition
  MaxAge,         \* max_forecast_age_ms of the profile
  Ttl,            \* FEED_TTL_MS
  Retry,          \* RETRY_MS
  RefreshLease,   \* LEASE_MS of an AI lease
  MaxInstant, MaxTicks, MaxEvents,   \* bounds
  Empty

RiskFeedAssumption ==
  /\ {Cadence, Window, MaxAge, Ttl, RefreshLease} \subseteq Nat \ {0}
  /\ {LeadTime, Grid, Retry, Last, MaxInstant, MaxTicks, MaxEvents} \subseteq Nat
  /\ Mappings \subseteq BOOLEAN /\ Empty \notin Nat

Episodes == 1..Last
WindowStart(e) == e * Cadence
WindowEnd(e) == WindowStart(e) + Window

VARIABLES
  instant,
  exact,          \* the mapping of the definition is exact_dated
  questions,      \* the seeded forecasts, in the order they were published
  binding,        \* risk_feed_bindings_v2: by episode, the question or Empty
  revoked,        \* risk_feed_binding_revocations_v2
  attempts,       \* risk_feed_series_log_v2: the last attempt at an episode, or Empty
  refreshing,     \* ai_leases of a question's refresh: [q, tick, until] or Empty
  feed,           \* risk_feed_publications_v2; the head's sequence is its length
  tick,           \* the ticks under way
  started, events

feedvars == <<instant, exact, questions, binding, revoked, attempts, refreshing, feed, tick, started,
              events>>
store == <<questions, binding, revoked, attempts, refreshing, feed>>

NoTick ==
  [pc |-> "idle", at |-> 0, e |-> Empty, q |-> Empty, row |-> Empty, seq |-> 0, snap |-> Empty]

FeedInit ==
  /\ instant = 0 /\ exact \in Mappings /\ questions = <<>>
  /\ binding = [e \in Episodes |-> Empty] /\ revoked = {}
  /\ attempts = [e \in Episodes |-> Empty] /\ refreshing = Empty /\ feed = <<>>
  /\ tick = [t \in Ticks |-> NoTick] /\ started = 0 /\ events = 0

AtStep(t, pc) == tick[t].pc = pc
Onward(t, pc) == tick' = [tick EXCEPT ![t].pc = pc]
EndTick(t) == tick' = [tick EXCEPT ![t] = NoTick]
\* The next phase of the tick, which knows only its clock.
Phase(t, pc) == tick' = [tick EXCEPT ![t] = [NoTick EXCEPT !.pc = pc, !.at = tick[t].at]]

Begin(t) ==
  /\ AtStep(t, "idle") /\ started < MaxTicks /\ started' = started + 1
  /\ tick' = [tick EXCEPT ![t] = [NoTick EXCEPT !.pc = "series", !.at = instant]]
  /\ UNCHANGED <<instant, store, events>>

------------------------------------------------------------------------------
(***************************************************************************)
(* The next episode of the series.                                         *)
(***************************************************************************)
Standing == {e \in Episodes : binding[e] # Empty /\ e \notin revoked}
Latest == IF Standing = {} THEN Empty ELSE Max(Standing)

\* next_episode_start: after the latest one if that is still ahead, else the
\* next boundary strictly after the tick's clock.
NextEpisode(at) ==
  IF Latest # Empty /\ WindowStart(Latest + 1) > at THEN Latest + 1 ELSE at \div Cadence + 1

BackingOff(e, at) ==
  attempts[e] # Empty /\ attempts[e].failed /\ at - attempts[e].at < Retry

\* create_due_episodes: one attempt, within the lead window and not backing off.
Due(t) ==
  LET at == tick[t].at
      e == NextEpisode(at)
  IN  /\ AtStep(t, "series")
      /\ IF e \in Episodes /\ WindowStart(e) - LeadTime <= at /\ at < WindowStart(e) /\ ~BackingOff(e, at)
           THEN tick' = [tick EXCEPT ![t].pc = "seed", ![t].e = e]
           ELSE Phase(t, "stale")
      /\ UNCHANGED <<instant, store, started, events>>

QuestionsOf(e) == {q \in DOMAIN questions : questions[q].e = e}

\* seed: the same question was already asked, or it is compiled ...
Seed(t) ==
  LET e == tick[t].e IN
  /\ AtStep(t, "seed")
  /\ IF QuestionsOf(e) # {}
       THEN tick' = [tick EXCEPT ![t].pc = "bind", ![t].q = Min(QuestionsOf(e))]
       ELSE Onward(t, "publish")
  /\ UNCHANGED <<instant, store, started, events>>

\* Mutant of Unasked: neither the operation's key nor the question is unique.
UnaskedAnyway(e) == TRUE

\* The operation key, the specification hash and the question are UNIQUE.
Unasked(e) == QuestionsOf(e) = {}

\* ... and published in one batch; a tick that lost the race has an attempt that failed.
PublishQuestion(t) ==
  LET e == tick[t].e  at == tick[t].at IN
  /\ AtStep(t, "publish") /\ Unasked(e)
  /\ questions' = Append(questions,
       [e |-> e, open |-> at, state |-> "OPEN", rev |-> 0, held |-> FALSE,
        ai |-> [at |-> at, clock |-> FALSE], votes |-> [u \in Users |-> Empty]])
  /\ tick' = [tick EXCEPT ![t].pc = "bind", ![t].q = Len(questions) + 1]
  /\ UNCHANGED <<instant, binding, revoked, attempts, refreshing, feed, started, events>>

\* The attempt is logged; a tick's second row for its instant is ignored.
Logged(t, failed) ==
  LET e == tick[t].e  at == tick[t].at IN
  attempts' = IF attempts[e] # Empty /\ attempts[e].at >= at THEN attempts
              ELSE [attempts EXCEPT ![e] = [at |-> at, failed |-> failed]]

\* A compiler, review, budget or approval failure, or a lost race.
AttemptFails(t) ==
  /\ tick[t].pc \in {"publish", "approve"}
  /\ Logged(t, TRUE) /\ Phase(t, "stale")
  /\ UNCHANGED <<instant, questions, binding, revoked, refreshing, feed, started, events>>

\* attempt: a binding that exists is not approved again, revoked or not ...
Bind(t) ==
  LET e == tick[t].e IN
  /\ AtStep(t, "bind")
  /\ IF binding[e] # Empty THEN Logged(t, FALSE) /\ Phase(t, "stale")
     ELSE Onward(t, "approve") /\ UNCHANGED attempts
  /\ UNCHANGED <<instant, questions, binding, revoked, refreshing, feed, started, events>>

\* approve_binding_v2: the authorization is current and the question open; the
\* binding's identity is the episode's.
Approve(t) ==
  LET e == tick[t].e  q == tick[t].q IN
  /\ AtStep(t, "approve") /\ binding[e] = Empty
  /\ questions[q].state = "OPEN" /\ questions[q].open <= tick[t].at /\ tick[t].at < WindowEnd(e)
  /\ binding' = [binding EXCEPT ![e] = q]
  /\ Logged(t, FALSE) /\ Phase(t, "stale")
  /\ UNCHANGED <<instant, questions, revoked, refreshing, feed, started, events>>

------------------------------------------------------------------------------
(***************************************************************************)
(* Refreshing one estimate.                                                *)
(***************************************************************************)
\* CURRENT_V2: authorized, unrevoked, open and not held.
CurrentBinding(e, at) ==
  LET q == questions[binding[e]] IN
  /\ e \notin revoked /\ q.state = "OPEN" /\ ~q.held
  /\ q.open <= at /\ at < WindowEnd(e)

\* worth_clock_check and clock_is_stale.
HalfAge == MaxAge \div 2
WorthRefreshing(e, at) == at >= WindowStart(e) - HalfAge /\ (exact => at <= WindowStart(e))
Aging(q, at) == ~q.ai.clock \/ at - q.ai.at >= HalfAge
Stale(at) ==
  {e \in Standing : WindowEnd(e) > at /\ WorthRefreshing(e, at) /\ Aging(questions[binding[e]], at)}

\* stale_bindings_v2 and the first read of refresh: the oldest stale binding.
PickStale(t) ==
  LET at == tick[t].at
      e == Min(Stale(at))
  IN  /\ AtStep(t, "stale")
      /\ IF Stale(at) # {} /\ CurrentBinding(e, at)
           THEN tick' = [tick EXCEPT ![t].pc = "lease", ![t].e = e, ![t].q = binding[e],
                                     ![t].row = questions[binding[e]]]
           ELSE Phase(t, "head")
      /\ UNCHANGED <<instant, store, started, events>>

\* ai_lease: taken if there is none or it is over.
LeaseRefresh(t) ==
  LET q == tick[t].q  at == tick[t].at
      over == refreshing = Empty \/ refreshing.q # q \/ refreshing.until <= at
  IN  /\ AtStep(t, "lease")
      /\ refreshing' = IF over THEN [q |-> q, tick |-> t, until |-> at + RefreshLease] ELSE refreshing
      /\ IF over THEN Onward(t, "store") ELSE Phase(t, "head")
      /\ UNCHANGED <<instant, questions, binding, revoked, attempts, feed, started, events>>

OwnRefresh(t) == refreshing # Empty /\ refreshing.q = tick[t].q /\ refreshing.tick = t
HoldsRefresh(t) == OwnRefresh(t) /\ refreshing.until > tick[t].at

\* prepare: the estimate advanced, and the guard finds the row that was read,
\* its binding still current and the lease still this tick's.
MayStore(t) ==
  LET q == questions[tick[t].q]  row == tick[t].row IN
  /\ tick[t].at > row.ai.at
  /\ CurrentBinding(tick[t].e, tick[t].at) /\ q.rev = row.rev /\ q.ai = row.ai /\ HoldsRefresh(t)

\* The estimate is as of the tick's own instant, and its clock is retained.
StoreEstimate(t) ==
  /\ AtStep(t, "store") /\ MayStore(t) /\ Onward(t, "release")
  /\ questions' = [questions EXCEPT ![tick[t].q].ai = [at |-> tick[t].at, clock |-> TRUE]]
  /\ UNCHANGED <<instant, binding, revoked, attempts, refreshing, feed, started, events>>
\* A provider, a source or the guard refuses.
RefreshFails(t) ==
  /\ AtStep(t, "store") /\ Onward(t, "release") /\ UNCHANGED <<instant, store, started, events>>

\* release_ai, on every path: this tick's row only.
ReleaseRefresh(t) ==
  /\ AtStep(t, "release") /\ Phase(t, "head")
  /\ refreshing' = IF OwnRefresh(t) THEN Empty ELSE refreshing
  /\ UNCHANGED <<instant, questions, binding, revoked, attempts, feed, started, events>>

------------------------------------------------------------------------------
(***************************************************************************)
(* Publishing.                                                             *)
(***************************************************************************)
InOrder(at) == feed = <<>> \/ at >= feed[Len(feed)].at

\* publish_feed_v2: the head, which the first approved binding made.
ReadHead(t) ==
  /\ AtStep(t, "head")
  /\ IF (\E e \in Episodes : binding[e] # Empty) /\ InOrder(tick[t].at)
       THEN tick' = [tick EXCEPT ![t].pc = "collect", ![t].seq = Len(feed)]
       ELSE EndTick(t)
  /\ UNCHANGED <<instant, store, started, events>>

\* SNAPSHOT_SQL at the tick's instant: Empty when the question is not eligible.
Rows(q, at) == {u \in Users : q.votes[u] # Empty /\ q.open <= q.votes[u] /\ q.votes[u] <= at}
Snapshot(q, at) ==
  IF q.state = "OPEN" /\ q.open <= at /\ at < WindowEnd(q.e) /\ ~q.held
    THEN [rev |-> q.rev, ai |-> q.ai, rows |-> {<<u, q.votes[u]>> : u \in Rows(q, at)}]
    ELSE Empty

\* signals_v2 and the age limit: a pool closes with its newest member and is as
\* old as its oldest; the estimate needs its clock.
AdmissibleSignal(q, at, newest, oldest) ==
  /\ q.open <= newest /\ newest <= at /\ (exact => newest <= WindowStart(q.e))
  /\ at - oldest < MaxAge
Signals(q, at) ==
  LET times == {q.votes[u] : u \in Rows(q, at)} IN
  {s \in {"ai"} : q.ai.clock /\ AdmissibleSignal(q, at, q.ai.at, q.ai.at)}
    \cup {s \in {"crowd"} : times # {} /\ AdmissibleSignal(q, at, Max(times), Min(times))}
Oldest(q, at, s) == IF s = "ai" THEN q.ai.at ELSE Min({q.votes[u] : u \in Rows(q, at)})

\* Mature episodes first, then the newest: the first with eligible estimates.
Operational(at) == {e \in Standing : WindowStart(e) <= at /\ at < WindowEnd(e)}
Eligible(at) ==
  {e \in Operational(at) : LET q == questions[binding[e]] IN Snapshot(q, at) # Empty /\ Signals(q, at) # {}}
Selected(at) ==
  LET mature == {e \in Eligible(at) : at >= WindowStart(e) + Grid}
  IN  IF Eligible(at) = {} THEN Empty
      ELSE IF mature # {} THEN Max(mature) ELSE Max(Eligible(at))

Expiry(e, q, at) ==
  Min({at + Ttl, WindowEnd(e)} \cup {Oldest(q, at, s) + MaxAge : s \in Signals(q, at)})

\* What is read is what is signed; a channel that has nothing says so.
Collect(t) ==
  LET at == tick[t].at
      e == Selected(at)
      q == IF e = Empty THEN Empty ELSE questions[binding[e]]
      payload == IF e = Empty THEN
                   [at |-> at, e |-> Empty, signals |-> {}, snap |-> Empty, expires |-> at + Ttl]
                 ELSE [at |-> at, e |-> e, signals |-> Signals(q, at), snap |-> Snapshot(q, at),
                       expires |-> Expiry(e, q, at)]
  IN  /\ AtStep(t, "collect")
      /\ tick' = [tick EXCEPT ![t].pc = "sign", ![t].snap = payload]
      /\ UNCHANGED <<instant, store, started, events>>

\* The guards of the batch: the head, the revocations, every snapshot again.
MayPublish(t) ==
  LET p == tick[t].snap IN
  /\ Len(feed) = tick[t].seq
  /\ p.e # Empty => p.e \notin revoked /\ Snapshot(questions[binding[p.e]], p.at) = p.snap

\* The signer answered, or did not.
PublishFeed(t) ==
  /\ AtStep(t, "sign") /\ MayPublish(t) /\ EndTick(t)
  /\ feed' = Append(feed, tick[t].snap)
  /\ UNCHANGED <<instant, questions, binding, revoked, attempts, refreshing, started, events>>
PublishFails(t) == AtStep(t, "sign") /\ EndTick(t) /\ UNCHANGED <<instant, store, started, events>>

------------------------------------------------------------------------------
(***************************************************************************)
(* Everything around the tick.                                             *)
(***************************************************************************)
ClockAdvances == instant < MaxInstant /\ instant' = instant + 1 /\ UNCHANGED <<store, tick, started, events>>
TickDies(t) ==
  /\ ~AtStep(t, "idle") /\ events < MaxEvents /\ events' = events + 1 /\ EndTick(t)
  /\ UNCHANGED <<instant, store, started>>

Change(q) ==
  /\ events < MaxEvents /\ events' = events + 1 /\ questions[q].state = "OPEN"
  /\ UNCHANGED <<instant, binding, revoked, attempts, refreshing, feed, tick, started>>
\* A submission, with the clock its request began with; a command of the record.
Vote(q, u, at) ==
  /\ Change(q) /\ ~questions[q].held /\ at \in {instant - 1, instant} \cap Nat
  /\ questions[q].open <= at /\ at < WindowEnd(questions[q].e)
  /\ (questions[q].votes[u] # Empty => questions[q].votes[u] <= at)
  /\ questions' = [questions EXCEPT ![q].votes[u] = at, ![q].rev = @ + 1]
Hold(q) == Change(q) /\ questions' = [questions EXCEPT ![q].held = ~@]
LockQuestion(q) == Change(q) /\ questions' = [questions EXCEPT ![q].state = "LOCKED", ![q].rev = @ + 1]

Revoke(e) ==
  /\ events < MaxEvents /\ events' = events + 1
  /\ binding[e] # Empty /\ e \notin revoked /\ revoked' = revoked \cup {e}
  /\ UNCHANGED <<instant, questions, binding, attempts, refreshing, feed, tick, started>>

Tick(t) ==
  \/ Begin(t) \/ Due(t) \/ Seed(t) \/ PublishQuestion(t) \/ AttemptFails(t) \/ Bind(t) \/ Approve(t)
  \/ PickStale(t) \/ LeaseRefresh(t) \/ StoreEstimate(t) \/ RefreshFails(t) \/ ReleaseRefresh(t)
  \/ ReadHead(t) \/ Collect(t) \/ PublishFeed(t) \/ PublishFails(t)

FeedNext ==
  /\ UNCHANGED exact
  /\ \/ \E t \in Ticks : Tick(t) \/ TickDies(t)
     \/ \E q \in DOMAIN questions : \/ \E u \in Users, at \in 0..MaxInstant : Vote(q, u, at)
                                    \/ Hold(q) \/ LockQuestion(q)
     \/ \E e \in Episodes : Revoke(e)
     \/ ClockAdvances

FeedSpec == FeedInit /\ [][FeedNext]_feedvars

------------------------------------------------------------------------------
(***************************************************************************)
(* Properties                                                              *)
(***************************************************************************)
\* An episode has one question, which its binding names, however the ticks
\* that seed it overlap, fail or are killed between publishing and binding.
OneQuestionPerEpisode ==
  \A e \in Episodes :
    /\ Cardinality(QuestionsOf(e)) <= 1
    /\ binding[e] # Empty => QuestionsOf(e) = {binding[e]}

\* What is signed is what is stored when it is published, although the signer
\* answers late: the episode stands, its question is open and not held, and
\* its signals are still those of its votes and its estimate.
SignedAsStored ==
  Len(feed') > Len(feed) =>
    LET p == feed'[Len(feed')] IN
    p.e # Empty =>
      LET q == questions[binding[p.e]] IN
      /\ p.e \notin revoked /\ Snapshot(q, p.at) # Empty
      /\ Signals(q, p.at) = p.signals /\ p.signals # {} /\ Expiry(p.e, q, p.at) = p.expires

\* A question's estimate never goes back in time, and neither does the feed:
\* a slow tick overwrites neither the estimate nor the publication of a later one.
NeverBack ==
  /\ \A q \in DOMAIN questions :
       questions'[q].ai # questions[q].ai => questions'[q].ai.at > questions[q].ai.at
  /\ \A i, j \in DOMAIN feed' : i < j => feed'[i].at <= feed'[j].at
FeedFollowsStore == [][SignedAsStored /\ NeverBack /\ OneQuestionPerEpisode']_feedvars
==============================================================================
