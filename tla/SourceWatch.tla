----------------------------- MODULE SourceWatch -----------------------------
(***************************************************************************)
(* The source watch of one forecast: polling a publisher's feed and its    *)
(* articles under leases, holding participation while an observation is    *)
(* reviewed, the review queue, and the release of a hold a review found    *)
(* nothing in (source_watch.rs, participation_holds.rs, and the half of    *)
(* automation.rs that answers the watcher).                                *)
(*                                                                         *)
(* A worker is one pass of the job loop or one evidence report.  A pass    *)
(* reads, awaits and writes, and nothing bounds what it awaits: its leases *)
(* end four minutes after it began (LEASE_MS), whether it is over or not.  *)
(* Its own clock stands still, so that it goes on until another pass has   *)
(* taken the row.  Times are left out: FallDue, Again and Expire say that  *)
(* one has come, at any moment.  No validator of a response is ever stored *)
(* (poll_done writes back the row's own), so that every poll fetches the   *)
(* page and a 304 is refused as any failed fetch.                          *)
(* An accepted review ends in automation.rs accept(), which Points models. *)
(***************************************************************************)
EXTENDS Naturals, FiniteSets

CONSTANTS
  Watchers, Articles,
  Contents,       \* what an article may say; a review is keyed by it
  MaxAttempts,    \* MAX_ATTEMPTS
  Budget,         \* reviews a day's rate_limits row allows
  MaxDue,         \* bound: how often something falls due again
  MaxClaims,      \* bound: how often a review is claimed, by passes that overtake each other
  MaxCrashes,     \* bound on passes killed
  MaxOps,         \* bound on an operator's changes
  Nil

Feed == "feed"    \* the publisher's index
Sources == Articles \cup {Feed}
Observations == Articles \X Contents

VARIABLES
  forecast,       \* forecasts.state: "OPEN", "LOCKED" or "FINAL"
  links,          \* the articles the feed lists
  page,           \* [Articles -> what the page says]
  source,         \* official_watch_sources: Nil or a row
  bound,          \* official_watch_bindings
  seen,           \* official_source_observations
  review,         \* official_source_reviews, by content: Nil or a row
  hold,           \* participation_hold_events: the latest revision and who holds
  keys,           \* the request keys the watch has used, each with its revision
  budget,         \* rate_limits of today
  watcher,        \* the passes
  dues, crashes, ops,
  armed,          \* history: contents whose enqueue was carried through
  cleared,        \* history: contents that stood dismissed when a hold was released
  overridden      \* history: an operator released a hold

watchvars == <<forecast, links, page, source, bound, seen, review, hold, keys, budget, watcher,
          dues, crashes, ops, armed, cleared, overridden>>
world == <<links, page>>
bounds == <<dues, crashes, ops>>
history == <<armed, cleared, overridden>>

NoPass == [pc |-> "idle", s |-> Nil, a |-> Nil, c |-> Nil, report |-> FALSE, rev |-> 0, tries |-> 0, result |-> Nil]
Row(p) == [enabled |-> TRUE, pinned |-> p, due |-> TRUE, token |-> Nil, live |-> FALSE]

WatchInit ==
  /\ forecast = "OPEN" /\ bound = FALSE /\ seen = {} /\ budget = 0
  /\ page \in [Articles -> Contents] /\ links \in (SUBSET Articles) \ {{}}
  /\ source = [s \in Sources |-> IF s = Feed THEN Row(FALSE) ELSE Nil]
  /\ review = [c \in Contents |-> Nil]
  /\ hold = [rev |-> 0, by |-> Nil] /\ keys = {}
  /\ watcher = [w \in Watchers |-> NoPass]
  /\ dues = 0 /\ crashes = 0 /\ ops = 0 /\ armed = {} /\ cleared = {} /\ overridden = FALSE

At(w, pc) == watcher[w].pc = pc
Goto(w, pc) == watcher' = [watcher EXCEPT ![w].pc = pc]
Stop(w) == watcher' = [watcher EXCEPT ![w] = NoPass]

\* A release of a lease: WHERE id=? AND lease_token=?.
Freed(row, w) == IF row.token = w THEN [row EXCEPT !.token = Nil, !.live = FALSE] ELSE row

------------------------------------------------------------------------------
(***************************************************************************)
(* Registering and binding.                                                *)
(***************************************************************************)

\* register: a registration is immutable, a pin is added and enables.
Registered(row, p) ==
  IF row = Nil THEN Row(p)
  ELSE IF p THEN [row EXCEPT !.pinned = TRUE, !.enabled = TRUE] ELSE row

\* INSERT OR IGNORE of a review of an article's observation.
Enqueued(a, c) ==
  IF review[c] = Nil
    THEN [a |-> a, state |-> "pending", attempts |-> 0, result |-> Nil, due |-> TRUE, token |-> Nil, live |-> FALSE]
    ELSE review[c]

\* bootstrap: the feed is registered and bound, and what it already published
\* is queued without a hold.
Bootstrap(w) ==
  /\ At(w, "idle") /\ ~bound /\ forecast = "OPEN"
  /\ bound' = TRUE /\ watcher' = [watcher EXCEPT ![w].pc = "known"]
  /\ UNCHANGED <<forecast, world, source, seen, review, hold, keys, budget, bounds, history>>

QueueKnown(w) ==
  /\ At(w, "known") /\ Stop(w)
  /\ review' = IF forecast = "FINAL" THEN review
               ELSE [c \in Contents |->
                       LET of == {a \in Articles : <<a, c>> \in seen}
                       IN  IF of = {} THEN review[c] ELSE Enqueued(CHOOSE a \in of : TRUE, c)]
  /\ UNCHANGED <<forecast, world, source, bound, seen, hold, keys, budget, bounds, history>>

\* bootstrap again, while a hold names an article of the publisher.
Pin(w, a) ==
  /\ At(w, "idle") /\ bound /\ forecast = "OPEN" /\ hold.by # Nil
  /\ source[a] # Nil => ~source[a].pinned \/ ~source[a].enabled
  /\ source' = [source EXCEPT ![a] = Registered(@, TRUE)]
  /\ UNCHANGED <<forecast, world, bound, seen, review, hold, keys, budget, watcher, bounds, history>>

------------------------------------------------------------------------------
(***************************************************************************)
(* Polling one source under its lease.                                     *)
(***************************************************************************)

\* run: the claim asks again for what the selection asked.
ClaimSource(w, s) ==
  /\ At(w, "idle") /\ source[s] # Nil /\ source[s].enabled /\ source[s].due /\ ~source[s].live
  /\ source' = [source EXCEPT ![s].token = w, ![s].live = TRUE]
  /\ watcher' = [watcher EXCEPT ![w].pc = "fetch", ![w].s = s]
  /\ UNCHANGED <<forecast, world, bound, seen, review, hold, keys, budget, bounds, history>>

\* ingest_report: the article is pinned and fetched now, due or not.
Report(w, a) ==
  /\ At(w, "idle") /\ forecast # "FINAL" /\ ops < MaxOps /\ ops' = ops + 1
  /\ LET row == Registered(source[a], TRUE) IN
     /\ ~row.live
     /\ source' = [source EXCEPT ![a] = [row EXCEPT !.token = w, !.live = TRUE]]
  /\ watcher' = [watcher EXCEPT ![w].pc = "fetch", ![w].s = a, ![w].report = TRUE]
  /\ UNCHANGED <<forecast, world, bound, seen, review, hold, keys, budget, dues, crashes, history>>

\* poll, an index: register and revive what the feed links to, close the rest.
PollIndex(w) ==
  /\ At(w, "fetch") /\ watcher[w].s = Feed /\ Goto(w, "polled")
  /\ source' = [s \in Sources |->
       IF s \in links
         THEN LET row == Registered(source[s], FALSE)
              IN  IF row.enabled THEN row ELSE [row EXCEPT !.enabled = TRUE, !.due = TRUE]
       ELSE IF s # Feed /\ source[s] # Nil /\ ~source[s].pinned THEN [source[s] EXCEPT !.enabled = FALSE]
       ELSE source[s]]
  /\ UNCHANGED <<forecast, world, bound, seen, review, hold, keys, budget, bounds, history>>

\* poll, an article: the observation is stored once and never changed.
PollArticle(w) ==
  LET a == watcher[w].s IN
  /\ At(w, "fetch") /\ a # Feed
  /\ seen' = seen \cup {<<a, page[a]>>}
  /\ watcher' = [watcher EXCEPT ![w].a = a, ![w].c = page[a], ![w].pc = IF bound THEN "queue" ELSE "polled"]
  /\ UNCHANGED <<forecast, world, source, bound, review, hold, keys, budget, bounds, history>>

\* enqueue: the review is queued before the hold is looked at.
Enqueue(w) ==
  LET c == watcher[w].c
      moot == forecast = "FINAL" \/ (review[c] # Nil /\ review[c].state = "complete")
  IN  /\ At(w, "queue")
      /\ review' = IF moot THEN review ELSE [review EXCEPT ![c] = Enqueued(watcher[w].a, c)]
      /\ Goto(w, IF moot THEN "polled" ELSE "hold")
      /\ UNCHANGED <<forecast, world, source, bound, seen, hold, keys, budget, bounds, history>>

\* poll_done, and the release of the lease.  A report then queues its article
\* by name, unless it was published before the question opened.
PollDone(w) ==
  LET s == watcher[w].s IN
  /\ At(w, "polled")
  /\ source' = [source EXCEPT ![s] = Freed(IF @.token = w THEN [@ EXCEPT !.due = FALSE] ELSE @, w)]
  /\ \/ Stop(w)
     \/ watcher[w].report /\ watcher' = [watcher EXCEPT ![w].pc = "queue", ![w].report = FALSE]
  /\ UNCHANGED <<forecast, world, bound, seen, review, hold, keys, budget, bounds, history>>

\* A fetch that is refused, a page that cannot be read, storage that fails: the
\* source waits longer; a report whose fetch failed goes on with what is retained.
PollFails(w) ==
  LET s == watcher[w].s
      retained == {c \in Contents : <<s, c>> \in seen}
  IN  /\ watcher[w].pc \in {"fetch", "queue", "hold", "take"} /\ s # Nil
      /\ source' = [source EXCEPT ![s] =
           Freed(IF @.token = w /\ ~watcher[w].report THEN [@ EXCEPT !.due = FALSE] ELSE @, w)]
      /\ IF At(w, "fetch") /\ watcher[w].report /\ retained # {}
           THEN \E c \in retained : watcher' = [watcher EXCEPT
                  ![w].pc = "queue", ![w].a = s, ![w].c = c, ![w].report = FALSE]
           ELSE Stop(w)
      /\ UNCHANGED <<forecast, world, bound, seen, review, hold, keys, budget, bounds, history>>

------------------------------------------------------------------------------
(***************************************************************************)
(* Holding participation.                                                  *)
(***************************************************************************)
\* What follows a hold that is in force or not needed.
AfterHold(w) ==
  /\ armed' = armed \cup {watcher[w].c}
  /\ Goto(w, IF watcher[w].s = Nil THEN "ask" ELSE "polled")

\* hold: the state and the latest event are read ...
HoldRead(w) ==
  /\ At(w, "hold")
  /\ IF forecast # "OPEN" \/ hold.by # Nil
       THEN AfterHold(w)
       ELSE watcher' = [watcher EXCEPT ![w].pc = "take", ![w].rev = hold.rev] /\ UNCHANGED armed
  /\ UNCHANGED <<forecast, world, source, bound, seen, review, hold, keys, budget, bounds, cleared, overridden>>

\* prior: a key that was used answers the same request as it did then, and any
\* other with a conflict; the requests of a key differ in their revision.
Replays(w, key) == <<key, watcher[w].rev>> \in keys
KeyUnused(key) == \A k \in keys : k[1] # key

\* change: the guard is the compare-and-set on the revision and the state.
MayTake(w) == hold.rev = watcher[w].rev /\ hold.by = Nil /\ forecast = "OPEN"

\* ... and the hold is taken; losing the race to another hold is as good.
HoldTake(w) ==
  LET key == <<"source-watch", watcher[w].a, watcher[w].c>> IN
  /\ At(w, "take")
  /\ IF KeyUnused(key) /\ MayTake(w)
       THEN hold' = [rev |-> hold.rev + 1, by |-> "watch"] /\ keys' = keys \cup {<<key, hold.rev>>}
       ELSE (Replays(w, key) \/ (KeyUnused(key) /\ hold.by # Nil)) /\ UNCHANGED <<hold, keys>>
  /\ AfterHold(w)
  /\ UNCHANGED <<forecast, world, source, bound, seen, review, budget, bounds, cleared, overridden>>

------------------------------------------------------------------------------
(***************************************************************************)
(* Reviewing one observation under its lease.                              *)
(***************************************************************************)
\* Mutant of OpenReview: a lease is waited for until its holder gives it back.
OpenUnleased(r) == r # Nil /\ r.state \in {"pending", "reviewed"} /\ r.due /\ r.token = Nil

OpenReview(r) == r # Nil /\ r.state \in {"pending", "reviewed"} /\ r.due /\ ~r.live
Owns(w) == review[watcher[w].c].token = w

\* run: the row is selected ...
SelectReview(w, c) ==
  /\ At(w, "idle") /\ OpenReview(review[c])
  /\ watcher' = [watcher EXCEPT ![w].pc = "claim", ![w].c = c, ![w].a = review[c].a,
                 ![w].tries = review[c].attempts, ![w].result = review[c].result]
  /\ UNCHANGED <<forecast, world, source, bound, seen, review, hold, keys, budget, bounds, history>>

\* ... and claimed, if it is still open.  The hold is looked at again.
ClaimReview(w) ==
  LET c == watcher[w].c IN
  /\ At(w, "claim")
  /\ IF OpenReview(review[c])
       THEN /\ review[c].attempts < MaxClaims
            /\ review' = [review EXCEPT ![c].token = w, ![c].live = TRUE, ![c].attempts = @ + 1]
            /\ Goto(w, "hold")
       ELSE Stop(w) /\ UNCHANGED review
  /\ UNCHANGED <<forecast, world, source, bound, seen, hold, keys, budget, bounds, history>>

Rulings == {"accept", "dismiss", "keep"}

\* review_one: a stored result is used again; a new one takes from the day's budget.
Ask(w) ==
  /\ At(w, "ask")
  /\ \/ /\ watcher[w].result # Nil /\ Goto(w, "store") /\ UNCHANGED budget
     \/ /\ watcher[w].result = Nil /\ budget < Budget /\ budget' = budget + 1
        /\ \E v \in Rulings : watcher' = [watcher EXCEPT ![w].pc = "store", ![w].result = v]
  /\ UNCHANGED <<forecast, world, source, bound, seen, review, hold, keys, bounds, history>>

\* The result is stored by the holder of the lease alone ...
StoreResult(w) ==
  LET c == watcher[w].c IN
  /\ At(w, "store") /\ Goto(w, "owned")
  /\ review' = IF Owns(w) THEN [review EXCEPT ![c].state = "reviewed", ![c].result = watcher[w].result] ELSE review
  /\ UNCHANGED <<forecast, world, source, bound, seen, hold, keys, budget, bounds, history>>

\* ... and only the holder acts on it.
Owned(w) ==
  /\ At(w, "owned") /\ Owns(w)
  /\ Goto(w, CASE watcher[w].result = "accept" -> "accept"
               [] watcher[w].result = "dismiss" -> "dismiss"
               [] OTHER -> "complete")
  /\ UNCHANGED <<forecast, world, source, bound, seen, review, hold, keys, budget, bounds, history>>

\* accept(): under a hold it locks the forecast; a locked one may be locked by
\* the same trigger.  Otherwise it is refused: ReviewFails.
Accept(w) ==
  /\ At(w, "accept") /\ (forecast = "OPEN" => hold.by # Nil)
  /\ forecast' = IF forecast = "OPEN" THEN "LOCKED" ELSE forecast
  /\ Goto(w, "complete")
  /\ UNCHANGED <<world, source, bound, seen, review, hold, keys, budget, bounds, history>>

Dismissible(r) == r.result = "dismiss"
Unresolved(c) == {d \in Contents \ {c} : review[d] # Nil /\ ~Dismissible(review[d])}

\* dismiss: an operator's hold, or another unresolved review, is left alone.
DismissRead(w) ==
  /\ At(w, "dismiss")
  /\ IF forecast = "OPEN" /\ hold.by = "watch" /\ Unresolved(watcher[w].c) = {}
       THEN watcher' = [watcher EXCEPT ![w].pc = "release", ![w].rev = hold.rev]
       ELSE Goto(w, "complete")
  /\ UNCHANGED <<forecast, world, source, bound, seen, review, hold, keys, budget, bounds, history>>

\* Mutant of MayRelease: the other reviews are not looked at again.
MayReleaseUnchecked(w) ==
  /\ hold.rev = watcher[w].rev /\ hold.by = "watch" /\ Dismissible(review[watcher[w].c])

\* change: the guard of a release that follows a dismissed review.
MayRelease(w) ==
  LET c == watcher[w].c IN
  /\ hold.rev = watcher[w].rev /\ hold.by = "watch"
  /\ Dismissible(review[c]) /\ Unresolved(c) = {}
  /\ bound => \A s \in Sources : source[s] # Nil /\ source[s].enabled => ~source[s].live

\* No lease is asked for here: the pass may have lost its row since it looked.
Release(w) ==
  LET key == <<"source-dismiss", watcher[w].c>> IN
  /\ At(w, "release") /\ Goto(w, "complete")
  /\ \/ /\ KeyUnused(key) /\ MayRelease(w)
        /\ hold' = [rev |-> hold.rev + 1, by |-> Nil] /\ keys' = keys \cup {<<key, hold.rev>>}
        /\ cleared' = cleared \cup {d \in Contents : review[d] # Nil /\ Dismissible(review[d])}
     \/ Replays(w, key) /\ UNCHANGED <<hold, keys, cleared>>
  /\ UNCHANGED <<forecast, world, source, bound, seen, review, budget, bounds, armed, overridden>>

\* The review is complete, if it is still this pass's, and its lease released.
Complete(w) ==
  LET c == watcher[w].c IN
  /\ At(w, "complete") /\ Stop(w)
  /\ review' = [review EXCEPT ![c] = Freed(IF Owns(w) THEN [@ EXCEPT !.state = "complete"] ELSE @, w)]
  /\ UNCHANGED <<forecast, world, source, bound, seen, hold, keys, budget, bounds, history>>

Exhausted(w) == watcher[w].tries + 1 >= MaxAttempts

\* record_review_failure: a refusal, an outage, a lost lease or a spent budget;
\* the last gives the attempt back and waits for the next day.
ReviewFails(w) ==
  LET c == watcher[w].c
      spent == At(w, "ask") /\ watcher[w].result = Nil /\ budget = Budget
      failed == IF spent THEN [review[c] EXCEPT !.attempts = @ - 1, !.due = FALSE]
                ELSE [review[c] EXCEPT !.state = IF Exhausted(w) THEN "exhausted" ELSE "pending", !.due = FALSE]
  IN  /\ watcher[w].pc \in {"hold", "take", "ask", "store", "owned", "accept", "dismiss", "release", "complete"}
      /\ watcher[w].s = Nil /\ Stop(w)
      /\ review' = [review EXCEPT ![c] = IF Owns(w) THEN Freed(failed, w) ELSE @]
      /\ UNCHANGED <<forecast, world, source, bound, seen, hold, keys, budget, bounds, history>>

------------------------------------------------------------------------------
(***************************************************************************)
(* Everything around the watch.                                            *)
(***************************************************************************)
\* An authenticated operator takes or releases a hold (change, with no review).
OperatorHold ==
  /\ ops < MaxOps /\ ops' = ops + 1 /\ hold.by = Nil /\ forecast = "OPEN"
  /\ hold' = [rev |-> hold.rev + 1, by |-> "operator"]
  /\ UNCHANGED <<forecast, world, source, bound, seen, review, keys, budget, watcher, dues, crashes, history>>
OperatorRelease ==
  /\ ops < MaxOps /\ ops' = ops + 1 /\ hold.by # Nil
  /\ hold' = [rev |-> hold.rev + 1, by |-> Nil] /\ overridden' = TRUE
  /\ UNCHANGED <<forecast, world, source, bound, seen, review, keys, budget, watcher, dues, crashes, armed, cleared>>

\* The scheduler locks and resolves the forecast.
Advance ==
  /\ forecast' = CASE forecast = "OPEN" -> "LOCKED" [] OTHER -> "FINAL"
  /\ forecast # "FINAL"
  /\ UNCHANGED <<world, source, bound, seen, review, hold, keys, budget, watcher, bounds, history>>

\* The publisher edits an article, or the feed's window moves.
Publish ==
  /\ dues < MaxDue /\ dues' = dues + 1
  /\ \/ \E a \in Articles, c \in Contents : page' = [page EXCEPT ![a] = c] /\ UNCHANGED links
     \/ links' \in (SUBSET Articles) \ {{}, links} /\ UNCHANGED page
  /\ UNCHANGED <<forecast, source, bound, seen, review, hold, keys, budget, watcher, crashes, ops, history>>

\* A source's interval or backoff is over; a review's backoff; a day.
FallDue ==
  /\ dues < MaxDue /\ dues' = dues + 1
  /\ \E s \in Sources : source[s] # Nil /\ ~source[s].due /\ source' = [source EXCEPT ![s].due = TRUE]
  /\ UNCHANGED <<forecast, world, bound, seen, review, hold, keys, budget, watcher, crashes, ops, history>>
Again(c) ==
  /\ review[c] # Nil /\ ~review[c].due /\ review[c].state \in {"pending", "reviewed"}
  /\ review' = [review EXCEPT ![c].due = TRUE]
  /\ budget' = 0
  /\ UNCHANGED <<forecast, world, source, bound, seen, hold, keys, watcher, bounds, history>>

\* A pass is killed.
Crash(w) ==
  /\ crashes < MaxCrashes /\ crashes' = crashes + 1 /\ ~At(w, "idle") /\ Stop(w)
  /\ UNCHANGED <<forecast, world, source, bound, seen, review, hold, keys, budget, dues, ops, history>>

\* A lease ends with time, while its pass is still at work or left nothing else.
Expire ==
  /\ \/ \E s \in Sources : source[s] # Nil /\ source[s].live
                           /\ source' = [source EXCEPT ![s].live = FALSE] /\ UNCHANGED review
     \/ \E c \in Contents : review[c] # Nil /\ review[c].live
                            /\ review' = [review EXCEPT ![c].live = FALSE] /\ UNCHANGED source
  /\ UNCHANGED <<forecast, world, bound, seen, hold, keys, budget, watcher, bounds, history>>

Poll(w) ==
  \/ Bootstrap(w) \/ QueueKnown(w) \/ PollIndex(w) \/ PollArticle(w) \/ PollDone(w) \/ PollFails(w)
  \/ \E s \in Sources : ClaimSource(w, s)
  \/ \E a \in Articles : Report(w, a) \/ Pin(w, a)
Review(w) ==
  \/ Enqueue(w) \/ HoldRead(w) \/ HoldTake(w) \/ ClaimReview(w) \/ Ask(w) \/ StoreResult(w) \/ Owned(w)
  \/ Accept(w) \/ DismissRead(w) \/ Release(w) \/ Complete(w) \/ ReviewFails(w)
  \/ \E c \in Contents : SelectReview(w, c)

WatchNext ==
  \/ \E w \in Watchers : Poll(w) \/ Review(w) \/ Crash(w)
  \/ OperatorHold \/ OperatorRelease \/ Advance \/ Publish \/ FallDue \/ Expire
  \/ \E c \in Contents : Again(c)

WatchSpec == WatchInit /\ [][WatchNext]_watchvars

------------------------------------------------------------------------------
(***************************************************************************)
(* Properties                                                              *)
(***************************************************************************)
\* The rows of official_watch_sources and official_source_reviews.
SourceRows ==
  [enabled : BOOLEAN, pinned : BOOLEAN, due : BOOLEAN, token : Watchers \cup {Nil}, live : BOOLEAN]
ReviewRows ==
  [a : Articles, state : {"pending", "reviewed", "complete", "exhausted"}, attempts : Nat,
   result : Rulings \cup {Nil}, due : BOOLEAN, token : Watchers \cup {Nil}, live : BOOLEAN]

\* NULL is no row and no part of one; the index is not an article.
SourceWatchAssumption ==
  /\ Budget \in Nat /\ Feed \notin Articles
  /\ Nil \notin Watchers \cup Sources \cup Contents \cup Rulings \cup {"watch", "operator"}
  /\ Nil \notin SourceRows /\ Nil \notin ReviewRows

\* The rows are what their declarations allow.
WatchTypeOK ==
  /\ seen \subseteq Observations /\ budget \in 0..Budget
  /\ armed \subseteq Contents /\ cleared \subseteq Contents
  /\ \A c \in Contents : review[c] # Nil =>
       /\ review[c].state \in {"pending", "reviewed", "complete", "exhausted"}
       /\ review[c].attempts \in Nat /\ review[c].result \in Rulings \cup {Nil}
       /\ <<review[c].a, c>> \in seen
  /\ \A s \in Sources : source[s] # Nil => source[s].token \in Watchers \cup {Nil}

\* What the watch has found stays held: while the question is open, whatever was
\* queued and held either is held, or stood dismissed, with all else that was
\* found until then, when the watch released; unless an operator decided
\* otherwise.  However polls, reviews and dismissals overlap, outlive their
\* leases, crash or are tried again.
FoundStaysHeld ==
  (forecast = "OPEN" /\ ~overridden) => (armed \subseteq cleared \/ hold.by # Nil)

\* What the header of source_watch.rs says, "Participation stops while the
\* evidence is looked at", with its "The lease is the authority": while the holder
\* of a review's lease asks the model about it, a hold is in force, unless an
\* operator released it.
HeldWhileAsked ==
  (forecast = "OPEN" /\ ~overridden) =>
    \A w \in Watchers : At(w, "ask") /\ watcher[w].result = Nil /\ Owns(w) => hold.by # Nil

==============================================================================
