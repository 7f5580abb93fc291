-------------------------------- MODULE Timing --------------------------------
(***************************************************************************)
(* When the evidence of a result was published, against the last receipt:  *)
(* apps/web-rs/src/resolution_timing.rs with the tables and triggers of    *)
(* migrations 0015 and 0029, at the places where mutate.rs and the         *)
(* scheduler's pass call it.                                               *)
(*                                                                         *)
(* A result whose evidence may have been out before the last participant   *)
(* answered is held under a review.  A review says which resolution it is  *)
(* about, but blocks the forecast; a review that no publication time was   *)
(* to be found is closed as INVALID.  Every read below is an await, and    *)
(* what it answered may be old when the batch is written.                  *)
(*                                                                         *)
(* One published v1 forecast, from its last submissions on.  A pass whose  *)
(* lease ran out keeps running; only its commits ask for the lease.        *)
(***************************************************************************)
EXTENDS Integers, Sequences, FiniteSetsExt

CONSTANTS
  Passes,         \* scheduler passes, by the token they draw
  Operator,       \* the operator who adjudicates
  Publication,    \* [evidence items -> the instant their page states, or Unknown]
  Unknown,        \* no publication time, or one without a time of day
  Evidences,      \* what a resolution may rest on: sequences of items
  Results,        \* the outcomes a judge may propose
  INVALID,        \* the outcome a closure determines
  ClosesAt,       \* close_at_ms
  CollectedAt,    \* when evidence was collected, no sooner than ClosesAt
  MaxAnswers,     \* bound on resolutions that are judged
  Nil             \* NULL

Items == DOMAIN Publication
Actors == Passes \cup {Operator}

TimingAssumption ==
  /\ ClosesAt \in Nat /\ CollectedAt \in Nat /\ ClosesAt <= CollectedAt
  /\ \A i \in Items : Publication[i] = Unknown \/ Publication[i] \in Nat
  /\ \A e \in Evidences : e \in Seq(Items) /\ e # <<>>
  /\ INVALID \in Results /\ Operator \notin Passes

VARIABLES
  last,           \* time of the last submission or market fill, or Nil
  completed,      \* an eligibility decision of this specification is completed
  forecast,       \* forecasts: revision, state and the proposed resolution
  timingReviews,  \* resolution_timing_reviews: [resolution, reason]
  closure,        \* resolution_timing_closures: the review it concludes, or Nil
  retained,       \* artifacts: the items whose body is stored
  holder,         \* forecasts.job_token
  actors,         \* what each pass and the operator are at
  answers         \* bound: resolutions judged so far

case == <<last, completed>>
timingvars == <<case, forecast, timingReviews, closure, retained, holder, actors, answers>>

Resting == [at |-> "idle", snapshot |-> Nil, resolution |-> Nil, supplied |-> {}, review |-> Nil]
Cited(e) == {e[i] : i \in 1..Len(e)}

TimingInit ==
  /\ last = Nil /\ completed = FALSE
  /\ forecast = [revision |-> 0, state |-> "OPEN", resolution |-> Nil]
  /\ timingReviews = {} /\ closure = Nil /\ retained = {}
  /\ holder = Nil /\ actors = [a \in Actors |-> Resting] /\ answers = 0

\* unresolved_resolution_timing_reviews: no decision completed, no closure.
Blocked == timingReviews # {} /\ ~completed /\ closure = Nil

\* A submission, or a fill of an active market, while participation is open.
Submit(t) ==
  /\ forecast.state = "OPEN" /\ t < ClosesAt /\ (last # Nil => t >= last)
  /\ last' = t
  /\ UNCHANGED <<completed, forecast, timingReviews, closure, retained, holder, actors, answers>>

\* Expiry, by the pass or by an eligibility decision that is completed by then;
\* one that is not completed blocks the resolution (0015, resolution blockers).
CloseAnswers(eligible) ==
  /\ forecast.state = "OPEN"
  /\ forecast' = [forecast EXCEPT !.revision = @ + 1, !.state = "RESOLVING"]
  /\ completed' = eligible
  /\ UNCHANGED <<last, timingReviews, closure, retained, holder, actors, answers>>

Become(a, change) == actors' = [actors EXCEPT ![a] = change]
Step(a, to) == Become(a, [actors[a] EXCEPT !.at = to])

-----------------------------------------------------------------------------
(***************************************************************************)
(* The pass on one forecast                                                *)
(***************************************************************************)
\* The pass takes the lease, free or run out, and loads the snapshot.
Start(p) ==
  /\ actors[p].at = "idle" /\ forecast.state \in {"RESOLVING", "PROPOSED", "CHALLENGE"}
  /\ holder' = p
  /\ Become(p, [Resting EXCEPT !.snapshot = forecast,
                               !.at = IF forecast.state = "RESOLVING" THEN "close" ELSE "gate"])
  /\ UNCHANGED <<case, forecast, timingReviews, closure, retained, answers>>

\* close_indeterminate, its reads: a review filed for want of a publication time.
FindReview(p) ==
  /\ actors[p].at = "close"
  /\ LET open == {r \in timingReviews : r.reason = "publication_time_unknown"} IN
     IF closure # Nil \/ completed \/ open = {} THEN Step(p, "gate")
     ELSE \E r \in open : Become(p, [actors[p] EXCEPT !.at = "closing", !.review = r])
  /\ UNCHANGED <<case, forecast, timingReviews, closure, retained, holder, answers>>

\* resolution_timing_closure_validate: no result yet.
Closable == forecast.state \in {"OPEN", "LOCKED", "RESOLVING"}

\* close_indeterminate, its insert, which the trigger or an existing row
\* refuses; the pass ignores what came of it.
CloseReview(p) ==
  /\ actors[p].at = "closing"
  /\ closure' = IF closure = Nil /\ Closable THEN actors[p].review ELSE closure
  /\ Step(p, "gate")
  /\ UNCHANGED <<case, forecast, timingReviews, retained, holder, answers>>

\* The read of the blockers; a blocked forecast ends the pass.
Gate(p) ==
  /\ actors[p].at = "gate"
  /\ LET s == actors[p].snapshot IN
     IF Blocked THEN Become(p, Resting)
     ELSE CASE s.state = "RESOLVING" -> Step(p, "judge")
            [] s.state = "PROPOSED"  -> Step(p, "commit")
            [] s.state = "CHALLENGE" ->
                 Become(p, [actors[p] EXCEPT !.at = "check", !.resolution = s.resolution])
  /\ UNCHANGED <<case, forecast, timingReviews, closure, retained, holder, answers>>

\* propose_resolution: what the judge answers, with the bodies it read.
Judge(p, e, outcome) ==
  /\ actors[p].at = "judge" /\ answers < MaxAnswers
  /\ answers' = answers + 1
  /\ Become(p, [actors[p] EXCEPT !.at = "check", !.supplied = Cited(e),
                                 !.resolution = [evidence |-> e, outcome |-> outcome]])
  /\ UNCHANGED <<case, forecast, timingReviews, closure, retained, holder>>

\* adjudicate_forecast: a prepared decision; each body comes with the request
\* or is stored already.
Adjudicate(e, outcome, supplied) ==
  /\ actors[Operator].at = "idle" /\ forecast.state = "ESCALATED" /\ answers < MaxAnswers
  /\ supplied \subseteq Cited(e) /\ Cited(e) \subseteq supplied \cup retained
  /\ answers' = answers + 1
  /\ Become(Operator, [Resting EXCEPT !.at = "check", !.snapshot = forecast, !.supplied = supplied,
                                      !.resolution = [evidence |-> e, outcome |-> outcome]])
  /\ UNCHANGED <<case, forecast, timingReviews, closure, retained, holder>>

\* The lease or the worker is lost.
Die(a) ==
  /\ actors[a].at # "idle"
  /\ Become(a, Resting)
  /\ UNCHANGED <<case, forecast, timingReviews, closure, retained, holder, answers>>

-----------------------------------------------------------------------------
(***************************************************************************)
(* check, before a proposal, an adjudication or a finalization is written  *)
(***************************************************************************)
\* A closed review admits its own determination and nothing else.
Determined(r) == r.outcome = INVALID

\* A completed decision admits any result; a closure, its determination.
CheckSettled(a) ==
  /\ actors[a].at = "check"
  /\ CASE completed -> Step(a, "commit")
       [] ~completed /\ closure # Nil ->
            IF Determined(actors[a].resolution) THEN Step(a, "commit") ELSE Become(a, Resting)
       [] OTHER -> Step(a, "reviews")
  /\ UNCHANGED <<case, forecast, timingReviews, closure, retained, holder, answers>>

\* Any review of the specification refuses; without participation nothing can
\* be late for it.
CheckReviews(a) ==
  /\ actors[a].at = "reviews"
  /\ CASE timingReviews # {} -> Become(a, Resting)
       [] timingReviews = {} /\ last = Nil -> Step(a, "commit")
       [] OTHER -> Step(a, "analyze")
  /\ UNCHANGED <<case, forecast, timingReviews, closure, retained, holder, answers>>

\* inspect: the body was supplied, or is stored.
Available(a, i) == i \in actors[a].supplied \cup retained

\* Mutant of Reason: an item of the last receipt's own instant came after it.
ReasonAtOnce(a, i) ==
  CASE ~Available(a, i) -> "evidence_unavailable"
    [] Available(a, i) /\ Publication[i] = Unknown -> "publication_time_unknown"
    [] OTHER -> IF Publication[i] > CollectedAt THEN "publication_time_inconsistent"
                ELSE IF Publication[i] < last THEN "evidence_may_predate_participation"
                ELSE "after_last_receipt"

\* analyze, of one item.  The proposal asks that each is verified, and a body
\* is stored under its own hash, so that the other reasons do not occur.
Reason(a, i) ==
  CASE ~Available(a, i) -> "evidence_unavailable"
    [] Available(a, i) /\ Publication[i] = Unknown -> "publication_time_unknown"
    [] OTHER -> IF Publication[i] > CollectedAt THEN "publication_time_inconsistent"
                ELSE IF Publication[i] <= last THEN "evidence_may_predate_participation"
                ELSE "after_last_receipt"

\* A review is filed under its first reason, once for a resolution, and keeps
\* the bodies it looked at.
Analyze(a) ==
  /\ actors[a].at = "analyze"
  /\ LET r == actors[a].resolution
         late == {i \in DOMAIN r.evidence : Reason(a, r.evidence[i]) # "after_last_receipt"}
     IN IF late = {} THEN Step(a, "commit") /\ UNCHANGED <<timingReviews, retained>>
        ELSE /\ timingReviews' =
                  IF \E v \in timingReviews : v.resolution = r THEN timingReviews
                  ELSE timingReviews \cup
                         {[resolution |-> r, reason |-> Reason(a, r.evidence[Min(late)])]}
             /\ retained' = retained \cup (Cited(r.evidence) \cap actors[a].supplied)
             /\ Become(a, Resting)
  /\ UNCHANGED <<case, forecast, closure, holder, answers>>

-----------------------------------------------------------------------------
(***************************************************************************)
(* The batch of mutate                                                     *)
(***************************************************************************)
Following(state) == CASE state = "RESOLVING" -> "PROPOSED" [] state = "PROPOSED" -> "CHALLENGE"
                  [] state = "CHALLENGE" -> "FINALIZED" [] state = "ESCALATED" -> "PROPOSED"

\* The guard row: the loaded revision, and a pass still holds its lease.
Current(a) ==
  /\ forecast.revision = actors[a].snapshot.revision
  /\ a \in Passes => holder = a

\* resolution_timing_state_guard; PROPOSED, CHALLENGE and FINALIZED are the
\* states these commits lead to.
Admissible == ~Blocked

\* The artifacts that travel with the command.
Carried(a) == actors[a].supplied

\* The batch is written, or refused as a whole.
CommitResult(a) ==
  /\ actors[a].at = "commit"
  /\ IF Current(a) /\ Admissible
     THEN LET s == actors[a].snapshot IN
          /\ forecast' = [revision |-> s.revision + 1, state |-> Following(s.state),
                          resolution |-> IF s.state \in {"RESOLVING", "ESCALATED"}
                                         THEN actors[a].resolution ELSE s.resolution]
          /\ retained' = retained \cup Carried(a)
     ELSE UNCHANGED <<forecast, retained>>
  /\ Become(a, Resting)
  /\ UNCHANGED <<case, timingReviews, closure, holder, answers>>

\* Disputes, their reviews and the escalation, none of which is checked here.
Contest ==
  /\ forecast.state = "CHALLENGE"
  /\ forecast' = [forecast EXCEPT !.revision = @ + 1, !.state = "ESCALATED"]
  /\ UNCHANGED <<case, timingReviews, closure, retained, holder, actors, answers>>

TimingNext ==
  \/ \E t \in 0..ClosesAt : Submit(t)
  \/ \E b \in BOOLEAN : CloseAnswers(b)
  \/ \E p \in Passes : \/ Start(p) \/ FindReview(p) \/ CloseReview(p) \/ Gate(p)
                       \/ \E e \in Evidences, o \in Results : Judge(p, e, o)
  \/ \E e \in Evidences, o \in Results : \E s \in SUBSET Items : Adjudicate(e, o, s)
  \/ \E a \in Actors : \/ Die(a) \/ CheckSettled(a) \/ CheckReviews(a) \/ Analyze(a) \/ CommitResult(a)
  \/ Contest

TimingSpec == TimingInit /\ [][TimingNext]_timingvars

-----------------------------------------------------------------------------
\* The item was published after the last receipt, and before it was read.
After(i) == Publication[i] # Unknown /\ Publication[i] > last /\ Publication[i] <= CollectedAt

\* A proposal rests on evidence that came out after every receipt, or is the
\* INVALID that a closed review determined, or an eligibility decision has
\* already cut the receipts off.
Placed ==
  (forecast.resolution # Nil /\ last # Nil /\ ~completed) =>
     \/ \A i \in Cited(forecast.resolution.evidence) : After(i)
     \/ closure # Nil /\ forecast.resolution.outcome = INVALID

\* What a review determined is what is finalized.
AsDetermined == (forecast.state = "FINALIZED" /\ closure # Nil /\ ~completed)
                  => forecast.resolution.outcome = INVALID

\* What was admitted once is never held later: its bodies are still there, and
\* no review names it.
Admitted ==
  (forecast.resolution # Nil /\ closure = Nil /\ ~completed) =>
     \A v \in timingReviews : v.resolution # forecast.resolution

\* No review is closed once there is a result, so that none is lifted by it.
ClosedBefore == closure' # closure => forecast.resolution = Nil

\* A result that counts rests on evidence from after the last receipt, or is
\* the INVALID that a review determined before there was any, and what was
\* admitted once is not held later.
PlacedInTime == [](Placed /\ AsDetermined /\ Admitted) /\ [][ClosedBefore]_timingvars
=============================================================================
