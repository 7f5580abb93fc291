------------------------------- MODULE Judging -------------------------------
(***************************************************************************)
(* The AI workflows (src/apps/web-rs/src/ai): one task is one call, which  *)
(* asks each configured provider in turn until one answers; a workflow is  *)
(* a chain of calls whose answers decide the next.  They compile a         *)
(* question, refresh its estimate, check that it is not settled already,   *)
(* review an announcement, propose a resolution (early or at the close)    *)
(* and review a dispute of it.  Between two workflows the configuration    *)
(* may change, and retained bytes may be missing.                          *)
(*                                                                         *)
(* An answer is what the workflow reads of it; an artifact is what it is   *)
(* about.  Prompts, schemas and hashes are left out.                       *)
(***************************************************************************)
EXTENDS Integers, Sequences, FiniteSetsExt

CONSTANTS
  Configs, Provider,     \* configured models, and the provider of each
  Orders,                \* the configurations that are deployed
  Primary, Fallback,     \* the sources of the published policy
  Announced,             \* the page a watch observed, one of the primary sources
  CitedPage,             \* the page a dispute cites
  Opening, Close, Observed, \* of the specification and the observation
  Day,                   \* a day
  MaxChanges,            \* bound
  Absent

JudgingAssumption ==
  /\ Provider \in [Configs -> {"openai", "gemini", "cloudflare"}]
  /\ (\A o \in Orders : o \in Seq(Configs) /\ Len(o) > 0) /\ Primary # {} /\ Announced \in Primary
  /\ {Opening, Close, Observed} \subseteq Nat /\ Opening <= Observed /\ Observed < Close
  /\ Day \in Nat \ {0} /\ MaxChanges \in Nat

VARIABLES
  deployed,    \* the coordinator's providers
  bytes,       \* pages whose retained bytes can be read, at first the one observed
  record,      \* what workflows decided: [trigger, resolution, review], or None each
  flow,        \* the workflow under way, or None
  done,        \* the one that just ended, or None
  changes

flowvars == <<deployed, bytes, record, flow, done, changes>>

FlowInit ==
  /\ deployed \in Orders /\ bytes = {Announced} /\ flow = Absent /\ done = Absent /\ changes = 0
  /\ record = [trigger |-> Absent, resolution |-> Absent, review |-> Absent]

------------------------------------------------------------------------------
(***************************************************************************)
(* The coordinator: a call, and what its provider answers.                 *)
(***************************************************************************)
Named(c) == Provider[c]

\* read_answer: what a provider's envelope says, where openai and gemini may
\* refuse without any text.  strict_json, validate_output and the language
\* check then accept or refuse the text.
Readings(c) == {"transport", "text", "refused"} \cup
               IF Provider[c] = "cloudflare" THEN {} ELSE {"declined"}

\* What each task may answer.
Outputs == [
  SOURCE_VERIFIER     |-> {"verified", "unverified", "irrelevant"},
  RESOLUTION_JUDGE    |-> {"clear", "unclear"},
  COUNTER_JUDGE       |-> {"agrees", "disagrees", "rebinds"},
  AMBIGUITY_JUDGE     |-> {"passed", "failed"},
  DISPUTE_EVIDENCE    |-> {"valid", "invalid"},
  DISPUTE_ANALYST     |-> {"material", "immaterial"},
  INDEPENDENT_REJUDGE |-> {"agrees", "disagrees"},
  MARKET_COMPILER     |-> {"normal", "abnormal"},
  DUPLICATE_DETECTOR  |-> {"accurate", "inaccurate"},
  AI_FORECAST         |-> {"estimate"},
  question_freshness  |-> {"known", "uncertain"} ]

Decision(task, of, c, out) == [kind |-> "ai-decision", task |-> task, of |-> of, by |-> c, out |-> out]
Failure(task, c) == [kind |-> "provider-failure", task |-> task, by |-> c]
Rejection(task, c) == [kind |-> "ai-rejection", task |-> task, by |-> c]
Source(s) == [kind |-> "source", of |-> s]
SourceFailure(s) == [kind |-> "source-failure", of |-> s]

\* A workflow: what it asks now, the answers it was given, what it would retain.
Started(kind) == [kind |-> kind, task |-> Absent, of |-> Absent, left |-> <<>>, failed |-> {},
                  said |-> {}, kept |-> {}, docs |-> {}, todo |-> {}, judge |-> Absent,
                  event |-> Absent, basis |-> Absent]
Asking(f, task, of, who) == [f EXCEPT !.task = task, !.of = of, !.left = who, !.failed = {}]
SaidOf(f, task) == {d \in f.said : d.task = task}
\* How a workflow ends: a result or the code of a refusal, and its artifacts.
Ended(f, code, kept) == [kind |-> f.kind, code |-> code, said |-> f.said, kept |-> kept,
                         docs |-> f.docs, event |-> f.event]
\* attach, carrying: which workflows keep what earlier calls produced when a
\* later one fails; a resolution or a review of a dispute does not.
Carries(f) == f.kind \in {"compile", "refresh", "observe", "early"}
Kept(f, more) == IF Carries(f) THEN f.kept \cup more ELSE more

\* The estimate of a compilation is a signal: its failure ends nothing.
MayFail(f) == f.kind = "compile" /\ f.task = "AI_FORECAST"
End(result, rec) == flow' = Absent /\ done' = result /\ record' = rec /\ UNCHANGED <<deployed, changes>>
Refuse(f, code, kept) == End(Ended(f, code, kept), record) /\ UNCHANGED bytes
\* A result is retained with the pages it rests on.
Finish(f, code, kept, rec) ==
  /\ End(Ended(f, code, kept), rec)
  /\ bytes' = bytes \cup {s \in f.docs : Source(s) \in kept}
Continue(f) == flow' = f /\ done' = Absent /\ UNCHANGED <<deployed, bytes, record, changes>>

FailCall(f, code, more) ==
  IF MayFail(f) THEN Finish(f, "ok", f.kept \cup more, record) ELSE Refuse(f, code, Kept(f, more))

------------------------------------------------------------------------------
(***************************************************************************)
(* What each workflow does with an answer.                                 *)
(***************************************************************************)
\* The first configuration deployed of those that qualify, if any does.
First(which) ==
  LET at == {i \in DOMAIN deployed : deployed[i] \in which}
  IN  IF at = {} THEN <<>> ELSE <<deployed[Min(at)]>>
Lead == <<Head(deployed)>>
\* The first of another provider than the lead's.
Other == First({c \in Configs : Named(c) # Named(Head(deployed))})

\* propose_resolution: every page is verified, then judged, then countered by the
\* judge's own configuration; the domain has the last word.
Resolving(f, c, out) ==
  \/ /\ f.task = "SOURCE_VERIFIER" /\ out = "verified" /\ f.todo = {}
     /\ Continue(Asking(f, "RESOLUTION_JUDGE", Absent, deployed))
  \/ /\ f.task = "SOURCE_VERIFIER" /\ out = "verified"
     /\ \E s \in f.todo :
          Continue(Asking([f EXCEPT !.todo = @ \ {s}], "SOURCE_VERIFIER", s, deployed))
  \/ /\ f.task = "RESOLUTION_JUDGE" /\ out = "clear"
     /\ Continue(Asking([f EXCEPT !.judge = c], "COUNTER_JUDGE", Absent, <<c>>))
  \/ /\ f.task = "COUNTER_JUDGE" /\ out = "agrees"
     /\ \/ Refuse(f, "resolution_domain_rejected", f.kept)
        \/ Finish(f, "ok", f.kept, [record EXCEPT !.resolution =
             [early |-> FALSE, judge |-> f.judge, counter |-> c, docs |-> f.docs]])
  \/ out \notin {"verified", "clear", "agrees"} /\ Refuse(f, "ai_rejected", f.kept)

\* validate_early_counter: the answer echoes the time it was given and names no other.
Rebound(out) == out = "rebinds"

\* review_source_observation: verified, relevant, qualified by the first provider,
\* and agreed on by another; or unrelated, and agreed on by another.
Unrelated(f) == \E d \in SaidOf(f, "SOURCE_VERIFIER") : d.out = "irrelevant"
Countered(f, c) ==
  \/ Other = <<>> /\ Refuse(f, "unavailable", f.kept)
  \/ Other # <<>> /\ Continue(Asking([f EXCEPT !.judge = c], "COUNTER_JUDGE", Absent, Other))
Observing(f, c, out) ==
  \/ /\ f.task = "SOURCE_VERIFIER" /\ out = "verified"
     /\ Continue(Asking(f, "AMBIGUITY_JUDGE", Absent, Lead))
  \/ f.task = "SOURCE_VERIFIER" /\ out = "irrelevant" /\ Countered(f, c)
  \/ f.task = "AMBIGUITY_JUDGE" /\ out = "passed" /\ Countered(f, c)
  \/ Rebound(out) /\ Refuse(f, "early_counter_time_mismatch", f.kept)
  \/ /\ f.task = "COUNTER_JUDGE" /\ ~Rebound(out) /\ Unrelated(f)
     /\ Finish(f, IF out = "agrees" THEN "dismissed" ELSE "not_accepted", f.kept, record)
  \/ /\ f.task = "COUNTER_JUDGE" /\ out = "agrees" /\ ~Unrelated(f)
     /\ Finish(f, "ok", f.kept, [record EXCEPT !.trigger =
          [event |-> f.event, basis |-> f.basis, judge |-> f.judge, counter |-> c, docs |-> f.docs]])
  \/ /\ out \in {"unverified", "failed"} \/ (out = "disagrees" /\ ~Unrelated(f))
     /\ Finish(f, "not_accepted", f.kept, record)

\* propose_early_resolution: the exact YES clause, and another provider agrees.
Proposing(f, c, out) ==
  \/ /\ f.task = "RESOLUTION_JUDGE" /\ out = "clear"
     /\ Continue(Asking([f EXCEPT !.judge = c], "COUNTER_JUDGE", Absent, Other))
  \/ Rebound(out) /\ Refuse(f, "early_counter_time_mismatch", f.kept)
  \/ /\ f.task = "COUNTER_JUDGE" /\ out = "agrees"
     /\ Finish(f, "ok", f.kept, [record EXCEPT !.resolution =
          [early |-> TRUE, judge |-> f.judge, counter |-> c, docs |-> f.docs]])
  \/ out \in {"unclear", "disagrees"} /\ Refuse(f, "ai_rejected", f.kept)

OriginalsJudge == {Named(record.resolution.judge)}
\* The providers that decided the resolution, and the one that did not.
Originals == {Named(record.resolution.judge), Named(record.resolution.counter)}
Independent == First({c \in Configs : Named(c) \notin Originals})
Original == First({c \in Configs : Named(c) \in Originals})

\* review_dispute: an original provider verifies and analyses, another re-judges.
Valid(f) == \E d \in SaidOf(f, "DISPUTE_EVIDENCE") : d.out = "valid"
SaidMaterial(f) == \E d \in SaidOf(f, "DISPUTE_ANALYST") : d.out = "material"
Disputing(f, c, out) ==
  \/ /\ f.task = "DISPUTE_EVIDENCE"
     /\ Continue(Asking(f, "DISPUTE_ANALYST", Absent, Original))
  \/ /\ f.task = "DISPUTE_ANALYST" /\ (Valid(f) \/ out = "immaterial")
     /\ Continue(Asking(f, "INDEPENDENT_REJUDGE", Absent, Independent))
  \/ /\ f.task = "INDEPENDENT_REJUDGE" /\ out = "agrees"
     /\ Finish(f, "ok", f.kept, [record EXCEPT !.review =
          [of |-> record.resolution, by |-> c,
           disposition |-> IF SaidMaterial(f) THEN "MATERIAL_CONFLICT"
                           ELSE IF Valid(f) THEN "RETAIN_PROPOSAL" ELSE "INVALID_EVIDENCE"]])
  \/ /\ (f.task = "DISPUTE_ANALYST" /\ ~Valid(f) /\ out = "material") \/ out = "disagrees"
     /\ Refuse(f, "ai_rejected", f.kept)

\* collect_sources: primary sources first, the others when none of them was retained.
\* [docs, failed], or the refusal when nothing was.
Collections ==
  {[docs |-> g, failed |-> Primary \ g] : g \in SUBSET Primary \ {{}}} \cup
  {[docs |-> g, failed |-> Primary \cup (Fallback \ g)] : g \in SUBSET Fallback}
Collected(f, l) ==
  [f EXCEPT !.docs = l.docs,
            !.kept = @ \cup {Source(s) : s \in l.docs} \cup {SourceFailure(s) : s \in l.failed}]
\* Nothing was retained: the refusal.
Nothing(f, l) ==
  /\ l.docs = {}
  /\ \E code \in {"unavailable", "source_rejected"} :
       Refuse(f, code, Kept(f, {SourceFailure(s) : s \in l.failed}))

\* compile_question: the answer is normalized and checked before pages are fetched;
\* two more judges pass it, or it is not publishable.
Passed(f) == \E d \in SaidOf(f, "AMBIGUITY_JUDGE") : d.out = "passed"
Compiling(f, c, out) ==
  \/ /\ f.task = "MARKET_COMPILER" /\ out = "normal"
     /\ \E l \in Collections :
          LET g == [f EXCEPT !.judge = c] IN
          \/ Nothing(g, l)
          \/ l.docs # {} /\ Continue(Asking(Collected(g, l), "AMBIGUITY_JUDGE", Absent, deployed))
  \/ f.task = "AMBIGUITY_JUDGE" /\ Continue(Asking(f, "DUPLICATE_DETECTOR", Absent, deployed))
  \/ /\ f.task = "DUPLICATE_DETECTOR" /\ Passed(f) /\ out = "accurate"
     /\ Continue(Asking(f, "AI_FORECAST", Absent, <<f.judge>>))
  \/ f.task = "AI_FORECAST" /\ Finish(f, "ok", f.kept, record)
  \/ /\ f.task = "DUPLICATE_DETECTOR" /\ ~(Passed(f) /\ out = "accurate")
     /\ Refuse(f, "compiler_not_publishable", f.kept)
  \/ out = "abnormal" /\ Refuse(f, "compiler_domain_validation", f.kept)

\* check_question_freshness: only a page that settles the question refuses it.
Checking(f, out) ==
  IF out = "known" THEN Refuse(f, "question_already_resolved", f.kept) ELSE Finish(f, "ok", f.kept, record)

------------------------------------------------------------------------------
(***************************************************************************)
(* The workflows begin.                                                    *)
(***************************************************************************)
AtRest == flow = Absent

\* The event's instant is the page's when that is exact, else when it was observed.
DayOf(t) == t \div Day
Pages == {[precision |-> "instant", at |-> t] : t \in 0..Close} \cup
         {[precision |-> "date", at |-> d] : d \in 0..DayOf(Close)} \cup
         {[precision |-> "none", at |-> 0]}
EventAt(page) == IF page.precision = "instant" THEN page.at ELSE Observed
\* What the time of a page alone decides.
OutsideOpen(page) == ~(Opening <= EventAt(page) /\ EventAt(page) <= Observed)
Predates(page) == page.precision = "date" /\ page.at < DayOf(Opening)
Uncertain(page) == page.precision = "date" /\ page.at > DayOf(Observed)

\* retained_documents: every page is read back from the bytes retained for it.
Readable(docs) == docs \subseteq bytes

Observe ==
  /\ AtRest /\ record.resolution = Absent
  /\ \E page \in Pages :
       LET f == [Started("observe") EXCEPT !.event = page, !.docs = {Announced},
                   !.basis = IF page.precision = "instant" THEN "published_instant"
                             ELSE "observed_upper_bound"]
       IN \/ ~Readable(f.docs) /\ Refuse(f, "unavailable", {})
          \/ /\ Readable(f.docs) /\ (OutsideOpen(page) \/ Predates(page))
             /\ Finish(f, "dismissed", {}, record)
          \/ Readable(f.docs) /\ Uncertain(page) /\ Finish(f, "not_accepted", {}, record)
          \/ /\ Readable(f.docs) /\ ~(OutsideOpen(page) \/ Predates(page) \/ Uncertain(page))
             /\ Continue(Asking(f, "SOURCE_VERIFIER", Announced, Lead))

ProposeEarly ==
  /\ AtRest /\ record.trigger # Absent /\ record.resolution = Absent
  /\ LET f == [Started("early") EXCEPT !.docs = record.trigger.docs] IN
     \/ (Other = <<>> \/ ~Readable(f.docs)) /\ Refuse(f, "unavailable", {})
     \/ /\ Other # <<>> /\ Readable(f.docs)
        /\ Continue(Asking(f, "RESOLUTION_JUDGE", Absent, Lead))

JudgeResolution ==
  /\ AtRest /\ record.trigger = Absent /\ record.resolution = Absent
  /\ \E l \in Collections :
       \/ Nothing(Started("resolve"), l)
       \/ \E s \in l.docs :
            Continue(Asking([Collected(Started("resolve"), l) EXCEPT !.todo = l.docs \ {s}],
                            "SOURCE_VERIFIER", s, deployed))

\* The page a dispute cites was retained when it was filed.
JudgeDispute ==
  /\ AtRest /\ record.resolution # Absent /\ record.review = Absent
  /\ LET f == [Started("dispute") EXCEPT !.docs = record.resolution.docs \cup {CitedPage}]
         may == Independent # <<>> /\ Original # <<>> /\ Readable(record.resolution.docs)
     IN \/ ~may /\ Refuse(f, "unavailable", {})
        \/ may /\ Continue(Asking(f, "DISPUTE_EVIDENCE", Absent, Original))

Compile ==
  /\ AtRest /\ record.resolution = Absent
  /\ Continue(Asking(Started("compile"), "MARKET_COMPILER", Absent, deployed))

\* refresh_prediction: the clock is read again when the pages were fetched.
Refresh ==
  /\ AtRest /\ record.resolution = Absent
  /\ \E l \in Collections :
       LET g == Collected(Started("refresh"), l) IN
       \/ Nothing(Started("refresh"), l)
       \/ l.docs # {} /\ Refuse(g, "ai_rejected", g.kept)
       \/ l.docs # {} /\ Continue(Asking(g, "AI_FORECAST", Absent, deployed))

CheckFreshness ==
  /\ AtRest /\ record.resolution = Absent
  /\ LET f == Started("fresh") IN
     \/ ~Readable({Announced}) /\ Refuse(f, "unavailable", {})
     \/ Readable({Announced}) /\ Continue(Asking(f, "question_freshness", Announced, Lead))

------------------------------------------------------------------------------
\* call: the next configuration is asked.  A transport failure is recorded and the
\* one after it is asked; any refusal ends the call, and nothing is asked twice.
Answered(f, c, out) ==
  \/ f.kind = "resolve" /\ Resolving(f, c, out)
  \/ f.kind = "observe" /\ Observing(f, c, out)
  \/ f.kind = "early" /\ Proposing(f, c, out)
  \/ f.kind = "dispute" /\ Disputing(f, c, out)
  \/ f.kind = "compile" /\ Compiling(f, c, out)
  \/ f.kind = "refresh" /\ Finish(f, "ok", f.kept, record)
  \/ f.kind = "fresh" /\ Checking(f, out)
Said(f, d) == [f EXCEPT !.said = @ \cup {d}, !.kept = @ \cup {d}]
Answer ==
  /\ flow # Absent
  /\ LET f == flow  c == Head(f.left)  failed == f.failed \cup {Failure(f.task, c)} IN
     \E reading \in Readings(c) :
       \/ /\ reading = "transport" /\ Len(f.left) > 1
          /\ Continue([f EXCEPT !.left = Tail(@), !.failed = failed])
       \/ reading = "transport" /\ Len(f.left) = 1 /\ FailCall(f, "unavailable", failed)
       \/ reading = "declined" /\ FailCall(f, "ai_rejected", f.failed)
       \/ reading = "refused" /\ FailCall(f, "ai_rejected", f.failed \cup {Rejection(f.task, c)})
       \/ /\ reading = "text"
          /\ \E out \in Outputs[f.task] : Answered(Said(f, Decision(f.task, f.of, c, out)), c, out)

\* Another configuration is deployed, or the bytes of a page cannot be read.
Redeploy ==
  /\ AtRest /\ changes < MaxChanges /\ changes' = changes + 1
  /\ deployed' \in Orders /\ done' = Absent /\ UNCHANGED <<bytes, record, flow>>
Lose ==
  /\ AtRest /\ changes < MaxChanges /\ changes' = changes + 1
  /\ \E s \in bytes : bytes' = bytes \ {s}
  /\ done' = Absent /\ UNCHANGED <<deployed, record, flow>>

FlowNext ==
  \/ Observe \/ ProposeEarly \/ JudgeResolution \/ JudgeDispute
  \/ Compile \/ Refresh \/ CheckFreshness \/ Answer \/ Redeploy \/ Lose

FlowSpec == FlowInit /\ [][FlowNext]_flowvars

------------------------------------------------------------------------------
\* No provider reviews a dispute of what it decided, whatever was deployed in
\* between; an early close and its trigger are agreed on by two providers.
DecidedApart ==
  /\ record.review # Absent =>
       Named(record.review.by) \notin {Named(record.review.of.judge), Named(record.review.of.counter)}
  /\ \A x \in {record.trigger, record.resolution} \ {Absent} :
       (x = record.trigger \/ x.early) => Named(x.judge) # Named(x.counter)

\* A page is dismissed for good by its time only when no instant it may mean is in
\* the window, and by its content only when two providers agreed.
DismissedByTwo ==
  done # Absent /\ done.kind = "observe" /\ done.code = "dismissed" =>
    LET page == done.event
        meant == CASE page.precision = "instant" -> {page.at}
                   [] page.precision = "date" -> page.at * Day..page.at * Day + Day - 1
                   [] OTHER -> 0..Observed
    IN \/ done.said = {} /\ meant \cap (Opening..Observed) = {}
       \/ \E d, e \in done.said : Named(d.by) # Named(e.by) /\ d.out = "irrelevant" /\ e.out = "agrees"

\* What a result rests on is retained with it, and the refusal of an announcement,
\* an early close, an estimate or a question keeps what was answered before it.
DecisionsRetained ==
  done # Absent /\ (done.code = "ok" \/ done.kind \notin {"resolve", "dispute"}) =>
    done.said \subseteq done.kept

\* What is judged is judged apart, and kept: no provider reviews what it decided,
\* two dismiss a page or agree on an early close, and what counted is retained.
JudgedApart == DecidedApart /\ DismissedByTwo /\ DecisionsRetained
=============================================================================
