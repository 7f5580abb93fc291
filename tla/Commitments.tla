------------------------------ MODULE Commitments ------------------------------
(***************************************************************************)
(* The records a forecast is decided by (packages/domain-rs/src/models.rs  *)
(* and lifecycle.rs): evidence, verifications, assessments, resolutions,   *)
(* early triggers, disputes, reviews and adjudications.  Each holds the    *)
(* provenance of the answers it rests on: hashes of what a provider was    *)
(* told and of what it said.  A command takes a record put together from   *)
(* any answers ever retained, of this question or of another, and it must  *)
(* refuse it unless they are answers about one another.                    *)
(*                                                                         *)
(* A hash is the kind and the parts it covers; explanations, models and    *)
(* versions are covered like the parts that are kept, and left out.        *)
(***************************************************************************)
EXTENDS Integers, FiniteSets, TLC

CONSTANTS
  Specs, Question,     \* specifications: this question's, and another's
  Sources, Primary, Fallback, \* where pages are, and what the policies name
  Providers, Asked,    \* providers, and [task -> those that may be asked]
  First, Second,       \* the ones asked before a behaviour starts
  Open, Close,         \* of the specifications
  Yes, No,             \* outcomes, each of one clause
  MaxTime, MaxAnswers, \* bounds: the last, on pages and answers asked for
  MaxDisputes,         \* MAX_ACTIVE_DISPUTES
  Nil

CommitmentsAssumption ==
  /\ Question \in Specs /\ {First, Second} \subseteq Providers /\ Providers # {First, Second}
  /\ Primary # {} /\ Primary \cup Fallback \subseteq Sources
  /\ {Open, Close, MaxTime} \subseteq Nat /\ Open < Close /\ Close <= MaxTime
  /\ MaxAnswers \in Nat

VARIABLES
  now,
  pages,     \* retained snapshots, [source, at]
  answers,   \* provenance of every answer
  left,      \* how many more are asked
  forecast,  \* [stage, spec, assessment, trigger, proposal, disputes, reviews]
  replaced   \* history: the proposals that were adjudicated

vars == <<now, pages, answers, left, forecast, replaced>>

------------------------------------------------------------------------------
(***************************************************************************)
(* What a hash covers.  An output's covers its input's too: every record   *)
(* checks both, so the input is kept once, beside the output.              *)
(***************************************************************************)
SpecificationHash(s) == <<"specification", s>>
AmbiguityOutput(passed) == <<"ambiguity_output", passed>>
DuplicateOutput(completed) == <<"duplicate_output", completed>>
EvidenceHash(e) == <<"evidence", e>>
VerificationOutput(verified) == <<"source_verification_output", verified>>
ResolutionInput(r) == <<"resolution_input", r.spec, r.evidence, r.verifications>>
ResolutionOutput(r) == <<"resolution_output", r.outcome, r.rule, r.status>>
CounterInput(input, judge) == <<"counter_judge_input", input, judge>>
CounterOutput(agrees) == <<"counter_judge_output", agrees>>
TriggerInput(t) == <<"early_positive_trigger_input", t.spec, t.evidence, t.verifications,
                     t.event, t.observed, t.basis>>
QualificationOutput == <<"early_positive_qualification">>
EarlyInput(r) == <<"early_resolution_input", r.trigger, ResolutionInput(r)>>
\* resolution_hash of the record that disputes are about: no trigger.
BaseHash(r) == <<"resolution", [r EXCEPT !.trigger = Nil]>>
FullHash(r) == <<"any_resolution", r>>
DisputeHash(d) == <<"dispute", d>>
BundleHash(d) == <<"dispute_evidence", d.evidence>>
EvidenceOutput(valid) == <<"dispute_evidence_output", valid>>
AnalysisOutput(bundle, material) == <<"dispute_analysis_output", bundle, material>>
ReviewInput(w) == <<"dispute_review_input", w.dispute, w.spec, w.resolution, w.bundle,
                    w.validation, w.analysis>>
ReviewOutput(w) == <<"dispute_review_output", w.valid, w.material, w.disposition>>
AdjudicationInput(f, r) ==
  <<"adjudication", FullHash(f.proposal), f.reviews, BaseHash(r)>>

------------------------------------------------------------------------------
(***************************************************************************)
(* What each record must satisfy.                                          *)
(***************************************************************************)
\* AIProvenance, as one of a record's: the task asked, what was told, what was said.
Is(a, task, in, out) == a.task = task /\ a.in = in /\ a.out = out

\* ValidationAssessment::validate, require_publishable.
AssessmentValid(v) ==
  LET h == SpecificationHash(v.spec) IN
  /\ v.compiler.task = "MARKET_COMPILER" /\ v.compiler.out = h
  /\ Is(v.ambiguity, "AMBIGUITY_JUDGE", h, AmbiguityOutput(v.passed))
  /\ Is(v.duplicate, "DUPLICATE_DETECTOR", h, DuplicateOutput(v.completed))
  /\ \A a \in {v.compiler, v.ambiguity, v.duplicate} : a.at <= v.at
Publishable(v, s) == v.spec = s /\ v.passed /\ v.completed

\* SourceVerification::validate.
VerificationValid(v) ==
  Is(v.by, "SOURCE_VERIFIER", EvidenceHash(v.of), VerificationOutput(v.verified))
\* One verification of each page, none before it was collected.
Covers(r) ==
  /\ r.evidence # {} /\ Cardinality(r.verifications) = Cardinality(r.evidence)
  /\ {v.of : v \in r.verifications} = r.evidence
  /\ \A v \in r.verifications : VerificationValid(v) /\ v.by.at >= v.of.at

\* The judge decided on exactly these pages and verifications, and the
\* counter-judge was told of that very decision.
JudgeBound(r, input) == Is(r.judge, "RESOLUTION_JUDGE", input, ResolutionOutput(r))
\* Mutant: an agreement with any judge's decision will do.
CounterBoundToAny(r, input) ==
  /\ r.counter.task = "COUNTER_JUDGE"
  /\ \E j \in answers : r.counter.in = CounterInput(input, j) /\ r.counter.out = CounterOutput(r.agrees)
CounterBound(r, input) ==
  Is(r.counter, "COUNTER_JUDGE", CounterInput(input, r.judge), CounterOutput(r.agrees))
Causal(r) ==
  /\ \A v \in r.verifications : v.by.at <= r.judge.at
  /\ r.judge.at <= r.counter.at /\ r.counter.at <= r.at
Settled(r) == r.status \in {"CLEAR", "RESOLVED"} => r.agrees
\* Resolution::validate_rules.
RulesHold(r, input) ==
  JudgeBound(r, input) /\ CounterBound(r, input) /\ Covers(r) /\ Causal(r) /\ Settled(r)
\* validate_binding: the clause matched is the outcome's, the pages are the policy's.
Binding(r, s) ==
  /\ r.spec = s /\ r.rule = r.outcome
  /\ \A e \in r.evidence : e.source \in Primary \cup Fallback
\* require_proposable_after.
Proposable(r) ==
  /\ \A v \in r.verifications : v.verified
  /\ r.status # "UNRESOLVED" /\ r.agrees

\* EarlyResolutionTrigger::validate and validate_for.
TriggerValid(t) ==
  /\ Covers(t) /\ t.event <= t.observed
  /\ t.basis = "observed_upper_bound" => t.event = t.observed
  /\ \A e \in t.evidence : e.at <= t.observed /\ (t.basis = "published_instant" => t.event <= e.at)
  /\ \A v \in t.verifications : v.verified /\ v.by.at <= t.qualifier.at
  /\ Is(t.qualifier, "AMBIGUITY_JUDGE", TriggerInput(t), QualificationOutput)
  /\ Is(t.counter, "COUNTER_JUDGE", CounterInput(TriggerInput(t), t.qualifier),
        CounterOutput(TRUE))
  /\ t.counter.by # t.qualifier.by
  /\ t.observed <= t.qualifier.at /\ t.qualifier.at <= t.counter.at
TriggerFor(t, s) ==
  /\ t.spec = s /\ Open <= t.event /\ t.counter.at < Close
  /\ \A e \in t.evidence : e.source \in Primary

\* AnyResolution::validate and validate_for, for either kind.
OrdinaryFor(r, s) ==
  /\ Binding(r, s) /\ RulesHold(r, ResolutionInput(r))
  /\ \A e \in r.evidence : e.at >= Close
EarlyFor(r, s) ==
  LET t == r.trigger IN
  /\ Binding(r, s) /\ RulesHold(r, EarlyInput(r)) /\ TriggerValid(t) /\ TriggerFor(t, s)
  /\ r.spec = t.spec /\ r.outcome = Yes
  /\ r.evidence = t.evidence /\ r.verifications = t.verifications
  /\ r.judge.at >= t.counter.at /\ r.at >= t.counter.at

\* Dispute::validate and validate_for.
DisputeFor(d, r) ==
  /\ d.evidence # {} /\ \A e \in d.evidence : e.at <= d.at
  /\ d.spec = r.spec /\ d.resolution = BaseHash(r) /\ d.at >= r.at

Expected(disposition) ==
  CASE disposition = "RETAIN_PROPOSAL"   -> <<TRUE, FALSE>>
    [] disposition = "MATERIAL_CONFLICT" -> <<TRUE, TRUE>>
    [] disposition = "INVALID_EVIDENCE"  -> <<FALSE, FALSE>>
\* DisputeReview::validate.
ReviewValid(w) ==
  /\ <<w.valid, w.material>> = Expected(w.disposition)
  /\ Is(w.validation, "SOURCE_VERIFIER", w.bundle, EvidenceOutput(w.valid))
  /\ Is(w.analysis, "DISPUTE_ANALYST", w.dispute, AnalysisOutput(w.bundle, w.material))
  /\ Is(w.judge, "INDEPENDENT_REJUDGE", ReviewInput(w), ReviewOutput(w))
  /\ w.judge.by # w.analysis.by
  /\ w.validation.at <= w.analysis.at /\ w.analysis.at <= w.judge.at /\ w.judge.at <= w.at
\* require_valid_for: of this dispute and proposal, by a provider that decided neither.
ReviewFor(w, d, r) ==
  /\ DisputeFor(d, r) /\ ReviewValid(w)
  /\ w.dispute = DisputeHash(d) /\ w.spec = r.spec /\ w.resolution = BaseHash(r)
  /\ w.bundle = BundleHash(d) /\ w.validation.at >= d.at
  /\ w.judge.by \notin {r.judge.by, r.counter.by}

------------------------------------------------------------------------------
(***************************************************************************)
(* Answers.  A judge is told only of pages it is given verifications of.   *)
(***************************************************************************)
Quiet == UNCHANGED <<now, pages, forecast, replaced>>
Ask(task, in, outs) ==
  /\ left > 0 /\ left' = left - 1 /\ Quiet
  /\ \E p \in Asked[task], out \in outs :
       answers' = answers \cup {[task |-> task, by |-> p, in |-> in, out |-> out, at |-> now]}
By(task) == {a \in answers : a.task = task}

Verifications ==
  {v \in [of : pages, verified : BOOLEAN, by : By("SOURCE_VERIFIER")] : VerificationValid(v)}
\* Pages with one verification each.
Bundles ==
  {b \in [evidence : SUBSET pages \ {{}}, verifications : SUBSET Verifications] :
     /\ Cardinality(b.verifications) = Cardinality(b.evidence)
     /\ {v.of : v \in b.verifications} = b.evidence}
Verdict(outcome, rule, status) == [outcome |-> outcome, rule |-> rule, status |-> status]
Verdicts ==
  {Verdict(Yes, Yes, "CLEAR"), Verdict(No, No, "CLEAR"), Verdict(Yes, No, "CLEAR"),
   Verdict(No, No, "UNRESOLVED")}
Triggers ==
  {[spec |-> s, evidence |-> b.evidence, verifications |-> b.verifications, event |-> t,
    observed |-> e.at, basis |-> basis, qualifier |-> Nil, counter |-> Nil] :
     s \in Specs, b \in Bundles, e \in pages, t \in 0..MaxTime,
     basis \in {"observed_upper_bound", "published_instant"}}

Compile ==
  /\ forecast.stage = "DRAFT"
  /\ \E s \in Specs : Ask("MARKET_COMPILER", <<"question">>, {SpecificationHash(s)})
AssessAmbiguity ==
  /\ forecast.stage = "DRAFT"
  /\ \E s \in Specs :
       Ask("AMBIGUITY_JUDGE", SpecificationHash(s), {AmbiguityOutput(b) : b \in BOOLEAN})
AssessDuplicates ==
  /\ forecast.stage = "DRAFT"
  /\ \E s \in Specs :
       Ask("DUPLICATE_DETECTOR", SpecificationHash(s), {DuplicateOutput(b) : b \in BOOLEAN})
Verify ==
  /\ forecast.stage \in {"OPEN", "RESOLVING", "ESCALATED"}
  /\ \E e \in pages :
       Ask("SOURCE_VERIFIER", EvidenceHash(e), {VerificationOutput(b) : b \in BOOLEAN})
\* propose_early_resolution when a trigger was accepted, propose_resolution else.
Judge ==
  /\ forecast.stage \in {"RESOLVING", "ESCALATED"} /\ left > 0
  /\ IF forecast.stage = "RESOLVING" /\ forecast.trigger # Nil
       THEN LET t == forecast.trigger
                input == EarlyInput([spec |-> t.spec, evidence |-> t.evidence,
                                     verifications |-> t.verifications, trigger |-> t])
            IN Ask("RESOLUTION_JUDGE", input, {ResolutionOutput(v) : v \in Verdicts})
       ELSE \E s \in Specs, b \in Bundles :
              LET input == <<"resolution_input", s, b.evidence, b.verifications>> IN
              Ask("RESOLUTION_JUDGE", input, {ResolutionOutput(v) : v \in Verdicts})
Qualify ==
  /\ forecast.stage = "OPEN" /\ left > 0
  /\ \E t \in Triggers :
       /\ t.event <= t.observed /\ (t.basis = "observed_upper_bound" => t.event = t.observed)
       /\ Ask("AMBIGUITY_JUDGE", TriggerInput(t), {QualificationOutput})
Counter ==
  /\ forecast.stage \in {"OPEN", "RESOLVING", "ESCALATED"}
  /\ \E a \in By("RESOLUTION_JUDGE") \cup {q \in By("AMBIGUITY_JUDGE") : q.in[1] # "specification"} :
       Ask("COUNTER_JUDGE", CounterInput(a.in, a), {CounterOutput(b) : b \in BOOLEAN})
ValidateEvidence ==
  /\ forecast.stage = "DISPUTED"
  /\ \E d \in forecast.disputes :
       Ask("SOURCE_VERIFIER", BundleHash(d), {EvidenceOutput(b) : b \in BOOLEAN})
Analyse ==
  /\ forecast.stage = "DISPUTED"
  /\ \E d \in forecast.disputes :
       Ask("DISPUTE_ANALYST", DisputeHash(d), {AnalysisOutput(BundleHash(d), b) : b \in BOOLEAN})

Reviews ==
  {w \in [dispute : {DisputeHash(d) : d \in forecast.disputes}, spec : {forecast.spec},
          resolution : {BaseHash(forecast.proposal)}, bundle : {BundleHash(d) : d \in forecast.disputes},
          validation : By("SOURCE_VERIFIER"), analysis : By("DISPUTE_ANALYST"),
          valid : BOOLEAN, material : BOOLEAN,
          disposition : {"RETAIN_PROPOSAL", "MATERIAL_CONFLICT", "INVALID_EVIDENCE"}] :
     <<w.valid, w.material>> = Expected(w.disposition)}
Rejudge ==
  /\ forecast.stage = "DISPUTED" /\ left > 0
  /\ \E w \in Reviews : Ask("INDEPENDENT_REJUDGE", ReviewInput(w), {ReviewOutput(w)})

\* Anything a proposal can be put together from.
Proposals ==
  {r \in {[spec |-> s, evidence |-> b.evidence, verifications |-> b.verifications,
           outcome |-> v.outcome, rule |-> v.rule, status |-> v.status, agrees |-> agrees,
           judge |-> j, counter |-> c, at |-> now, trigger |-> t] :
             s \in Specs, b \in Bundles, v \in Verdicts, agrees \in BOOLEAN,
             j \in By("RESOLUTION_JUDGE"), c \in By("COUNTER_JUDGE"), t \in {Nil, forecast.trigger}} :
     Proposable(r)}
Replacements == {r \in Proposals : r.trigger = Nil /\ OrdinaryFor(r, r.spec)}
Adjudge ==
  /\ forecast.stage = "ESCALATED" /\ left > 0
  /\ \E r \in Replacements : Ask("ADJUDICATION", AdjudicationInput(forecast, r), {BaseHash(r)})

------------------------------------------------------------------------------
(***************************************************************************)
(* The commands: the records they take, and what becomes of the forecast.  *)
(***************************************************************************)
Move(f) == forecast' = f /\ UNCHANGED <<now, pages, answers, left>>

Tick == now < MaxTime /\ now' = now + 1 /\ UNCHANGED <<pages, answers, left, forecast, replaced>>

\* EvidenceSnapshot::validate: content and collector bind the page, so it is one.
Collect ==
  /\ left > 0 /\ left' = left - 1
  /\ \E s \in Sources : pages' = pages \cup {[source |-> s, at |-> now]}
  /\ UNCHANGED <<now, answers, forecast, replaced>>

EditSpecification ==
  /\ forecast.stage = "DRAFT"
  /\ \E s \in Specs : Move([forecast EXCEPT !.spec = s]) /\ UNCHANGED replaced

Publish ==
  /\ forecast.stage = "DRAFT" /\ now < Close
  /\ \E s \in Specs, c \in By("MARKET_COMPILER"), a \in By("AMBIGUITY_JUDGE"),
        d \in By("DUPLICATE_DETECTOR"), at \in 0..now, passed \in BOOLEAN, completed \in BOOLEAN :
       LET v == [spec |-> s, compiler |-> c, ambiguity |-> a, duplicate |-> d,
                 passed |-> passed, completed |-> completed, at |-> at] IN
       /\ AssessmentValid(v) /\ Publishable(v, forecast.spec)
       /\ Move([forecast EXCEPT !.stage = "OPEN", !.assessment = v])
  /\ UNCHANGED replaced

\* apply_early_lock.
LockEarly ==
  /\ forecast.stage = "OPEN" /\ now < Close
  /\ \E t \in Triggers, q \in By("AMBIGUITY_JUDGE"), c \in By("COUNTER_JUDGE") :
       LET u == [t EXCEPT !.qualifier = q, !.counter = c] IN
       /\ TriggerValid(u) /\ TriggerFor(u, forecast.spec) /\ c.at <= now
       /\ Move([forecast EXCEPT !.stage = "RESOLVING", !.trigger = u])
  /\ UNCHANGED replaced

\* Lock and begin_resolution, of a forecast that was not locked early.
BeginResolution ==
  /\ forecast.stage = "OPEN" /\ now >= Close
  /\ Move([forecast EXCEPT !.stage = "RESOLVING"]) /\ UNCHANGED replaced

\* A proposal's time is the command's.
ProposeResolution ==
  /\ forecast.stage = "RESOLVING"
  /\ \E r \in Proposals :
       /\ IF r.trigger = Nil
            THEN OrdinaryFor(r, forecast.spec)
            ELSE EarlyFor(r, forecast.spec)
       /\ Move([forecast EXCEPT !.stage = "CHALLENGE", !.proposal = r])
  /\ UNCHANGED replaced

FileDispute ==
  /\ forecast.stage \in {"CHALLENGE", "DISPUTED"} /\ Cardinality(forecast.disputes) < MaxDisputes
  /\ \E s \in Specs, e \in SUBSET pages,
        r \in {forecast.proposal} \cup {x.from : x \in replaced} :
       LET d == [spec |-> s, resolution |-> BaseHash(r), evidence |-> e, at |-> now] IN
       /\ DisputeFor(d, forecast.proposal) /\ d \notin forecast.disputes
       /\ Move([forecast EXCEPT !.stage = "DISPUTED", !.disputes = @ \cup {d}])
  /\ UNCHANGED replaced

ReviewDispute ==
  /\ forecast.stage = "DISPUTED"
  /\ \E w \in Reviews, j \in By("INDEPENDENT_REJUDGE"), d \in forecast.disputes :
       LET v == w @@ [judge |-> j, at |-> now] IN
       /\ ReviewFor(v, d, forecast.proposal)
       /\ \A u \in forecast.reviews : u.dispute # v.dispute
       /\ Move([forecast EXCEPT !.reviews = @ \cup {v}])
  /\ UNCHANGED replaced

Material == \E w \in forecast.reviews : w.material
Reviewed == Cardinality(forecast.disputes) = Cardinality(forecast.reviews)
Escalate ==
  /\ forecast.stage = "DISPUTED" /\ Reviewed /\ Material
  /\ Move([forecast EXCEPT !.stage = "ESCALATED"]) /\ UNCHANGED replaced
RetainProposal ==
  /\ forecast.stage = "DISPUTED" /\ Reviewed /\ ~Material
  /\ Move([forecast EXCEPT !.stage = "CHALLENGE"]) /\ UNCHANGED replaced

AdjudicateResolution ==
  /\ forecast.stage = "ESCALATED"
  /\ \E r \in Replacements, a \in By("ADJUDICATION") :
       /\ OrdinaryFor(r, forecast.spec)
       /\ a.by \notin {forecast.proposal.judge.by, forecast.proposal.counter.by}
       /\ a.in = AdjudicationInput(forecast, r) /\ a.out = BaseHash(r) /\ a.at = now
       /\ Move([forecast EXCEPT !.stage = "CHALLENGE", !.proposal = r, !.disputes = {}, !.reviews = {}])
       /\ replaced' = replaced \cup {[from |-> forecast.proposal, reviews |-> forecast.reviews,
                                      by |-> a, to |-> r]}

------------------------------------------------------------------------------
(***************************************************************************)
(* A behaviour starts where a command waits for answers, the ones before   *)
(* it given: about one another, since a command took them.                 *)
(***************************************************************************)
Answer(task, by, in, out, at) == [task |-> task, by |-> by, in |-> in, out |-> out, at |-> at]
Verified(e, at) ==
  [of |-> e, verified |-> TRUE,
   by |-> Answer("SOURCE_VERIFIER", First, EvidenceHash(e), VerificationOutput(TRUE), at)]
Page(at) == [source |-> CHOOSE s \in Primary : TRUE, at |-> at]
Decided(outcome, at, trigger) ==
  LET e == Page(IF trigger = Nil THEN at ELSE trigger.observed)
      v == IF trigger = Nil THEN Verified(e, at) ELSE CHOOSE x \in trigger.verifications : TRUE
      r == [spec |-> Question, evidence |-> {e}, verifications |-> {v}, outcome |-> outcome,
            rule |-> outcome, status |-> "CLEAR", agrees |-> TRUE, at |-> at, trigger |-> trigger]
      input == IF trigger = Nil THEN ResolutionInput(r) ELSE EarlyInput(r)
      j == Answer("RESOLUTION_JUDGE", First, input, ResolutionOutput(r), at)
  IN r @@ [judge |-> j,
           counter |-> Answer("COUNTER_JUDGE", Second, CounterInput(input, j), CounterOutput(TRUE), at)]
Observed ==
  LET e == Page(Open)
      t == [spec |-> Question, evidence |-> {e}, verifications |-> {Verified(e, Open)}, event |-> Open,
            observed |-> Open, basis |-> "observed_upper_bound"]
      q == Answer("AMBIGUITY_JUDGE", First, TriggerInput(t), QualificationOutput, Open)
  IN t @@ [qualifier |-> q, counter |-> Answer("COUNTER_JUDGE", Second, CounterInput(TriggerInput(t), q),
                                              CounterOutput(TRUE), Open)]
AnswersOf(r) == {r.counter} \cup {v.by : v \in r.verifications}
Disputed(r, at) == [spec |-> Question, resolution |-> BaseHash(r), evidence |-> {Page(at)}, at |-> at]

Empty == [stage |-> "DRAFT", spec |-> Question, assessment |-> Nil, trigger |-> Nil,
          proposal |-> Nil, disputes |-> {}, reviews |-> {}]
Assessed ==
  LET h == SpecificationHash(Question) IN
  [spec |-> Question, passed |-> TRUE, completed |-> TRUE, at |-> Open,
   compiler |-> Answer("MARKET_COMPILER", First, <<"question">>, h, Open),
   ambiguity |-> Answer("AMBIGUITY_JUDGE", First, h, AmbiguityOutput(TRUE), Open),
   duplicate |-> Answer("DUPLICATE_DETECTOR", First, h, DuplicateOutput(TRUE), Open)]
Published == [Empty EXCEPT !.stage = "OPEN", !.assessment = Assessed]
Reviewing(d, r, at, by) ==
  LET w == [dispute |-> DisputeHash(d), spec |-> Question, resolution |-> BaseHash(r),
            bundle |-> BundleHash(d),
            valid |-> TRUE, material |-> TRUE, disposition |-> "MATERIAL_CONFLICT",
            validation |-> Answer("SOURCE_VERIFIER", First, BundleHash(d), EvidenceOutput(TRUE), at),
            analysis |-> Answer("DISPUTE_ANALYST", First, DisputeHash(d),
                                AnalysisOutput(BundleHash(d), TRUE), at)]
  IN w @@ [judge |-> Answer("INDEPENDENT_REJUDGE", by, ReviewInput(w), ReviewOutput(w), at), at |-> at]
AnswersIn(f) ==
  (IF f.assessment = Nil THEN {}
   ELSE {f.assessment.compiler, f.assessment.ambiguity, f.assessment.duplicate})
  \cup (IF f.trigger = Nil THEN {} ELSE AnswersOf(f.trigger) \cup {f.trigger.qualifier})
  \cup (IF f.proposal = Nil THEN {} ELSE AnswersOf(f.proposal) \cup {f.proposal.judge})
  \cup UNION {{w.validation, w.analysis, w.judge} : w \in f.reviews}
Locked == [Published EXCEPT !.stage = "RESOLVING", !.trigger = Observed]
Challenged(r) == [Published EXCEPT !.stage = "CHALLENGE", !.trigger = r.trigger, !.proposal = r]
Escalated ==
  LET r == Decided(No, Close, Nil)  d == Disputed(r, Close) IN
  [Challenged(r) EXCEPT !.stage = "ESCALATED", !.disputes = {d},
     !.reviews = {Reviewing(d, r, Close, CHOOSE p \in Providers \ {First, Second} : TRUE)}]
Starts ==
  {[forecast |-> Empty, now |-> Open, pages |-> {}],
   [forecast |-> Published, now |-> Open, pages |-> {Page(Open)}],
   [forecast |-> [Published EXCEPT !.stage = "RESOLVING"], now |-> Close,
    pages |-> {Page(Open), Page(Close)}],
   [forecast |-> Locked, now |-> Open, pages |-> {Page(Open)}],
   [forecast |-> Challenged(Decided(No, Close, Nil)), now |-> Close, pages |-> {Page(Close)}],
   [forecast |-> Escalated, now |-> Close, pages |-> {Page(Close)}]}

Init ==
  \E s \in Starts :
    /\ forecast = s.forecast /\ now = s.now /\ pages = s.pages
    /\ answers = AnswersIn(s.forecast) /\ left = MaxAnswers /\ replaced = {}

Commands ==
  \/ EditSpecification \/ Publish \/ LockEarly \/ BeginResolution \/ ProposeResolution
  \/ FileDispute \/ ReviewDispute \/ RetainProposal \/ Escalate \/ AdjudicateResolution
Next ==
  \/ Tick \/ Collect \/ Commands
  \/ Compile \/ AssessAmbiguity \/ AssessDuplicates \/ Qualify \/ Verify \/ Judge \/ Counter
  \/ ValidateEvidence \/ Analyse \/ Rejudge \/ Adjudge

Spec == Init /\ [][Next]_vars

------------------------------------------------------------------------------
(***************************************************************************)
(* Properties, of the accepted records and the answers as they were given. *)
(***************************************************************************)
\* Each page was read by a verifier that was shown it, after it was
\* collected, and who said it is what it claims to be.
PagesVerified(r) ==
  \A e \in r.evidence : \E a \in answers :
    /\ e \in pages /\ a.in = EvidenceHash(e) /\ a.out = VerificationOutput(TRUE)
    /\ e.at <= a.at /\ a.at <= r.judge.at
\* The judge said so of those pages and of this question, and of the judge's
\* decision the counter-judge said, later, that it agrees.
Concurred(r) ==
  \E j \in answers, c \in answers :
    LET input == IF r.trigger = Nil THEN ResolutionInput(r) ELSE EarlyInput(r) IN
    /\ j.in = input /\ j.out = ResolutionOutput(r) /\ r.rule = r.outcome
    /\ c.in = CounterInput(input, j) /\ c.out = CounterOutput(TRUE) /\ j.at <= c.at

\* Whatever mixture of answers a command is given, of this question and of
\* another: an accepted proposal was concluded from verified pages, of this
\* question, by a judge and a counter-judge; an ordinary one from pages of the
\* time after the close, an early one from a qualification affirmed before it.
ProposalConcluded ==
  LET r == forecast.proposal IN
  r # Nil =>
    /\ r.spec = forecast.spec /\ PagesVerified(r) /\ Concurred(r)
    /\ IF r.trigger = Nil THEN \A e \in r.evidence : e.at >= Close
       ELSE /\ r.trigger = forecast.trigger /\ r.outcome = Yes
            /\ \E q \in answers, c \in answers :
                 /\ q.in = TriggerInput(r.trigger) /\ c.in = CounterInput(q.in, q)
                 /\ c.by # q.by /\ c.out = CounterOutput(TRUE) /\ c.at < Close /\ c.at <= r.judge.at

\* A proposal is replaced only after a re-judge of a provider that decided
\* neither of its answers, told of the very dispute, found a conflict, and by a
\* record that was concluded the same way.
ReplacedAfterConflict ==
  \A x \in replaced :
    /\ \E w \in x.reviews, j \in answers :
         /\ w.resolution = BaseHash(x.from) /\ j.in = ReviewInput(w)
         /\ j.out = <<"dispute_review_output", TRUE, TRUE, "MATERIAL_CONFLICT">> /\ j.at <= x.by.at
         /\ j.by \notin {x.from.judge.by, x.from.counter.by}
    /\ x.by.at >= x.from.at /\ PagesVerified(x.to) /\ Concurred(x.to)
DecidedAsBound == ProposalConcluded /\ ReplacedAfterConflict
=============================================================================
