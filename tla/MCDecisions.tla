------------------------------ MODULE MCDecisions ------------------------------
(***************************************************************************)
(* How forecasts are decided, on small instances: the scheduler's passes   *)
(* over one forecast, and the records its commands take, put together from *)
(* answers of three providers about this question and another.  A          *)
(* behaviour is about one of them, its part, and the others rest.          *)
(***************************************************************************)
EXTENDS MCScheduler

CONSTANTS s0, s1, pri, oth, pA, pB, pC

VARIABLES part, bnow, pages, answers, left, bforecast, replaced

bound == <<bnow, pages, answers, left, bforecast, replaced>>

\* One is asked first, two are asked again; reviews never the first.
Asking ==
  [t \in {"MARKET_COMPILER", "AMBIGUITY_JUDGE", "DUPLICATE_DETECTOR", "SOURCE_VERIFIER",
          "RESOLUTION_JUDGE", "DISPUTE_ANALYST"} |-> {pA}]
  @@ "COUNTER_JUDGE" :> {pA, pB}
  @@ [t \in {"INDEPENDENT_REJUDGE", "ADJUDICATION"} |-> {pB, pC}]
Bound == INSTANCE Commitments WITH
  Specs <- {s0, s1}, Question <- s0, Sources <- {pri, oth}, Primary <- {pri}, Fallback <- {},
  Providers <- {pA, pB, pC}, Asked <- Asking, First <- pA, Second <- pB, Open <- 0, Close <- 1,
  Yes <- yes, No <- no, MaxTime <- 2, MaxAnswers <- 3, MaxDisputes <- 2, Nil <- None,
  now <- bnow, forecast <- bforecast

ASSUME InstanceAssumption == Bound!CommitmentsAssumption

BoundRests ==
  /\ bnow = None /\ pages = None /\ answers = None /\ left = None /\ bforecast = None
  /\ replaced = None

MCInit ==
  /\ part \in {"scheduler", "bound"}
  /\ SchedulerInit
  /\ IF part = "bound" THEN Bound!Init ELSE BoundRests

MCNext ==
  \/ part = "scheduler" /\ Next /\ UNCHANGED <<part, bound>>
  \/ part = "bound" /\ Bound!Next /\ UNCHANGED <<part, vars>>

MCSpec == MCInit /\ [][MCNext]_<<part, vars, bound>>

\* An accepted record rests on answers about one another (Commitments).
DecidedAsBound == part = "bound" => Bound!DecidedAsBound
=============================================================================
