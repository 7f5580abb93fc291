------------------------------ MODULE MCRecords ------------------------------
(***************************************************************************)
(* A forecast's record and what is published of it, on small instances:    *)
(* every command of the engine, the ticks of an operated risk feed, once   *)
(* three of them and once two among two callbacks, two requests for its    *)
(* translations, the workflows that judge it, and two passes and an        *)
(* operator whose evidence is placed in time.  A behaviour is about one    *)
(* part, and the others rest where they begin.                             *)
(***************************************************************************)
EXTENDS Lifecycle, Judging, Timing, Translations, RiskFeed, TLC

CONSTANTS s1, s2, yes, no, invalid, d1, d2, d3, p1, p2, m1, m2, m3, op

VARIABLE part

\* Two specifications, open over [0, 2) and [1, 3).
MCOpenAt  == s1 :> 0 @@ s2 :> 1
MCCloseAt == s1 :> 2 @@ s2 :> 3

\* One, two and three providers, of which another order is deployed once.
MCProvider == m1 :> "gemini" @@ m2 :> "openai" @@ m3 :> "cloudflare"
MCOrders   == {<<m1>>, <<m1, m2>>, <<m2, m3, m1>>}

\* Pages of the instant of the last receipt, of later, and of no stated time.
MCPublication == s1 :> 1 @@ s2 :> 3 @@ m1 :> None @@ m2 :> 0
MCEvidences   == {<<s1>>, <<s2>>, <<m1, m2>>}

\* Two requests of one client, while the display changes twice.
MCEditionFacts == s1 :> 1 @@ s2 :> 2
MCFingerprint  == p1 :> no @@ p2 :> no
MCLimit        == [global |-> 1, ip |-> 2, minute |-> 2, ai |-> 2]

\* Two ticks of a feed that is not exactly dated, among two callbacks.
Busy == INSTANCE RiskFeed WITH
  Mappings <- {FALSE}, MaxInstant <- 3, MaxTicks <- 2, MaxEvents <- 2

ASSUME InstanceAssumption ==
  /\ RiskFeedAssumption /\ Busy!RiskFeedAssumption
  /\ JudgingAssumption /\ TimingAssumption /\ TranslationsAssumption

MCInit ==
  /\ part \in {"lifecycle", "slow", "busy", "texts", "judges", "placing"}
  /\ Init /\ (part # "lifecycle" => updatedAt = 0 /\ spec = s1)
  /\ IF part = "busy" THEN Busy!FeedInit ELSE FeedInit
  /\ FlowInit /\ (part # "judges" => deployed = <<m1>>)
  /\ TextInit /\ TimingInit

MCNext ==
  /\ UNCHANGED part
  /\ \/ part = "lifecycle" /\ Next /\ UNCHANGED <<feedvars, flowvars, textvars, timingvars>>
     \/ part = "slow" /\ FeedNext /\ UNCHANGED <<vars, flowvars, textvars, timingvars>>
     \/ part = "busy" /\ Busy!FeedNext /\ UNCHANGED <<vars, flowvars, textvars, timingvars>>
     \/ part = "texts" /\ TextNext /\ UNCHANGED <<vars, feedvars, flowvars, timingvars>>
     \/ part = "judges" /\ FlowNext /\ UNCHANGED <<vars, feedvars, textvars, timingvars>>
     \/ part = "placing" /\ TimingNext /\ UNCHANGED <<vars, feedvars, flowvars, textvars>>

MCSpec == MCInit /\ [][MCNext]_<<part, vars, feedvars, flowvars, textvars, timingvars>>

\* Providers, ticks, passes and requests are interchangeable.
Symmetry == Permutations({p1, p2})
=============================================================================
