---------------------------- MODULE SchedulerProofs ----------------------------
(***************************************************************************)
(* Proofs about Scheduler: however many passes overlap, whatever dies in   *)
(* between, and whoever else writes, the record takes only steps of the    *)
(* engine, a filed dispute stays filed, effects are delivered once, leases *)
(* are not stolen and what is paused can be recovered.                     *)
(*                                                                         *)
(* The invariant rests on one fact, AsLoaded: what a writer loaded is the  *)
(* record as it stands, or of an earlier revision, which the guard row     *)
(* refuses.  Every commit is then a command of the engine on the record    *)
(* itself, and Ruled, the rules such commands keep, is an operator on a    *)
(* snapshot, without steps.                                                *)
(***************************************************************************)
EXTENDS Scheduler, TLAPS

-----------------------------------------------------------------------------
(***************************************************************************)
(* The invariant                                                           *)
(***************************************************************************)
Optional(S) == S \cup {None}

Snapshots ==
  [revision : Nat, state : States, at : Nat, resolution : Optional(Resolutions),
   start : Optional(Nat), until : Optional(Nat), disputes : SUBSET Keys,
   reviews : [Keys -> Optional(Dispositions)],
   pausedFrom : Optional(Pausable), pausedAt : Optional(Nat), exposed : Int]

\* The commands of the engine, and those a pass may hold ready to commit.
Plain == {"Lock", "BeginResolution", "BeginChallenge", "RetainProposal",
          "Escalate", "Finalize", "Resume"}
Held ==
  [kind : Plain]
    \cup [kind : {"ProposeResolution"}, outcome : Outcomes]
    \cup [kind : {"ReviewDispute"}, key : Keys, disposition : Dispositions]
Commands ==
  Held \cup [kind : {"Pause"}]
       \cup [kind : {"SubmitDispute"}, key : Keys]
       \cup [kind : {"AdjudicateResolution"}, outcome : Outcomes]

Work ==
  [phase : Phases, now : Nat, left : Nat, snap : Optional(Snapshots),
   cmd : Optional(Held), then : Optional(Held), asked : Optional(Nat),
   waited : Int, todo : SUBSET Effects]

Filings == [snap : Snapshots, now : Nat]
Jobs    == [token : Optional(Passes), until : Nat, retry : Nat, failures : Nat]
Leases  == [Tasks -> Optional([token : Passes, until : Nat])]

Types ==
  /\ clock \in 0..MaxTime
  /\ snapshot \in Snapshots
  /\ job \in Jobs
  /\ outbox \in [Effects -> Optional(Statuses)]
  /\ operations \in [Keys -> Optional(Resolutions)]
  /\ filing \in [Keys -> Optional(Filings)]
  /\ pass \in [Passes -> Work]
  /\ leases \in Leases
  /\ delivered \in [Effects -> Nat]

\* The state a paused record returns to.
Eff(s) == IF s.state = "PAUSED" THEN s.pausedFrom ELSE s.state
Early      == {"OPEN", "LOCKED", "RESOLVING"}
Challenged == Contested \cup {"FINALIZED"}

\* What the engine's rules say of a record.
Ruled(s) ==
  /\ s.state = "PAUSED" <=> s.pausedFrom # None
  /\ s.state = "PAUSED" <=> s.pausedAt # None
  /\ s.pausedAt # None => s.pausedAt <= s.at
  /\ Eff(s) # "OPEN" => CloseAt <= s.at
  /\ Eff(s) \notin Early => s.resolution # None /\ s.resolution.hash < s.revision
  /\ Eff(s) \in Early => s.resolution = None
  /\ Eff(s) \in Challenged <=> s.until # None
  /\ s.until # None =>
       s.until <= Challenge + (IF s.state = "PAUSED" THEN s.pausedAt ELSE s.at)
  /\ Eff(s) \notin Challenged => s.disputes = {}
  /\ \A k \in Keys : s.reviews[k] # None => k \in s.disputes
  /\ Eff(s) \notin {"DISPUTED", "ESCALATED"} => Pending(s) = {} /\ Material(s) = {}
  /\ Eff(s) = "ESCALATED" => Pending(s) = {}

\* The record as it stands, r, or one the guard row refuses.
AsLoaded(s, r) ==
  /\ s.revision <= r.revision
  /\ s.revision = r.revision => s = r

\* What each phase of a pass has in hand.
Ready(w, r) ==
  /\ w.left <= MaxTransitions
  /\ w.phase \in {"ask", "asking", "commit", "pausing"} =>
       w.snap \in Snapshots /\ AsLoaded(w.snap, r)
  /\ w.phase \in {"ask", "asking"} => w.left > 0 /\ Task(w.snap) # None
  /\ w.phase = "asking" => w.asked \in Nat
  /\ w.phase = "commit" =>
       /\ w.left > 0 /\ w.cmd \in Held
       /\ w.cmd.kind = "Resume" => w.then \in Held /\ w.then.kind # "Resume"

InHand ==
  /\ \A p \in Passes : pass[p].now <= clock /\ Ready(pass[p], snapshot)
  /\ \A k \in Keys : filing[k] # None =>
       AsLoaded(filing[k].snap, snapshot) /\ filing[k].now <= clock

\* A resolution disputed by a receipt was proposed before the record's revision.
Receipts ==
  \A k \in Keys :
    operations[k] # None => operations[k].hash < snapshot.revision

\* Effects are owed once the record is final, and delivered out of the outbox.
Owing ==
  /\ \A e \in Effects : outbox[e] # None => snapshot.state = "FINALIZED"
  /\ \A e \in Effects : outbox[e] \in {None, "pending"} => delivered[e] = 0
  /\ \A e \in Effects : delivered[e] <= 1

\* Work of the models is left to do.
Askable(s) ==
  \/ Eff(s) = "RESOLVING"
  \/ Eff(s) = "DISPUTED" /\ Pending(s) # {}

\* While a pass that asked holds the job, nobody else does that work.
Waiting == {"ask", "asking", "outage", "pausing"}
Asking ==
  /\ \A p \in Passes : Holds(p) /\ pass[p].phase \in Waiting => Askable(snapshot)
  /\ snapshot.state = "PAUSED" => Askable(snapshot)

IInv ==
  /\ Types /\ Ruled(snapshot) /\ snapshot.at <= clock
  /\ InHand /\ Receipts /\ Owing /\ Asking /\ FiledDisputesStand

-----------------------------------------------------------------------------
(***************************************************************************)
(* What a command makes of a record                                        *)
(***************************************************************************)
\* The part of the successor every command writes in the same way.
Base(s, now) ==
  [s EXCEPT !.revision = @ + 1, !.at = now,
            !.exposed = IF s.state \in Contested THEN @ + (now - s.at)
                        ELSE IF s.state = "PAUSED" THEN @ ELSE 0]

Proposal(s, c, now) == [outcome |-> c.outcome, at |-> now, hash |-> s.revision]

\* Every command leaves a snapshot, one revision on, at its own time.
LEMMA BaseTyped ==
  ASSUME NEW s \in Snapshots, NEW now \in Nat
  PROVE  /\ Base(s, now) \in Snapshots
         /\ Base(s, now).revision = s.revision + 1 /\ Base(s, now).at = now
         /\ Base(s, now).state = s.state /\ Base(s, now).resolution = s.resolution
         /\ Base(s, now).start = s.start /\ Base(s, now).until = s.until
         /\ Base(s, now).disputes = s.disputes /\ Base(s, now).reviews = s.reviews
         /\ Base(s, now).pausedFrom = s.pausedFrom
         /\ Base(s, now).pausedAt = s.pausedAt
         /\ Base(s, now).exposed = IF s.state \in Contested THEN s.exposed + (now - s.at)
                                   ELSE IF s.state = "PAUSED" THEN s.exposed ELSE 0
<1> DEFINE r == s.revision + 1
           e == IF s.state \in Contested THEN s.exposed + (now - s.at)
                ELSE IF s.state = "PAUSED" THEN s.exposed ELSE 0
<1>1. r \in Nat /\ e \in Int
  BY DEF Snapshots
<1>2. Base(s, now) = [s EXCEPT !.revision = r, !.at = now, !.exposed = e]
  BY DEF Base
<1> HIDE DEF r, e
<1>3. Base(s, now) \in Snapshots
  BY <1>1, <1>2 DEF Snapshots
<1>4. /\ Base(s, now).revision = r /\ Base(s, now).at = now /\ Base(s, now).exposed = e
      /\ Base(s, now).state = s.state /\ Base(s, now).resolution = s.resolution
      /\ Base(s, now).start = s.start /\ Base(s, now).until = s.until
      /\ Base(s, now).disputes = s.disputes /\ Base(s, now).reviews = s.reviews
      /\ Base(s, now).pausedFrom = s.pausedFrom
      /\ Base(s, now).pausedAt = s.pausedAt
  BY <1>2 DEF Snapshots
<1> QED  BY <1>3, <1>4 DEF r, e

\* How the snapshot differs, command by command.
Written(s, c, now) ==
  /\ c.kind = "Lock" => Applied(s, c, now) = [Base(s, now) EXCEPT !.state = "LOCKED"]
  /\ c.kind = "BeginResolution" =>
       Applied(s, c, now) = [Base(s, now) EXCEPT !.state = "RESOLVING"]
  /\ c.kind = "ProposeResolution" =>
       Applied(s, c, now) = [Base(s, now) EXCEPT !.state = "PROPOSED",
                                                 !.resolution = Proposal(s, c, now)]
  /\ c.kind = "BeginChallenge" =>
       Applied(s, c, now) = [Base(s, now) EXCEPT !.state = "CHALLENGE", !.start = now,
                                                 !.until = now + Challenge]
  /\ c.kind = "SubmitDispute" =>
       Applied(s, c, now) = [Base(s, now) EXCEPT !.state = "DISPUTED",
                                                 !.disputes = @ \cup {c.key}]
  /\ c.kind = "ReviewDispute" =>
       Applied(s, c, now) = [Base(s, now) EXCEPT !.reviews[c.key] = c.disposition]
  /\ c.kind = "RetainProposal" =>
       Applied(s, c, now) = [Base(s, now) EXCEPT !.state = "CHALLENGE"]
  /\ c.kind = "Escalate" =>
       Applied(s, c, now) = [Base(s, now) EXCEPT !.state = "ESCALATED"]
  /\ c.kind = "AdjudicateResolution" =>
       Applied(s, c, now) = [Base(s, now) EXCEPT !.state = "PROPOSED",
                               !.resolution = Proposal(s, c, now),
                               !.start = None, !.until = None,
                               !.disputes = {}, !.reviews = Unreviewed]
  /\ c.kind = "Finalize" =>
       Applied(s, c, now) = [Base(s, now) EXCEPT !.state = "FINALIZED"]
  /\ c.kind = "Pause" =>
       Applied(s, c, now) = [Base(s, now) EXCEPT !.state = "PAUSED",
                               !.pausedFrom = s.state, !.pausedAt = now]
  /\ c.kind = "Resume" =>
       Applied(s, c, now) = [Base(s, now) EXCEPT !.state = s.pausedFrom,
                               !.pausedFrom = None, !.pausedAt = None,
                               !.until = IF @ = None THEN @
                                         ELSE @ + now - s.pausedAt]

LEMMA AppliedAs ==
  ASSUME NEW s, NEW c, NEW now
  PROVE  Written(s, c, now)
<1>1. CASE c.kind = "Lock"  BY <1>1 DEF Applied, Base, Proposal, Written
<1>2. CASE c.kind = "BeginResolution"  BY <1>2 DEF Applied, Base, Proposal, Written
<1>3. CASE c.kind = "ProposeResolution"  BY <1>3 DEF Applied, Base, Proposal, Written
<1>4. CASE c.kind = "BeginChallenge"  BY <1>4 DEF Applied, Base, Proposal, Written
<1>5. CASE c.kind = "SubmitDispute"  BY <1>5 DEF Applied, Base, Proposal, Written
<1>6. CASE c.kind = "ReviewDispute"  BY <1>6 DEF Applied, Base, Proposal, Written
<1>7. CASE c.kind = "RetainProposal"  BY <1>7 DEF Applied, Base, Proposal, Written
<1>8. CASE c.kind = "Escalate"  BY <1>8 DEF Applied, Base, Proposal, Written
<1>9. CASE c.kind = "AdjudicateResolution"  BY <1>9 DEF Applied, Base, Proposal, Written
<1>10. CASE c.kind = "Finalize"  BY <1>10 DEF Applied, Base, Proposal, Written
<1>11. CASE c.kind = "Pause"  BY <1>11 DEF Applied, Base, Proposal, Written
<1>12. CASE c.kind = "Resume"  BY <1>12 DEF Applied, Base, Proposal, Written
<1> QED  BY <1>1, <1>2, <1>3, <1>4, <1>5, <1>6, <1>7, <1>8, <1>9, <1>10, <1>11, <1>12
     DEF Written

\* When the engine takes each command.
LEMMA LegalWhen ==
  ASSUME NEW s, NEW c, NEW now, Legal(s, c, now)
  PROVE  /\ s.at <= now
         /\ c.kind = "Lock" =>
              s.state = "OPEN" /\ now >= CloseAt
         /\ c.kind = "BeginResolution" =>
              s.state = "LOCKED"
         /\ c.kind = "ProposeResolution" =>
              s.state = "RESOLVING"
         /\ c.kind = "BeginChallenge" =>
              s.state = "PROPOSED"
         /\ c.kind = "SubmitDispute" =>
              s.state \in {"CHALLENGE", "DISPUTED"} /\ now < s.until
              /\ c.key \notin s.disputes /\ Cardinality(s.disputes) < MaxDisputes
         /\ c.kind = "ReviewDispute" =>
              s.state = "DISPUTED" /\ c.key \in Pending(s)
         /\ c.kind = "RetainProposal" =>
              s.state = "DISPUTED" /\ Pending(s) = {} /\ Material(s) = {}
         /\ c.kind = "Escalate" =>
              s.state = "DISPUTED" /\ Pending(s) = {} /\ Material(s) # {}
         /\ c.kind = "AdjudicateResolution" =>
              s.state = "ESCALATED"
         /\ c.kind = "Finalize" =>
              s.state = "CHALLENGE" /\ now >= s.until
         /\ c.kind = "Pause" =>
              s.state \in Pausable
         /\ c.kind = "Resume" =>
              s.state = "PAUSED"
<1>1. CASE c.kind = "Lock"  BY <1>1 DEF Legal, InOrder
<1>2. CASE c.kind = "BeginResolution"  BY <1>2 DEF Legal, InOrder
<1>3. CASE c.kind = "ProposeResolution"  BY <1>3 DEF Legal, InOrder
<1>4. CASE c.kind = "BeginChallenge"  BY <1>4 DEF Legal, InOrder
<1>5. CASE c.kind = "SubmitDispute"  BY <1>5 DEF Legal, InOrder
<1>6. CASE c.kind = "ReviewDispute"  BY <1>6 DEF Legal, InOrder
<1>7. CASE c.kind = "RetainProposal"  BY <1>7 DEF Legal, InOrder
<1>8. CASE c.kind = "Escalate"  BY <1>8 DEF Legal, InOrder
<1>9. CASE c.kind = "AdjudicateResolution"  BY <1>9 DEF Legal, InOrder
<1>10. CASE c.kind = "Finalize"  BY <1>10 DEF Legal, InOrder
<1>11. CASE c.kind = "Pause"  BY <1>11 DEF Legal, InOrder
<1>12. CASE c.kind = "Resume"  BY <1>12 DEF Legal, InOrder
<1> QED  BY <1>1, <1>2, <1>3, <1>4, <1>5, <1>6, <1>7, <1>8, <1>9, <1>10, <1>11, <1>12 DEF Legal, InOrder

-----------------------------------------------------------------------------
(***************************************************************************)
(* A command keeps the rules of the record                                 *)
(***************************************************************************)
\* What the rest of the system may count on when c takes s to t at now.
Follows(s, c, now, t) ==
  /\ t \in Snapshots /\ Ruled(t)
  /\ t.revision = s.revision + 1 /\ t.at = now /\ s.at <= now
  /\ \/ t.resolution = s.resolution /\ s.disputes \subseteq t.disputes
     \/ t.resolution # None /\ t.resolution.hash = s.revision
  /\ s.state # "FINALIZED"
  /\ t.state = "FINALIZED" <=> c.kind = "Finalize"
  /\ Askable(s) /\ c.kind \in {"SubmitDispute", "Pause"} => Askable(t)
  /\ t.state = "PAUSED" => c.kind = "Pause"
  /\ c.kind = "SubmitDispute" => c.key \in t.disputes /\ t.resolution = s.resolution
  /\ c.kind = "AdjudicateResolution" => ~ Askable(s)

\* The objections of a record are those of its disputes and reviews.
LEMMA SameObjections ==
  ASSUME NEW s, NEW t, t.disputes = s.disputes, t.reviews = s.reviews
  PROVE  Pending(t) = Pending(s) /\ Material(t) = Material(s)
BY DEF Pending, Material

\* A command that only moves the state.
LEMMA Moved ==
  ASSUME NEW b \in Snapshots, NEW v \in States
  PROVE  LET t == [b EXCEPT !.state = v]
         IN /\ t \in Snapshots /\ t.state = v
            /\ t.revision = b.revision /\ t.at = b.at /\ t.resolution = b.resolution
            /\ t.start = b.start /\ t.until = b.until /\ t.disputes = b.disputes
            /\ t.reviews = b.reviews /\ t.pausedFrom = b.pausedFrom
            /\ t.pausedAt = b.pausedAt /\ t.exposed = b.exposed
BY DEF Snapshots

LEMMA CommandFollows ==
  ASSUME NEW s \in Snapshots, NEW c \in Commands, NEW now \in Nat,
         Ruled(s), Legal(s, c, now)
  PROVE  Follows(s, c, now, Applied(s, c, now))
<1> DEFINE b == Base(s, now)
           t == Applied(s, c, now)
<1> SUFFICES Follows(s, c, now, t)
  OBVIOUS
<1>a. Written(s, c, now)
  BY AppliedAs
<1>b. /\ b \in Snapshots
      /\ b.revision = s.revision + 1 /\ b.at = now
      /\ b.state = s.state /\ b.resolution = s.resolution
      /\ b.start = s.start /\ b.until = s.until
      /\ b.disputes = s.disputes /\ b.reviews = s.reviews
      /\ b.pausedFrom = s.pausedFrom /\ b.pausedAt = s.pausedAt
  BY BaseTyped
<1>s. /\ s.revision \in Nat /\ s.at \in Nat /\ s.until \in Optional(Nat)
      /\ s.pausedAt \in Optional(Nat) /\ s.resolution \in Optional(Resolutions)
      /\ s.state \in States /\ s.pausedFrom \in Optional(Pausable)
      /\ s.disputes \subseteq Keys /\ s.reviews \in [Keys -> Optional(Dispositions)]
      /\ s.at <= now
  BY LegalWhen DEF Snapshots
<1>n. /\ None \notin Nat /\ None \notin States /\ None \notin Resolutions
      /\ CloseAt \in Nat /\ Challenge \in Nat
  BY StoreAssumption
<1>c. /\ c.kind \in {"ProposeResolution", "AdjudicateResolution"} => c.outcome \in Outcomes
      /\ c.kind \in {"SubmitDispute", "ReviewDispute"} => c.key \in Keys
      /\ c.kind = "ReviewDispute" => c.disposition \in Dispositions
  BY DEF Commands, Held, Plain
<1> HIDE DEF b
<1>1. CASE c.kind = "Lock"
  <2>1. t = [b EXCEPT !.state = "LOCKED"]
    BY <1>a, <1>1 DEF b, Written
  <2> HIDE DEF t
  <2>2. s.state = "OPEN" /\ now >= CloseAt
    BY <1>1, LegalWhen
  <2>3. /\ t \in Snapshots /\ t.state = "LOCKED"
        /\ t.revision = s.revision + 1 /\ t.at = now /\ t.resolution = s.resolution
        /\ t.until = s.until /\ t.disputes = s.disputes
        /\ t.reviews = s.reviews /\ t.pausedFrom = s.pausedFrom
        /\ t.pausedAt = s.pausedAt
    <3>1. "LOCKED" \in States
      BY DEF States
    <3> QED BY <1>b, <2>1, <3>1, Moved, Zenon
  <2>4. Pending(t) = Pending(s) /\ Material(t) = Material(s)
    BY <2>3, SameObjections
  <2>5. /\ Eff(s) = s.state /\ Eff(t) = t.state /\ s.state # "PAUSED"
        /\ t.pausedFrom = None /\ t.pausedAt = None
    BY <2>2, <2>3 DEF Ruled, Eff
  <2>6. Ruled(t)
    BY <1>s, <1>n, <2>2, <2>3, <2>4, <2>5
       DEF Ruled, Early, Challenged, Contested, Optional, Resolutions
  <2> QED  BY <1>1, <1>s, <2>2, <2>3, <2>6 DEF Follows
<1>2. CASE c.kind = "BeginResolution"
  <2>1. t = [b EXCEPT !.state = "RESOLVING"]
    BY <1>a, <1>2 DEF b, Written
  <2> HIDE DEF t
  <2>2. s.state = "LOCKED"
    BY <1>2, LegalWhen
  <2>3. /\ t \in Snapshots /\ t.state = "RESOLVING"
        /\ t.revision = s.revision + 1 /\ t.at = now /\ t.resolution = s.resolution
        /\ t.until = s.until /\ t.disputes = s.disputes
        /\ t.reviews = s.reviews /\ t.pausedFrom = s.pausedFrom
        /\ t.pausedAt = s.pausedAt
    <3>1. "RESOLVING" \in States
      BY DEF States
    <3> QED BY <1>b, <2>1, <3>1, Moved, Zenon
  <2>4. Pending(t) = Pending(s) /\ Material(t) = Material(s)
    BY <2>3, SameObjections
  <2>5. /\ Eff(s) = s.state /\ Eff(t) = t.state /\ s.state # "PAUSED"
        /\ t.pausedFrom = None /\ t.pausedAt = None
    BY <2>2, <2>3 DEF Ruled, Eff
  <2>6. Ruled(t)
    BY <1>s, <1>n, <2>2, <2>3, <2>4, <2>5
       DEF Ruled, Early, Challenged, Contested, Optional, Resolutions
  <2> QED  BY <1>2, <1>s, <2>2, <2>3, <2>6 DEF Follows
<1>3. CASE c.kind = "RetainProposal"
  <2>1. t = [b EXCEPT !.state = "CHALLENGE"]
    BY <1>a, <1>3 DEF b, Written
  <2> HIDE DEF t
  <2>2. s.state = "DISPUTED" /\ Pending(s) = {} /\ Material(s) = {}
    BY <1>3, LegalWhen
  <2>3. /\ t \in Snapshots /\ t.state = "CHALLENGE"
        /\ t.revision = s.revision + 1 /\ t.at = now /\ t.resolution = s.resolution
        /\ t.until = s.until /\ t.disputes = s.disputes
        /\ t.reviews = s.reviews /\ t.pausedFrom = s.pausedFrom
        /\ t.pausedAt = s.pausedAt
    <3>1. "CHALLENGE" \in States
      BY DEF States
    <3> QED BY <1>b, <2>1, <3>1, Moved, Zenon
  <2>4. Pending(t) = Pending(s) /\ Material(t) = Material(s)
    BY <2>3, SameObjections
  <2>5. /\ Eff(s) = s.state /\ Eff(t) = t.state /\ s.state # "PAUSED"
        /\ t.pausedFrom = None /\ t.pausedAt = None
    BY <2>2, <2>3 DEF Ruled, Eff
  <2>6. Ruled(t)
    BY <1>s, <1>n, <2>2, <2>3, <2>4, <2>5
       DEF Ruled, Early, Challenged, Contested, Optional, Resolutions
  <2> QED  BY <1>3, <1>s, <2>2, <2>3, <2>6 DEF Follows
<1>4. CASE c.kind = "Escalate"
  <2>1. t = [b EXCEPT !.state = "ESCALATED"]
    BY <1>a, <1>4 DEF b, Written
  <2> HIDE DEF t
  <2>2. s.state = "DISPUTED" /\ Pending(s) = {} /\ Material(s) # {}
    BY <1>4, LegalWhen
  <2>3. /\ t \in Snapshots /\ t.state = "ESCALATED"
        /\ t.revision = s.revision + 1 /\ t.at = now /\ t.resolution = s.resolution
        /\ t.until = s.until /\ t.disputes = s.disputes
        /\ t.reviews = s.reviews /\ t.pausedFrom = s.pausedFrom
        /\ t.pausedAt = s.pausedAt
    <3>1. "ESCALATED" \in States
      BY DEF States
    <3> QED BY <1>b, <2>1, <3>1, Moved, Zenon
  <2>4. Pending(t) = Pending(s) /\ Material(t) = Material(s)
    BY <2>3, SameObjections
  <2>5. /\ Eff(s) = s.state /\ Eff(t) = t.state /\ s.state # "PAUSED"
        /\ t.pausedFrom = None /\ t.pausedAt = None
    BY <2>2, <2>3 DEF Ruled, Eff
  <2>6. Ruled(t)
    BY <1>s, <1>n, <2>2, <2>3, <2>4, <2>5
       DEF Ruled, Early, Challenged, Contested, Optional, Resolutions
  <2> QED  BY <1>4, <1>s, <2>2, <2>3, <2>6 DEF Follows
<1>5. CASE c.kind = "Finalize"
  <2>1. t = [b EXCEPT !.state = "FINALIZED"]
    BY <1>a, <1>5 DEF b, Written
  <2> HIDE DEF t
  <2>2. s.state = "CHALLENGE" /\ now >= s.until
    BY <1>5, LegalWhen
  <2>3. /\ t \in Snapshots /\ t.state = "FINALIZED"
        /\ t.revision = s.revision + 1 /\ t.at = now /\ t.resolution = s.resolution
        /\ t.until = s.until /\ t.disputes = s.disputes
        /\ t.reviews = s.reviews /\ t.pausedFrom = s.pausedFrom
        /\ t.pausedAt = s.pausedAt
    <3>1. "FINALIZED" \in States
      BY DEF States
    <3> QED BY <1>b, <2>1, <3>1, Moved, Zenon
  <2>4. Pending(t) = Pending(s) /\ Material(t) = Material(s)
    BY <2>3, SameObjections
  <2>5. /\ Eff(s) = s.state /\ Eff(t) = t.state /\ s.state # "PAUSED"
        /\ t.pausedFrom = None /\ t.pausedAt = None
    BY <2>2, <2>3 DEF Ruled, Eff
  <2>6. Ruled(t)
    BY <1>s, <1>n, <2>2, <2>3, <2>4, <2>5
       DEF Ruled, Early, Challenged, Contested, Optional, Resolutions
  <2> QED  BY <1>5, <1>s, <2>2, <2>3, <2>6 DEF Follows
<1>6. CASE c.kind = "ProposeResolution"
  <2> DEFINE r == Proposal(s, c, now)
  <2>r. r \in Resolutions /\ r.hash = s.revision
    BY <1>6, <1>c, <1>s DEF Proposal, Resolutions
  <2>1. t = [b EXCEPT !.state = "PROPOSED", !.resolution = r]
    BY <1>a, <1>6 DEF b, Written
  <2> HIDE DEF t, r
  <2>2. s.state = "RESOLVING"
    BY <1>6, LegalWhen
  <2>3. /\ t \in Snapshots /\ t.state = "PROPOSED"
        /\ t.revision = s.revision + 1 /\ t.at = now /\ t.resolution = r
        /\ t.until = s.until /\ t.disputes = s.disputes
        /\ t.reviews = s.reviews /\ t.pausedFrom = s.pausedFrom
        /\ t.pausedAt = s.pausedAt
    BY <1>b, <2>1, <2>r DEF Snapshots, States, Optional
  <2>4. Pending(t) = Pending(s) /\ Material(t) = Material(s)
    BY <2>3, SameObjections
  <2>5. /\ Eff(s) = s.state /\ Eff(t) = t.state /\ s.state # "PAUSED"
        /\ t.pausedFrom = None /\ t.pausedAt = None
    BY <2>2, <2>3 DEF Ruled, Eff
  <2>6. Ruled(t)
    BY <1>s, <1>n, <2>2, <2>3, <2>4, <2>5, <2>r
       DEF Ruled, Early, Challenged, Contested, Optional, Resolutions
  <2> QED  BY <1>6, <1>n, <1>s, <2>2, <2>3, <2>6, <2>r DEF Follows
<1>7. CASE c.kind = "BeginChallenge"
  <2> DEFINE u == now + Challenge
  <2>r. u \in Nat /\ u = Challenge + now
    BY <1>n
  <2>1. t = [b EXCEPT !.state = "CHALLENGE", !.start = now, !.until = u]
    BY <1>a, <1>7 DEF b, Written
  <2> HIDE DEF t, u
  <2>2. s.state = "PROPOSED"
    BY <1>7, LegalWhen
  <2>3. /\ t \in Snapshots /\ t.state = "CHALLENGE"
        /\ t.revision = s.revision + 1 /\ t.at = now /\ t.resolution = s.resolution
        /\ t.until = u /\ t.disputes = s.disputes
        /\ t.reviews = s.reviews /\ t.pausedFrom = s.pausedFrom
        /\ t.pausedAt = s.pausedAt
    BY <1>b, <2>1, <2>r DEF Snapshots, States, Optional
  <2>4. Pending(t) = Pending(s) /\ Material(t) = Material(s)
    BY <2>3, SameObjections
  <2>5. /\ Eff(s) = s.state /\ Eff(t) = t.state /\ s.state # "PAUSED"
        /\ t.pausedFrom = None /\ t.pausedAt = None
    BY <2>2, <2>3 DEF Ruled, Eff
  <2>6. Ruled(t)
    BY <1>s, <1>n, <2>2, <2>3, <2>4, <2>5, <2>r
       DEF Ruled, Early, Challenged, Contested, Optional, Resolutions
  <2> QED  BY <1>7, <1>s, <2>2, <2>3, <2>6 DEF Follows
<1>8. CASE c.kind = "SubmitDispute"
  <2> DEFINE d == s.disputes \cup {c.key}
  <2>r. d \subseteq Keys /\ s.disputes \subseteq d /\ c.key \in d
    BY <1>8, <1>c, <1>s
  <2>1. t = [b EXCEPT !.state = "DISPUTED", !.disputes = d]
    BY <1>a, <1>b, <1>8 DEF b, Written
  <2> HIDE DEF t, d
  <2>2. s.state \in {"CHALLENGE", "DISPUTED"}
    BY <1>8, LegalWhen
  <2>3. /\ t \in Snapshots /\ t.state = "DISPUTED"
        /\ t.revision = s.revision + 1 /\ t.at = now /\ t.resolution = s.resolution
        /\ t.until = s.until /\ t.disputes = d
        /\ t.reviews = s.reviews /\ t.pausedFrom = s.pausedFrom
        /\ t.pausedAt = s.pausedAt
    BY <1>b, <2>1, <2>r DEF Snapshots, States
  <2>4. Pending(s) \subseteq Pending(t)
    BY <2>3, <2>r DEF Pending
  <2>5. /\ Eff(s) = s.state /\ Eff(t) = t.state /\ s.state # "PAUSED"
        /\ t.pausedFrom = None /\ t.pausedAt = None
    BY <2>2, <2>3 DEF Ruled, Eff
  <2>6. Ruled(t)
    BY <1>s, <1>n, <2>2, <2>3, <2>5, <2>r
       DEF Ruled, Early, Challenged, Contested, Optional, Resolutions
  <2>7. Askable(s) => Askable(t)
    BY <2>2, <2>3, <2>4, <2>5 DEF Askable
  <2> QED  BY <1>8, <1>s, <2>2, <2>3, <2>6, <2>7, <2>r DEF Follows
<1>9. CASE c.kind = "ReviewDispute"
  <2> DEFINE v == [s.reviews EXCEPT ![c.key] = c.disposition]
  <2>2. s.state = "DISPUTED" /\ c.key \in s.disputes
    BY <1>9, LegalWhen DEF Pending
  <2>r. /\ v \in [Keys -> Optional(Dispositions)]
        /\ \A k \in Keys : v[k] # None => s.reviews[k] # None \/ k = c.key
    BY <1>9, <1>c, <1>s DEF Optional
  <2>1. t = [b EXCEPT !.reviews = v]
    BY <1>a, <1>b, <1>9 DEF b, Written
  <2> HIDE DEF t, v
  <2>3. /\ t \in Snapshots /\ t.state = s.state
        /\ t.revision = s.revision + 1 /\ t.at = now /\ t.resolution = s.resolution
        /\ t.until = s.until /\ t.disputes = s.disputes
        /\ t.reviews = v /\ t.pausedFrom = s.pausedFrom
        /\ t.pausedAt = s.pausedAt
    BY <1>b, <2>1, <2>r DEF Snapshots
  <2>5. /\ Eff(s) = s.state /\ Eff(t) = t.state /\ s.state # "PAUSED"
        /\ t.pausedFrom = None /\ t.pausedAt = None
    BY <2>2, <2>3 DEF Ruled, Eff
  <2>6. Ruled(t)
    BY <1>s, <1>n, <2>2, <2>3, <2>5, <2>r
       DEF Ruled, Early, Challenged, Contested, Optional, Resolutions
  <2> QED  BY <1>9, <1>s, <2>2, <2>3, <2>6 DEF Follows
<1>10. CASE c.kind = "AdjudicateResolution"
  <2> DEFINE r == Proposal(s, c, now)
             v == Unreviewed
  <2>r. r \in Resolutions /\ r.hash = s.revision
    BY <1>10, <1>c, <1>s DEF Proposal, Resolutions
  <2>v. v \in [Keys -> Optional(Dispositions)] /\ \A k \in Keys : v[k] = None
    BY DEF Unreviewed, Optional
  <2>1. t = [b EXCEPT !.state = "PROPOSED", !.resolution = r, !.start = None,
                      !.until = None, !.disputes = {}, !.reviews = v]
    BY <1>a, <1>10 DEF b, Written
  <2> HIDE DEF t, r, v
  <2>2. s.state = "ESCALATED"
    BY <1>10, LegalWhen
  <2>3. /\ t \in Snapshots /\ t.state = "PROPOSED"
        /\ t.revision = s.revision + 1 /\ t.at = now /\ t.resolution = r
        /\ t.until = None /\ t.disputes = {}
        /\ t.reviews = v /\ t.pausedFrom = s.pausedFrom
        /\ t.pausedAt = s.pausedAt
    BY <1>b, <2>1, <2>r, <2>v DEF Snapshots, States, Optional
  <2>4. Pending(t) = {} /\ Material(t) = {}
    BY <2>3 DEF Pending, Material
  <2>5. /\ Eff(s) = s.state /\ Eff(t) = t.state /\ s.state # "PAUSED"
        /\ t.pausedFrom = None /\ t.pausedAt = None
    BY <2>2, <2>3 DEF Ruled, Eff
  <2>6. Ruled(t)
    BY <1>s, <1>n, <2>2, <2>3, <2>4, <2>5, <2>r, <2>v
       DEF Ruled, Early, Challenged, Contested, Optional, Resolutions
  <2>7. ~ Askable(s)
    BY <2>2, <2>5 DEF Askable
  <2> QED  BY <1>10, <1>n, <1>s, <2>2, <2>3, <2>6, <2>7, <2>r DEF Follows
<1>11. CASE c.kind = "Pause"
  <2>1. t = [b EXCEPT !.state = "PAUSED", !.pausedFrom = s.state, !.pausedAt = now]
    BY <1>a, <1>11 DEF b, Written
  <2> HIDE DEF t
  <2>2. s.state \in Pausable
    BY <1>11, LegalWhen
  <2>3. /\ t \in Snapshots /\ t.state = "PAUSED"
        /\ t.revision = s.revision + 1 /\ t.at = now /\ t.resolution = s.resolution
        /\ t.until = s.until /\ t.disputes = s.disputes
        /\ t.reviews = s.reviews /\ t.pausedFrom = s.state
        /\ t.pausedAt = now
    BY <1>b, <2>1, <2>2 DEF Snapshots, States, Optional
  <2>4. Pending(t) = Pending(s) /\ Material(t) = Material(s)
    BY <2>3, SameObjections
  <2>5. /\ Eff(s) = s.state /\ Eff(t) = s.state /\ s.state # "PAUSED"
    BY <2>2, <2>3 DEF Pausable, Eff
  <2>6. Ruled(t)
    BY <1>s, <1>n, <2>2, <2>3, <2>4, <2>5
       DEF Ruled, Early, Challenged, Contested, Optional, Resolutions, Pausable
  <2>7. Askable(s) => Askable(t)
    BY <2>4, <2>5 DEF Askable
  <2> QED  BY <1>11, <1>s, <2>2, <2>3, <2>6, <2>7 DEF Follows, Pausable
<1>12. CASE c.kind = "Resume"
  <2> DEFINE u == IF s.until = None THEN None ELSE s.until + now - s.pausedAt
             v == s.pausedFrom
  <2>2. s.state = "PAUSED"
    BY <1>12, LegalWhen
  <2>5. /\ Eff(s) = v /\ v \in Pausable /\ v # None
        /\ s.pausedAt \in Nat /\ s.pausedAt <= s.at
    BY <1>s, <2>2 DEF Ruled, Eff, Optional
  <2>r. /\ u \in Optional(Nat) /\ (u = None <=> s.until = None)
        /\ u # None => u <= Challenge + now
    <3>1. CASE s.until = None
      BY <3>1 DEF Optional
    <3>2. CASE s.until # None
      <4>1. s.until \in Nat /\ s.until <= Challenge + s.pausedAt
        BY <1>s, <2>2, <3>2 DEF Ruled, Optional
      <4>2. u \in Nat /\ u <= Challenge + now
        BY <1>s, <1>n, <2>5, <3>2, <4>1
      <4> QED  BY <1>n, <3>2, <4>2 DEF Optional
    <3> QED  BY <3>1, <3>2
  <2>1. t = [b EXCEPT !.state = v, !.pausedFrom = None, !.pausedAt = None, !.until = u]
    BY <1>a, <1>b, <1>12 DEF b, Written
  <2> HIDE DEF t, u, v
  <2>3. /\ t \in Snapshots /\ t.state = v
        /\ t.revision = s.revision + 1 /\ t.at = now /\ t.resolution = s.resolution
        /\ t.until = u /\ t.disputes = s.disputes
        /\ t.reviews = s.reviews /\ t.pausedFrom = None
        /\ t.pausedAt = None
    <3>1. None \in Optional(Pausable) /\ None \in Optional(Nat) /\ v \in States
      BY <2>5 DEF Optional, States, Pausable
    <3> QED BY <1>b, <2>1, <2>r, <3>1 DEF Snapshots
  <2>4. Pending(t) = Pending(s) /\ Material(t) = Material(s)
    BY <2>3, SameObjections
  <2>6. Eff(t) = v /\ v # "PAUSED" /\ v # "FINALIZED"
    BY <2>3, <2>5 DEF Eff, Pausable
  <2>7. Ruled(t)
    BY <1>s, <1>n, <2>2, <2>3, <2>4, <2>5, <2>6, <2>r
       DEF Ruled, Early, Challenged, Contested, Optional, Resolutions
  <2> QED  BY <1>12, <1>s, <2>2, <2>3, <2>6, <2>7 DEF Follows
<1> QED
  BY <1>1, <1>2, <1>3, <1>4, <1>5, <1>6, <1>7, <1>8, <1>9, <1>10, <1>11, <1>12
     DEF Commands, Held, Plain

-----------------------------------------------------------------------------
(***************************************************************************)
(* Every step keeps the invariant                                          *)
(***************************************************************************)
\* What a commit of c leaves behind: the next record, and what it owes.
LEMMA RecordMoves ==
  ASSUME IInv, NEW c \in Commands, NEW now \in Nat, now <= clock,
         Legal(snapshot, c, now), Batch(snapshot, c, now),
         UNCHANGED <<clock, delivered>>
  PROVE  /\ Follows(snapshot, c, now, snapshot')
         /\ snapshot' \in Snapshots /\ Ruled(snapshot') /\ snapshot'.at <= clock
         /\ \A x \in Snapshots : AsLoaded(x, snapshot) => AsLoaded(x, snapshot')
         /\ \A w \in Work : Ready(w, snapshot) => Ready(w, snapshot')
         /\ outbox' \in [Effects -> Optional(Statuses)]
         /\ Owing'
<1>1. snapshot \in Snapshots /\ Ruled(snapshot) /\ clock \in 0..MaxTime
  BY DEF IInv, Types
<1>2. Follows(snapshot, c, now, snapshot')
  BY <1>1, CommandFollows DEF Batch
<1>3. /\ snapshot' \in Snapshots /\ Ruled(snapshot') /\ snapshot'.at <= clock
      /\ snapshot'.revision = snapshot.revision + 1
  BY <1>2 DEF Follows
<1>4. ASSUME NEW x \in Snapshots, AsLoaded(x, snapshot)
      PROVE  AsLoaded(x, snapshot')
  <2>1. x.revision \in Nat /\ snapshot.revision \in Nat /\ x.revision <= snapshot.revision
    BY <1>1, <1>4 DEF AsLoaded, Snapshots
  <2> QED  BY <1>3, <2>1 DEF AsLoaded
<1>5. ASSUME NEW w \in Work, Ready(w, snapshot)
      PROVE  Ready(w, snapshot')
  BY <1>4, <1>5 DEF Ready
<1>6. outbox' \in [Effects -> Optional(Statuses)]
  BY DEF IInv, Types, Batch, Optional, Statuses
<1>7. Owing'
  <2>1. \A e \in Effects : outbox[e] = None /\ delivered'[e] = 0
    BY <1>2 DEF IInv, Owing, Follows
  <2>2. CASE c.kind = "Finalize"
    <3>1. snapshot'.state = "FINALIZED"
      BY <1>2, <2>2 DEF Follows
    <3> QED  BY <2>1, <3>1 DEF Owing
  <2>3. CASE c.kind # "Finalize"
    BY <2>1, <2>3 DEF Owing, Batch
  <2> QED  BY <2>2, <2>3
<1> QED  BY <1>2, <1>3, <1>4, <1>5, <1>6, <1>7

\* Receipts of disputes filed before outlive the commit.
LEMMA ReceiptsStand ==
  ASSUME IInv, NEW c \in Commands, NEW now \in Nat,
         Follows(snapshot, c, now, snapshot'), NEW k \in Keys, operations[k] # None
  PROVE  /\ operations[k].hash < snapshot'.revision
         /\ operations[k] = snapshot'.resolution => k \in snapshot'.disputes
<1>1. /\ snapshot.revision \in Nat /\ operations[k] \in Resolutions
      /\ operations[k].hash < snapshot.revision
      /\ operations[k] = snapshot.resolution => k \in snapshot.disputes
  BY DEF IInv, Types, Snapshots, Optional, Receipts, FiledDisputesStand
<1>2. operations[k].hash \in Nat
  BY <1>1 DEF Resolutions
<1> QED  BY <1>1, <1>2 DEF Follows

\* A step of one pass that leaves the record alone.
LEMMA PassStep ==
  ASSUME IInv, NEW p \in Passes, NEW w \in Work,
         pass' = [pass EXCEPT ![p] = w], w.now <= clock, Ready(w, snapshot),
         w.phase \in Waiting /\ job'.token = p => Askable(snapshot),
         job' \in Jobs, job'.token \in {job.token, p, None},
         leases' \in Leases,
         \/ UNCHANGED <<outbox, delivered>>
         \/ /\ outbox' \in [Effects -> Optional(Statuses)]
            /\ delivered' \in [Effects -> Nat] /\ Owing',
         UNCHANGED <<clock, snapshot, operations, filing>>
  PROVE  IInv'
<1>1. Types'
  BY DEF IInv, Types
<1>2. \A q \in Passes : /\ pass'[q] = IF q = p THEN w ELSE pass[q]
                        /\ pass[q] \in Work
  BY DEF IInv, Types
<1>3. Ruled(snapshot)' /\ (snapshot.at <= clock)' /\ Receipts' /\ Owing' /\ FiledDisputesStand'
  BY DEF IInv, Receipts, Owing, FiledDisputesStand
<1>4. InHand'
  BY <1>2 DEF IInv, InHand
<1>5. Asking'
  <2>1. ASSUME NEW q \in Passes, Holds(q)', pass'[q].phase \in Waiting
        PROVE  Askable(snapshot)
    <3>1. CASE q = p
      BY <1>2, <2>1, <3>1 DEF Holds
    <3>2. CASE q # p
      BY <1>2, <2>1, <3>2, StoreAssumption DEF IInv, Asking, Holds
    <3> QED  BY <3>1, <3>2
  <2> QED  BY <2>1 DEF IInv, Asking
<1> QED  BY <1>1, <1>3, <1>4, <1>5 DEF IInv

\* A pass that commits a command, on the record it loaded.
LEMMA CommitStep ==
  ASSUME IInv, NEW p \in Passes, NEW c \in Held \cup [kind : {"Pause"}],
         pass[p].snap \in Snapshots, AsLoaded(pass[p].snap, snapshot),
         Accepted(pass[p].snap, c, pass[p].now, p),
         Batch(pass[p].snap, c, pass[p].now),
         c.kind = "Pause" => pass[p].phase \in Waiting,
         NEW w \in Work, pass' = [pass EXCEPT ![p] = w], w.now <= clock,
         Ready(w, snapshot'), w.phase \notin Waiting,
         UNCHANGED <<clock, job, operations, filing, leases, delivered>>
  PROVE  IInv'
<1> DEFINE now == pass[p].now
<1>1. /\ pass[p].snap = snapshot /\ Holds(p)
      /\ Legal(snapshot, c, now) /\ Batch(snapshot, c, now)
  BY StoreAssumption DEF Accepted, Guard, AsLoaded, Holds
<1>2. c \in Commands /\ c.kind # "SubmitDispute" /\ c.kind # "AdjudicateResolution"
  BY DEF Held, Plain, Commands
<1>3. now \in Nat /\ now <= clock
  BY DEF IInv, Types, Work, InHand
<1> HIDE DEF now
<1>4. /\ Follows(snapshot, c, now, snapshot')
      /\ snapshot' \in Snapshots /\ Ruled(snapshot') /\ snapshot'.at <= clock
      /\ \A x \in Snapshots : AsLoaded(x, snapshot) => AsLoaded(x, snapshot')
      /\ \A x \in Work : Ready(x, snapshot) => Ready(x, snapshot')
      /\ outbox' \in [Effects -> Optional(Statuses)]
      /\ Owing'
  BY <1>1, <1>2, <1>3, RecordMoves
<1>5. Types'
  BY <1>4 DEF IInv, Types
<1>6. \A q \in Passes : /\ pass'[q] = IF q = p THEN w ELSE pass[q]
                        /\ pass[q] \in Work
  BY DEF IInv, Types
<1>7. InHand'
  <2>1. ASSUME NEW q \in Passes
        PROVE  pass'[q].now <= clock' /\ Ready(pass'[q], snapshot')
    BY <1>4, <1>6 DEF IInv, InHand
  <2>2. ASSUME NEW k \in Keys, filing'[k] # None
        PROVE  AsLoaded(filing'[k].snap, snapshot') /\ filing'[k].now <= clock'
    <3>1. filing[k].snap \in Snapshots /\ AsLoaded(filing[k].snap, snapshot)
          /\ filing[k].now <= clock
      BY <2>2 DEF IInv, Types, InHand, Optional, Filings
    <3> QED  BY <1>4, <3>1
  <2> QED  BY <2>1, <2>2 DEF InHand
<1>8. Receipts' /\ FiledDisputesStand'
  BY <1>2, <1>3, <1>4, ReceiptsStand DEF Receipts, FiledDisputesStand
<1>9. Asking'
  <2>1. ASSUME NEW q \in Passes, Holds(q)', pass'[q].phase \in Waiting
        PROVE  FALSE
    BY <1>1, <1>6, <2>1 DEF Holds
  <2>2. ASSUME snapshot'.state = "PAUSED"
        PROVE  Askable(snapshot')
    <3>1. c.kind = "Pause"
      BY <1>4, <2>2 DEF Follows
    <3>2. Askable(snapshot)
      BY <1>1, <3>1 DEF IInv, Asking
    <3> QED  BY <1>4, <3>1, <3>2 DEF Follows
  <2> QED  BY <2>1, <2>2 DEF Asking
<1> QED  BY <1>4, <1>5, <1>7, <1>8, <1>9 DEF IInv

\* A commit of a user or of the operator, on the record as it stands.
LEMMA WriterStep ==
  ASSUME IInv, NEW c \in Commands, NEW now \in Nat, now <= clock,
         Legal(snapshot, c, now), Batch(snapshot, c, now),
         c.kind \in {"SubmitDispute", "AdjudicateResolution"},
         UNCHANGED <<clock, job, pass, leases, delivered>>,
         filing' \in [Keys -> Optional(Filings)],
         \A k \in Keys : filing'[k] # None => filing'[k] = filing[k],
         operations' \in [Keys -> Optional(Resolutions)],
         \A k \in Keys : operations'[k] # None =>
           \/ operations'[k] = operations[k]
           \/ c.kind = "SubmitDispute" /\ k = c.key /\ operations'[k] = snapshot.resolution
  PROVE  IInv'
<1>1. /\ Follows(snapshot, c, now, snapshot')
      /\ snapshot' \in Snapshots /\ Ruled(snapshot') /\ snapshot'.at <= clock
      /\ \A x \in Snapshots : AsLoaded(x, snapshot) => AsLoaded(x, snapshot')
      /\ \A x \in Work : Ready(x, snapshot) => Ready(x, snapshot')
      /\ outbox' \in [Effects -> Optional(Statuses)]
      /\ Owing'
  BY RecordMoves
<1>2. Types'
  BY <1>1 DEF IInv, Types
<1>3. InHand'
  <2>1. ASSUME NEW q \in Passes
        PROVE  pass'[q].now <= clock' /\ Ready(pass'[q], snapshot')
    BY <1>1 DEF IInv, InHand, Types
  <2>2. ASSUME NEW k \in Keys, filing'[k] # None
        PROVE  AsLoaded(filing'[k].snap, snapshot') /\ filing'[k].now <= clock'
    <3>1. filing'[k] = filing[k] /\ filing[k].snap \in Snapshots
          /\ AsLoaded(filing[k].snap, snapshot) /\ filing[k].now <= clock
      BY <2>2 DEF IInv, Types, InHand, Optional, Filings
    <3> QED  BY <1>1, <3>1
  <2> QED  BY <2>1, <2>2 DEF InHand
<1>4. ASSUME NEW k \in Keys, operations'[k] # None
      PROVE  /\ operations'[k].hash < snapshot'.revision
             /\ operations'[k] = snapshot'.resolution => k \in snapshot'.disputes
  <2>1. CASE operations'[k] = operations[k]
    BY <1>1, <1>4, <2>1, ReceiptsStand
  <2>2. CASE c.kind = "SubmitDispute" /\ k = c.key /\ operations'[k] = snapshot.resolution
    <3>1. snapshot.resolution # None /\ snapshot.resolution.hash < snapshot.revision
      <4>1. snapshot.state \in {"CHALLENGE", "DISPUTED"}
        BY <2>2, LegalWhen
      <4> QED  BY <4>1 DEF IInv, Ruled, Eff, Early
    <3>2. /\ snapshot.revision \in Nat /\ snapshot.resolution \in Resolutions
          /\ snapshot.resolution.hash \in Nat
      BY <3>1 DEF IInv, Types, Snapshots, Optional, Resolutions
    <3> QED  BY <1>1, <2>2, <3>1, <3>2 DEF Follows
  <2> QED  BY <1>4, <2>1, <2>2
<1>5. Receipts' /\ FiledDisputesStand'
  BY <1>4 DEF Receipts, FiledDisputesStand
<1>6. Asking'
  <2>1. ASSUME NEW q \in Passes, Holds(q)', pass'[q].phase \in Waiting
        PROVE  Askable(snapshot')
    <3>1. Askable(snapshot)
      BY <2>1 DEF IInv, Asking, Holds
    <3> QED  BY <1>1, <3>1 DEF Follows
  <2>2. snapshot'.state # "PAUSED"
    BY <1>1 DEF Follows
  <2> QED  BY <2>1, <2>2 DEF Asking
<1> QED  BY <1>1, <1>2, <1>3, <1>5, <1>6 DEF IInv

LEMMA TickKeeps ==
  ASSUME IInv, Tick, UNCHANGED <<pass, leases, delivered>>
  PROVE  IInv'
<1>1. clock \in Nat /\ clock < MaxTime /\ clock' = clock + 1
  BY DEF IInv, Types, Tick
<1>2. UNCHANGED <<snapshot, job, outbox, operations, filing, pass, leases, delivered>>
  BY DEF Tick, store
<1>3. Types'
  BY <1>1, <1>2, StoreAssumption DEF IInv, Types
<1>4. (snapshot.at <= clock)' /\ Ruled(snapshot)'
  BY <1>1, <1>2 DEF IInv, Types, Snapshots
<1>5. InHand'
  <2>1. \A p \in Passes : pass[p].now \in Nat /\ pass[p].now <= clock /\ Ready(pass[p], snapshot)
    BY DEF IInv, Types, Work, InHand
  <2>2. \A k \in Keys : filing[k] # None =>
          filing[k].now \in Nat /\ filing[k].now <= clock /\ AsLoaded(filing[k].snap, snapshot)
    BY DEF IInv, Types, Filings, InHand, Optional
  <2> QED  BY <1>1, <1>2, <2>1, <2>2 DEF InHand
<1>6. Receipts' /\ Owing' /\ Asking' /\ FiledDisputesStand'
  BY <1>2 DEF IInv, Receipts, Owing, Asking, Holds, FiledDisputesStand
<1> QED  BY <1>3, <1>4, <1>5, <1>6 DEF IInv

\* A dispute request that arrives, or dies, before it commits.
LEMMA FilingStep ==
  ASSUME IInv, NEW k \in Keys, NEW x,
         filing' = [filing EXCEPT ![k] = x],
         x \in Optional(Filings),
         x # None => AsLoaded(x.snap, snapshot) /\ x.now <= clock,
         UNCHANGED <<clock, snapshot, job, outbox, operations, pass, leases, delivered>>
  PROVE  IInv'
<1>1. Types'
  BY DEF IInv, Types
<1>2. (snapshot.at <= clock)' /\ Ruled(snapshot)'
  BY DEF IInv
<1>3. InHand'
  BY DEF IInv, InHand, Types
<1>4. Receipts' /\ Owing' /\ Asking' /\ FiledDisputesStand'
  BY DEF IInv, Receipts, Owing, Asking, Holds, FiledDisputesStand
<1> QED  BY <1>1, <1>2, <1>3, <1>4 DEF IInv

LEMMA ReceiveKeeps ==
  ASSUME IInv, NEW k \in Keys, ReceiveDispute(k), UNCHANGED <<pass, leases, delivered>>
  PROVE  IInv'
<1> DEFINE x == [snap |-> snapshot, now |-> clock]
<1>1. x \in Filings /\ AsLoaded(x.snap, snapshot) /\ x.now <= clock
  BY DEF IInv, Types, Filings, AsLoaded, Snapshots
<1>2. /\ filing' = [filing EXCEPT ![k] = x]
      /\ UNCHANGED <<clock, snapshot, job, outbox, operations>>
  BY DEF ReceiveDispute
<1> HIDE DEF x
<1> QED  BY <1>1, <1>2, FilingStep DEF Optional

LEMMA DropKeeps ==
  ASSUME IInv, NEW k \in Keys, DropDispute(k), UNCHANGED <<pass, leases, delivered>>
  PROVE  IInv'
BY FilingStep DEF DropDispute, Optional

LEMMA FileKeeps ==
  ASSUME IInv, NEW k \in Keys, FileDispute(k), UNCHANGED <<pass, leases, delivered>>
  PROVE  IInv'
<1> DEFINE s == filing[k].snap
           c == [kind |-> "SubmitDispute", key |-> k]
           now == filing[k].now
<1>1. /\ s \in Snapshots /\ AsLoaded(s, snapshot)
      /\ now \in Nat /\ now <= clock
  BY DEF FileDispute, IInv, Types, InHand, Optional, Filings
<1>2. Accepted(s, c, now, None) /\ Batch(s, c, now)
  BY DEF FileDispute
<1>3. /\ operations' = [operations EXCEPT ![k] = s.resolution]
      /\ filing' = [filing EXCEPT ![k] = None]
      /\ UNCHANGED <<clock, job>>
  BY DEF FileDispute
<1>4. c \in Commands /\ c.kind = "SubmitDispute" /\ c.key = k
  BY DEF Commands
<1> HIDE DEF s, c, now
<1>5. s = snapshot /\ Legal(snapshot, c, now) /\ Batch(snapshot, c, now)
  BY <1>1, <1>2 DEF Accepted, Guard, AsLoaded
<1>6. /\ snapshot.resolution \in Optional(Resolutions)
      /\ operations \in [Keys -> Optional(Resolutions)]
      /\ filing \in [Keys -> Optional(Filings)]
  BY DEF IInv, Types, Snapshots
<1>7. /\ operations' \in [Keys -> Optional(Resolutions)]
      /\ filing' \in [Keys -> Optional(Filings)]
  BY <1>3, <1>5, <1>6 DEF Optional
<1>8. \A j \in Keys : /\ filing'[j] # None => filing'[j] = filing[j]
                      /\ \/ operations'[j] = operations[j]
                         \/ j = k /\ operations'[j] = snapshot.resolution
  BY <1>3, <1>5, <1>6
<1> QED  BY <1>1, <1>3, <1>4, <1>5, <1>7, <1>8, WriterStep

LEMMA AdjudicateKeeps ==
  ASSUME IInv, NEW o \in Outcomes, NEW at \in 0..MaxTime, Adjudicate(o, at),
         UNCHANGED <<pass, leases, delivered>>
  PROVE  IInv'
<1> DEFINE c == [kind |-> "AdjudicateResolution", outcome |-> o]
<1>1. /\ at \in Nat /\ at <= clock
      /\ Legal(snapshot, c, at) /\ Batch(snapshot, c, at)
      /\ UNCHANGED <<clock, job, operations, filing>>
  BY StoreAssumption DEF Adjudicate, Accepted
<1>2. c \in Commands /\ c.kind = "AdjudicateResolution"
  BY DEF Commands
<1> HIDE DEF c
<1>3. /\ operations' \in [Keys -> Optional(Resolutions)]
      /\ filing' \in [Keys -> Optional(Filings)]
  BY <1>1 DEF IInv, Types
<1> QED  BY <1>1, <1>2, <1>3, WriterStep

LEMMA IdleTyped == Idle \in Work /\ Idle.left = 0 /\ Idle.now = 0
BY DEF Idle, Work, Optional, Phases

\* A pass that drops what it has in hand.
LEMMA Stopped ==
  ASSUME NEW ph \in Phases \ {"ask", "asking", "commit", "pausing"}, NEW n \in Nat, NEW r
  PROVE  LET w == [Idle EXCEPT !.phase = ph, !.now = n]
         IN w \in Work /\ w.phase = ph /\ w.now = n /\ Ready(w, r)
<1> DEFINE w == [Idle EXCEPT !.phase = ph, !.now = n]
<1>2. w \in Work /\ w.phase = ph /\ w.now = n /\ w.left = 0
  BY IdleTyped DEF Work
<1> HIDE DEF w
<1>3. Ready(w, r)
  BY <1>2, SchedulerAssumption DEF Ready
<1> QED  BY <1>2, <1>3 DEF w

LEMMA StopStep ==
  ASSUME IInv, NEW p \in Passes, NEW ph \in Phases \ {"ask", "asking", "commit", "pausing"},
         Stop(p, ph), ph = "outage" => At(p, "asking") /\ UNCHANGED job,
         job' \in Jobs, job'.token \in {job.token, p, None}, leases' \in Leases,
         UNCHANGED <<clock, snapshot, outbox, operations, filing, delivered>>
  PROVE  IInv'
<1> DEFINE w == [Idle EXCEPT !.phase = ph, !.now = pass[p].now]
<1>1. pass[p].now \in Nat /\ pass[p].now <= clock
  BY DEF IInv, Types, Work, InHand
<1>2. w \in Work /\ w.phase = ph /\ w.now = pass[p].now /\ Ready(w, snapshot)
  BY <1>1, Stopped
<1>3. pass' = [pass EXCEPT ![p] = w]
  BY DEF Stop
<1> HIDE DEF w
<1>4. w.phase \in Waiting /\ job'.token = p => Askable(snapshot)
  BY <1>2 DEF Waiting, IInv, Asking, Holds, At
<1> QED  BY <1>1, <1>2, <1>3, <1>4, PassStep

LEMMA ReleasedTyped ==
  ASSUME IInv, NEW p \in Passes
  PROVE  Released(p) \in Leases
BY DEF IInv, Types, Leases, Released, Optional

\* What the invariant says of one pass.
Kept(p) ==
  /\ pass \in [Passes -> Work] /\ pass[p] \in Work
  /\ pass[p].phase \in Phases /\ pass[p].now \in Nat /\ pass[p].now <= clock
  /\ pass[p].left \in Nat /\ pass[p].left <= MaxTransitions
  /\ clock \in Nat /\ snapshot \in Snapshots
  /\ job \in Jobs /\ leases \in Leases

LEMMA PassTyped ==
  ASSUME IInv, NEW p \in Passes
  PROVE  Kept(p)
<1>1. /\ pass \in [Passes -> Work] /\ pass[p] \in Work
      /\ clock \in Nat /\ snapshot \in Snapshots
      /\ job \in Jobs /\ leases \in Leases
  BY StoreAssumption DEF IInv, Types
<1>2. pass[p].now <= clock /\ pass[p].left <= MaxTransitions
  BY DEF IInv, InHand, Ready
<1>3. pass[p].phase \in Phases /\ pass[p].now \in Nat /\ pass[p].left \in Nat
  BY <1>1 DEF Work
<1> QED  BY <1>1, <1>2, <1>3 DEF Kept

LEMMA StartKeeps ==
  ASSUME IInv, NEW p \in Passes, Start(p)
  PROVE  IInv'
<1> DEFINE ph == IF Due(clock) THEN "selected" ELSE "drain"
           w == [pass[p] EXCEPT !.now = clock, !.phase = ph]
<1>t. Kept(p)
  BY PassTyped
<1>1. pass' = [pass EXCEPT ![p] = w] /\ ph \in {"selected", "drain"}
  BY <1>t DEF Start, Work, Kept
<1> HIDE DEF ph
<1>2. /\ w \in Work /\ w.phase = ph /\ w.now = clock /\ w.left = pass[p].left
  BY <1>1, <1>t DEF Work, Phases, Kept
<1> HIDE DEF w
<1>3. Ready(w, snapshot) /\ w.phase \notin Waiting /\ w.now <= clock
  BY <1>1, <1>2, <1>t DEF Ready, Waiting, Kept
<1>4. UNCHANGED <<clock, snapshot, job, outbox, operations, filing, leases, delivered>>
  BY DEF Start, store
<1>5. job' \in Jobs /\ job'.token = job.token /\ leases' \in Leases
  BY <1>4, <1>t DEF Kept
<1> QED  BY <1>1, <1>2, <1>3, <1>4, <1>5, PassStep

LEMMA ClaimKeeps ==
  ASSUME IInv, NEW p \in Passes, Claim(p)
  PROVE  IInv'
<1> DEFINE w == [pass[p] EXCEPT !.phase = "claimed"]
<1>t. Kept(p)
  BY PassTyped
<1>1. pass' = [pass EXCEPT ![p] = w]
  BY <1>t DEF Claim, Go, Work, Kept
<1>2. w \in Work /\ w.phase = "claimed" /\ w.now = pass[p].now /\ w.left = pass[p].left
  BY <1>t DEF Work, Phases, Kept
<1> HIDE DEF w
<1>3. Ready(w, snapshot) /\ w.phase \notin Waiting /\ w.now <= clock
  BY <1>2, <1>t DEF Ready, Waiting, Kept
<1>4. job' \in Jobs /\ job'.token \in {job.token, p}
  <2> DEFINE u == pass[p].now + Lease
  <2>1. u \in Nat /\ p \in Optional(Passes) /\ job \in Jobs
    BY <1>t, SchedulerAssumption DEF Kept, Optional
  <2>2. job' = job \/ job' = [job EXCEPT !.token = p, !.until = u]
    BY DEF Claim, Claimed
  <2> HIDE DEF u
  <2> QED  BY <2>1, <2>2 DEF Jobs
<1>5. UNCHANGED <<clock, snapshot, outbox, operations, filing, leases, delivered>>
  BY DEF Claim
<1>6. leases' \in Leases
  BY <1>5, <1>t DEF Kept
<1> QED  BY <1>1, <1>2, <1>3, <1>4, <1>5, <1>6, PassStep

LEMMA ReadBackKeeps ==
  ASSUME IInv, NEW p \in Passes, ReadBack(p)
  PROVE  IInv'
<1> DEFINE ph == IF Holds(p) THEN "job" ELSE "drain"
           n == IF Holds(p) THEN MaxTransitions ELSE 0
           w == [pass[p] EXCEPT !.phase = ph, !.left = n]
<1>t. Kept(p)
  BY PassTyped
<1>1. pass' = [pass EXCEPT ![p] = w]
  BY <1>t DEF ReadBack, Work, Kept
<1>a. ph \in {"job", "drain"} /\ n \in Nat /\ n <= MaxTransitions
  BY SchedulerAssumption
<1> HIDE DEF ph, n
<1>2. /\ w \in Work /\ w.phase = ph /\ w.now = pass[p].now /\ w.left = n
  BY <1>a, <1>t DEF Work, Phases, Kept
<1> HIDE DEF w
<1>3. Ready(w, snapshot) /\ w.phase \notin Waiting /\ w.now <= clock
  BY <1>a, <1>2, <1>t DEF Ready, Waiting, Kept
<1>4. UNCHANGED <<clock, snapshot, job, outbox, operations, filing, leases, delivered>>
  BY DEF ReadBack, store
<1>5. job' \in Jobs /\ job'.token = job.token /\ leases' \in Leases
  BY <1>4, <1>t DEF Kept
<1> QED  BY <1>1, <1>2, <1>3, <1>4, <1>5, PassStep

LEMMA LoadKeeps ==
  ASSUME IInv, NEW p \in Passes, Load(p)
  PROVE  IInv'
<1> DEFINE d == Direct(snapshot, pass[p].now)
           a == [pass[p] EXCEPT !.phase = "commit", !.snap = snapshot, !.cmd = [kind |-> d]]
           b == [pass[p] EXCEPT !.phase = "ask", !.snap = snapshot]
           e == [pass[p] EXCEPT !.phase = "ok", !.left = 0]
<1>t. Kept(p)
  BY PassTyped
<1>1. PICK w \in {a, b, e} :
        /\ pass' = [pass EXCEPT ![p] = w]
        /\ w = a => pass[p].left > 0 /\ d # None
        /\ w = b => pass[p].left > 0 /\ Task(snapshot) # None
  <2>0. a.phase = "commit" /\ b.phase = "ask" /\ e.phase = "ok"
    BY <1>t DEF Kept, Work
  <2>1. CASE InBudget(p) /\ d # None
    BY <1>t, <2>0, <2>1 DEF Load, InBudget
  <2>2. CASE ~ (InBudget(p) /\ d # None) /\ InBudget(p) /\ Task(snapshot) # None
    BY <1>t, <2>0, <2>2 DEF Load, InBudget
  <2>3. CASE ~ (InBudget(p) /\ d # None) /\ ~ (InBudget(p) /\ Task(snapshot) # None)
    BY <1>t, <2>0, <2>3 DEF Load, InBudget
  <2> QED  BY <2>1, <2>2, <2>3
<1>2. d # None => d \in Plain \ {"Resume"}
  BY DEF Direct, Plain
<1>3. d # None => [kind |-> d] \in Held /\ [kind |-> d].kind # "Resume"
  BY <1>2 DEF Held
<1> HIDE DEF d
<1>4. AsLoaded(snapshot, snapshot)
  BY <1>t DEF AsLoaded, Kept, Snapshots
<1>5. /\ w \in Work /\ w.now <= clock /\ Ready(w, snapshot)
      /\ w.phase \in Waiting => Task(snapshot) # None
  <2>1. CASE w = a
    <3> DEFINE g == [kind |-> d]
    <3>1. g \in Held /\ g.kind # "Resume" /\ pass[p].left > 0
      BY <1>1, <1>3, <2>1
    <3>2. w = [pass[p] EXCEPT !.phase = "commit", !.snap = snapshot, !.cmd = g]
      BY <2>1
    <3> HIDE DEF a, b, e, g
    <3>3. /\ w \in Work /\ w.phase = "commit" /\ w.snap = snapshot /\ w.cmd = g
          /\ w.left = pass[p].left /\ w.now = pass[p].now
      BY <1>t, <3>1, <3>2 DEF Work, Phases, Optional, Kept
    <3>4. Ready(w, snapshot)
      BY <1>t, <1>4, <3>1, <3>3 DEF Ready, Kept
    <3> QED  BY <1>t, <3>3, <3>4 DEF Waiting, Kept
  <2>2. CASE w = b
    <3>3. /\ w \in Work /\ w.phase = "ask" /\ w.snap = snapshot
          /\ w.left = pass[p].left /\ w.now = pass[p].now
      BY <1>t, <2>2 DEF Work, Phases, Optional, Kept
    <3> QED  BY <1>t, <1>1, <1>4, <2>2, <3>3 DEF Ready, Waiting, Kept
  <2>3. CASE w = e
    <3>3. /\ w \in Work /\ w.phase = "ok" /\ w.left = 0 /\ w.now = pass[p].now
      BY <1>t, <2>3 DEF Work, Phases, Kept
    <3> QED  BY <1>t, <3>3, SchedulerAssumption DEF Ready, Waiting, Kept
  <2> QED  BY <1>1, <2>1, <2>2, <2>3
<1>6. Task(snapshot) # None => Askable(snapshot)
  BY DEF IInv, Asking, Askable, Task, Eff
<1>7. UNCHANGED <<clock, snapshot, job, outbox, operations, filing, leases, delivered>>
  BY DEF Load, store
<1>8. job' \in Jobs /\ job'.token = job.token /\ leases' \in Leases
  BY <1>7, <1>t DEF Kept
<1> HIDE DEF a, b, e
<1> QED  BY <1>1, <1>5, <1>6, <1>7, <1>8, PassStep

LEMMA AskKeeps ==
  ASSUME IInv, NEW p \in Passes, Ask(p)
  PROVE  IInv'
<1> DEFINE i == Task(pass[p].snap)
           l == [token |-> p, until |-> pass[p].now + Lease]
           w == [pass[p] EXCEPT !.phase = "asking", !.asked = clock]
<1>t. Kept(p) /\ Ready(pass[p], snapshot)
  BY PassTyped DEF IInv, InHand
<1>u. UNCHANGED <<clock, snapshot, job, outbox, operations, filing, delivered>>
  BY DEF Ask, store
<1>j. job' \in Jobs /\ job'.token = job.token
  BY <1>u, <1>t DEF Kept
<1>1. CASE Free(i, pass[p].now)
  <2>1. /\ leases' = [leases EXCEPT ![i] = l]
        /\ pass' = [pass EXCEPT ![p] = w]
    BY <1>1, <1>t DEF Ask, Kept, Work
  <2>2. l \in [token : Passes, until : Nat]
    BY <1>t, SchedulerAssumption DEF Kept
  <2> HIDE DEF i, l
  <2>3. leases' \in Leases
    BY <1>t, <2>1, <2>2 DEF Kept, Leases, Optional
  <2>4. /\ w \in Work /\ w.phase = "asking" /\ w.asked = clock /\ w.snap = pass[p].snap
        /\ w.left = pass[p].left /\ w.now = pass[p].now
    BY <1>t DEF Kept, Work, Phases, Optional
  <2> HIDE DEF w
  <2>5. At(p, "ask")
    BY DEF Ask
  <2>6. Ready(w, snapshot) /\ w.now <= clock
    BY <1>t, <2>4, <2>5 DEF Ready, At, Kept
  <2>7. Holds(p) => Askable(snapshot)
    BY <2>5 DEF IInv, Asking, At, Waiting
  <2> QED  BY <1>u, <1>j, <2>1, <2>3, <2>4, <2>6, <2>7, PassStep DEF Holds
<1>2. CASE ~ Free(i, pass[p].now)
  <2>1. Stop(p, "failed") /\ leases' \in Leases
    BY <1>t, <1>2 DEF Ask, Kept
  <2> QED  BY <1>u, <1>j, <2>1, StopStep DEF Phases
<1> QED  BY <1>1, <1>2

LEMMA VerdictsHeld ==
  ASSUME NEW s \in Snapshots, NEW c \in Verdicts(s)
  PROVE  c \in Held /\ c.kind # "Resume"
<1> DEFINE resolving == (IF s.state = "PAUSED" THEN s.pausedFrom ELSE s.state) = "RESOLVING"
<1>1. CASE resolving
  <2>1. c \in {[kind |-> "ProposeResolution", outcome |-> o] : o \in Outcomes}
    BY <1>1 DEF Verdicts
  <2> QED  BY <2>1 DEF Held
<1>2. CASE ~ resolving
  <2>1. c \in {[kind |-> "ReviewDispute", key |-> k, disposition |-> d] :
                  k \in Pending(s), d \in Dispositions}
    BY <1>2 DEF Verdicts
  <2>2. Pending(s) \subseteq Keys
    BY DEF Pending, Snapshots
  <2> QED  BY <2>1, <2>2 DEF Held
<1> QED  BY <1>1, <1>2

LEMMA AnswerKeeps ==
  ASSUME IInv, NEW p \in Passes, Answer(p)
  PROVE  IInv'
<1>t. Kept(p) /\ Ready(pass[p], snapshot) /\ At(p, "asking")
  BY PassTyped DEF IInv, InHand, Answer
<1>u. UNCHANGED <<clock, snapshot, job, outbox, operations, filing, delivered>>
  BY DEF Answer, store
<1>j. job' \in Jobs /\ job'.token = job.token
  BY <1>u, <1>t DEF Kept
<1>l. leases' \in Leases
  BY ReleasedTyped DEF Answer
<1>s. /\ pass[p].snap \in Snapshots /\ AsLoaded(pass[p].snap, snapshot)
      /\ pass[p].left > 0 /\ pass[p].asked \in Nat
  BY <1>t DEF Ready, At
<1> DEFINE f == [pass[p] EXCEPT !.phase = "failed"]
           u == [pass[p] EXCEPT !.phase = "commit", !.asked = None,
                                !.waited = clock - pass[p].asked]
           r == [kind |-> "Resume"]
<1>0. PICK c \in Verdicts(pass[p].snap) : pass' = [pass EXCEPT ![p] =
             IF DeadlinePassed(p) THEN f
             ELSE IF pass[p].snap.state = "PAUSED"
                  THEN [u EXCEPT !.cmd = r, !.then = c]
                  ELSE [u EXCEPT !.cmd = c]]
  BY <1>t DEF Answer, Kept
<1>1. PICK w \in {f, [u EXCEPT !.cmd = r, !.then = c], [u EXCEPT !.cmd = c]} :
        pass' = [pass EXCEPT ![p] = w]
  <2> HIDE DEF f, u, r
  <2> QED  BY <1>0
<1>2. c \in Held /\ c.kind # "Resume"
  BY <1>s, VerdictsHeld
<1>3. r \in Held /\ r.kind = "Resume"
  BY DEF Held, Plain
<1> HIDE DEF r
<1>4. /\ u \in Work /\ u.phase = "commit" /\ u.snap = pass[p].snap
      /\ u.left = pass[p].left /\ u.now = pass[p].now
  <2> DEFINE d == clock - pass[p].asked
  <2>1. d \in Int
    BY <1>t, <1>s DEF Kept
  <2>2. u = [pass[p] EXCEPT !.phase = "commit", !.asked = None, !.waited = d]
    OBVIOUS
  <2> HIDE DEF d, u
  <2> QED  BY <1>t, <2>1, <2>2 DEF Kept, Work, Phases, Optional
<1> HIDE DEF u
<1>5. w \in Work /\ Ready(w, snapshot) /\ w.now = pass[p].now /\ w.phase \notin Waiting
  <2>1. CASE w = f
    <3>1. /\ f \in Work /\ f.phase = "failed" /\ f.left = pass[p].left
          /\ f.now = pass[p].now
      BY <1>t DEF Kept, Work, Phases
    <3> QED  BY <1>t, <2>1, <3>1 DEF Ready, Waiting, Kept
  <2>2. CASE w = [u EXCEPT !.cmd = r, !.then = c]
    <3>1. /\ w \in Work /\ w.phase = "commit" /\ w.snap = u.snap /\ w.left = u.left
          /\ w.now = u.now /\ w.cmd = r /\ w.then = c
      BY <1>2, <1>3, <1>4, <2>2 DEF Work, Optional
    <3>2. Ready(w, snapshot)
      BY <1>t, <1>s, <1>2, <1>3, <1>4, <3>1 DEF Ready, Kept
    <3> QED  BY <1>4, <3>1, <3>2 DEF Waiting
  <2>3. CASE w = [u EXCEPT !.cmd = c]
    <3>1. /\ w \in Work /\ w.phase = "commit" /\ w.snap = u.snap /\ w.left = u.left
          /\ w.now = u.now /\ w.cmd = c
      BY <1>2, <1>4, <2>3 DEF Work, Optional
    <3>2. Ready(w, snapshot)
      BY <1>t, <1>s, <1>2, <1>4, <3>1 DEF Ready, Kept
    <3> QED  BY <1>4, <3>1, <3>2 DEF Waiting
  <2> QED  BY <1>1, <2>1, <2>2, <2>3
<1> HIDE DEF f
<1>6. w.now <= clock
  BY <1>5, <1>t DEF Kept
<1> QED  BY <1>u, <1>j, <1>l, <1>1, <1>5, <1>6, PassStep

LEMMA OutageKeeps ==
  ASSUME IInv, NEW p \in Passes, Outage(p)
  PROVE  IInv'
<1>1. UNCHANGED <<clock, snapshot, job, outbox, operations, filing, delivered>>
  BY DEF Outage, store
<1>2. Stop(p, "outage") /\ At(p, "asking") /\ leases' \in Leases
  BY ReleasedTyped DEF Outage
<1>3. job' \in Jobs /\ job'.token = job.token
  BY <1>1, PassTyped DEF Kept
<1> QED  BY <1>1, <1>2, <1>3, StopStep DEF Phases

LEMMA RefusedKeeps ==
  ASSUME IInv, NEW p \in Passes, Refused(p)
  PROVE  IInv'
<1>1. UNCHANGED <<clock, snapshot, job, outbox, operations, filing, delivered>>
  BY DEF Refused, store
<1>2. Stop(p, "failed") /\ leases' \in Leases
  BY ReleasedTyped DEF Refused
<1>3. job' \in Jobs /\ job'.token = job.token
  BY <1>1, PassTyped DEF Kept
<1> QED  BY <1>1, <1>2, <1>3, StopStep DEF Phases

LEMMA DeferKeeps ==
  ASSUME IInv, NEW p \in Passes, NEW at \in 0..MaxTime, Defer(p, at)
  PROVE  IInv'
<1>1. UNCHANGED <<clock, snapshot, outbox, operations, filing, leases, delivered>>
  BY DEF Defer
<1>2. Stop(p, "release") /\ leases' \in Leases /\ job \in Jobs /\ at \in Nat
  BY <1>1, PassTyped, StoreAssumption DEF Defer, Kept
<1>3. job' \in Jobs /\ job'.token = job.token
  BY <1>2 DEF Defer, Jobs
<1> QED  BY <1>1, <1>2, <1>3, StopStep DEF Phases

LEMMA CommitKeeps ==
  ASSUME IInv, NEW p \in Passes, Commit(p)
  PROVE  IInv'
<1> DEFINE q == pass[p]
           a == [q EXCEPT !.snap = snapshot', !.cmd = q.then, !.then = None, !.left = 1]
           b == [q EXCEPT !.phase = "job", !.left = q.left - 1, !.snap = None,
                          !.cmd = None, !.waited = 0]
           w == IF q.cmd.kind = "Resume" THEN a ELSE b
<1>t. Kept(p) /\ Ready(pass[p], snapshot) /\ At(p, "commit")
  BY PassTyped DEF IInv, InHand, Commit
<1>s. /\ q.snap \in Snapshots /\ AsLoaded(q.snap, snapshot)
      /\ q.left \in Nat /\ q.left > 0 /\ q.cmd \in Held
      /\ q.cmd.kind = "Resume" => q.then \in Held /\ q.then.kind # "Resume"
  BY <1>t DEF Ready, At, Kept
<1>u. UNCHANGED <<clock, job, operations, filing, leases, delivered>>
  BY DEF Commit
<1>1. CASE Accepted(q.snap, q.cmd, q.now, p)
  <2>1. Batch(q.snap, q.cmd, q.now) /\ pass' = [pass EXCEPT ![p] = w]
    BY <1>1, <1>t DEF Commit, Kept, Work
  <2>2. q.snap = snapshot
    BY <1>1, <1>s DEF Accepted, Guard, AsLoaded
  <2>3. snapshot' \in Snapshots
    <3>1. Ruled(snapshot) /\ snapshot \in Snapshots /\ q.now \in Nat /\ q.cmd \in Commands
      BY <1>t, <1>s DEF IInv, Kept, Commands
    <3>2. Legal(snapshot, q.cmd, q.now) /\ snapshot' = Applied(snapshot, q.cmd, q.now)
      BY <1>1, <2>1, <2>2 DEF Accepted, Batch
    <3> QED  BY <3>1, <3>2, CommandFollows DEF Follows
  <2>4. /\ w \in Work /\ w.now = q.now /\ w.phase \in {"commit", "job"}
        /\ Ready(w, snapshot')
    <3>1. CASE q.cmd.kind = "Resume"
      <4>1. /\ a \in Work /\ a.phase = "commit" /\ a.snap = snapshot' /\ a.cmd = q.then
            /\ a.left = 1 /\ a.now = q.now
        BY <1>t, <1>s, <2>3, <3>1 DEF Kept, Work, Optional, At
      <4>2. w = a
        BY <3>1
      <4> HIDE DEF a, w
      <4>3. AsLoaded(snapshot', snapshot')
        BY <2>3 DEF AsLoaded, Snapshots
      <4>4. Ready(a, snapshot')
        BY <1>s, <2>3, <3>1, <4>1, <4>3, SchedulerAssumption DEF Ready
      <4> QED  BY <4>1, <4>2, <4>4
    <3>2. CASE q.cmd.kind # "Resume"
      <4> DEFINE n == q.left - 1
                 z == 0
      <4>1. n \in Nat /\ n <= MaxTransitions /\ z \in Int
        BY <1>t, <1>s, SchedulerAssumption DEF Kept
      <4>2. w = [q EXCEPT !.phase = "job", !.left = n, !.snap = None, !.cmd = None, !.waited = z]
        BY <3>2
      <4> HIDE DEF n, w, z
      <4>3. /\ w \in Work /\ w.phase = "job" /\ w.left = n /\ w.now = q.now
        BY <1>t, <4>1, <4>2 DEF Kept, Work, Optional, Phases
      <4> QED  BY <4>1, <4>3 DEF Ready
    <3> QED  BY <3>1, <3>2
  <2> HIDE DEF w
  <2>5. w.now <= clock /\ w.phase \notin Waiting /\ q.cmd.kind # "Pause"
    BY <1>t, <1>s, <2>4 DEF Kept, Waiting, Held, Plain
  <2> QED  BY <1>s, <1>u, <1>1, <2>1, <2>4, <2>5, CommitStep
<1>2. CASE ~ Accepted(q.snap, q.cmd, q.now, p)
  <2>1. Stop(p, "failed") /\ UNCHANGED <<snapshot, outbox>>
    BY <1>2 DEF Commit
  <2>2. job' \in Jobs /\ job'.token = job.token /\ leases' \in Leases
    BY <1>t, <1>u DEF Kept
  <2> QED  BY <1>u, <2>1, <2>2, StopStep DEF Phases
<1> QED  BY <1>1, <1>2

LEMMA ReloadKeeps ==
  ASSUME IInv, NEW p \in Passes, Reload(p)
  PROVE  IInv'
<1> DEFINE ph == IF snapshot.state \in Pausable THEN "pausing" ELSE "failed"
           w == [pass[p] EXCEPT !.snap = snapshot, !.phase = ph]
<1>t. Kept(p)
  BY PassTyped
<1>1. pass' = [pass EXCEPT ![p] = w] /\ ph \in {"pausing", "failed"}
  BY <1>t DEF Reload, Work, Kept
<1> HIDE DEF ph
<1>2. /\ w \in Work /\ w.phase = ph /\ w.now = pass[p].now /\ w.left = pass[p].left
      /\ w.snap = snapshot
  BY <1>1, <1>t DEF Work, Phases, Kept, Optional
<1> HIDE DEF w
<1>3. Ready(w, snapshot) /\ w.now <= clock
  <2>1. AsLoaded(snapshot, snapshot)
    BY <1>t DEF AsLoaded, Kept, Snapshots
  <2> QED  BY <1>1, <1>2, <1>t, <2>1 DEF Ready, Kept
<1>4. UNCHANGED <<clock, snapshot, job, outbox, operations, filing, leases, delivered>>
  BY DEF Reload, store
<1>5. job' \in Jobs /\ job'.token = job.token /\ leases' \in Leases
  BY <1>4, <1>t DEF Kept
<1>6. Holds(p) => Askable(snapshot)
  BY DEF Reload, IInv, Asking, At, Waiting
<1> QED  BY <1>1, <1>2, <1>3, <1>4, <1>5, <1>6, PassStep DEF Holds

LEMMA PauseKeeps ==
  ASSUME IInv, NEW p \in Passes, PauseForProviderOutage(p)
  PROVE  IInv'
<1> DEFINE q == pass[p]
           c == [kind |-> "Pause"]
           w == [Idle EXCEPT !.phase = "failed", !.now = q.now]
<1>t. Kept(p) /\ Ready(pass[p], snapshot) /\ At(p, "pausing")
  BY PassTyped DEF IInv, InHand, PauseForProviderOutage
<1>s. q.snap \in Snapshots /\ AsLoaded(q.snap, snapshot) /\ q.phase \in Waiting
  BY <1>t DEF Ready, At, Waiting
<1>u. UNCHANGED <<clock, job, operations, filing, leases, delivered>>
  BY DEF PauseForProviderOutage
<1>1. CASE Accepted(q.snap, c, q.now, p)
  <2>1. Batch(q.snap, c, q.now) /\ pass' = [pass EXCEPT ![p] = w]
    BY <1>1 DEF PauseForProviderOutage, Stop
  <2>2. c \in [kind : {"Pause"}] /\ c.kind = "Pause"
    OBVIOUS
  <2>3. q.now \in Nat /\ q.now <= clock
    BY <1>t DEF Kept
  <2>4. w \in Work /\ w.phase = "failed" /\ w.now = q.now /\ Ready(w, snapshot')
    BY <2>3, Stopped DEF Phases
  <2> HIDE DEF w, c
  <2>5. w.phase \notin Waiting
    BY <2>4 DEF Waiting
  <2> QED  BY <1>s, <1>u, <1>1, <2>1, <2>2, <2>3, <2>4, <2>5, CommitStep
<1>2. CASE ~ Accepted(q.snap, c, q.now, p)
  <2>1. Stop(p, "aborted") /\ UNCHANGED <<snapshot, outbox>>
    BY <1>2 DEF PauseForProviderOutage
  <2>2. job' \in Jobs /\ job'.token = job.token /\ leases' \in Leases
    BY <1>t, <1>u DEF Kept
  <2> QED  BY <1>u, <2>1, <2>2, StopStep DEF Phases
<1> QED  BY <1>1, <1>2

LEMMA RecordKeeps ==
  ASSUME IInv, NEW p \in Passes, Record(p)
  PROVE  IInv'
<1> DEFINE r == pass[p].now + Delay
           n == job.failures + 1
           z == 0
<1>1. UNCHANGED <<clock, snapshot, outbox, operations, filing, leases, delivered>>
  BY DEF Record
<1>2. Stop(p, "release") /\ leases' \in Leases /\ job \in Jobs /\ pass[p].now \in Nat
  BY <1>1, PassTyped DEF Record, Kept
<1>3. Delay \in Nat
  BY <1>2, SchedulerAssumption DEF Delay, Jobs
<1>4. r \in Nat /\ n \in Nat /\ z \in Nat
  BY <1>2, <1>3 DEF Jobs
<1>5. \/ job' = job \/ job' = [job EXCEPT !.retry = r, !.failures = n]
      \/ job' = [job EXCEPT !.retry = z, !.failures = z]
  BY <1>2 DEF Record, Jobs
<1> HIDE DEF r, n, z
<1>6. job' \in Jobs /\ job'.token = job.token
  BY <1>2, <1>4, <1>5 DEF Jobs
<1> QED  BY <1>1, <1>2, <1>6, StopStep DEF Phases

LEMMA ReleaseKeeps ==
  ASSUME IInv, NEW p \in Passes, Release(p)
  PROVE  IInv'
<1>1. UNCHANGED <<clock, snapshot, outbox, operations, filing, leases, delivered>>
  BY DEF Release
<1>2. Stop(p, "drain") /\ leases' \in Leases /\ job \in Jobs
  BY <1>1, PassTyped DEF Release, Kept
<1>3. job' \in Jobs /\ job'.token \in {job.token, None}
  BY <1>2 DEF Release, Freed, Jobs, Optional
<1> QED  BY <1>1, <1>2, <1>3, StopStep DEF Phases

LEMMA DrainKeeps ==
  ASSUME IInv, NEW p \in Passes, Drain(p)
  PROVE  IInv'
<1>t. Kept(p)
  BY PassTyped
<1>1. PICK d \in SUBSET Effects :
        pass' = [pass EXCEPT ![p] = [pass[p] EXCEPT !.phase = "deliver", !.todo = d]]
  <2>1. {e \in Effects : outbox[e] = "pending"} \in SUBSET Effects /\ {} \in SUBSET Effects
    OBVIOUS
  <2> QED  BY <1>t, <2>1 DEF Drain, Kept, Work
<1> DEFINE w == [pass[p] EXCEPT !.phase = "deliver", !.todo = d]
<1>2. w \in Work /\ w.phase = "deliver" /\ w.now = pass[p].now /\ w.left = pass[p].left
  BY <1>t DEF Work, Phases, Kept
<1>3. pass' = [pass EXCEPT ![p] = w]
  BY <1>1
<1> HIDE DEF w
<1>4. Ready(w, snapshot) /\ w.phase \notin Waiting /\ w.now <= clock
  BY <1>2, <1>t DEF Ready, Waiting, Kept
<1>5. UNCHANGED <<clock, snapshot, job, operations, filing, leases, delivered>>
  BY DEF Drain
<1>6. job' \in Jobs /\ job'.token = job.token /\ leases' \in Leases
  BY <1>5, <1>t DEF Kept
<1>7. \/ outbox' = outbox
      \/ /\ outbox[Commitment] = "awaiting_adapter"
         /\ outbox' = [outbox EXCEPT ![Commitment] = "processed"]
  BY DEF Drain
<1>8. outbox \in [Effects -> Optional(Statuses)] /\ delivered \in [Effects -> Nat] /\ Owing
      /\ Commitment \in Effects
  BY DEF IInv, Types, Effects, Commitment
<1>9. outbox' \in [Effects -> Optional(Statuses)] /\ delivered' \in [Effects -> Nat] /\ Owing'
  BY <1>5, <1>7, <1>8, StoreAssumption DEF Owing, Optional, Statuses
<1> QED  BY <1>2, <1>3, <1>4, <1>5, <1>6, <1>9, PassStep

LEMMA DeliverKeeps ==
  ASSUME IInv, NEW p \in Passes, NEW e \in Effects, Deliver(p, e)
  PROVE  IInv'
<1> DEFINE w == [pass[p] EXCEPT !.todo = pass[p].todo \ {e}]
<1>t. Kept(p) /\ At(p, "deliver")
  BY PassTyped DEF Deliver
<1>1. pass' = [pass EXCEPT ![p] = w]
  BY <1>t DEF Deliver, Kept
<1>2. w \in Work /\ w.phase = "deliver" /\ w.now = pass[p].now /\ w.left = pass[p].left
  BY <1>t DEF Work, Kept, At
<1> HIDE DEF w
<1>3. Ready(w, snapshot) /\ w.phase \notin Waiting /\ w.now <= clock
  BY <1>2, <1>t DEF Ready, Waiting, Kept
<1>4. UNCHANGED <<clock, snapshot, job, operations, filing, leases>>
  BY DEF Deliver
<1>5. job' \in Jobs /\ job'.token = job.token /\ leases' \in Leases
  BY <1>4, <1>t DEF Kept
<1>6. outbox \in [Effects -> Optional(Statuses)] /\ delivered \in [Effects -> Nat] /\ Owing
  BY DEF IInv, Types
<1>7. outbox' \in [Effects -> Optional(Statuses)] /\ delivered' \in [Effects -> Nat] /\ Owing'
  <2>1. CASE outbox[e] # "pending"
    <3>1. outbox' = outbox /\ delivered' = delivered
      BY <2>1 DEF Deliver, StillPending
    <3> QED  BY <1>4, <1>6, <3>1 DEF Owing
  <2>2. CASE outbox[e] = "pending"
    <3> DEFINE u == IF e = Commitment THEN "awaiting_adapter" ELSE "processed"
    <3>1. outbox' = [outbox EXCEPT ![e] = u] /\ u \in Statuses \ {"pending"}
      BY <2>2 DEF Deliver, Statuses
    <3>2. delivered' = delivered \/ delivered' = [delivered EXCEPT ![e] = @ + 1]
      BY DEF Deliver
    <3>3. delivered[e] = 0 /\ snapshot.state = "FINALIZED"
      BY <1>6, <2>2, StoreAssumption DEF Owing, Statuses
    <3> HIDE DEF u
    <3>4. u # None /\ u # "pending"
      BY <3>1, StoreAssumption
    <3>5. \A g \in Effects : /\ outbox'[g] = IF g = e THEN u ELSE outbox[g]
                             /\ delivered'[g] \in Nat
                             /\ g # e => delivered'[g] = delivered[g]
                             /\ delivered'[e] <= 1
      BY <1>6, <3>1, <3>2, <3>3
    <3>6. outbox' \in [Effects -> Optional(Statuses)] /\ delivered' \in [Effects -> Nat]
      BY <1>6, <3>1, <3>2 DEF Optional
    <3>7. Owing'
      BY <1>4, <1>6, <3>3, <3>4, <3>5 DEF Owing
    <3> QED  BY <3>6, <3>7
  <2> QED  BY <2>1, <2>2
<1> QED  BY <1>1, <1>2, <1>3, <1>4, <1>5, <1>7, PassStep

LEMMA EndKeeps ==
  ASSUME IInv, NEW p \in Passes, End(p) \/ Crash(p)
  PROVE  IInv'
<1>1. PICK ph \in {"done", "crashed"} : pass' = [pass EXCEPT ![p] = [Idle EXCEPT !.phase = ph]]
  BY DEF End, Crash
<1> DEFINE w == [Idle EXCEPT !.phase = ph]
<1>2. w \in Work /\ w.phase = ph /\ w.now = 0 /\ w.left = 0
  BY IdleTyped DEF Work, Phases
<1>3. Ready(w, snapshot)
  BY <1>2, SchedulerAssumption DEF Ready
<1>4. pass' = [pass EXCEPT ![p] = w]
  BY <1>1
<1> HIDE DEF w
<1>5. UNCHANGED <<clock, snapshot, job, outbox, operations, filing, delivered>>
  BY DEF End, Crash, store
<1>6. Kept(p)
  BY PassTyped
<1>7. leases' \in Leases
  BY <1>6 DEF End, Crash, Kept, Leases, Optional
<1>8. w.phase \notin Waiting /\ w.now <= clock /\ job' \in Jobs /\ job'.token = job.token
  BY <1>2, <1>5, <1>6 DEF Waiting, Kept
<1> QED  BY <1>2, <1>3, <1>4, <1>5, <1>7, <1>8, PassStep

-----------------------------------------------------------------------------
(***************************************************************************)
(* The theorems                                                            *)
(***************************************************************************)
LEMMA InitHolds == SchedulerInit => IInv
<1> SUFFICES ASSUME SchedulerInit PROVE IInv
  OBVIOUS
<1> DEFINE u == Unreviewed
<1>1. u \in [Keys -> Optional(Dispositions)] /\ \A k \in Keys : u[k] = None
  BY DEF Unreviewed, Optional
<1>2. snapshot \in Snapshots /\ snapshot.at <= CloseAt /\ Ruled(snapshot)
      /\ snapshot.state \in {"OPEN", "CHALLENGE"}
  <2>0. /\ Published \in Snapshots /\ Published.state = "OPEN" /\ Published.at = 0
        /\ Published.resolution = None /\ Published.until = None
        /\ Published.disputes = {} /\ Published.reviews = u
        /\ Published.pausedFrom = None /\ Published.pausedAt = None
    <3>1. Published = [revision |-> 0, state |-> "OPEN", at |-> 0, resolution |-> None,
                       start |-> None, until |-> None, disputes |-> {}, reviews |-> u,
                       pausedFrom |-> None, pausedAt |-> None, exposed |-> 0]
      BY DEF Published
    <3> HIDE DEF u
    <3> QED  BY <1>1, <3>1 DEF Snapshots, States, Optional
  <2> HIDE DEF u
  <2>1. CASE snapshot = Published
    <3>1. Pending(snapshot) = {} /\ Material(snapshot) = {}
      BY <2>0, <2>1 DEF Pending, Material
    <3> QED  BY <1>1, <2>0, <2>1, <3>1, StoreAssumption
             DEF Ruled, Eff, Early, Challenged, Contested
  <2>2. ASSUME NEW o \in Outcomes,
               snapshot = [Published EXCEPT !.revision = 4, !.state = "CHALLENGE", !.at = CloseAt,
                             !.resolution = [outcome |-> o, at |-> CloseAt, hash |-> 2],
                             !.start = CloseAt, !.until = CloseAt + Challenge]
        PROVE  snapshot \in Snapshots /\ snapshot.at <= CloseAt /\ Ruled(snapshot)
               /\ snapshot.state \in {"OPEN", "CHALLENGE"}
    <3> DEFINE r == [outcome |-> o, at |-> CloseAt, hash |-> 2]
               d == CloseAt + Challenge
               f == 4
    <3>1. /\ r \in Resolutions /\ r # None /\ r.hash < f
          /\ d \in Nat /\ d = Challenge + CloseAt /\ CloseAt \in Nat /\ f \in Nat
      BY StoreAssumption DEF Resolutions
    <3>2. snapshot = [Published EXCEPT !.revision = f, !.state = "CHALLENGE", !.at = CloseAt,
                        !.resolution = r, !.start = CloseAt, !.until = d]
      BY <2>2
    <3> HIDE DEF r, d, f
    <3>3. /\ snapshot \in Snapshots /\ snapshot.state = "CHALLENGE" /\ snapshot.at = CloseAt
          /\ snapshot.revision = f /\ snapshot.resolution = r /\ snapshot.until = d
          /\ snapshot.disputes = {} /\ snapshot.reviews = u
          /\ snapshot.pausedFrom = None /\ snapshot.pausedAt = None
      BY <2>0, <3>1, <3>2 DEF Snapshots, States, Optional
    <3>4. Pending(snapshot) = {} /\ Material(snapshot) = {}
      BY <3>3 DEF Pending, Material
    <3> QED  BY <1>1, <3>1, <3>3, <3>4, StoreAssumption
             DEF Ruled, Eff, Early, Challenged, Contested
  <2> QED  BY <2>1, <2>2 DEF SchedulerInit, StoreInit, Records
<1>3. Types
  <2>1. Idle \in Work
    BY IdleTyped
  <2>2. job \in Jobs
    BY DEF SchedulerInit, StoreInit, Jobs, Optional
  <2> QED  BY <1>2, <2>1, <2>2, StoreAssumption DEF SchedulerInit, StoreInit, Types, Optional, Leases
<1>4. InHand
  <2>1. Idle.phase = "ready"
    BY DEF Idle
  <2> QED  BY <2>1, IdleTyped, StoreAssumption, SchedulerAssumption
           DEF SchedulerInit, StoreInit, InHand, Ready
<1>5. Receipts /\ Owing /\ FiledDisputesStand
  BY DEF SchedulerInit, StoreInit, Receipts, Owing, FiledDisputesStand
<1>6. Asking
  BY <1>2 DEF SchedulerInit, StoreInit, Asking, Holds, Idle, Waiting
<1>7. snapshot.at <= clock
  BY <1>2 DEF SchedulerInit, StoreInit
<1> QED  BY <1>2, <1>3, <1>4, <1>5, <1>6, <1>7 DEF IInv

LEMMA StepKeeps == IInv /\ [Next]_vars => IInv'
<1> SUFFICES ASSUME IInv, [Next]_vars PROVE IInv'
  OBVIOUS
<1>1. ASSUME NEW p \in Passes, Pass(p)
      PROVE  IInv'
  BY <1>1, StartKeeps, ClaimKeeps, ReadBackKeeps, LoadKeeps, AskKeeps, AnswerKeeps,
     OutageKeeps, RefusedKeeps, DeferKeeps, CommitKeeps, ReloadKeeps, PauseKeeps,
     RecordKeeps, ReleaseKeeps, DrainKeeps, DeliverKeeps, EndKeeps
     DEF Pass
<1>2. ASSUME Writers, UNCHANGED <<pass, leases, delivered>>
      PROVE  IInv'
  BY <1>2, TickKeeps, ReceiveKeeps, FileKeeps, DropKeeps, AdjudicateKeeps DEF Writers
<1>3. CASE UNCHANGED vars
  BY <1>3 DEF vars, store, IInv, Types, InHand, Receipts, Owing, Asking, Holds,
              FiledDisputesStand
<1> QED  BY <1>1, <1>2, <1>3 DEF Next

\* IInv is an invariant of the system.
THEOREM Invariant == Spec => []IInv
BY InitHolds, StepKeeps, PTL DEF Spec

\* A user who was told that a dispute is filed finds it in the record for as
\* long as the proposal it disputes stands (submit_dispute in writes.rs).
THEOREM DisputesStand == Spec => []FiledDisputesStand
<1>1. IInv => FiledDisputesStand
  BY DEF IInv
<1> QED  BY <1>1, Invariant, PTL

\* However many passes drain the outbox, settlement and notices go out at most
\* once, and only for a final result (process_outbox).
THEOREM EffectsOnce == Spec => []DeliveredOnce
<1>1. ASSUME IInv PROVE DeliveredOnce
  <2>1. ASSUME NEW e \in Effects, delivered[e] = 1
        PROVE  snapshot.state = "FINALIZED"
    BY <1>1, <2>1 DEF IInv, Owing
  <2> QED  BY <1>1, <2>1 DEF IInv, Owing, DeliveredOnce
<1> QED  BY <1>1, Invariant, PTL

\* Types, and: what an outage pauses, recover_job can pick up again.
THEOREM Recovery == Spec => []PausesRecoverable
<1>1. ASSUME IInv PROVE PausesRecoverable
  <2>1. TypeOK
    <3>1. /\ clock \in 0..MaxTime /\ snapshot.revision \in Nat /\ snapshot.at \in Nat
          /\ snapshot.at <= clock /\ snapshot.disputes \subseteq Keys
      BY <1>1 DEF IInv, Types, Snapshots
    <3>2. /\ job.token \in Passes \cup {None} /\ job.until \in Nat
          /\ job.retry \in Nat /\ job.failures \in Nat
      BY <1>1 DEF IInv, Types, Jobs, Optional
    <3>3. outbox \in [Effects -> Statuses \cup {None}]
      BY <1>1 DEF IInv, Types, Optional
    <3>4. ASSUME NEW p \in Passes
          PROVE  /\ pass[p].phase \in Phases /\ pass[p].left \in 0..MaxTransitions
                 /\ pass[p].now <= clock
      BY <1>1, PassTyped, SchedulerAssumption DEF Kept
    <3>5. ASSUME NEW i \in Tasks, leases[i] # None
          PROVE  leases[i].token \in Passes
      BY <1>1, <3>5 DEF IInv, Types, Leases, Optional
    <3> QED  BY <3>1, <3>2, <3>3, <3>4, <3>5, StoreAssumption DEF TypeOK
  <2>2. ASSUME snapshot.state = "PAUSED"
        PROVE  \/ snapshot.pausedFrom = "RESOLVING"
               \/ snapshot.pausedFrom = "DISPUTED" /\ Pending(snapshot) # {}
    BY <1>1, <2>2 DEF IInv, Asking, Askable, Eff
  <2> QED  BY <2>1, <2>2 DEF PausesRecoverable
<1> QED  BY <1>1, Invariant, PTL

\* A job's lease passes to another only when it has run out, and ends before
\* that only by its holder's hand (the claim and release of run_due_jobs).
THEOREM LeaseHeld == Spec => NoLeaseStolen
<1> DEFINE Stays(p) == job'.token = None /\ pass'[p] # pass[p]
<1>1. ASSUME IInv, [Next]_vars, NEW p \in Passes, Holds(p), job.until > clock, job'.token # p
      PROVE  Stays(p)
  <2>1. job' # job
    BY <1>1 DEF Holds
  <2>2. PICK q \in Passes : Claim(q) \/ Release(q) \/ Record(q) \/ \E at \in 0..MaxTime : Defer(q, at)
    <3>1. CASE Next
      BY <2>1, <3>1
         DEF Next, Pass, Writers, Start, ReadBack, Load, Ask, Answer, Outage, Refused, Commit,
             Reload, PauseForProviderOutage, Drain, Deliver, End, Crash, Tick, ReceiveDispute,
             FileDispute, DropDispute, Adjudicate, store
    <3>2. CASE UNCHANGED vars
      BY <2>1, <3>2 DEF vars, store
    <3> QED  BY <1>1, <3>1, <3>2
  <2>3. Kept(p) /\ Kept(q)
    BY <1>1, PassTyped
  <2>4. CASE Claim(q)
    <3>1. job.until <= pass[q].now
      BY <2>1, <2>4 DEF Claim, Claimed
    <3> QED  BY <1>1, <2>3, <3>1 DEF Kept, Jobs
  <2>5. CASE Release(q)
    <3>1. Holds(q) /\ job'.token = None
      BY <2>1, <2>3, <2>5 DEF Release, Freed, Kept, Jobs
    <3>2. p = q
      BY <1>1, <3>1 DEF Holds
    <3>3. pass[p].phase = "release" /\ pass'[p].phase = "drain"
      BY <2>3, <2>5, <3>2 DEF Release, At, Stop, Kept, Idle
    <3> QED  BY <3>1, <3>3
  <2>6. CASE Record(q)
    BY <1>1, <2>3, <2>6 DEF Record, Kept, Jobs, Holds
  <2>7. CASE \E at \in 0..MaxTime : Defer(q, at)
    BY <1>1, <2>3, <2>7 DEF Defer, Kept, Jobs, Holds
  <2> QED  BY <2>2, <2>4, <2>5, <2>6, <2>7
<1>2. IInv /\ [Next]_vars =>
        [\A p \in Passes : Holds(p) /\ job.until > clock /\ job'.token # p => Stays(p)]_vars
  BY <1>1
<1> QED  BY <1>2, Invariant, PTL DEF Spec, NoLeaseStolen

-----------------------------------------------------------------------------
(***************************************************************************)
(* The stored record steps as the engine                                   *)
(***************************************************************************)
\* All but the state, its time and the exposure.
Same(s, t) ==
  /\ t.resolution = s.resolution /\ t.start = s.start /\ t.until = s.until
  /\ t.disputes = s.disputes /\ t.reviews = s.reviews
  /\ t.pausedFrom = s.pausedFrom /\ t.pausedAt = s.pausedAt

\* The exposure a commit at now leaves behind.
Exposed(s, now) == IF s.state \in Contested THEN s.exposed + (now - s.at)
                   ELSE IF s.state = "PAUSED" THEN s.exposed ELSE 0

\* A field that is set to what it was.
LEMMA SameTrigger ==
  ASSUME NEW o, NEW a, NEW h,
         h = [early |-> FALSE, outcome |-> o, at |-> a, trigger |-> None]
  PROVE  [h EXCEPT !.trigger = None] = h
<1> DEFINE R == [early : {FALSE}, outcome : {o}, at : {a}, trigger : {None}]
<1>1. h \in R
  OBVIOUS
<1>2. [h EXCEPT !.trigger = None] \in R
  OBVIOUS
<1> QED  BY <1>1, <1>2

LEMMA EngineStep ==
  ASSUME snapshot \in Snapshots, Ruled(snapshot), NEW c \in Commands,
         NEW now \in Nat, now <= MaxTime, Legal(snapshot, c, now),
         snapshot' = Applied(snapshot, c, now)
  PROVE  L!Next
<1> DEFINE s == snapshot
           b == Base(s, now)
<1>a. Written(s, c, now)
  BY AppliedAs
<1>b. /\ b \in Snapshots /\ b.at = now /\ b.exposed = Exposed(s, now)
      /\ b.state = s.state /\ b.resolution = s.resolution
      /\ b.start = s.start /\ b.until = s.until
      /\ b.disputes = s.disputes /\ b.reviews = s.reviews
      /\ b.pausedFrom = s.pausedFrom /\ b.pausedAt = s.pausedAt
  BY BaseTyped DEF Exposed
<1>n. now \in L!Times /\ now >= s.at
  BY StoreAssumption, LegalWhen DEF L!Times
<1>s. /\ s.state \in States /\ s.at \in Nat
      /\ s.pausedFrom \in Optional(Pausable)
  BY DEF Snapshots
<1>1. CASE c.kind = "Lock"
  <2>1. s.state = "OPEN" /\ now >= CloseAt
    BY <1>1, LegalWhen
  <2>2. snapshot' = [b EXCEPT !.state = "LOCKED"]
    BY <1>a, <1>1 DEF Written
  <2> HIDE DEF b
  <2>3. /\ snapshot'.state = "LOCKED" /\ snapshot'.at = now
        /\ snapshot'.exposed = Exposed(s, now) /\ Same(s, snapshot')
    BY <1>b, <2>2 DEF Snapshots, Same
  <2>4. L!Commit({"OPEN"}, now, "LOCKED")
    BY <1>n, <2>1, <2>3 DEF L!Commit, L!Contested, Exposed, Contested
  <2>5. L!Lock(now)
    BY <2>1, <2>3, <2>4 DEF L!Lock, L!publication, L!early, L!challenge, L!objections,
       L!pause, Same
  <2> QED  BY <1>n, <2>5 DEF L!Next
<1>2. CASE c.kind = "BeginResolution"
  <2>1. s.state = "LOCKED" /\ now >= L!NotBefore
    <3>1. s.state = "LOCKED" /\ CloseAt <= s.at
      BY <1>2, LegalWhen DEF Ruled, Eff
    <3> QED  BY <1>n, <1>s, <3>1, StoreAssumption DEF L!NotBefore
  <2>2. snapshot' = [b EXCEPT !.state = "RESOLVING"]
    BY <1>a, <1>2 DEF Written
  <2> HIDE DEF b
  <2>3. /\ snapshot'.state = "RESOLVING" /\ snapshot'.at = now
        /\ snapshot'.exposed = Exposed(s, now) /\ Same(s, snapshot')
    BY <1>b, <2>2 DEF Snapshots, Same
  <2>4. L!Commit({"LOCKED"}, now, "RESOLVING")
    BY <1>n, <2>1, <2>3 DEF L!Commit, L!Contested, Exposed, Contested
  <2>5. L!BeginResolution(now)
    BY <2>1, <2>3, <2>4 DEF L!BeginResolution, L!publication, L!early, L!challenge, L!objections,
       L!pause, Same
  <2> QED  BY <1>n, <2>5 DEF L!Next
<1>3. CASE c.kind = "RetainProposal"
  <2>1. s.state = "DISPUTED" /\ L!Pending = {} /\ L!Material = {}
    BY <1>3, LegalWhen DEF L!Pending, L!Material, Pending, Material
  <2>2. snapshot' = [b EXCEPT !.state = "CHALLENGE"]
    BY <1>a, <1>3 DEF Written
  <2> HIDE DEF b
  <2>3. /\ snapshot'.state = "CHALLENGE" /\ snapshot'.at = now
        /\ snapshot'.exposed = Exposed(s, now) /\ Same(s, snapshot')
    BY <1>b, <2>2 DEF Snapshots, Same
  <2>4. L!Commit({"DISPUTED"}, now, "CHALLENGE")
    BY <1>n, <2>1, <2>3 DEF L!Commit, L!Contested, Exposed, Contested
  <2>5. L!RetainProposal(now)
    BY <2>1, <2>3, <2>4 DEF L!RetainProposal, L!publication, L!early, L!challenge, L!objections,
       L!pause, Same
  <2> QED  BY <1>n, <2>5 DEF L!Next
<1>4. CASE c.kind = "Escalate"
  <2>1. s.state = "DISPUTED" /\ L!Pending = {} /\ L!Material # {}
    BY <1>4, LegalWhen DEF L!Pending, L!Material, Pending, Material
  <2>2. snapshot' = [b EXCEPT !.state = "ESCALATED"]
    BY <1>a, <1>4 DEF Written
  <2> HIDE DEF b
  <2>3. /\ snapshot'.state = "ESCALATED" /\ snapshot'.at = now
        /\ snapshot'.exposed = Exposed(s, now) /\ Same(s, snapshot')
    BY <1>b, <2>2 DEF Snapshots, Same
  <2>4. L!Commit({"DISPUTED"}, now, "ESCALATED")
    BY <1>n, <2>1, <2>3 DEF L!Commit, L!Contested, Exposed, Contested
  <2>5. L!Escalate(now)
    BY <2>1, <2>3, <2>4 DEF L!Escalate, L!publication, L!early, L!challenge, L!objections,
       L!pause, Same
  <2> QED  BY <1>n, <2>5 DEF L!Next
<1>5. CASE c.kind = "Finalize"
  <2>1. s.state = "CHALLENGE" /\ now >= s.until /\ s.resolution # None
    BY <1>5, LegalWhen DEF Ruled, Eff, Early
  <2>2. L!Pending = {} /\ L!Material = {}
    BY <2>1 DEF L!Pending, L!Material, Pending, Material, Ruled, Eff
  <2>3. snapshot' = [b EXCEPT !.state = "FINALIZED"]
    BY <1>a, <1>5 DEF Written
  <2> HIDE DEF b
  <2>4. /\ snapshot'.state = "FINALIZED" /\ snapshot'.at = now
        /\ snapshot'.exposed = Exposed(s, now) /\ Same(s, snapshot')
    BY <1>b, <2>3 DEF Snapshots, Same
  <2>5. L!Commit({"CHALLENGE"}, now, "FINALIZED")
    BY <1>n, <2>1, <2>4 DEF L!Commit, L!Contested, Exposed, Contested
  <2>6. L!Finalize(now)
    BY <2>1, <2>2, <2>4, <2>5 DEF L!Finalize, L!WindowEnded, L!publication, L!early,
       L!challenge, L!objections, L!pause, Same
  <2> QED  BY <1>n, <2>6 DEF L!Next
<1>6. CASE c.kind = "ProposeResolution"
  <2> DEFINE r == Proposal(s, c, now)
  <2>r. r # None /\ r.outcome = c.outcome /\ r.at = now /\ c.outcome \in Outcomes
    <3>1. c.outcome \in Outcomes
      BY <1>6 DEF Commands, Held, Plain
    <3>2. r \in Resolutions
      BY <3>1 DEF Proposal, Resolutions, Snapshots
    <3> QED  BY <3>1, <3>2, StoreAssumption DEF Proposal
  <2>1. s.state = "RESOLVING" /\ now >= CloseAt
    <3>1. s.state = "RESOLVING" /\ CloseAt <= s.at
      BY <1>6, LegalWhen DEF Ruled, Eff
    <3> QED  BY <1>n, <1>s, <3>1, StoreAssumption
  <2>2. snapshot' = [b EXCEPT !.state = "PROPOSED", !.resolution = r]
    BY <1>a, <1>6 DEF Written
  <2> HIDE DEF b, r
  <2>3. /\ snapshot'.state = "PROPOSED" /\ snapshot'.at = now
        /\ snapshot'.exposed = Exposed(s, now) /\ snapshot'.resolution = r
        /\ snapshot'.start = s.start /\ snapshot'.until = s.until
        /\ snapshot'.disputes = s.disputes /\ snapshot'.reviews = s.reviews
        /\ snapshot'.pausedFrom = s.pausedFrom /\ snapshot'.pausedAt = s.pausedAt
    BY <1>b, <2>2 DEF Snapshots
  <2>4. L!Commit({"RESOLVING"}, now, "PROPOSED")
    BY <1>n, <2>1, <2>3 DEF L!Commit, L!Contested, Exposed, Contested
  <2>5. L!ProposeResolution(now, c.outcome)
    BY <2>1, <2>3, <2>4, <2>r DEF L!ProposeResolution, L!publication, L!early,
       L!challenge, L!objections, L!pause
  <2> QED  BY <1>n, <2>r, <2>5 DEF L!Next
<1>7. CASE c.kind = "BeginChallenge"
  <2> DEFINE u == now + Challenge
  <2>r. u \in Nat /\ u # None /\ u <= 2 * MaxTime + Challenge
    BY StoreAssumption
  <2>1. s.state = "PROPOSED"
    BY <1>7, LegalWhen
  <2>2. snapshot' = [b EXCEPT !.state = "CHALLENGE", !.start = now, !.until = u]
    BY <1>a, <1>7 DEF Written
  <2>u. u = now + Challenge
    OBVIOUS
  <2> HIDE DEF b, u
  <2>3. /\ snapshot'.state = "CHALLENGE" /\ snapshot'.at = now
        /\ snapshot'.exposed = Exposed(s, now) /\ snapshot'.resolution = s.resolution
        /\ snapshot'.start = now /\ snapshot'.until = u
        /\ snapshot'.disputes = s.disputes /\ snapshot'.reviews = s.reviews
        /\ snapshot'.pausedFrom = s.pausedFrom /\ snapshot'.pausedAt = s.pausedAt
    BY <1>b, <2>2 DEF Snapshots
  <2>4. L!Commit({"PROPOSED"}, now, "CHALLENGE")
    BY <1>n, <2>1, <2>3 DEF L!Commit, L!Contested, Exposed, Contested
  <2>5. L!BeginChallenge(now, Challenge)
    BY <2>1, <2>3, <2>4, <2>r, <2>u DEF L!BeginChallenge, L!publication, L!early,
       L!objections, L!pause
  <2> QED  BY <1>n, <2>5 DEF L!Next
<1>8. CASE c.kind = "SubmitDispute"
  <2> DEFINE d == s.disputes \cup {c.key}
  <2>1. /\ s.state \in {"CHALLENGE", "DISPUTED"} /\ now < s.until /\ c.key \in Keys
        /\ c.key \notin s.disputes /\ Cardinality(s.disputes) < MaxDisputes
    BY <1>8, LegalWhen DEF Commands, Held, Plain
  <2> DEFINE m == [early |-> FALSE, outcome |-> s.resolution.outcome,
                   at |-> s.resolution.at, trigger |-> None]
  <2>r. s.resolution # None
    BY <2>1 DEF Ruled, Eff, Early
  <2>h. L!FullHash(m) = L!BaseHash(m)
    <3>1. L!FullHash(m) = m
      BY DEF L!FullHash
    <3>2. [m EXCEPT !.trigger = None] = m
      BY SameTrigger
    <3> QED  BY <3>1, <3>2 DEF L!BaseHash
  <2>2. snapshot' = [b EXCEPT !.state = "DISPUTED", !.disputes = d]
    BY <1>a, <1>b, <1>8 DEF Written
  <2>d. d = s.disputes \cup {c.key}
    OBVIOUS
  <2> HIDE DEF b, d
  <2>3. /\ snapshot'.state = "DISPUTED" /\ snapshot'.at = now
        /\ snapshot'.exposed = Exposed(s, now) /\ snapshot'.resolution = s.resolution
        /\ snapshot'.start = s.start /\ snapshot'.until = s.until
        /\ snapshot'.disputes = d /\ snapshot'.reviews = s.reviews
        /\ snapshot'.pausedFrom = s.pausedFrom /\ snapshot'.pausedAt = s.pausedAt
    BY <1>b, <2>2 DEF Snapshots
  <2>4. L!Commit({"CHALLENGE", "DISPUTED"}, now, "DISPUTED")
    BY <1>n, <2>1, <2>3 DEF L!Commit, L!Contested, Exposed, Contested
  <2>k. UNCHANGED <<L!publication, L!early, IF s.resolution = None THEN None ELSE m,
                    L!challenge, s.reviews, L!pause,
                    IF s.state # "FINALIZED" THEN None ELSE m>>
    BY <2>1, <2>3 DEF L!publication, L!early, L!challenge, L!pause
  <2>g. L!FullHash(IF s.resolution = None THEN None ELSE m)
          = L!BaseHash(IF s.resolution = None THEN None ELSE m)
    BY <2>h, <2>r
  <2>c. L!Cardinality(s.disputes) = Cardinality(s.disputes)
    BY DEF L!Cardinality, Cardinality
  <2>5. L!SubmitDispute(now, c.key)
    BY <2>1, <2>3, <2>4, <2>d, <2>g, <2>k, <2>c DEF L!SubmitDispute
  <2> QED  BY <1>n, <2>1, <2>5 DEF L!Next
<1>9. CASE c.kind = "ReviewDispute"
  <2> DEFINE v == [s.reviews EXCEPT ![c.key] = c.disposition]
  <2>1. /\ s.state = "DISPUTED" /\ c.key \in L!Pending /\ c.key \in Keys
        /\ c.disposition \in L!Dispositions
    BY <1>9, LegalWhen DEF Commands, Held, Plain, L!Pending, Pending, Dispositions, L!Dispositions
  <2>2. snapshot' = [b EXCEPT !.reviews = v]
    BY <1>a, <1>b, <1>9 DEF Written
  <2>v. v = [s.reviews EXCEPT ![c.key] = c.disposition]
    OBVIOUS
  <2> HIDE DEF b, v
  <2>3. /\ snapshot'.state = "DISPUTED" /\ snapshot'.at = now
        /\ snapshot'.exposed = Exposed(s, now) /\ snapshot'.resolution = s.resolution
        /\ snapshot'.start = s.start /\ snapshot'.until = s.until
        /\ snapshot'.disputes = s.disputes /\ snapshot'.reviews = v
        /\ snapshot'.pausedFrom = s.pausedFrom /\ snapshot'.pausedAt = s.pausedAt
    BY <1>b, <2>1, <2>2 DEF Snapshots
  <2>4. L!Commit({"DISPUTED"}, now, "DISPUTED")
    BY <1>n, <2>1, <2>3 DEF L!Commit, L!Contested, Exposed, Contested
  <2>5. L!ReviewDispute(now, c.key, c.disposition)
    BY <2>1, <2>3, <2>4, <2>v DEF L!ReviewDispute, L!publication, L!early, L!challenge, L!pause
  <2> QED  BY <1>n, <2>1, <2>5 DEF L!Next
<1>10. CASE c.kind = "AdjudicateResolution"
  <2> DEFINE r == Proposal(s, c, now)
             v == Unreviewed
  <2>r. r # None /\ r.outcome = c.outcome /\ r.at = now /\ c.outcome \in Outcomes
    <3>1. c.outcome \in Outcomes
      BY <1>10 DEF Commands, Held, Plain
    <3>2. r \in Resolutions
      BY <3>1 DEF Proposal, Resolutions, Snapshots
    <3> QED  BY <3>1, <3>2, StoreAssumption DEF Proposal
  <2>v. v = [k \in Keys |-> None]
    BY DEF Unreviewed
  <2>1. s.state = "ESCALATED" /\ now >= CloseAt /\ L!Pending = {}
    <3>1. s.state = "ESCALATED" /\ CloseAt <= s.at /\ Pending(s) = {}
      BY <1>10, LegalWhen DEF Ruled, Eff
    <3> QED  BY <1>n, <1>s, <3>1, StoreAssumption DEF L!Pending, Pending
  <2>2. snapshot' = [b EXCEPT !.state = "PROPOSED", !.resolution = r, !.start = None,
                              !.until = None, !.disputes = {}, !.reviews = v]
    BY <1>a, <1>10 DEF Written
  <2> HIDE DEF b, r, v
  <2>3. /\ snapshot'.state = "PROPOSED" /\ snapshot'.at = now
        /\ snapshot'.exposed = Exposed(s, now) /\ snapshot'.resolution = r
        /\ snapshot'.start = None /\ snapshot'.until = None
        /\ snapshot'.disputes = {} /\ snapshot'.reviews = v
        /\ snapshot'.pausedFrom = s.pausedFrom /\ snapshot'.pausedAt = s.pausedAt
    BY <1>b, <2>2 DEF Snapshots
  <2>4. L!Commit({"ESCALATED"}, now, "PROPOSED")
    BY <1>n, <2>1, <2>3 DEF L!Commit, L!Contested, Exposed, Contested
  <2>5. L!AdjudicateResolution(now, c.outcome)
    BY <2>1, <2>3, <2>4, <2>r, <2>v DEF L!AdjudicateResolution, L!publication, L!early, L!pause
  <2> QED  BY <1>n, <2>r, <2>5 DEF L!Next
<1>11. CASE c.kind = "Pause"
  <2>1. s.state \in Pausable /\ s.pausedFrom = None
    BY <1>11, LegalWhen DEF Ruled, Pausable
  <2>2. snapshot' = [b EXCEPT !.state = "PAUSED", !.pausedFrom = s.state, !.pausedAt = now]
    BY <1>a, <1>11 DEF Written
  <2>3. s.state # None
    BY <2>1, StoreAssumption DEF Pausable, States
  <2> HIDE DEF b
  <2>4. /\ snapshot'.state = "PAUSED" /\ snapshot'.at = now
        /\ snapshot'.exposed = Exposed(s, now) /\ snapshot'.resolution = s.resolution
        /\ snapshot'.start = s.start /\ snapshot'.until = s.until
        /\ snapshot'.disputes = s.disputes /\ snapshot'.reviews = s.reviews
        /\ snapshot'.pausedFrom = s.state /\ snapshot'.pausedAt = now
    BY <1>b, <2>2 DEF Snapshots
  <2>5. L!Commit(L!Pausable, now, "PAUSED")
    BY <1>n, <2>1, <2>4 DEF L!Commit, L!Contested, L!Pausable, Pausable, Exposed, Contested
  <2>6. L!PauseForProviderOutage(now, {"ai"}, {"ai"})
    BY <2>1, <2>3, <2>4, <2>5 DEF L!PauseForProviderOutage, L!publication, L!early,
       L!challenge, L!objections, Pausable
  <2> QED  BY <1>n, <2>6 DEF L!Next
<1>12. CASE c.kind = "Resume"
  <2> DEFINE u == IF s.until = None THEN None ELSE s.until + now - s.pausedAt
             v == s.pausedFrom
  <2>1. s.state = "PAUSED"
    BY <1>12, LegalWhen
  <2>5. v \in Pausable /\ v # None /\ s.pausedAt \in Nat /\ s.pausedAt <= s.at
    BY <1>s, <2>1 DEF Ruled, Snapshots, Optional
  <2>r. L!ExtendDeadline(now) <=> snapshot'.until = u
    <3>1. CASE s.until = None
      BY <3>1 DEF L!ExtendDeadline
    <3>2. CASE s.until # None
      <4>1. s.until \in Nat /\ s.until <= Challenge + s.pausedAt
        BY <2>1, <3>2 DEF Ruled, Optional, Snapshots
      <4>2. s.until + now - s.pausedAt <= 2 * MaxTime + Challenge
        BY <1>n, <1>s, <2>5, <4>1, StoreAssumption
      <4> QED  BY <3>2, <4>2 DEF L!ExtendDeadline
    <3> QED  BY <3>1, <3>2
  <2>2. snapshot' = [b EXCEPT !.state = v, !.pausedFrom = None, !.pausedAt = None, !.until = u]
    BY <1>a, <1>b, <1>12 DEF Written
  <2>u. u = None <=> s.until = None
    BY <2>5, StoreAssumption DEF Snapshots, Optional
  <2>v. v = s.pausedFrom /\ v # "FINALIZED"
    BY <2>5 DEF Pausable
  <2> HIDE DEF b, u, v
  <2>3. /\ snapshot'.state = v /\ snapshot'.at = now
        /\ snapshot'.exposed = Exposed(s, now) /\ snapshot'.resolution = s.resolution
        /\ snapshot'.start = s.start /\ snapshot'.until = u
        /\ snapshot'.disputes = s.disputes /\ snapshot'.reviews = s.reviews
        /\ snapshot'.pausedFrom = None /\ snapshot'.pausedAt = None
    BY <1>b, <2>2 DEF Snapshots
  <2>4. L!Commit({"PAUSED"}, now, s.pausedFrom)
    BY <1>n, <2>1, <2>3, <2>v DEF L!Commit, L!Contested, Exposed, Contested
  <2>6. L!ResumeAfterProviderRecovery(now, "ai")
    BY <2>1, <2>3, <2>4, <2>5, <2>r, <2>u, <2>v DEF L!ResumeAfterProviderRecovery, L!publication,
       L!early, L!objections
  <2> QED  BY <1>n, <2>6 DEF L!Next
<1> QED
  BY <1>1, <1>2, <1>3, <1>4, <1>5, <1>6, <1>7, <1>8, <1>9, <1>10, <1>11, <1>12
     DEF Commands, Held, Plain

\* Whatever commits, commits a command of the engine on the record itself.
LEMMA CommitsOnly ==
  ASSUME IInv, [Next]_vars, snapshot' # snapshot
  PROVE  \E c \in Commands, now \in Nat :
           now <= MaxTime /\ Legal(snapshot, c, now) /\ snapshot' = Applied(snapshot, c, now)
<1> DEFINE Is(c, now) == now <= MaxTime /\ Legal(snapshot, c, now)
                         /\ snapshot' = Applied(snapshot, c, now)
<1>0. clock <= MaxTime /\ clock \in Nat
  BY StoreAssumption DEF IInv, Types
<1>1. \/ \E p \in Passes : Commit(p) \/ PauseForProviderOutage(p)
      \/ \E k \in Keys : FileDispute(k)
      \/ \E o \in Outcomes, at \in 0..MaxTime : Adjudicate(o, at)
  <2>1. CASE Next
    BY <2>1
       DEF Next, Pass, Writers, Start, Claim, ReadBack, Load, Ask, Answer, Outage, Refused, Defer,
           Reload, Record, Release, Drain, Deliver, End, Crash, Tick, ReceiveDispute,
           DropDispute, store
  <2>2. CASE UNCHANGED vars
    BY <2>2 DEF vars, store
  <2> QED  BY <2>1, <2>2
<1>2. ASSUME NEW p \in Passes, Commit(p)
      PROVE  \E c \in Commands, now \in Nat : Is(c, now)
  <2> DEFINE q == pass[p]
  <2>1. Kept(p) /\ Ready(q, snapshot) /\ At(p, "commit")
    BY <1>2, PassTyped DEF IInv, InHand, Commit
  <2>2. Accepted(q.snap, q.cmd, q.now, p) /\ Batch(q.snap, q.cmd, q.now)
    BY <1>2 DEF Commit
  <2>3. q.snap = snapshot /\ q.cmd \in Commands
    BY <2>1, <2>2 DEF Accepted, Guard, AsLoaded, Ready, At, Commands
  <2>4. q.now \in Nat /\ q.now <= MaxTime
    BY <1>0, <2>1, StoreAssumption DEF Kept
  <2>5. Is(q.cmd, q.now)
    BY <2>2, <2>3, <2>4 DEF Accepted, Batch
  <2> HIDE DEF Is, q
  <2> QED  BY <2>3, <2>4, <2>5
<1>3. ASSUME NEW p \in Passes, PauseForProviderOutage(p)
      PROVE  \E c \in Commands, now \in Nat : Is(c, now)
  <2> DEFINE q == pass[p]
             d == [kind |-> "Pause"]
  <2>1. Kept(p) /\ Ready(q, snapshot) /\ At(p, "pausing")
    BY <1>3, PassTyped DEF IInv, InHand, PauseForProviderOutage
  <2>2. Accepted(q.snap, d, q.now, p) /\ Batch(q.snap, d, q.now)
    BY <1>3 DEF PauseForProviderOutage
  <2>3. q.snap = snapshot /\ d \in Commands
    BY <2>1, <2>2 DEF Accepted, Guard, AsLoaded, Ready, At, Commands
  <2>4. q.now \in Nat /\ q.now <= MaxTime
    BY <1>0, <2>1, StoreAssumption DEF Kept
  <2> HIDE DEF d
  <2>5. Is(d, q.now)
    BY <2>2, <2>3, <2>4 DEF Accepted, Batch
  <2> HIDE DEF Is, q
  <2> QED  BY <2>3, <2>4, <2>5
<1>4. ASSUME NEW k \in Keys, FileDispute(k)
      PROVE  \E c \in Commands, now \in Nat : Is(c, now)
  <2> DEFINE s == filing[k].snap
             n == filing[k].now
             d == [kind |-> "SubmitDispute", key |-> k]
  <2>1. /\ s \in Snapshots /\ AsLoaded(s, snapshot) /\ n \in Nat /\ n <= clock
    BY <1>4 DEF FileDispute, IInv, Types, InHand, Optional, Filings
  <2>2. Accepted(s, d, n, None) /\ Batch(s, d, n) /\ d \in Commands
    BY <1>4 DEF FileDispute, Commands
  <2> HIDE DEF s, n, d
  <2>3. s = snapshot /\ n <= MaxTime
    BY <1>0, <2>1, <2>2, StoreAssumption DEF Accepted, Guard, AsLoaded
  <2>4. Is(d, n)
    BY <2>2, <2>3 DEF Accepted, Batch
  <2> HIDE DEF Is
  <2> QED  BY <2>1, <2>2, <2>4
<1>5. ASSUME NEW o \in Outcomes, NEW at \in 0..MaxTime, Adjudicate(o, at)
      PROVE  \E c \in Commands, now \in Nat : Is(c, now)
  <2> DEFINE d == [kind |-> "AdjudicateResolution", outcome |-> o]
  <2>1. Legal(snapshot, d, at) /\ snapshot' = Applied(snapshot, d, at) /\ d \in Commands
    BY <1>5 DEF Adjudicate, Accepted, Batch, Commands
  <2>2. at \in Nat /\ at <= MaxTime
    BY StoreAssumption
  <2> HIDE DEF d
  <2> QED  BY <2>1, <2>2
<1> QED  BY <1>1, <1>2, <1>3, <1>4, <1>5

\* However the passes, the users and the operator interleave, the stored record
\* only ever takes a step the engine of packages/domain-rs allows from the
\* record as it stands: the guard row of mutate loses no update.
THEOREM RecordRefinesEngine == Spec => StepsAreLifecycle
<1>1. ASSUME IInv, [Next]_vars
      PROVE  [L!Next]_(L!vars)
  <2>1. CASE snapshot' = snapshot
    BY <2>1 DEF L!vars, L!publication, L!early, L!challenge, L!objections, L!pause
  <2>2. CASE snapshot' # snapshot
    <3>1. PICK c \in Commands, now \in Nat :
            now <= MaxTime /\ Legal(snapshot, c, now) /\ snapshot' = Applied(snapshot, c, now)
      BY <1>1, <2>2, CommitsOnly
    <3>2. snapshot \in Snapshots /\ Ruled(snapshot)
      BY <1>1 DEF IInv, Types
    <3> QED  BY <3>1, <3>2, EngineStep
  <2> QED  BY <2>1, <2>2
<1> QED  BY <1>1, Invariant, PTL DEF Spec, StepsAreLifecycle

=============================================================================
