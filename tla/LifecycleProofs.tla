--------------------------- MODULE LifecycleProofs ---------------------------
(***************************************************************************)
(* Proofs about Lifecycle for every set of specifications, outcomes,       *)
(* disputes and providers, and every time bound; and, at the end, about    *)
(* Timing and Translations.                                                *)
(*                                                                         *)
(* The rules of the snapshot, the account of the challenge window and the  *)
(* bound at finalization are inductive together: finalize is safe because  *)
(* the deadline accounts for the exposure (WindowPreserved), which needs   *)
(* the deadline to exist exactly while contested (ChallengeRules) and a    *)
(* pause to remember when it began (PauseRules).                           *)
(***************************************************************************)
EXTENDS Lifecycle, Timing, Translations, FiniteSetTheorems, TLAPS

\* The inductive invariant.
IInv == TypeOK /\ SnapshotRules /\ WindowPreserved /\ FullyExposed

\* A new draft satisfies it.
LEMMA InitIInv == Init => IInv
  <1> SUFFICES ASSUME Init PROVE IInv
    OBVIOUS
  <1> USE LifecycleAssumption DEF Init
  <1>1. TypeOK
    BY DEF TypeOK, Optional, States
  <1>2. SnapshotRules
    <2>1. IsFiniteSet(disputes) /\ Cardinality(disputes) <= MaxDisputes
      BY FS_EmptySet
    <2>2. DisputeRules
      BY <2>1 DEF DisputeRules, Effective, Challenged, Contested, Terminal,
                  Pending, Material
    <2>3. PauseRules /\ PublicationRules /\ ResolutionRules
      BY <1>1 DEF TypeOK, PauseRules, PublicationRules, ResolutionRules,
         Effective, Unresolved, PreLock
    <2>4. EarlyRules /\ ChallengeRules /\ FinalRules
      BY DEF EarlyRules, ChallengeRules, FinalRules, Effective,
         Challenged, Contested, Terminal
    <2> QED
      BY <2>2, <2>3, <2>4 DEF SnapshotRules
  <1>3. WindowPreserved /\ FullyExposed
    BY DEF WindowPreserved, FullyExposed, Terminal
  <1> QED
    BY <1>1, <1>2, <1>3 DEF IInv

\* Every command of the engine preserves it.
LEMMA NextIInv == IInv /\ [Next]_vars => IInv'
  <1> SUFFICES ASSUME IInv, [Next]_vars PROVE IInv'
    OBVIOUS
  <1> USE LifecycleAssumption
      DEF IInv, Commit, Times, States, Pausable, Dispositions, Resolutions,
          Optional, Effective, Contested, Terminal, Challenged, Unresolved,
          PreLock, NotBefore, Pending, Material,
          publication, early, challenge, objections, pause
  <1>1. ASSUME NEW t \in Times, NEW s \in Specs,
               EditSpecification(t, s)
        PROVE  IInv'
    <2> USE <1>1 DEF EditSpecification
    <2>1. TypeOK'
      BY DEF TypeOK, SnapshotRules, PauseRules, ChallengeRules
    <2>2. SnapshotRules'
      BY DEF TypeOK, SnapshotRules, PauseRules, PublicationRules, ResolutionRules,
             EarlyRules, ChallengeRules, DisputeRules, FinalRules
    <2>3. WindowPreserved' /\ FullyExposed'
      BY DEF TypeOK, SnapshotRules, PauseRules, ChallengeRules,
             WindowPreserved, FullyExposed
    <2> QED
      BY <2>1, <2>2, <2>3
  <1>2. ASSUME NEW t \in Times,
               BeginValidation(t)
        PROVE  IInv'
    <2> USE <1>2 DEF BeginValidation
    <2>1. TypeOK'
      BY DEF TypeOK, SnapshotRules, PauseRules, ChallengeRules
    <2>2. SnapshotRules'
      BY DEF TypeOK, SnapshotRules, PauseRules, PublicationRules, ResolutionRules,
             EarlyRules, ChallengeRules, DisputeRules, FinalRules
    <2>3. WindowPreserved' /\ FullyExposed'
      BY DEF TypeOK, SnapshotRules, PauseRules, ChallengeRules,
             WindowPreserved, FullyExposed
    <2> QED
      BY <2>1, <2>2, <2>3
  <1>3. ASSUME NEW t \in Times,
               RejectValidation(t)
        PROVE  IInv'
    <2> USE <1>3 DEF RejectValidation
    <2>1. TypeOK'
      BY DEF TypeOK, SnapshotRules, PauseRules, ChallengeRules
    <2>2. SnapshotRules'
      BY DEF TypeOK, SnapshotRules, PauseRules, PublicationRules, ResolutionRules,
             EarlyRules, ChallengeRules, DisputeRules, FinalRules
    <2>3. WindowPreserved' /\ FullyExposed'
      BY DEF TypeOK, SnapshotRules, PauseRules, ChallengeRules,
             WindowPreserved, FullyExposed
    <2> QED
      BY <2>1, <2>2, <2>3
  <1>4. ASSUME NEW t \in Times,
               Publish(t)
        PROVE  IInv'
    <2> USE <1>4 DEF Publish
    <2>1. TypeOK'
      BY DEF TypeOK, SnapshotRules, PauseRules, ChallengeRules
    <2>2. SnapshotRules'
      BY DEF TypeOK, SnapshotRules, PauseRules, PublicationRules, ResolutionRules,
             EarlyRules, ChallengeRules, DisputeRules, FinalRules
    <2>3. WindowPreserved' /\ FullyExposed'
      BY DEF TypeOK, SnapshotRules, PauseRules, ChallengeRules,
             WindowPreserved, FullyExposed
    <2> QED
      BY <2>1, <2>2, <2>3
  <1>5. ASSUME NEW t \in Times,
               SubmitForecast(t)
        PROVE  IInv'
    <2> USE <1>5 DEF SubmitForecast
    <2>1. TypeOK'
      BY DEF TypeOK, SnapshotRules, PauseRules, ChallengeRules
    <2>2. SnapshotRules'
      BY DEF TypeOK, SnapshotRules, PauseRules, PublicationRules, ResolutionRules,
             EarlyRules, ChallengeRules, DisputeRules, FinalRules
    <2>3. WindowPreserved' /\ FullyExposed'
      BY DEF TypeOK, SnapshotRules, PauseRules, ChallengeRules,
             WindowPreserved, FullyExposed
    <2> QED
      BY <2>1, <2>2, <2>3
  <1>6. ASSUME NEW t \in Times,
               Lock(t)
        PROVE  IInv'
    <2> USE <1>6 DEF Lock
    <2>1. TypeOK'
      BY DEF TypeOK, SnapshotRules, PauseRules, ChallengeRules
    <2>2. SnapshotRules'
      BY DEF TypeOK, SnapshotRules, PauseRules, PublicationRules, ResolutionRules,
             EarlyRules, ChallengeRules, DisputeRules, FinalRules
    <2>3. WindowPreserved' /\ FullyExposed'
      BY DEF TypeOK, SnapshotRules, PauseRules, ChallengeRules,
             WindowPreserved, FullyExposed
    <2> QED
      BY <2>1, <2>2, <2>3
  <1>7. ASSUME NEW t \in Times, NEW q \in Times,
               LockEarly(t, q)
        PROVE  IInv'
    <2> USE <1>7 DEF LockEarly
    <2>1. TypeOK'
      BY DEF TypeOK, SnapshotRules, PauseRules, ChallengeRules
    <2>2. SnapshotRules'
      BY DEF TypeOK, SnapshotRules, PauseRules, PublicationRules, ResolutionRules,
             EarlyRules, ChallengeRules, DisputeRules, FinalRules
    <2>3. WindowPreserved' /\ FullyExposed'
      BY DEF TypeOK, SnapshotRules, PauseRules, ChallengeRules,
             WindowPreserved, FullyExposed
    <2> QED
      BY <2>1, <2>2, <2>3
  <1>8. ASSUME NEW t \in Times,
               BeginResolution(t)
        PROVE  IInv'
    <2> USE <1>8 DEF BeginResolution
    <2>1. TypeOK'
      BY DEF TypeOK, SnapshotRules, PauseRules, ChallengeRules
    <2>2. SnapshotRules'
      BY DEF TypeOK, SnapshotRules, PauseRules, PublicationRules, ResolutionRules,
             EarlyRules, ChallengeRules, DisputeRules, FinalRules
    <2>3. WindowPreserved' /\ FullyExposed'
      BY DEF TypeOK, SnapshotRules, PauseRules, ChallengeRules,
             WindowPreserved, FullyExposed
    <2> QED
      BY <2>1, <2>2, <2>3
  <1>9. ASSUME NEW t \in Times, NEW o \in Outcomes,
               ProposeResolution(t, o)
        PROVE  IInv'
    <2> USE <1>9 DEF ProposeResolution
    <2>1. TypeOK'
      BY DEF TypeOK, SnapshotRules, PauseRules, ChallengeRules
    <2>2. SnapshotRules'
      <3>1. /\ resolution' # None /\ ~resolution'.early
            /\ resolution'.at = t
        OBVIOUS
      <3>2. PauseRules' /\ PublicationRules' /\ DisputeRules'
        BY DEF TypeOK, SnapshotRules, PauseRules, PublicationRules,
               DisputeRules
      <3>3. ResolutionRules' /\ EarlyRules'
        BY <3>1 DEF TypeOK, SnapshotRules, PauseRules, ResolutionRules,
                    EarlyRules
      <3>4. ChallengeRules' /\ FinalRules'
        BY <3>1 DEF TypeOK, SnapshotRules, PauseRules, ChallengeRules,
                    FinalRules
      <3> QED
        BY <3>2, <3>3, <3>4 DEF SnapshotRules
    <2>3. WindowPreserved' /\ FullyExposed'
      BY DEF TypeOK, SnapshotRules, PauseRules, ChallengeRules,
             WindowPreserved, FullyExposed
    <2> QED
      BY <2>1, <2>2, <2>3
  <1>10. ASSUME NEW t \in Times, NEW q \in Times,
               ProposeEarlyResolution(t, q)
        PROVE  IInv'
    <2> USE <1>10 DEF ProposeEarlyResolution
    <2>1. TypeOK'
      BY DEF TypeOK, SnapshotRules, PauseRules, ChallengeRules
    <2>2. SnapshotRules'
      BY DEF TypeOK, SnapshotRules, PauseRules, PublicationRules, ResolutionRules,
             EarlyRules, ChallengeRules, DisputeRules, FinalRules
    <2>3. WindowPreserved' /\ FullyExposed'
      BY DEF TypeOK, SnapshotRules, PauseRules, ChallengeRules,
             WindowPreserved, FullyExposed
    <2> QED
      BY <2>1, <2>2, <2>3
  <1>11. ASSUME NEW t \in Times, NEW n \in Durations,
               BeginChallenge(t, n)
        PROVE  IInv'
    <2> USE <1>11 DEF BeginChallenge
    <2>1. TypeOK'
      BY DEF TypeOK, SnapshotRules, PauseRules, ChallengeRules
    <2>2. SnapshotRules'
      BY DEF TypeOK, SnapshotRules, PauseRules, PublicationRules, ResolutionRules,
             EarlyRules, ChallengeRules, DisputeRules, FinalRules
    <2>3. WindowPreserved' /\ FullyExposed'
      BY DEF TypeOK, SnapshotRules, PauseRules, ChallengeRules,
             WindowPreserved, FullyExposed
    <2> QED
      BY <2>1, <2>2, <2>3
  <1>12. ASSUME NEW t \in Times, NEW d \in DisputeIds,
               SubmitDispute(t, d)
        PROVE  IInv'
    <2> USE <1>12 DEF SubmitDispute
    <2>1. TypeOK'
      BY DEF TypeOK, SnapshotRules, ChallengeRules
    <2>2. /\ IsFiniteSet(disputes')
          /\ Cardinality(disputes') = Cardinality(disputes) + 1
          /\ Cardinality(disputes) \in Nat
      BY FS_AddElement, FS_CardinalityType DEF SnapshotRules, DisputeRules
    <2>3. DisputeRules'
      BY <2>2 DEF TypeOK, SnapshotRules, PauseRules, DisputeRules
    <2>4. /\ PauseRules' /\ PublicationRules' /\ ResolutionRules'
          /\ EarlyRules' /\ ChallengeRules' /\ FinalRules'
      BY DEF TypeOK, SnapshotRules, PauseRules, PublicationRules,
             ResolutionRules, EarlyRules, ChallengeRules, FinalRules
    <2>5. WindowPreserved'
      <3>1. challengeUntil # None
        BY DEF SnapshotRules, PauseRules, ChallengeRules
      <3>2. challengeUntil + exposed = granted + updatedAt
        BY <3>1 DEF WindowPreserved
      <3>3. /\ challengeUntil \in Int /\ exposed \in Int /\ granted \in Int
            /\ updatedAt \in Int /\ t \in Int
        BY <3>1 DEF TypeOK
      <3>4. /\ exposed' = exposed + (t - updatedAt) /\ updatedAt' = t
            /\ challengeUntil' = challengeUntil /\ granted' = granted
            /\ state' = "DISPUTED"
        OBVIOUS
      <3>5. challengeUntil' + exposed' = granted' + updatedAt'
        BY <3>2, <3>3, <3>4
      <3> QED
        BY <3>4, <3>5 DEF WindowPreserved
    <2>6. FullyExposed'
      BY DEF FullyExposed
    <2> QED
      BY <2>1, <2>3, <2>4, <2>5, <2>6 DEF SnapshotRules
  <1>13. ASSUME NEW t \in Times, NEW d \in DisputeIds, NEW x \in Dispositions,
               ReviewDispute(t, d, x)
        PROVE  IInv'
    <2> USE <1>13 DEF ReviewDispute
    <2>1. TypeOK'
      BY DEF TypeOK, SnapshotRules, PauseRules, ChallengeRules
    <2>2. SnapshotRules'
      BY DEF TypeOK, SnapshotRules, PauseRules, PublicationRules, ResolutionRules,
             EarlyRules, ChallengeRules, DisputeRules, FinalRules
    <2>3. WindowPreserved' /\ FullyExposed'
      BY DEF TypeOK, SnapshotRules, PauseRules, ChallengeRules,
             WindowPreserved, FullyExposed
    <2> QED
      BY <2>1, <2>2, <2>3
  <1>14. ASSUME NEW t \in Times,
               RetainProposal(t)
        PROVE  IInv'
    <2> USE <1>14 DEF RetainProposal
    <2>1. TypeOK'
      BY DEF TypeOK, SnapshotRules, PauseRules, ChallengeRules
    <2>2. SnapshotRules'
      BY DEF TypeOK, SnapshotRules, PauseRules, PublicationRules, ResolutionRules,
             EarlyRules, ChallengeRules, DisputeRules, FinalRules
    <2>3. WindowPreserved' /\ FullyExposed'
      BY DEF TypeOK, SnapshotRules, PauseRules, ChallengeRules,
             WindowPreserved, FullyExposed
    <2> QED
      BY <2>1, <2>2, <2>3
  <1>15. ASSUME NEW t \in Times,
               Escalate(t)
        PROVE  IInv'
    <2> USE <1>15 DEF Escalate
    <2>1. TypeOK'
      BY DEF TypeOK, SnapshotRules, PauseRules, ChallengeRules
    <2>2. SnapshotRules'
      BY DEF TypeOK, SnapshotRules, PauseRules, PublicationRules, ResolutionRules,
             EarlyRules, ChallengeRules, DisputeRules, FinalRules
    <2>3. WindowPreserved' /\ FullyExposed'
      BY DEF TypeOK, SnapshotRules, PauseRules, ChallengeRules,
             WindowPreserved, FullyExposed
    <2> QED
      BY <2>1, <2>2, <2>3
  <1>16. ASSUME NEW t \in Times, NEW o \in Outcomes,
               AdjudicateResolution(t, o)
        PROVE  IInv'
    <2> USE <1>16 DEF AdjudicateResolution
    <2>1. TypeOK'
      BY DEF TypeOK, SnapshotRules, PauseRules, ChallengeRules
    <2>2. SnapshotRules'
      <3>1. /\ resolution' # None /\ ~resolution'.early
            /\ resolution'.at = t
        OBVIOUS
      <3>2. DisputeRules'
        BY FS_EmptySet DEF SnapshotRules, PauseRules, DisputeRules
      <3>3. PauseRules' /\ PublicationRules'
        BY DEF TypeOK, SnapshotRules, PauseRules, PublicationRules
      <3>4. ResolutionRules' /\ EarlyRules'
        BY <3>1 DEF TypeOK, SnapshotRules, PauseRules, ResolutionRules,
                    EarlyRules
      <3>5. ChallengeRules' /\ FinalRules'
        BY <3>1 DEF TypeOK, SnapshotRules, PauseRules, ChallengeRules,
                    FinalRules
      <3> QED
        BY <3>2, <3>3, <3>4, <3>5 DEF SnapshotRules
    <2>3. WindowPreserved' /\ FullyExposed'
      BY DEF TypeOK, SnapshotRules, PauseRules, ChallengeRules,
             WindowPreserved, FullyExposed
    <2> QED
      BY <2>1, <2>2, <2>3
  <1>17. ASSUME NEW t \in Times,
               Finalize(t)
        PROVE  IInv'
    <2> USE <1>17 DEF Finalize, WindowEnded
    <2>1. TypeOK'
      BY DEF TypeOK, SnapshotRules, PauseRules, ChallengeRules
    <2>2. SnapshotRules'
      BY DEF TypeOK, SnapshotRules, PauseRules, PublicationRules, ResolutionRules,
             EarlyRules, ChallengeRules, DisputeRules, FinalRules
    <2>3. WindowPreserved' /\ FullyExposed'
      BY DEF TypeOK, SnapshotRules, PauseRules, ChallengeRules,
             WindowPreserved, FullyExposed
    <2> QED
      BY <2>1, <2>2, <2>3
  <1>18. ASSUME NEW t \in Times,
               Archive(t)
        PROVE  IInv'
    <2> USE <1>18 DEF Archive
    <2>1. TypeOK'
      BY DEF TypeOK, SnapshotRules, PauseRules, ChallengeRules
    <2>2. SnapshotRules'
      BY DEF TypeOK, SnapshotRules, PauseRules, PublicationRules, ResolutionRules,
             EarlyRules, ChallengeRules, DisputeRules, FinalRules
    <2>3. WindowPreserved' /\ FullyExposed'
      BY DEF TypeOK, SnapshotRules, PauseRules, ChallengeRules,
             WindowPreserved, FullyExposed
    <2> QED
      BY <2>1, <2>2, <2>3
  <1>19. ASSUME NEW t \in Times, NEW p \in SUBSET Providers, NEW u \in SUBSET Providers,
               PauseForProviderOutage(t, p, u)
        PROVE  IInv'
    <2> USE <1>19 DEF PauseForProviderOutage
    <2>1. TypeOK'
      BY DEF TypeOK, SnapshotRules, PauseRules, ChallengeRules
    <2>2. SnapshotRules'
      BY DEF TypeOK, SnapshotRules, PauseRules, PublicationRules, ResolutionRules,
             EarlyRules, ChallengeRules, DisputeRules, FinalRules
    <2>3. FullyExposed'
      BY DEF FullyExposed
    <2>4. CASE challengeUntil = None
      BY <2>1, <2>2, <2>3, <2>4 DEF WindowPreserved
    <2>5. CASE challengeUntil # None
      <3>1. state \in Contested
        BY <2>5 DEF SnapshotRules, PauseRules, ChallengeRules
      <3>2. challengeUntil + exposed = granted + updatedAt
        BY <2>5, <3>1 DEF WindowPreserved
      <3>3. exposed' = exposed + (t - updatedAt)
        BY <3>1
      <3>4. WindowPreserved'
        BY <2>5, <3>2, <3>3 DEF TypeOK, WindowPreserved
      <3> QED
        BY <2>1, <2>2, <2>3, <3>4
    <2> QED
      BY <2>4, <2>5
  <1>20. ASSUME NEW t \in Times, NEW p \in Providers,
               ResumeAfterProviderRecovery(t, p)
        PROVE  IInv'
    <2> USE <1>20 DEF ResumeAfterProviderRecovery, ExtendDeadline
    <2>1. TypeOK'
      BY DEF TypeOK, SnapshotRules, PauseRules, ChallengeRules
    <2>2. SnapshotRules'
      BY DEF TypeOK, SnapshotRules, PauseRules, PublicationRules, ResolutionRules,
             EarlyRules, ChallengeRules, DisputeRules, FinalRules
    <2>3. FullyExposed'
      BY DEF TypeOK, SnapshotRules, PauseRules, FullyExposed
    <2>4. CASE challengeUntil = None
      BY <2>1, <2>2, <2>3, <2>4 DEF WindowPreserved
    <2>5. CASE challengeUntil # None
      <3>1. challengeUntil + exposed = granted + pausedAt
        BY <2>5 DEF WindowPreserved
      <3>2. WindowPreserved'
        BY <2>5, <3>1 DEF TypeOK, SnapshotRules, PauseRules, WindowPreserved
      <3> QED
        BY <2>1, <2>2, <2>3, <3>2
    <2> QED
      BY <2>4, <2>5
  <1>21. CASE UNCHANGED vars
    BY <1>21 DEF vars, TypeOK, SnapshotRules, PauseRules, PublicationRules,
       ResolutionRules, EarlyRules, ChallengeRules, DisputeRules, FinalRules,
       WindowPreserved, FullyExposed
  <1> QED
    BY <1>1, <1>2, <1>3, <1>4, <1>5, <1>6, <1>7, <1>8, <1>9, <1>10, <1>11, <1>12, <1>13, <1>14, <1>15, <1>16, <1>17, <1>18, <1>19, <1>20, <1>21 DEF Next

\* The invariant of the aggregate.
THEOREM Invariant == Spec => []IInv
  BY InitIInv, NextIInv, PTL DEF Spec

\* The re-validation of every committed snapshot never refuses a command that
\* passed the state table and the guards (commit_transition).
THEOREM SnapshotsValid == Spec => []WellFormed
  <1>1. IInv => WellFormed
    BY DEF IInv, WellFormed
  <1> QED
    BY <1>1, Invariant, PTL

\* A proposal is finalized only after it stood open to challenge for the whole
\* granted duration, however pauses, disputes and reviews interleave.
THEOREM FullExposure == Spec => []WindowHonoured
  <1>1. IInv => WindowHonoured
    BY DEF IInv, WindowHonoured
  <1> QED
    BY <1>1, Invariant, PTL

\* Only adjudication of a materially disputed, fully reviewed proposal puts
\* another in its place, and never after finalization.
LEMMA StepRefutes == ASSUME IInv, [Next]_vars PROVE Refuted
  <1> SUFFICES ASSUME Next, resolution # None, resolution' # resolution
               PROVE  /\ Pending = {} /\ Material # {}
                      /\ final = None /\ final' = None
    BY DEF vars, Refuted
  <1>1. PICK t \in Times :
          \/ \E o \in Outcomes : ProposeResolution(t, o)
                                 \/ AdjudicateResolution(t, o)
          \/ \E q \in Times : ProposeEarlyResolution(t, q)
    BY DEF Next, EditSpecification, BeginValidation, RejectValidation,
       Publish, SubmitForecast, Lock, LockEarly, BeginResolution,
       BeginChallenge, SubmitDispute, ReviewDispute, RetainProposal,
       Escalate, Finalize, Archive, PauseForProviderOutage,
       ResumeAfterProviderRecovery
  <1>2. state # "RESOLVING"
    BY DEF IInv, SnapshotRules, PauseRules, ResolutionRules, Effective,
       Unresolved
  <1>3. PICK o \in Outcomes : AdjudicateResolution(t, o)
    BY <1>1, <1>2 DEF ProposeResolution, ProposeEarlyResolution, Commit
  <1>4. state = "ESCALATED" /\ Effective = "ESCALATED"
    BY <1>3 DEF IInv, SnapshotRules, PauseRules, Effective,
       AdjudicateResolution, Commit
  <1> QED
    BY <1>3, <1>4 DEF IInv, SnapshotRules, DisputeRules, FinalRules,
       Terminal, AdjudicateResolution

THEOREM ReplacementsRefuted == Spec => ReplacedOnlyIfRefuted
  <1>1. IInv /\ [Next]_vars => [Refuted]_vars
    BY StepRefutes
  <1> QED
    BY <1>1, Invariant, PTL DEF Spec, ReplacedOnlyIfRefuted

\* What is published and who objected stays on the record.
LEMMA StepKeepsRecord == ASSUME IInv, [Next]_vars PROVE PublishedStays /\ DisputesStay
  <1> USE DEF Commit, publication, objections
  <1>1. CASE UNCHANGED vars
    BY <1>1 DEF vars, PublishedStays, DisputesStay
  <1>2. ASSUME NEW t \in Times, NEW s \in Specs,
               EditSpecification(t, s) \/ BeginValidation(t)
               \/ RejectValidation(t) \/ Publish(t)
        PROVE  PublishedStays /\ DisputesStay
    <2>1. publishedAt = None
      BY <1>2 DEF IInv, SnapshotRules, PauseRules, PublicationRules, Effective,
         EditSpecification, BeginValidation, RejectValidation, Publish
    <2>2. UNCHANGED objections
      BY <1>2 DEF EditSpecification, BeginValidation, RejectValidation, Publish
    <2> QED
      BY <2>1, <2>2 DEF PublishedStays, DisputesStay
  <1>3. ASSUME NEW t \in Times, UNCHANGED publication,
               UNCHANGED objections
        PROVE  PublishedStays /\ DisputesStay
    BY <1>3 DEF PublishedStays, DisputesStay
  <1>4. ASSUME NEW t \in Times, NEW d \in DisputeIds, SubmitDispute(t, d)
        PROVE  PublishedStays /\ DisputesStay
    BY <1>4 DEF SubmitDispute, PublishedStays, DisputesStay
  <1>5. ASSUME NEW t \in Times, NEW d \in DisputeIds, NEW x \in Dispositions,
               ReviewDispute(t, d, x)
        PROVE  PublishedStays /\ DisputesStay
    <2>1. reviews[d] = None /\ reviews \in [DisputeIds -> Optional(Dispositions)]
      BY <1>5 DEF ReviewDispute, Pending, IInv, TypeOK
    <2> QED
      BY <1>5, <2>1 DEF ReviewDispute, PublishedStays, DisputesStay, IInv, TypeOK
  <1>6. ASSUME NEW t \in Times, NEW o \in Outcomes, AdjudicateResolution(t, o)
        PROVE  PublishedStays /\ DisputesStay
    <2>1. Effective = "ESCALATED"
      BY <1>6 DEF AdjudicateResolution, IInv, SnapshotRules, PauseRules, Effective
    <2>2. Pending = {} /\ Material # {}
      BY <2>1 DEF IInv, SnapshotRules, DisputeRules
    <2> QED
      BY <1>6, <2>2 DEF AdjudicateResolution, PublishedStays, DisputesStay
  <1>7. ASSUME NEW t \in Times,
               \/ SubmitForecast(t) \/ Lock(t) \/ BeginResolution(t)
               \/ \E q \in Times : LockEarly(t, q) \/ ProposeEarlyResolution(t, q)
               \/ \E o \in Outcomes : ProposeResolution(t, o)
               \/ \E n \in Durations : BeginChallenge(t, n)
               \/ RetainProposal(t) \/ Escalate(t) \/ Finalize(t) \/ Archive(t)
               \/ \E p, u \in SUBSET Providers : PauseForProviderOutage(t, p, u)
               \/ \E p \in Providers : ResumeAfterProviderRecovery(t, p)
        PROVE  PublishedStays /\ DisputesStay
    <2>1. UNCHANGED publication /\ UNCHANGED objections
      BY <1>7 DEF SubmitForecast, Lock, BeginResolution, LockEarly, ProposeResolution,
         ProposeEarlyResolution, BeginChallenge, RetainProposal, Escalate, Finalize,
         Archive, PauseForProviderOutage, ResumeAfterProviderRecovery
    <2> QED
      BY <1>3, <2>1
  <1> HIDE DEF Commit, publication, objections
  <1>8. CASE Next
    <2>1. PICK t \in Times :
            \/ \E s \in Specs : EditSpecification(t, s)
            \/ BeginValidation(t) \/ RejectValidation(t) \/ Publish(t)
            \/ \E d \in DisputeIds :
                 SubmitDispute(t, d) \/ \E x \in Dispositions : ReviewDispute(t, d, x)
            \/ \E o \in Outcomes : AdjudicateResolution(t, o)
            \/ \/ SubmitForecast(t) \/ Lock(t) \/ BeginResolution(t)
               \/ \E q \in Times : LockEarly(t, q) \/ ProposeEarlyResolution(t, q)
               \/ \E o \in Outcomes : ProposeResolution(t, o)
               \/ \E n \in Durations : BeginChallenge(t, n)
               \/ RetainProposal(t) \/ Escalate(t) \/ Finalize(t) \/ Archive(t)
               \/ \E p, u \in SUBSET Providers : PauseForProviderOutage(t, p, u)
               \/ \E p \in Providers : ResumeAfterProviderRecovery(t, p)
      BY <1>8, Zenon DEF Next
    <2>2. spec \in Specs
      BY DEF IInv, TypeOK
    <2> QED
      BY <1>2, <1>4, <1>5, <1>6, <1>7, <2>1, <2>2
  <1> QED
    BY <1>1, <1>8

THEOREM RecordStays == Spec => RecordKept
  <1>1. IInv /\ [Next]_vars => [PublishedStays /\ DisputesStay]_vars
    BY StepKeepsRecord
  <1> QED
    BY <1>1, Invariant, PTL DEF Spec, RecordKept
-----------------------------------------------------------------------------
(***************************************************************************)
(* Timing: the evidence of a result against the last receipt, for any      *)
(* passes, evidences, pages and outcomes.                                  *)
(*                                                                         *)
(* Every read of check is old when its batch is written, so the invariant  *)
(* says what stays so after the read: receipts end before a pass begins, a *)
(* closure is filed only before there is a result and never replaced, and  *)
(* a body that was stored is never removed.                                *)
(***************************************************************************)
ForecastStates == {"OPEN", "RESOLVING", "PROPOSED", "CHALLENGE", "ESCALATED", "FINALIZED"}
Proposals == [evidence : Evidences, outcome : Results]
Forecasts == [revision : Nat, state : ForecastStates, resolution : Proposals \cup {Nil}]

\* Outside the two states before a result, there is one, whose bodies are stored.
Resolved(f, ret) ==
  IF f.state \in {"OPEN", "RESOLVING"} THEN f.resolution = Nil
  ELSE f.resolution \in Proposals /\ Cited(f.resolution.evidence) \subseteq ret

\* What check admits, of what it found.
Cleared(r, l, c, cl) ==
  \/ c \/ l = Nil
  \/ cl # Nil /\ r.outcome = INVALID
  \/ \A e \in Cited(r.evidence) :
       Publication[e] # Unknown /\ Publication[e] > l /\ Publication[e] <= CollectedAt

\* What a pass or the operator may rely on, of the forecast, the stored bodies,
\* the last receipt, the decision and the closure there are now.
Sound(m, f, ret, l, c, cl) ==
  m.at # "idle" =>
    /\ m.snapshot \in Forecasts /\ Resolved(m.snapshot, ret)
    /\ m.snapshot.state \in {"RESOLVING", "PROPOSED", "CHALLENGE", "ESCALATED"}
    /\ f.state # "OPEN" /\ (f.state = "RESOLVING" => m.snapshot.state = "RESOLVING")
    /\ m.snapshot.revision <= f.revision /\ (m.snapshot.revision = f.revision => m.snapshot = f)
    /\ m.at \in {"close", "closing", "judge"} => m.snapshot.state = "RESOLVING"
    /\ m.at = "gate" => m.snapshot.state # "ESCALATED"
    /\ m.at \in {"check", "reviews", "analyze"} => m.snapshot.state # "PROPOSED"
    /\ m.at \in {"check", "reviews", "analyze", "commit"} /\ m.snapshot.state # "PROPOSED" =>
         /\ m.resolution \in Proposals
         /\ Cited(m.resolution.evidence) \subseteq m.supplied \cup ret
         /\ m.snapshot.state = "CHALLENGE" => m.resolution = m.snapshot.resolution
    /\ m.at \in {"reviews", "analyze", "commit"} /\ m.snapshot.state = "CHALLENGE" =>
         (cl # Nil /\ ~c => m.resolution.outcome = INVALID)
    /\ m.at = "analyze" => l # Nil
    /\ m.at = "commit" /\ m.snapshot.state # "PROPOSED" => Cleared(m.resolution, l, c, cl)

\* A record with the fields of an actor.
IsActor(m) == m = [x \in {"at", "snapshot", "resolution", "supplied", "review"} |-> m[x]]

\* Each of them relies on what is so.
ActorsSound ==
  /\ actors = [a \in Actors |-> actors[a]]
  /\ \A a \in Actors :
       IsActor(actors[a]) /\ Sound(actors[a], forecast, retained, last, completed, closure)

\* The inductive invariant.
TimingInv ==
  /\ forecast \in Forecasts /\ Resolved(forecast, retained)
  /\ last \in Nat \cup {Nil} /\ completed \in BOOLEAN
  /\ ActorsSound
  /\ Placed /\ AsDetermined /\ Admitted

\* Bodies are only added, a closure is filed before there is a result, and a
\* forecast only goes on: what an actor relies on stays so.
LEMMA Stays ==
  ASSUME NEW m, NEW f \in Forecasts, NEW g \in Forecasts, NEW ret, NEW more, NEW l, NEW c,
         NEW cl, NEW cm, Sound(m, f, ret, l, c, cl), ret \subseteq more,
         g = f \/ (g.revision > f.revision /\ g.state \notin {"OPEN", "RESOLVING"}),
         cm = cl \/ (cl = Nil /\ f.state = "RESOLVING")
  PROVE  Sound(m, g, more, l, c, cm)
<1> SUFFICES ASSUME m.at # "idle"
             PROVE  Sound(m, g, more, l, c, cm)
  BY DEF Sound
<1>1. /\ m.snapshot \in Forecasts /\ Resolved(m.snapshot, ret)
      /\ f.state # "OPEN" /\ (f.state = "RESOLVING" => m.snapshot.state = "RESOLVING")
      /\ m.snapshot.revision <= f.revision /\ (m.snapshot.revision = f.revision => m.snapshot = f)
  BY DEF Sound
<1>2. Resolved(m.snapshot, more)
  BY <1>1 DEF Resolved
<1>3. /\ g.state # "OPEN" /\ (g.state = "RESOLVING" => m.snapshot.state = "RESOLVING")
      /\ m.snapshot.revision <= g.revision /\ (m.snapshot.revision = g.revision => m.snapshot = g)
  BY <1>1 DEF Forecasts
<1>4. Cleared(m.resolution, l, c, cl) => Cleared(m.resolution, l, c, cm)
  BY DEF Cleared
<1>5. m.snapshot.state = "CHALLENGE" => cm = cl
  BY <1>1
<1> QED BY <1>1, <1>2, <1>3, <1>4, <1>5 DEF Sound

\* The records of an actor.
LEMMA Moving ==
  ASSUME NEW m, NEW to, IsActor(m)
  PROVE  LET n == [m EXCEPT !.at = to] IN
         /\ IsActor(n) /\ n.at = to /\ n.snapshot = m.snapshot /\ n.resolution = m.resolution
         /\ n.supplied = m.supplied /\ n.review = m.review
BY DEF IsActor

LEMMA Fields ==
  ASSUME NEW n, IsActor(n)
  PROVE  n = [at |-> n.at, snapshot |-> n.snapshot, resolution |-> n.resolution,
              supplied |-> n.supplied, review |-> n.review]
BY DEF IsActor

LEMMA WithReview ==
  ASSUME NEW m, NEW to, NEW v, IsActor(m)
  PROVE  [m EXCEPT !.at = to, !.review = v] =
            [at |-> to, snapshot |-> m.snapshot, resolution |-> m.resolution,
             supplied |-> m.supplied, review |-> v]
<1> DEFINE n == [m EXCEPT !.at = to, !.review = v]
<1>1. n.at = to /\ n.snapshot = m.snapshot /\ n.resolution = m.resolution
      /\ n.supplied = m.supplied /\ n.review = v
  BY DEF IsActor
<1>2. IsActor(n)
  BY DEF IsActor
<1> HIDE DEF n
<1>3. n = [at |-> to, snapshot |-> m.snapshot, resolution |-> m.resolution,
             supplied |-> m.supplied, review |-> v]
  BY <1>1, <1>2, Fields
<1> QED BY <1>3 DEF n

LEMMA WithResolution ==
  ASSUME NEW m, NEW to, NEW v, IsActor(m)
  PROVE  [m EXCEPT !.at = to, !.resolution = v] =
            [at |-> to, snapshot |-> m.snapshot, resolution |-> v,
             supplied |-> m.supplied, review |-> m.review]
<1> DEFINE n == [m EXCEPT !.at = to, !.resolution = v]
<1>1. n.at = to /\ n.snapshot = m.snapshot /\ n.resolution = v /\ n.supplied = m.supplied /\ n.review = m.review
  BY DEF IsActor
<1>2. IsActor(n)
  BY DEF IsActor
<1> HIDE DEF n
<1>3. n = [at |-> to, snapshot |-> m.snapshot, resolution |-> v,
             supplied |-> m.supplied, review |-> m.review]
  BY <1>1, <1>2, Fields
<1> QED BY <1>3 DEF n

LEMMA WithSnapshot ==
  ASSUME NEW m, NEW to, NEW v, IsActor(m)
  PROVE  [m EXCEPT !.snapshot = v, !.at = to] =
            [at |-> to, snapshot |-> v, resolution |-> m.resolution,
             supplied |-> m.supplied, review |-> m.review]
<1> DEFINE n == [m EXCEPT !.snapshot = v, !.at = to]
<1>1. n.at = to /\ n.snapshot = v /\ n.resolution = m.resolution
      /\ n.supplied = m.supplied /\ n.review = m.review
  BY DEF IsActor
<1>2. IsActor(n)
  BY DEF IsActor
<1> HIDE DEF n
<1>3. n = [at |-> to, snapshot |-> v, resolution |-> m.resolution,
             supplied |-> m.supplied, review |-> m.review]
  BY <1>1, <1>2, Fields
<1> QED BY <1>3 DEF n

LEMMA AtRest ==
  ASSUME NEW f, NEW ret, NEW l, NEW c, NEW cl
  PROVE  IsActor(Resting) /\ Sound(Resting, f, ret, l, c, cl)
BY DEF IsActor, Sound, Resting

\* One actor moves.
LEMMA OneMoves ==
  ASSUME ActorsSound, NEW a \in Actors, NEW n, actors' = [actors EXCEPT ![a] = n], IsActor(n),
         Sound(n, forecast', retained', last', completed', closure'),
         \A b \in Actors : Sound(actors[b], forecast', retained', last', completed', closure')
  PROVE  ActorsSound'
<1>1. \A b \in Actors : actors'[b] = IF b = a THEN n ELSE actors[b]
  BY DEF ActorsSound
<1>2. \A b \in Actors : IsActor(actors'[b])
  BY <1>1 DEF ActorsSound
<1>3. \A b \in Actors : Sound(actors'[b], forecast', retained', last', completed', closure')
  BY <1>1
<1> QED BY <1>2, <1>3 DEF ActorsSound

\* What the others rely on holds still.
LEMMA OthersStay ==
  ASSUME TimingInv, NEW g \in Forecasts, NEW more, NEW cm, retained \subseteq more,
         g = forecast \/ (g.revision > forecast.revision /\ g.state \notin {"OPEN", "RESOLVING"}),
         cm = closure \/ (closure = Nil /\ forecast.state = "RESOLVING")
  PROVE  \A b \in Actors : Sound(actors[b], g, more, last, completed, cm)
<1> TAKE b \in Actors
<1>1. Sound(actors[b], forecast, retained, last, completed, closure) /\ forecast \in Forecasts
  BY DEF TimingInv, ActorsSound
<1> QED BY <1>1, Stays

\* A step that moves one actor and nothing else.
LEMMA OnlyMoves ==
  ASSUME TimingInv, NEW a \in Actors, NEW n, Become(a, n), IsActor(n),
         Sound(n, forecast, retained, last, completed, closure),
         UNCHANGED <<case, forecast, timingReviews, closure, retained>>
  PROVE  TimingInv'
<1>1. UNCHANGED <<last, completed, forecast, timingReviews, closure, retained>>
  BY DEF case
<1>2. \A b \in Actors : Sound(actors[b], forecast, retained, last, completed, closure)
  BY DEF TimingInv, ActorsSound
<1>3. ActorsSound'
  <2>1. ActorsSound /\ actors' = [actors EXCEPT ![a] = n]
    BY DEF TimingInv, Become
  <2>2. Sound(n, forecast', retained', last', completed', closure')
    BY <1>1
  <2>3. \A b \in Actors : Sound(actors[b], forecast', retained', last', completed', closure')
    BY <1>1, <1>2
  <2> QED BY <2>1, <2>2, <2>3, OneMoves
<1>4. (forecast \in Forecasts)' /\ Resolved(forecast, retained)'
  BY <1>1 DEF TimingInv
<1>5. (Placed /\ AsDetermined /\ Admitted)'
  BY <1>1 DEF TimingInv, Placed, AsDetermined, Admitted, After
<1> QED BY <1>1, <1>3, <1>4, <1>5 DEF TimingInv

LEMMA StartStep == ASSUME TimingInv, NEW p \in Passes, Start(p) PROVE TimingInv'
<1> DEFINE to == IF forecast.state = "RESOLVING" THEN "close" ELSE "gate"
           n == [Resting EXCEPT !.snapshot = forecast, !.at = to]
<1>1. n = [at |-> to, snapshot |-> forecast, resolution |-> Resting.resolution,
           supplied |-> Resting.supplied, review |-> Resting.review]
  <2>1. IsActor(Resting)
    BY AtRest
  <2> HIDE DEF to
  <2> QED BY <2>1, WithSnapshot
<1>2. Become(p, n) /\ p \in Actors
  BY DEF Start, Actors
<1>3. /\ forecast \in Forecasts /\ Resolved(forecast, retained)
      /\ forecast.state \in {"RESOLVING", "PROPOSED", "CHALLENGE"}
  BY DEF TimingInv, Start
<1> HIDE DEF n
<1>4. IsActor(n)
  BY <1>1 DEF IsActor
<1>5. Sound(n, forecast, retained, last, completed, closure)
  BY <1>1, <1>3 DEF Sound, Forecasts
<1>6. UNCHANGED <<case, forecast, timingReviews, closure, retained>>
  BY DEF Start
<1> QED BY <1>2, <1>4, <1>5, <1>6, OnlyMoves

\* An actor that is at one place of the flow moves to the next.
LEMMA StepsOn ==
  ASSUME TimingInv, NEW a \in Actors, NEW to, Step(a, to),
         UNCHANGED <<case, forecast, timingReviews, closure, retained>>,
         Sound([actors[a] EXCEPT !.at = to], forecast, retained, last, completed, closure)
  PROVE  TimingInv'
<1>1. IsActor([actors[a] EXCEPT !.at = to])
  BY Moving DEF TimingInv, ActorsSound
<1>2. Become(a, [actors[a] EXCEPT !.at = to])
  BY DEF Step
<1> QED BY <1>1, <1>2, OnlyMoves

LEMMA Rests ==
  ASSUME TimingInv, NEW a \in Actors, Become(a, Resting),
         UNCHANGED <<case, forecast, timingReviews, closure, retained>>
  PROVE  TimingInv'
BY AtRest, OnlyMoves

LEMMA FindReviewStep == ASSUME TimingInv, NEW p \in Passes, FindReview(p) PROVE TimingInv'
<1>1. p \in Actors /\ UNCHANGED <<case, forecast, timingReviews, closure, retained>>
  BY DEF FindReview, Actors
<1>2. /\ IsActor(actors[p]) /\ Sound(actors[p], forecast, retained, last, completed, closure)
      /\ actors[p].at = "close"
  BY <1>1 DEF TimingInv, ActorsSound, FindReview
<1>3. CASE Step(p, "gate")
  <2>1. Sound([actors[p] EXCEPT !.at = "gate"], forecast, retained, last, completed, closure)
    BY <1>2, Moving DEF Sound
  <2> QED BY <1>1, <1>3, <2>1, StepsOn
<1>4. ASSUME NEW r, Become(p, [actors[p] EXCEPT !.at = "closing", !.review = r])
      PROVE  TimingInv'
  <2> DEFINE m == actors[p]
             n == [at |-> "closing", snapshot |-> m.snapshot, resolution |-> m.resolution,
                   supplied |-> m.supplied, review |-> r]
  <2>1. Become(p, n)
    <3>1. IsActor(m) /\ Become(p, [m EXCEPT !.at = "closing", !.review = r])
      BY <1>2, <1>4
    <3> HIDE DEF m
    <3>2. [m EXCEPT !.at = "closing", !.review = r] = n
      BY <3>1, WithReview
    <3> HIDE DEF n
    <3> QED BY <3>1, <3>2
  <2>2. IsActor(n)
    BY DEF IsActor
  <2>3. Sound(n, forecast, retained, last, completed, closure)
    BY <1>2 DEF Sound
  <2> HIDE DEF n
  <2> QED BY <1>1, <2>1, <2>2, <2>3, OnlyMoves
<1> QED BY <1>3, <1>4 DEF FindReview

LEMMA GateStep == ASSUME TimingInv, NEW p \in Passes, Gate(p) PROVE TimingInv'
<1>1. p \in Actors /\ UNCHANGED <<case, forecast, timingReviews, closure, retained>>
  BY DEF Gate, Actors
<1>2. /\ IsActor(actors[p]) /\ Sound(actors[p], forecast, retained, last, completed, closure)
      /\ actors[p].at = "gate"
  BY <1>1 DEF TimingInv, ActorsSound, Gate
<1>3. actors[p].snapshot.state \in {"RESOLVING", "PROPOSED", "CHALLENGE"}
  BY <1>2 DEF Sound
<1>4. CASE Become(p, Resting)
  BY <1>1, <1>4, Rests
<1>5. CASE actors[p].snapshot.state = "RESOLVING" /\ Step(p, "judge")
  <2>1. Sound([actors[p] EXCEPT !.at = "judge"], forecast, retained, last, completed, closure)
    BY <1>2, <1>5, Moving DEF Sound
  <2> QED BY <1>1, <1>5, <2>1, StepsOn
<1>6. CASE actors[p].snapshot.state = "PROPOSED" /\ Step(p, "commit")
  <2>1. Sound([actors[p] EXCEPT !.at = "commit"], forecast, retained, last, completed, closure)
    BY <1>2, <1>6, Moving DEF Sound
  <2> QED BY <1>1, <1>6, <2>1, StepsOn
<1>7. CASE /\ actors[p].snapshot.state = "CHALLENGE"
           /\ Become(p, [actors[p] EXCEPT !.at = "check", !.resolution = actors[p].snapshot.resolution])
  <2> DEFINE m == actors[p]
             n == [at |-> "check", snapshot |-> m.snapshot, resolution |-> m.snapshot.resolution,
                   supplied |-> m.supplied, review |-> m.review]
  <2>1. Become(p, n)
    <3>1. IsActor(m) /\ Become(p, [m EXCEPT !.at = "check", !.resolution = m.snapshot.resolution])
      BY <1>2, <1>7
    <3> HIDE DEF m
    <3>2. [m EXCEPT !.at = "check", !.resolution = m.snapshot.resolution] = n
      BY <3>1, WithResolution
    <3> HIDE DEF n
    <3> QED BY <3>1, <3>2
  <2>2. IsActor(n)
    BY DEF IsActor
  <2>3. Sound(n, forecast, retained, last, completed, closure)
    BY <1>2, <1>7 DEF Sound, Resolved
  <2> HIDE DEF n
  <2> QED BY <1>1, <2>1, <2>2, <2>3, OnlyMoves
<1>8. \/ Blocked /\ Become(p, Resting)
      \/ ~Blocked /\ CASE actors[p].snapshot.state = "RESOLVING" -> Step(p, "judge")
            [] actors[p].snapshot.state = "PROPOSED"  -> Step(p, "commit")
            [] actors[p].snapshot.state = "CHALLENGE" ->
                 Become(p, [actors[p] EXCEPT !.at = "check", !.resolution = actors[p].snapshot.resolution])
  BY DEF Gate
<1> QED BY <1>3, <1>4, <1>5, <1>6, <1>7, <1>8

LEMMA CloseReviewStep == ASSUME TimingInv, NEW p \in Passes, CloseReview(p) PROVE TimingInv'
<1> DEFINE m == actors[p]
           n == [m EXCEPT !.at = "gate"]
<1>1. /\ p \in Actors /\ m.at = "closing" /\ actors' = [actors EXCEPT ![p] = n]
      /\ UNCHANGED <<last, completed, forecast, timingReviews, retained>>
  BY DEF CloseReview, Actors, Step, Become, case
<1>2. IsActor(m) /\ Sound(m, forecast, retained, last, completed, closure)
  BY <1>1 DEF TimingInv, ActorsSound
<1>3. forecast \in Forecasts /\ ActorsSound
  BY DEF TimingInv
<1> HIDE DEF m
<1>4. forecast.state # "OPEN" /\ m.snapshot.state = "RESOLVING"
  BY <1>1, <1>2 DEF Sound
<1>5. closure' = closure \/ (closure = Nil /\ forecast.state = "RESOLVING")
  BY <1>4 DEF CloseReview, Closable, Forecasts, TimingInv, ForecastStates
<1>6. \A b \in Actors : Sound(actors[b], forecast', retained', last', completed', closure')
  <2>1. \A b \in Actors : Sound(actors[b], forecast, retained, last, completed, closure')
    BY <1>3, <1>5, OthersStay
  <2> QED BY <1>1, <2>1
<1>7. Sound(n, forecast', retained', last', completed', closure')
  <2>1. Sound(m, forecast', retained', last', completed', closure')
    BY <1>1, <1>6 DEF m
  <2>2. IsActor(n) /\ n.at = "gate" /\ n.snapshot = m.snapshot
    BY <1>2, Moving
  <2> HIDE DEF n
  <2> QED BY <1>1, <1>4, <2>1, <2>2 DEF Sound
<1>8. IsActor(n)
  BY <1>2, Moving
<1> HIDE DEF n
<1>9. ActorsSound'
  BY <1>1, <1>3, <1>6, <1>7, <1>8, OneMoves
<1>10. (forecast \in Forecasts)' /\ Resolved(forecast, retained)'
  BY <1>1 DEF TimingInv
<1>11. (Placed /\ AsDetermined /\ Admitted)'
  <2>1. closure' # closure => forecast.resolution = Nil /\ forecast.state # "FINALIZED"
    BY <1>5 DEF TimingInv, Resolved
  <2> QED BY <1>1, <2>1 DEF TimingInv, Placed, AsDetermined, Admitted, After
<1> QED BY <1>1, <1>9, <1>10, <1>11 DEF TimingInv

LEMMA JudgeStep ==
  ASSUME TimingInv, NEW p \in Passes, NEW e \in Evidences, NEW o \in Results, Judge(p, e, o)
  PROVE  TimingInv'
<1> DEFINE m == actors[p]
           r == [evidence |-> e, outcome |-> o]
           n == [m EXCEPT !.at = "check", !.supplied = Cited(e), !.resolution = r]
<1>1. /\ p \in Actors /\ m.at = "judge" /\ Become(p, n)
      /\ UNCHANGED <<case, forecast, timingReviews, closure, retained>>
  BY DEF Judge, Actors
<1>2. IsActor(m) /\ Sound(m, forecast, retained, last, completed, closure)
  BY <1>1 DEF TimingInv, ActorsSound
<1>3. r \in Proposals /\ r.evidence = e
  BY DEF Proposals
<1> HIDE DEF m, r
<1>4. n = [at |-> "check", snapshot |-> m.snapshot, resolution |-> r, supplied |-> Cited(e),
           review |-> m.review]
  <2>1. /\ n.at = "check" /\ n.snapshot = m.snapshot /\ n.resolution = r
        /\ n.supplied = Cited(e) /\ n.review = m.review
    BY <1>2 DEF IsActor
  <2>2. IsActor(n)
    BY <1>2 DEF IsActor
  <2> HIDE DEF n
  <2> QED BY <2>1, <2>2, Fields
<1> HIDE DEF n
<1>5. IsActor(n)
  BY <1>4 DEF IsActor
<1>6. Sound(n, forecast, retained, last, completed, closure)
  BY <1>1, <1>2, <1>3, <1>4 DEF Sound
<1> QED BY <1>1, <1>5, <1>6, OnlyMoves

LEMMA AdjudicateStep ==
  ASSUME TimingInv, NEW e \in Evidences, NEW o \in Results, NEW supplied, Adjudicate(e, o, supplied)
  PROVE  TimingInv'
<1> DEFINE r == [evidence |-> e, outcome |-> o]
           n == [Resting EXCEPT !.at = "check", !.snapshot = forecast, !.supplied = supplied,
                                !.resolution = r]
<1>1. /\ Operator \in Actors /\ Become(Operator, n) /\ forecast.state = "ESCALATED"
      /\ Cited(e) \subseteq supplied \cup retained
      /\ UNCHANGED <<case, forecast, timingReviews, closure, retained>>
  BY DEF Adjudicate, Actors
<1>2. forecast \in Forecasts /\ Resolved(forecast, retained)
  BY DEF TimingInv
<1>3. r \in Proposals /\ r.evidence = e
  BY DEF Proposals
<1> HIDE DEF r
<1>4. n = [at |-> "check", snapshot |-> forecast, resolution |-> r, supplied |-> supplied,
           review |-> Resting.review]
  <2>1. IsActor(Resting)
    BY AtRest
  <2>2. /\ n.at = "check" /\ n.snapshot = forecast /\ n.resolution = r
        /\ n.supplied = supplied /\ n.review = Resting.review
    BY <2>1 DEF IsActor
  <2>3. IsActor(n)
    BY <2>1 DEF IsActor
  <2> HIDE DEF n
  <2> QED BY <2>2, <2>3, Fields
<1> HIDE DEF n
<1>5. IsActor(n)
  BY <1>4 DEF IsActor
<1>6. Sound(n, forecast, retained, last, completed, closure)
  BY <1>1, <1>2, <1>3, <1>4 DEF Sound, Forecasts
<1> QED BY <1>1, <1>5, <1>6, OnlyMoves

LEMMA CheckSettledStep == ASSUME TimingInv, NEW a \in Actors, CheckSettled(a) PROVE TimingInv'
<1> DEFINE m == actors[a]
<1>1. m.at = "check" /\ UNCHANGED <<case, forecast, timingReviews, closure, retained>>
  BY DEF CheckSettled
<1>2. IsActor(m) /\ Sound(m, forecast, retained, last, completed, closure)
  BY <1>1 DEF TimingInv, ActorsSound
<1> HIDE DEF m
<1>3. m.snapshot.state # "PROPOSED" /\ m.resolution \in Proposals
  BY <1>1, <1>2 DEF Sound
<1>4. CASE Become(a, Resting)
  BY <1>1, <1>4, Rests
<1>5. CASE Step(a, "commit") /\ (completed \/ (closure # Nil /\ m.resolution.outcome = INVALID))
  <2>1. Sound([m EXCEPT !.at = "commit"], forecast, retained, last, completed, closure)
    <3>1. Cleared(m.resolution, last, completed, closure)
      BY <1>5 DEF Cleared
    <3> QED BY <1>1, <1>2, <1>5, <3>1, Moving DEF Sound
  <2> QED BY <1>1, <1>5, <2>1, StepsOn DEF m
<1>6. CASE Step(a, "reviews") /\ (completed \/ closure = Nil)
  <2>1. Sound([m EXCEPT !.at = "reviews"], forecast, retained, last, completed, closure)
    BY <1>1, <1>2, <1>6, Moving DEF Sound
  <2> QED BY <1>1, <1>6, <2>1, StepsOn DEF m
<1> QED BY <1>4, <1>5, <1>6 DEF CheckSettled, Determined, m

LEMMA CheckReviewsStep == ASSUME TimingInv, NEW a \in Actors, CheckReviews(a) PROVE TimingInv'
<1> DEFINE m == actors[a]
<1>1. m.at = "reviews" /\ UNCHANGED <<case, forecast, timingReviews, closure, retained>>
  BY DEF CheckReviews
<1>2. IsActor(m) /\ Sound(m, forecast, retained, last, completed, closure)
  BY <1>1 DEF TimingInv, ActorsSound
<1> HIDE DEF m
<1>4. CASE Become(a, Resting)
  BY <1>1, <1>4, Rests
<1>5. CASE Step(a, "commit") /\ last = Nil
  <2>1. Sound([m EXCEPT !.at = "commit"], forecast, retained, last, completed, closure)
    <3>1. Cleared(m.resolution, last, completed, closure)
      BY <1>5 DEF Cleared
    <3> QED BY <1>1, <1>2, <1>5, <3>1, Moving DEF Sound
  <2> QED BY <1>1, <1>5, <2>1, StepsOn DEF m
<1>6. CASE Step(a, "analyze") /\ last # Nil
  <2>1. Sound([m EXCEPT !.at = "analyze"], forecast, retained, last, completed, closure)
    BY <1>1, <1>2, <1>6, Moving DEF Sound
  <2> QED BY <1>1, <1>6, <2>1, StepsOn DEF m
<1> QED BY <1>4, <1>5, <1>6 DEF CheckReviews, m

\* analyze admits what it placed; what it holds is not what was admitted before.
LEMMA AnalyzeStep ==
  ASSUME TimingAssumption, TimingInv, NEW a \in Actors, Analyze(a)
  PROVE  TimingInv'
<1> DEFINE m == actors[a]
           r == m.resolution
<1>1. m.at = "analyze" /\ UNCHANGED <<last, completed, forecast, closure>>
  BY DEF Analyze, case
<1>2. IsActor(m) /\ Sound(m, forecast, retained, last, completed, closure)
  BY <1>1 DEF TimingInv, ActorsSound
<1>3. r \in Proposals /\ last # Nil /\ last \in Nat
  BY <1>1, <1>2 DEF Sound, TimingInv
\* An item that is stored, or came with the request, is placed as it is.
<1>4. ASSUME NEW e \in Cited(r.evidence), e \in m.supplied \cup retained
      PROVE  (Reason(a, e) = "after_last_receipt") <=>
               (Publication[e] # Unknown /\ Publication[e] > last /\ Publication[e] <= CollectedAt)
  <2>1. e \in Items
    <3>1. r.evidence \in Seq(Items)
      BY <1>3 DEF Proposals, TimingAssumption
    <3> QED BY <3>1 DEF Cited
  <2>2. Available(a, e)
    BY <1>4 DEF Available
  <2>3. Publication[e] = Unknown \/ Publication[e] \in Nat
    BY <2>1 DEF TimingAssumption
  <2> QED BY <1>3, <2>2, <2>3 DEF Reason, TimingAssumption
<1>5. CASE /\ \A i \in DOMAIN r.evidence : Reason(a, r.evidence[i]) = "after_last_receipt"
           /\ Step(a, "commit") /\ UNCHANGED <<timingReviews, retained>>
  <2>1. UNCHANGED <<case, forecast, timingReviews, closure, retained>>
    BY <1>1, <1>5 DEF case
  <2>2. Cited(r.evidence) \subseteq m.supplied \cup retained
    BY <1>1, <1>2, <1>3 DEF Sound
  <2>3. Cleared(r, last, completed, closure)
    <3>1. \A e \in Cited(r.evidence) : Reason(a, e) = "after_last_receipt"
      <4>1. r.evidence \in Seq(Items)
        BY <1>3 DEF Proposals, TimingAssumption
      <4> QED BY <1>5, <4>1 DEF Cited
    <3> QED BY <1>4, <2>2, <3>1 DEF Cleared
  <2> HIDE DEF m
  <2>4. Sound([m EXCEPT !.at = "commit"], forecast, retained, last, completed, closure)
    BY <1>1, <1>2, <2>3, Moving DEF Sound
  <2> QED BY <1>5, <2>1, <2>4, StepsOn DEF m
<1>6. ASSUME NEW reason,
             \E i \in DOMAIN r.evidence : Reason(a, r.evidence[i]) # "after_last_receipt",
             Become(a, Resting),
             timingReviews' = IF \E v \in timingReviews : v.resolution = r THEN timingReviews
                              ELSE timingReviews \cup {[resolution |-> r, reason |-> reason]},
             retained' = retained \cup (Cited(r.evidence) \cap m.supplied)
      PROVE  TimingInv'
  <2>1. forecast \in Forecasts /\ Resolved(forecast, retained) /\ ActorsSound
    BY DEF TimingInv
  <2>2. \A b \in Actors : Sound(actors[b], forecast', retained', last', completed', closure')
    <3>1. retained \subseteq retained'
      BY <1>6
    <3>2. \A b \in Actors : Sound(actors[b], forecast, retained', last, completed, closure)
      BY <2>1, <3>1, OthersStay
    <3> QED BY <1>1, <3>2
  <2>3. ActorsSound'
    <3>1. actors' = [actors EXCEPT ![a] = Resting]
      BY <1>6 DEF Become
    <3> QED BY <2>1, <2>2, <3>1, AtRest, OneMoves
  <2>4. Resolved(forecast', retained')
    BY <1>1, <1>6, <2>1 DEF Resolved
  \* What is admitted already is not held: each of its items is stored, and after.
  <2>5. Admitted'
    <3> SUFFICES ASSUME forecast.resolution # Nil, closure = Nil, ~completed
                 PROVE  r # forecast.resolution
      BY <1>1, <1>6 DEF TimingInv, Admitted
    <3> SUFFICES ASSUME r = forecast.resolution
                 PROVE  FALSE
      OBVIOUS
    <3>1. Cited(r.evidence) \subseteq retained
      BY <2>1 DEF Resolved
    <3>2. \A e \in Cited(r.evidence) :
            Publication[e] # Unknown /\ Publication[e] > last /\ Publication[e] <= CollectedAt
      BY <1>3 DEF TimingInv, Placed, After
    <3>3. \A e \in Cited(r.evidence) : Reason(a, e) = "after_last_receipt"
      BY <1>4, <3>1, <3>2
    <3>4. r.evidence \in Seq(Items)
      BY <1>3 DEF Proposals, TimingAssumption
    <3> QED BY <1>6, <3>3, <3>4 DEF Cited
  <2>6. (Placed /\ AsDetermined)'
    BY <1>1 DEF TimingInv, Placed, AsDetermined, After
  <2> QED BY <1>1, <2>1, <2>3, <2>4, <2>5, <2>6 DEF TimingInv
<1> QED
  <2>1. \/ /\ {i \in DOMAIN r.evidence : Reason(a, r.evidence[i]) # "after_last_receipt"} = {}
           /\ Step(a, "commit") /\ UNCHANGED <<timingReviews, retained>>
        \/ \E reason :
             /\ {i \in DOMAIN r.evidence : Reason(a, r.evidence[i]) # "after_last_receipt"} # {}
             /\ Become(a, Resting)
             /\ timingReviews' = IF \E v \in timingReviews : v.resolution = r THEN timingReviews
                              ELSE timingReviews \cup {[resolution |-> r, reason |-> reason]}
             /\ retained' = retained \cup (Cited(r.evidence) \cap m.supplied)
    BY DEF Analyze
  <2> QED BY <1>5, <1>6, <2>1

\* The batch: a result that counts now was cleared, and nothing holds it.
LEMMA CommitResultStep == ASSUME TimingInv, NEW a \in Actors, CommitResult(a) PROVE TimingInv'
<1> DEFINE m == actors[a]
           s == m.snapshot
<1>1. /\ m.at = "commit" /\ Become(a, Resting)
      /\ UNCHANGED <<last, completed, timingReviews, closure>>
  BY DEF CommitResult, case
<1>2. IsActor(m) /\ Sound(m, forecast, retained, last, completed, closure)
  BY <1>1 DEF TimingInv, ActorsSound
<1>3. CASE UNCHANGED <<forecast, retained>>
  BY <1>1, <1>3, Rests DEF case
<1>4. CASE /\ Current(a) /\ Admissible
           /\ forecast' = [revision |-> s.revision + 1, state |-> Following(s.state),
                           resolution |-> IF s.state \in {"RESOLVING", "ESCALATED"}
                                          THEN m.resolution ELSE s.resolution]
           /\ retained' = retained \cup m.supplied
  <2>1. /\ forecast \in Forecasts /\ Resolved(forecast, retained) /\ ActorsSound
        /\ Placed /\ AsDetermined /\ Admitted
    BY DEF TimingInv
  <2>2. s = forecast
    BY <1>1, <1>2, <1>4 DEF Sound, Current
  <2> DEFINE g == forecast'
  <2>3. s.state \in {"RESOLVING", "PROPOSED", "CHALLENGE", "ESCALATED"} /\ s.revision \in Nat
    BY <1>1, <1>2 DEF Sound, Forecasts
  <2>4. /\ s.state \in {"RESOLVING", "ESCALATED"} => g.resolution = m.resolution
        /\ s.state \in {"PROPOSED", "CHALLENGE"} => g.resolution = forecast.resolution
        /\ g.state = Following(s.state) /\ g.revision = s.revision + 1
    BY <1>4, <2>2
  <2>5. g.state \in {"PROPOSED", "CHALLENGE", "FINALIZED"}
    BY <2>3, <2>4 DEF Following
  <2>6. g.resolution \in Proposals /\ Cited(g.resolution.evidence) \subseteq retained'
    <3>1. CASE s.state \in {"RESOLVING", "ESCALATED"}
      BY <1>1, <1>2, <1>4, <2>4, <3>1 DEF Sound
    <3>2. CASE s.state \in {"PROPOSED", "CHALLENGE"}
      BY <1>4, <2>1, <2>2, <2>4, <3>2 DEF Resolved
    <3> QED BY <2>3, <3>1, <3>2
  <2>7. g \in Forecasts /\ Resolved(g, retained')
    <3>1. g = [revision |-> g.revision, state |-> g.state, resolution |-> g.resolution]
      BY <1>4
    <3>2. g.revision \in Nat /\ g.state \in ForecastStates
      BY <2>3, <2>4, <2>5 DEF ForecastStates
    <3> HIDE DEF g
    <3> QED BY <2>5, <2>6, <3>1, <3>2 DEF Forecasts, Resolved
  <2>8. ActorsSound'
    <3>1. retained \subseteq retained' /\ g.revision > forecast.revision
          /\ g.state \notin {"OPEN", "RESOLVING"}
      BY <1>4, <2>2, <2>3, <2>4, <2>5
    <3>2. \A b \in Actors : Sound(actors[b], g, retained', last, completed, closure)
      BY <2>7, <3>1, OthersStay
    <3>3. \A b \in Actors : Sound(actors[b], forecast', retained', last', completed', closure')
      BY <1>1, <3>2
    <3>4. actors' = [actors EXCEPT ![a] = Resting]
      BY <1>1 DEF Become
    <3> QED BY <2>1, <3>3, <3>4, AtRest, OneMoves
  <2>9. Placed'
    <3>1. CASE s.state \in {"RESOLVING", "ESCALATED"}
      <4>1. Cleared(m.resolution, last, completed, closure)
        BY <1>1, <1>2, <3>1 DEF Sound
      <4> QED BY <1>1, <2>4, <3>1, <4>1 DEF Cleared, Placed, After
    <3>2. CASE s.state \in {"PROPOSED", "CHALLENGE"}
      BY <1>1, <2>1, <2>4, <3>2 DEF Placed, After
    <3> QED BY <2>3, <3>1, <3>2
  <2>10. AsDetermined'
    <3>1. g.state = "FINALIZED" => s.state = "CHALLENGE"
      BY <2>3, <2>4 DEF Following
    <3>2. s.state = "CHALLENGE" =>
            /\ m.resolution = forecast.resolution
            /\ closure # Nil /\ ~completed => m.resolution.outcome = INVALID
      BY <1>1, <1>2, <2>2 DEF Sound
    <3> QED BY <1>1, <2>4, <3>1, <3>2 DEF AsDetermined
  <2>11. Admitted'
    BY <1>1, <1>4 DEF Admissible, Blocked, Admitted
  <2> QED BY <1>1, <2>1, <2>7, <2>8, <2>9, <2>10, <2>11 DEF TimingInv
<1> QED BY <1>3, <1>4 DEF CommitResult, Carried

\* A step of the forecast alone.
LEMMA Advanced ==
  ASSUME NEW f \in Forecasts, NEW to \in ForecastStates
  PROVE  LET g == [f EXCEPT !.revision = @ + 1, !.state = to] IN
         /\ g \in Forecasts /\ g.resolution = f.resolution /\ g.state = to
         /\ g.revision > f.revision
<1> DEFINE g == [f EXCEPT !.revision = @ + 1, !.state = to]
<1>1. f = [x \in {"revision", "state", "resolution"} |-> f[x]] /\ f.revision \in Nat
  BY DEF Forecasts
<1>2. /\ g.revision = f.revision + 1 /\ g.state = to /\ g.resolution = f.resolution
      /\ g = [x \in {"revision", "state", "resolution"} |-> g[x]]
  BY <1>1
<1>3. f.resolution \in Proposals \cup {Nil}
  BY DEF Forecasts
<1> HIDE DEF g
<1>4. g \in Forecasts
  BY <1>1, <1>2, <1>3 DEF Forecasts
<1> QED BY <1>1, <1>2, <1>4 DEF g

\* While answers may be given nothing is judged, and no result is there.
LEMMA WhileOpen ==
  ASSUME TimingInv, forecast.state = "OPEN"
  PROVE  forecast.resolution = Nil /\ \A b \in Actors : actors[b].at = "idle"
BY DEF TimingInv, Resolved, ActorsSound, Sound

LEMMA SubmitStep == ASSUME TimingAssumption, TimingInv, NEW t \in 0..ClosesAt, Submit(t) PROVE TimingInv'
<1>1. /\ forecast.state = "OPEN" /\ last' = t
      /\ UNCHANGED <<completed, forecast, timingReviews, closure, retained, actors>>
  BY DEF Submit
<1>2. forecast.resolution = Nil /\ \A b \in Actors : actors[b].at = "idle"
  BY <1>1, WhileOpen
<1>3. ActorsSound'
  BY <1>1, <1>2 DEF TimingInv, ActorsSound, Sound
<1>4. (Placed /\ AsDetermined /\ Admitted)'
  BY <1>1, <1>2 DEF Placed, AsDetermined, Admitted
<1>5. last' \in Nat
  BY <1>1 DEF TimingAssumption
<1> QED BY <1>1, <1>3, <1>4, <1>5 DEF TimingInv

LEMMA CloseAnswersStep == ASSUME TimingInv, NEW b \in BOOLEAN, CloseAnswers(b) PROVE TimingInv'
<1>1. /\ forecast.state = "OPEN" /\ completed' = b
      /\ forecast' = [forecast EXCEPT !.revision = @ + 1, !.state = "RESOLVING"]
      /\ UNCHANGED <<last, timingReviews, closure, retained, actors>>
  BY DEF CloseAnswers
<1>2. forecast.resolution = Nil /\ \A c \in Actors : actors[c].at = "idle"
  BY <1>1, WhileOpen
<1>3. /\ forecast' \in Forecasts /\ forecast'.resolution = Nil /\ forecast'.state = "RESOLVING"
  BY <1>1, <1>2, Advanced DEF TimingInv, ForecastStates
<1>4. ActorsSound'
  BY <1>1, <1>2 DEF TimingInv, ActorsSound, Sound
<1>5. (Placed /\ AsDetermined /\ Admitted)'
  BY <1>3 DEF Placed, AsDetermined, Admitted
<1> QED BY <1>1, <1>3, <1>4, <1>5 DEF TimingInv, Resolved

LEMMA ContestStep == ASSUME TimingInv, Contest PROVE TimingInv'
<1> DEFINE g == forecast'
<1>1. /\ forecast.state = "CHALLENGE"
      /\ g = [forecast EXCEPT !.revision = @ + 1, !.state = "ESCALATED"]
      /\ UNCHANGED <<last, completed, timingReviews, closure, retained, actors>>
  BY DEF Contest, case
<1>2. forecast \in Forecasts /\ Resolved(forecast, retained) /\ ActorsSound
  BY DEF TimingInv
<1>3. /\ g \in Forecasts /\ g.resolution = forecast.resolution /\ g.state = "ESCALATED"
      /\ g.revision > forecast.revision
  BY <1>1, <1>2, Advanced DEF ForecastStates
<1>4. ActorsSound'
  <2>1. \A b \in Actors : Sound(actors[b], g, retained, last, completed, closure)
    BY <1>3, OthersStay
  <2> QED BY <1>1, <1>2, <2>1 DEF ActorsSound
<1>5. Resolved(g, retained)
  BY <1>1, <1>2, <1>3 DEF Resolved
<1>6. (Placed /\ AsDetermined /\ Admitted)'
  BY <1>1, <1>3 DEF TimingInv, Placed, AsDetermined, Admitted, After
<1> QED BY <1>1, <1>3, <1>4, <1>5, <1>6 DEF TimingInv

LEMMA TimingInitially == TimingInit => TimingInv
<1> SUFFICES ASSUME TimingInit PROVE TimingInv
  OBVIOUS
<1>1. forecast \in Forecasts /\ Resolved(forecast, retained)
  BY DEF TimingInit, Forecasts, ForecastStates, Resolved
<1>2. ActorsSound
  <2>1. actors = [a \in Actors |-> Resting]
    BY DEF TimingInit
  <2> QED BY <2>1, AtRest DEF ActorsSound
<1>3. Placed /\ AsDetermined /\ Admitted
  BY DEF TimingInit, Placed, AsDetermined, Admitted
<1> QED BY <1>1, <1>2, <1>3 DEF TimingInv, TimingInit

LEMMA TimingStays == TimingAssumption /\ TimingInv /\ [TimingNext]_timingvars => TimingInv'
<1> SUFFICES ASSUME TimingAssumption, TimingInv, [TimingNext]_timingvars
             PROVE  TimingInv'
  OBVIOUS
<1>1. CASE UNCHANGED timingvars
  BY <1>1 DEF timingvars, case, TimingInv, ActorsSound, Placed, AsDetermined, Admitted, After
<1>2. ASSUME NEW a \in Actors, Die(a)
      PROVE  TimingInv'
  BY <1>2, Rests DEF Die
<1>3. CASE TimingNext
  <2>1. CASE \E t \in 0..ClosesAt : Submit(t)
    BY <2>1, SubmitStep
  <2>2. CASE \E b \in BOOLEAN : CloseAnswers(b)
    BY <2>2, CloseAnswersStep
  <2>3. ASSUME NEW p \in Passes,
               \/ Start(p) \/ FindReview(p) \/ CloseReview(p) \/ Gate(p)
               \/ \E e \in Evidences, o \in Results : Judge(p, e, o)
        PROVE  TimingInv'
    BY <2>3, StartStep, FindReviewStep, CloseReviewStep, GateStep, JudgeStep
  <2>4. CASE \E e \in Evidences, o \in Results : \E s \in SUBSET Items : Adjudicate(e, o, s)
    BY <2>4, AdjudicateStep
  <2>5. ASSUME NEW a \in Actors,
               Die(a) \/ CheckSettled(a) \/ CheckReviews(a) \/ Analyze(a) \/ CommitResult(a)
        PROVE  TimingInv'
    BY <1>2, <2>5, CheckSettledStep, CheckReviewsStep, AnalyzeStep, CommitResultStep
  <2>6. CASE Contest
    BY <2>6, ContestStep
  <2> QED BY <1>3, <2>1, <2>2, <2>3, <2>4, <2>5, <2>6 DEF TimingNext
<1> QED BY <1>1, <1>3

\* The invariant holds of every pass, operator, page and last receipt.
THEOREM TimingInvariant == TimingAssumption /\ TimingSpec => []TimingInv
<1> SUFFICES ASSUME TimingAssumption PROVE TimingSpec => []TimingInv
  OBVIOUS
<1>1. TimingInit => TimingInv
  BY TimingInitially
<1>2. TimingInv /\ [TimingNext]_timingvars => TimingInv'
  BY TimingStays
<1> QED BY <1>1, <1>2, PTL DEF TimingSpec

\* A review is closed only while there is no result (CloseReview).
LEMMA ClosesBefore == TimingInv /\ [TimingNext]_timingvars => [ClosedBefore]_timingvars
<1> SUFFICES ASSUME TimingInv, TimingNext, closure' # closure
             PROVE  forecast.resolution = Nil
  BY DEF ClosedBefore
<1>1. PICK p \in Passes : CloseReview(p)
  BY DEF TimingNext, Submit, CloseAnswers, Start, FindReview, CloseReview, Gate, Judge, Adjudicate,
         Die, CheckSettled, CheckReviews, Analyze, CommitResult, Contest
<1>2. Closable
  BY <1>1 DEF CloseReview
<1> QED BY <1>2 DEF Closable, TimingInv, Forecasts, ForecastStates, Resolved

\* A result that counts rests on evidence from after the last receipt or is the
\* INVALID a review determined, what was admitted is not held later, and a review
\* is closed only before there is a result (check, close_indeterminate, mutate).
THEOREM ResultsPlacedInTime == TimingAssumption /\ TimingSpec => PlacedInTime
<1> SUFFICES ASSUME TimingAssumption PROVE TimingSpec => PlacedInTime
  OBVIOUS
<1>1. TimingSpec => []TimingInv
  BY TimingInvariant
<1>2. TimingInv => Placed /\ AsDetermined /\ Admitted
  BY DEF TimingInv
<1>3. TimingInv /\ [TimingNext]_timingvars => [ClosedBefore]_timingvars
  BY ClosesBefore
<1> QED BY <1>1, <1>2, <1>3, PTL DEF TimingSpec, PlacedInTime

------------------------------------------------------------------------------
(***************************************************************************)
(* Translations.                                                           *)
(*                                                                         *)
(* What is stored and served follows from what a request carries (the      *)
(* document of the rows it read, a draft validated against it: Asked),     *)
(* from the leases (a generator holds its own unless another request found *)
(* it run out: LeasedOrOvertaken) and from the counters (every call made   *)
(* or about to be made was counted and admitted: Charged).                 *)
(***************************************************************************)
\* The fields of a request.
ReqFields == {"pc", "at", "lang", "doc", "of", "body", "answer"}
IsRequest(m) == m = [x \in ReqFields |-> m[x]]

\* A request holds the document of the rows it read, and a draft that was
\* validated against that document.
Faithful(m) ==
  /\ m.pc # "idle" =>
       m.doc = [edition |-> m.of.edition,
                why |-> IF m.of.estimate = Null THEN Null ELSE m.of.estimate.why]
  /\ m.pc \in {"reread", "commit"} => m.body = Facts(m.doc)

Asked ==
  /\ now \in Nat
  /\ req = [r \in Requests |-> req[r]]
  /\ \A r \in Requests : IsRequest(req[r]) /\ req[r].at \in Nat /\ Faithful(req[r])

\* A lease names its holder and was taken for what that request asks.
Leased ==
  /\ \A x \in lease :
       /\ x.by \in Requests /\ req[x.by].pc \notin {"idle", "lease"}
       /\ x.doc = req[x.by].doc /\ x.lang = req[x.by].lang /\ x.until = req[x.by].at + Lease
  /\ \A x, y \in lease : x.doc = y.doc /\ x.lang = y.lang => x = y

\* A generator holds its lease, or another request found it run out.
Overtaken(r) ==
  \E s \in Requests :
    Same(s, r) /\ req[s].pc \notin {"idle", "lease"} /\ req[s].at >= req[r].at + Lease
LeasedOrOvertaken ==
  \A r \in Requests : Generating(r) => (\E x \in lease : x.by = r) \/ Overtaken(r)

\* Every call was counted, and what is about to call was admitted.
Calling == {r \in Requests : req[r].pc = "call"}
Charged ==
  /\ calls \in Nat /\ IsFiniteSet(Calling)
  /\ count = [k \in DOMAIN count |-> count[k]] /\ \A k \in DOMAIN count : count[k] \in Nat
  /\ \A k \in {"global", "ai"} :
       calls + Cardinality(Calling) <= Counted(<<k>>) /\ calls + Cardinality(Calling) <= Limit[k]

\* The inductive invariant.
TextInv ==
  /\ Asked /\ Leased /\ LeasedOrOvertaken /\ Charged
  /\ audit \in Seq(Editions) /\ AuditTellsDisplay /\ OneTranslationEach

------------------------------------------------------------------------------
\* What a step of one request does to it.
LEMMA Setting ==
  ASSUME Asked, NEW r \in Requests, NEW f, DOMAIN f \subseteq ReqFields, Set(r, f)
  PROVE  /\ req' = [q \in Requests |-> req'[q]]
         /\ \A q \in Requests \ {r} : req'[q] = req[q]
         /\ IsRequest(req'[r])
         /\ \A x \in DOMAIN f : req'[r][x] = f[x]
         /\ \A x \in ReqFields \ DOMAIN f : req'[r][x] = req[r][x]
<1> DEFINE m == req[r]
           n == Replaced(m, f)
<1>1. DOMAIN m = ReqFields
  BY DEF Asked, IsRequest
<1>2. req' = [req EXCEPT ![r] = n]
  BY DEF Set
<1> HIDE DEF m
<1>3. n = [x \in ReqFields |-> IF x \in DOMAIN f THEN f[x] ELSE m[x]]
  BY <1>1 DEF Replaced
<1> HIDE DEF n
<1>4. IsRequest(n) /\ \A x \in ReqFields : n[x] = IF x \in DOMAIN f THEN f[x] ELSE m[x]
  BY <1>3 DEF IsRequest
<1>5. req' = [q \in Requests |-> req'[q]] /\ \A q \in Requests : req'[q] = IF q = r THEN n ELSE req[q]
  BY <1>2 DEF Asked
<1>6. req'[r] = n
  BY <1>5
<1>7. /\ \A x \in DOMAIN f : n[x] = f[x]
      /\ \A x \in ReqFields \ DOMAIN f : n[x] = m[x]
  BY <1>4
<1> QED BY <1>4, <1>5, <1>6, <1>7 DEF m

\* A request goes on: it asks for what it asked before.
GoesOn(r) ==
  /\ req' = [q \in Requests |-> req'[q]] /\ IsRequest(req'[r])
  /\ \A q \in Requests \ {r} : req'[q] = req[q]
  /\ req'[r].at = req[r].at /\ req'[r].lang = req[r].lang
  /\ req'[r].doc = req[r].doc /\ req'[r].of = req[r].of

LEMMA Going ==
  ASSUME Asked, NEW r \in Requests, NEW f, Set(r, f), "pc" \in DOMAIN f,
         DOMAIN f \subseteq {"pc", "body", "answer"}
  PROVE  /\ GoesOn(r) /\ req'[r].pc = f.pc
         /\ "body" \notin DOMAIN f => req'[r].body = req[r].body
         /\ "body" \in DOMAIN f => req'[r].body = f.body
<1>1. /\ req' = [q \in Requests |-> req'[q]] /\ IsRequest(req'[r])
      /\ \A q \in Requests \ {r} : req'[q] = req[q]
      /\ \A x \in DOMAIN f : req'[r][x] = f[x]
      /\ \A x \in ReqFields \ DOMAIN f : req'[r][x] = req[r][x]
  <2>1. DOMAIN f \subseteq ReqFields
    BY DEF ReqFields
  <2> QED BY <2>1, Setting
<1>2. {"at", "lang", "doc", "of"} \subseteq ReqFields \ DOMAIN f
  BY DEF ReqFields
<1>3. /\ req'[r]["at"] = req[r]["at"] /\ req'[r]["lang"] = req[r]["lang"]
      /\ req'[r]["doc"] = req[r]["doc"] /\ req'[r]["of"] = req[r]["of"]
  BY <1>1, <1>2
<1>4. /\ req'[r]["pc"] = f["pc"]
      /\ "body" \notin DOMAIN f => req'[r]["body"] = req[r]["body"]
      /\ "body" \in DOMAIN f => req'[r]["body"] = f["body"]
  BY <1>1 DEF ReqFields
<1> QED BY <1>1, <1>3, <1>4 DEF GoesOn

Working == {"recheck", "charge", "call", "reread", "commit"}

\* The steps of a request that has asked, by what becomes of its place.
Works(r) == \/ TakeLease(r) \/ Recheck(r) \/ Charge(r) \/ Call(r) \/ Reread(r)
            \/ CommitText(r) \/ Release(r) \/ Crash(r)

LEMMA WorksOn ==
  ASSUME Asked, NEW r \in Requests, Works(r)
  PROVE  /\ GoesOn(r) /\ UNCHANGED now
         /\ req[r].pc \notin {"idle", "done"} /\ req'[r].pc \notin {"idle", "lease"}
         /\ req'[r].pc \in Working => req[r].pc \in Working \/ (TakeLease(r) /\ Free(r))
         /\ req'[r].pc = "call" => Charge(r)
         /\ req'[r].pc \in {"reread", "commit"} =>
              req'[r].body = IF req[r].pc \in {"reread", "commit"} THEN req[r].body ELSE Facts(req[r].doc)
<1> DEFINE Goal ==
      /\ GoesOn(r) /\ UNCHANGED now
      /\ req[r].pc \notin {"idle", "done"} /\ req'[r].pc \notin {"idle", "lease"}
      /\ req'[r].pc \in Working => req[r].pc \in Working \/ (TakeLease(r) /\ Free(r))
      /\ req'[r].pc = "call" => Charge(r)
      /\ req'[r].pc \in {"reread", "commit"} =>
           req'[r].body = IF req[r].pc \in {"reread", "commit"} THEN req[r].body ELSE Facts(req[r].doc)
<1>0. ASSUME NEW to, Set(r, [pc |-> to])
      PROVE  GoesOn(r) /\ req'[r].pc = to /\ req'[r].body = req[r].body
  <2> DEFINE f == [pc |-> to]
  <2>1. DOMAIN f = {"pc"} /\ f.pc = to
    OBVIOUS
  <2> HIDE DEF f
  <2>2. Set(r, f)
    BY <1>0 DEF f
  <2> QED BY <2>1, <2>2, Going
<1>a. ASSUME NEW to, NEW reply, Set(r, [pc |-> to, answer |-> reply])
      PROVE  GoesOn(r) /\ req'[r].pc = to /\ req'[r].body = req[r].body
  <2> DEFINE f == [pc |-> to, answer |-> reply]
  <2>1. DOMAIN f = {"pc", "answer"} /\ f.pc = to
    OBVIOUS
  <2> HIDE DEF f
  <2>2. Set(r, f)
    BY <1>a DEF f
  <2> QED BY <2>1, <2>2, Going
<1>b. ASSUME NEW facts, Set(r, [pc |-> "reread", body |-> facts])
      PROVE  GoesOn(r) /\ req'[r].pc = "reread" /\ req'[r].body = facts
  <2> DEFINE f == [pc |-> "reread", body |-> facts]
  <2>1. DOMAIN f = {"pc", "body"} /\ f.pc = "reread" /\ f.body = facts
    OBVIOUS
  <2> HIDE DEF f
  <2>2. Set(r, f)
    BY <1>b DEF f
  <2> QED BY <2>1, <2>2, Going
<1>1. CASE TakeLease(r)
  <2>1. /\ req[r].pc = "lease" /\ UNCHANGED now
        /\ (Free(r) /\ Set(r, [pc |-> "recheck"])) \/ Set(r, [pc |-> "done"])
    BY <1>1 DEF TakeLease, At
  <2> QED BY <1>1, <2>1, <1>0 DEF Working
<1>2. CASE Recheck(r)
  <2>1. /\ req[r].pc = "recheck" /\ UNCHANGED now
        /\ Set(r, [pc |-> "charge"]) \/ Set(r, [pc |-> "release", answer |-> Stored(r)])
    BY <1>2 DEF Recheck, At, Replied
  <2> QED BY <2>1, <1>0, <1>a DEF Working
<1>3. CASE Charge(r)
  <2>1. /\ req[r].pc = "charge" /\ UNCHANGED now
        /\ \E to \in {"call", "release"} : Set(r, [pc |-> to])
    BY <1>3 DEF Charge, At
  <2> QED BY <1>3, <2>1, <1>0 DEF Working
<1>4. CASE Call(r)
  <2>1. /\ req[r].pc = "call" /\ UNCHANGED now
        /\ \/ Set(r, [pc |-> "release"])
           \/ \E facts : facts = Facts(req[r].doc) /\ Set(r, [pc |-> "reread", body |-> facts])
    BY <1>4 DEF Call, At, KeepsFacts
  <2>2. CASE Set(r, [pc |-> "release"])
    BY <2>1, <2>2, <1>0 DEF Working
  <2>3. ASSUME NEW facts, facts = Facts(req[r].doc), Set(r, [pc |-> "reread", body |-> facts])
        PROVE  Goal
    BY <2>1, <2>3, <1>b DEF Working
  <2> QED BY <2>1, <2>2, <2>3
<1>5. CASE Reread(r)
  <2>1. /\ req[r].pc = "reread" /\ UNCHANGED now
        /\ \E to \in {"commit", "release"} : Set(r, [pc |-> to])
    BY <1>5 DEF Reread, At
  <2> QED BY <2>1, <1>0 DEF Working
<1>6. CASE CommitText(r)
  <2>1. /\ req[r].pc = "commit" /\ UNCHANGED now
        /\ \E reply : Set(r, [pc |-> "release", answer |-> reply])
    BY <1>6 DEF CommitText, At, Replied
  <2> QED BY <2>1, <1>a DEF Working
<1>7. CASE Release(r)
  <2>1. req[r].pc = "release" /\ UNCHANGED now /\ Set(r, [pc |-> "done"])
    BY <1>7 DEF Release, At
  <2> QED BY <2>1, <1>0 DEF Working
<1>8. CASE Crash(r)
  <2>1. req[r].pc \notin {"idle", "done"} /\ UNCHANGED now /\ Set(r, [pc |-> "done"])
    BY <1>8 DEF Crash
  <2> QED BY <2>1, <1>0 DEF Working
<1> QED BY <1>1, <1>2, <1>3, <1>4, <1>5, <1>6, <1>7, <1>8 DEF Works

\* A request asks: it takes what is displayed, and the instant, with it.
LEMMA Asks ==
  ASSUME Asked, NEW r \in Requests, Ask(r)
  PROVE  /\ req' = [q \in Requests |-> req'[q]] /\ IsRequest(req'[r])
         /\ \A q \in Requests \ {r} : req'[q] = req[q]
         /\ req[r].pc = "idle" /\ req'[r].pc \in {"lease", "done"}
         /\ req'[r].at = now /\ req'[r].of = Displayed /\ req'[r].doc = Displayed.doc
         /\ UNCHANGED <<now, lease, count, calls, display, rows>>
<1>1. PICK l \in Languages :
        Set(r, [at |-> now, lang |-> l, doc |-> Displayed.doc, of |-> Displayed,
                pc |-> IF Cached(Displayed.doc, l) = {} THEN "lease" ELSE "done",
                answer |-> IF Cached(Displayed.doc, l) = {} THEN Null
                           ELSE CHOOSE t \in Cached(Displayed.doc, l) : TRUE])
  BY DEF Ask
<1> DEFINE to == IF Cached(Displayed.doc, l) = {} THEN "lease" ELSE "done"
           reply == IF Cached(Displayed.doc, l) = {} THEN Null
                    ELSE CHOOSE t \in Cached(Displayed.doc, l) : TRUE
           f == [at |-> now, lang |-> l, doc |-> Displayed.doc, of |-> Displayed, pc |-> to,
                 answer |-> reply]
<1>2. /\ DOMAIN f = {"at", "lang", "doc", "of", "pc", "answer"}
      /\ f["at"] = now /\ f["doc"] = Displayed.doc /\ f["of"] = Displayed /\ f["pc"] = to
      /\ to \in {"lease", "done"}
  OBVIOUS
<1>3. Set(r, f)
  BY <1>1
<1> HIDE DEF f, to, reply
<1>4. /\ req' = [q \in Requests |-> req'[q]] /\ IsRequest(req'[r])
      /\ \A q \in Requests \ {r} : req'[q] = req[q]
      /\ \A x \in DOMAIN f : req'[r][x] = f[x]
  <2>1. DOMAIN f \subseteq ReqFields
    BY <1>2 DEF ReqFields
  <2> QED BY <1>3, <2>1, Setting
<1>5. /\ req'[r]["at"] = now /\ req'[r]["doc"] = Displayed.doc /\ req'[r]["of"] = Displayed
      /\ req'[r]["pc"] = to /\ to \in {"lease", "done"}
  BY <1>1, <1>2, <1>4
<1>6. req[r].pc = "idle" /\ UNCHANGED <<now, lease, count, calls, display, rows>>
  BY DEF Ask, At
<1> QED BY <1>1, <1>4, <1>5, <1>6

------------------------------------------------------------------------------
\* What only the display or the clock changes.
Shows == Reestimate \/ SetTranslation \/ Clock

LEMMA ShowsKeep == Shows => UNCHANGED <<req, lease, count, calls, ready, kept>>
BY DEF Shows, Reestimate, SetTranslation, Clock, rows

LEMMA NextParts == TextNext <=> Shows \/ \E r \in Requests : Ask(r) \/ Works(r)
BY DEF TextNext, Shows, Works

LEMMA AskedStays == Asked /\ TextNext => Asked'
<1> SUFFICES ASSUME Asked, TextNext PROVE Asked'
  OBVIOUS
<1>1. CASE Shows
  <2>1. now' \in Nat
    BY <1>1 DEF Asked, Shows, Reestimate, SetTranslation, Clock
  <2> QED BY <1>1, <2>1, ShowsKeep DEF Asked
<1>2. ASSUME NEW r \in Requests, Ask(r) PROVE Asked'
  <2>1. /\ req' = [q \in Requests |-> req'[q]] /\ IsRequest(req'[r])
        /\ \A q \in Requests \ {r} : req'[q] = req[q]
        /\ req'[r].pc \in {"lease", "done"} /\ now' = now
        /\ req'[r].at = now /\ req'[r].of = Displayed /\ req'[r].doc = Displayed.doc
    BY <1>2, Asks
  <2>2. Faithful(req'[r]) /\ req'[r].at \in Nat
    BY <2>1 DEF Faithful, Displayed, Asked
  <2>3. \A q \in Requests : IsRequest(req'[q]) /\ req'[q].at \in Nat /\ Faithful(req'[q])
    BY <2>1, <2>2 DEF Asked
  <2> QED BY <2>1, <2>3 DEF Asked
<1>3. ASSUME NEW r \in Requests, Works(r) PROVE Asked'
  <2>1. /\ GoesOn(r) /\ now' = now /\ req[r].pc # "idle"
        /\ req'[r].pc \in {"reread", "commit"} =>
             req'[r].body = IF req[r].pc \in {"reread", "commit"} THEN req[r].body ELSE Facts(req[r].doc)
    BY <1>3, WorksOn
  <2>2. Faithful(req[r]) /\ req[r].at \in Nat
    BY DEF Asked
  <2>3. Faithful(req'[r]) /\ req'[r].at \in Nat
    BY <2>1, <2>2 DEF Faithful, GoesOn
  <2>4. \A q \in Requests : IsRequest(req'[q]) /\ req'[q].at \in Nat /\ Faithful(req'[q])
    BY <2>1, <2>3 DEF Asked, GoesOn
  <2> QED BY <2>1, <2>4 DEF Asked, GoesOn
<1> QED BY <1>1, <1>2, <1>3, NextParts

------------------------------------------------------------------------------
\* The leases.
LEMMA LeaseFrame ==
  ASSUME NEW r \in Requests, Works(r)
  PROVE  \/ lease' = lease
         \/ Release(r) /\ lease' = {x \in lease : x.by # r}
         \/ /\ TakeLease(r) /\ Free(r) /\ req[r].pc = "lease"
            /\ lease' = (lease \ Leases(r)) \cup {[doc |-> req[r].doc, lang |-> req[r].lang,
                                                   by |-> r, until |-> req[r].at + Lease]}
BY DEF Works, TakeLease, Recheck, Charge, Call, Reread, CommitText, Release, Crash, At

LEMMA LeasedStays == Asked /\ Leased /\ TextNext => Leased'
<1> SUFFICES ASSUME Asked, Leased, TextNext PROVE Leased'
  OBVIOUS
<1>1. CASE Shows
  BY <1>1, ShowsKeep DEF Leased
<1>2. ASSUME NEW r \in Requests, Ask(r) PROVE Leased'
  <2>1. /\ \A q \in Requests \ {r} : req'[q] = req[q]
        /\ req[r].pc = "idle" /\ lease' = lease
    BY <1>2, Asks
  <2>2. \A x \in lease : x.by # r
    BY <2>1 DEF Leased
  <2> QED BY <2>1, <2>2 DEF Leased
<1>3. ASSUME NEW r \in Requests, Works(r) PROVE Leased'
  <2>1. GoesOn(r) /\ req'[r].pc \notin {"idle", "lease"}
    BY <1>3, WorksOn
  <2>2. \A x \in lease :
          /\ x.by \in Requests /\ req'[x.by].pc \notin {"idle", "lease"}
          /\ x.doc = req'[x.by].doc /\ x.lang = req'[x.by].lang /\ x.until = req'[x.by].at + Lease
    BY <2>1 DEF Leased, GoesOn
  <2>3. CASE lease' \subseteq lease
    BY <2>2, <2>3 DEF Leased
  <2>4. ASSUME NEW y, lease' = (lease \ Leases(r)) \cup {y},
               y = [doc |-> req[r].doc, lang |-> req[r].lang, by |-> r, until |-> req[r].at + Lease]
        PROVE  Leased'
    <3>1. y.by = r /\ y.doc = req[r].doc /\ y.lang = req[r].lang /\ y.until = req[r].at + Lease
      BY <2>4
    <3>2. \A x \in lease \ Leases(r) : ~(x.doc = y.doc /\ x.lang = y.lang)
      BY <3>1 DEF Leases
    <3>3. /\ y.by \in Requests /\ req'[y.by].pc \notin {"idle", "lease"}
          /\ y.doc = req'[y.by].doc /\ y.lang = req'[y.by].lang /\ y.until = req'[y.by].at + Lease
      BY <2>1, <3>1 DEF GoesOn
    <3>4. \A x, z \in lease' : x.doc = z.doc /\ x.lang = z.lang => x = z
      BY <2>4, <3>2 DEF Leased
    <3>5. \A x \in lease' :
            /\ x.by \in Requests /\ req'[x.by].pc \notin {"idle", "lease"}
            /\ x.doc = req'[x.by].doc /\ x.lang = req'[x.by].lang /\ x.until = req'[x.by].at + Lease
      BY <2>2, <2>4, <3>3
    <3> QED BY <3>4, <3>5 DEF Leased
  <2> QED BY <1>3, <2>3, <2>4, LeaseFrame
<1> QED BY <1>1, <1>2, <1>3, NextParts

LEMMA TakesFree ==
  ASSUME NEW r \in Requests, TakeLease(r), Free(r)
  PROVE  (\E y \in lease' : y.by = r) /\ \A x \in lease \ lease' : x \in Leases(r)
<1> DEFINE y == [doc |-> req[r].doc, lang |-> req[r].lang, by |-> r, until |-> req[r].at + Lease]
<1>1. lease' = (lease \ Leases(r)) \cup {y}
  BY DEF TakeLease
<1>2. y.by = r
  OBVIOUS
<1> HIDE DEF y
<1> QED BY <1>1, <1>2

LEMMA OvertakenStays ==
  ASSUME NEW r \in Requests, GoesOn(r), req[r].pc # "idle", req'[r].pc \notin {"idle", "lease"},
         NEW q \in Requests, Overtaken(q)
  PROVE  Overtaken(q)'
<1>1. \A s \in Requests : /\ req'[s].at = req[s].at /\ req'[s].doc = req[s].doc
                          /\ req'[s].lang = req[s].lang
                          /\ req[s].pc \notin {"idle", "lease"} => req'[s].pc \notin {"idle", "lease"}
  BY DEF GoesOn
<1> QED BY <1>1 DEF Overtaken, Same

LEMMA OvertakenOrLeased ==
  TranslationsAssumption /\ Asked /\ Leased /\ LeasedOrOvertaken /\ TextNext => LeasedOrOvertaken'
<1> SUFFICES ASSUME TranslationsAssumption, Asked, Leased, LeasedOrOvertaken, TextNext
             PROVE  LeasedOrOvertaken'
  OBVIOUS
<1>1. CASE Shows
  BY <1>1, ShowsKeep DEF LeasedOrOvertaken, Overtaken, Generating, Same
<1>2. ASSUME NEW r \in Requests, Ask(r) PROVE LeasedOrOvertaken'
  <2>1. /\ \A q \in Requests \ {r} : req'[q] = req[q]
        /\ req[r].pc = "idle" /\ lease' = lease /\ req'[r].pc \in {"lease", "done"}
    BY <1>2, Asks
  <2> SUFFICES ASSUME NEW q \in Requests, Generating(q)'
               PROVE  (\E x \in lease' : x.by = q) \/ Overtaken(q)'
    BY DEF LeasedOrOvertaken
  <2>2. q # r /\ Generating(q)
    BY <2>1 DEF Generating
  <2>3. CASE \E x \in lease : x.by = q
    BY <2>1, <2>3
  <2>4. CASE Overtaken(q)
    <3>1. PICK s \in Requests :
            Same(s, q) /\ req[s].pc \notin {"idle", "lease"} /\ req[s].at >= req[q].at + Lease
      BY <2>4 DEF Overtaken
    <3>2. req'[s] = req[s] /\ req'[q] = req[q]
      BY <2>1, <2>2, <3>1
    <3>3. Same(s, q)' /\ req'[s].pc \notin {"idle", "lease"} /\ req'[s].at >= req'[q].at + Lease
      BY <3>1, <3>2 DEF Same
    <3> QED BY <3>3 DEF Overtaken
  <2> QED BY <2>2, <2>3, <2>4 DEF LeasedOrOvertaken
<1>3. ASSUME NEW r \in Requests, Works(r) PROVE LeasedOrOvertaken'
  <2>1. /\ GoesOn(r) /\ req[r].pc # "idle" /\ req'[r].pc \notin {"idle", "lease"}
        /\ req'[r].pc \in Working => req[r].pc \in Working \/ (TakeLease(r) /\ Free(r))
    BY <1>3, WorksOn
  <2> SUFFICES ASSUME NEW q \in Requests, Generating(q)'
               PROVE  (\E x \in lease' : x.by = q) \/ Overtaken(q)'
    BY DEF LeasedOrOvertaken
  <2>2. CASE Overtaken(q)
    BY <2>1, <2>2, OvertakenStays
  <2>3. CASE \E x \in lease : x.by = q
    <3>1. PICK x \in lease : x.by = q
      BY <2>3
    <3>2. CASE x \in lease'
      BY <3>1, <3>2
    <3>3. CASE Release(r) /\ q = r
      <4>1. req'[r].pc \notin Working
        <5>1. req[r].pc = "release"
          BY <3>3 DEF Release, At
        <5> QED BY <2>1, <5>1 DEF Working, TakeLease, At
      <4> QED BY <3>3, <4>1 DEF Generating, Working
    <3>4. CASE x \in Leases(r) /\ Free(r) /\ q # r
      <4>1. x.until <= req[r].at /\ x.until = req[q].at + Lease
        BY <3>1, <3>4 DEF Free, Leased
      <4>2. Same(r, q)
        BY <3>1, <3>4 DEF Leases, Leased, Same
      <4>3. /\ req'[r].at = req[r].at /\ req'[r].doc = req[r].doc /\ req'[r].lang = req[r].lang
            /\ req'[q] = req[q] /\ req[q].at \in Nat /\ req[r].at \in Nat /\ Lease \in Nat
        BY <2>1, <3>4 DEF GoesOn, Asked, TranslationsAssumption
      <4>4. Same(r, q)' /\ req'[r].at >= req'[q].at + Lease
        BY <4>1, <4>2, <4>3 DEF Same
      <4> QED BY <2>1, <4>4 DEF Overtaken
    <3> QED
      <4>1. CASE lease' = {z \in lease : z.by # r} /\ Release(r)
        BY <3>1, <3>2, <3>3, <4>1
      <4>2. CASE TakeLease(r) /\ Free(r)
        BY <3>1, <3>2, <3>4, <4>2, TakesFree
      <4> QED BY <1>3, <3>1, <3>2, <4>1, <4>2, LeaseFrame
  <2>4. CASE q = r /\ TakeLease(r) /\ Free(r)
    BY <2>4, TakesFree
  <2>5. CASE Generating(q)
    BY <2>2, <2>3, <2>5 DEF LeasedOrOvertaken
  <2> QED BY <2>1, <2>4, <2>5 DEF Generating, Working, GoesOn
<1> QED BY <1>1, <1>2, <1>3, NextParts


------------------------------------------------------------------------------
\* The counters.
\* One request's step adds it to the callers, takes it from them, or neither.
LEMMA Callers ==
  ASSUME IsFiniteSet(Calling), NEW r \in Requests, GoesOn(r)
  PROVE  /\ IsFiniteSet(Calling)' /\ Cardinality(Calling) \in Nat
         /\ Cardinality(Calling)' =
              Cardinality(Calling) + (IF req'[r].pc = "call" /\ req[r].pc # "call" THEN 1
                                      ELSE IF req'[r].pc # "call" /\ req[r].pc = "call" THEN -1
                                      ELSE 0)
<1> DEFINE S == Calling
           T == Calling'
<1>1. \A q \in Requests \ {r} : req'[q] = req[q]
  BY DEF GoesOn
<1>2. IsFiniteSet(S)
  OBVIOUS
<1>3. Cardinality(S) \in Nat
  BY <1>2, FS_CardinalityType
<1>4. CASE req'[r].pc = "call" /\ req[r].pc # "call"
  <2>1. T = S \cup {r} /\ r \notin S
    BY <1>1, <1>4 DEF Calling
  <2> HIDE DEF S, T
  <2>2. IsFiniteSet(T) /\ Cardinality(T) = Cardinality(S) + 1
    BY <1>2, <2>1, FS_AddElement
  <2> QED BY <1>3, <1>4, <2>2 DEF S, T
<1>5. CASE req'[r].pc # "call" /\ req[r].pc = "call"
  <2>1. T = S \ {r} /\ r \in S
    BY <1>1, <1>5 DEF Calling
  <2> HIDE DEF S, T
  <2>2. IsFiniteSet(T) /\ Cardinality(T) = Cardinality(S) - 1
    BY <1>2, <2>1, FS_RemoveElement
  <2> QED BY <1>3, <1>5, <2>2 DEF S, T
<1>6. CASE (req'[r].pc = "call") <=> (req[r].pc = "call")
  <2>1. T = S
    BY <1>1, <1>6 DEF Calling
  <2> QED BY <1>2, <1>3, <1>6, <2>1
<1> QED BY <1>4, <1>5, <1>6

\* A request is charged: every scope it passes is counted once more.
LEMMA Counts ==
  ASSUME TranslationsAssumption, Charged, NEW r \in Requests, Charge(r), Asked
  PROVE  /\ count' = [k \in DOMAIN count' |-> count'[k]] /\ \A k \in DOMAIN count' : count'[k] \in Nat
         /\ \A k \in {"global", "ai"} :
              /\ Counted(<<k>>) \in Nat /\ Counted(<<k>>)' >= Counted(<<k>>)
              /\ req'[r].pc = "call" =>
                   Counted(<<k>>)' = Counted(<<k>>) + 1 /\ Counted(<<k>>) < Limit[k]
<1> DEFINE over == {i \in 1..4 : Over(Scopes(r)[i])}
           upto == IF over = {} THEN 4 ELSE Min(over)
           D == DOMAIN count \cup {Scopes(r)[i] : i \in 1..upto}
           once(s) == IF \E i \in 1..upto : Scopes(r)[i] = s THEN 1 ELSE 0
           c == [s \in D |-> Counted(s) + once(s)]
           f == [pc |-> IF over = {} THEN "call" ELSE "release"]
<1>1. count' = c /\ Set(r, f)
  BY DEF Charge
<1>2. req'[r].pc = "call" => over = {}
  <2>1. DOMAIN f = {"pc"} /\ f.pc = "call" => over = {}
    OBVIOUS
  <2>2. DOMAIN f = {"pc"}
    OBVIOUS
  <2>3. f.pc = "call" => over = {}
    OBVIOUS
  <2> HIDE DEF f
  <2> QED BY <1>1, <2>2, <2>3, Going
<1>3. \A s : Counted(s) \in Nat
  BY DEF Counted, Charged
<1>4. \A s : once(s) \in {0, 1}
  OBVIOUS
<1>5. Scopes(r)[1] = <<"global">> /\ Scopes(r)[4] = <<"ai">>
  BY DEF Scopes
<1>6. over = {} => upto = 4
  OBVIOUS
<1>7. over = {} => ~Over(<<"global">>) /\ ~Over(<<"ai">>)
  <2>1. 1 \in 1..4 /\ 4 \in 1..4
    OBVIOUS
  <2> QED BY <1>5, <2>1
<1>8. over = {} => once(<<"global">>) = 1 /\ once(<<"ai">>) = 1
  <2>1. 1 \in 1..4 /\ 4 \in 1..4
    OBVIOUS
  <2> QED BY <1>5, <1>6, <2>1
<1>9. over = {} => <<"global">> \in D /\ <<"ai">> \in D
  <2>1. 1 \in 1..4 /\ 4 \in 1..4
    OBVIOUS
  <2> QED BY <1>5, <1>6, <2>1
<1>10. \A k \in {"global", "ai"} : over = {} => Counted(<<k>>) < Limit[k]
  <2>1. \A k \in {"global", "ai"} : Limit[k] \in Nat
    BY DEF TranslationsAssumption
  <2>2. (<<"global">>)[1] = "global" /\ (<<"ai">>)[1] = "ai"
    OBVIOUS
  <2> QED BY <1>3, <1>7, <2>1, <2>2 DEF Over
<1>11. DOMAIN count \subseteq D
  OBVIOUS
<1> HIDE DEF over, upto, once, D
<1>12. DOMAIN c = D /\ \A s \in D : c[s] = Counted(s) + once(s)
  OBVIOUS
<1>13. \A s \in D : c[s] \in Nat
  BY <1>3, <1>4, <1>12
<1>14. c = [k \in DOMAIN c |-> c[k]]
  OBVIOUS
<1> HIDE DEF c
<1>15. ASSUME NEW s
       PROVE  /\ Counted(s)' >= Counted(s)
              /\ s \in D => Counted(s)' = Counted(s) + once(s)
  <2>1. DOMAIN count' = D
    BY <1>1, <1>12
  <2>2. Counted(s)' = IF s \in D THEN c[s] ELSE 0
    BY <1>1, <2>1 DEF Counted
  <2>3. s \notin D => Counted(s) = 0
    BY <1>11 DEF Counted
  <2> QED BY <1>3, <1>4, <1>12, <2>2, <2>3
<1>16. \A k \in {"global", "ai"} : over = {} => Counted(<<k>>)' = Counted(<<k>>) + 1
  BY <1>8, <1>9, <1>15
<1>17. count' = [k \in DOMAIN count' |-> count'[k]] /\ \A k \in DOMAIN count' : count'[k] \in Nat
  BY <1>1, <1>12, <1>13, <1>14
<1>18. \A k \in {"global", "ai"} : Counted(<<k>>) \in Nat /\ Counted(<<k>>)' >= Counted(<<k>>)
  BY <1>3, <1>15
<1>19. ASSUME req'[r].pc = "call", NEW k \in {"global", "ai"}
       PROVE  Counted(<<k>>)' = Counted(<<k>>) + 1 /\ Counted(<<k>>) < Limit[k]
  BY <1>2, <1>10, <1>16, <1>19
<1> QED BY <1>17, <1>18, <1>19

LEMMA ChargedStays == TranslationsAssumption /\ Asked /\ Charged /\ TextNext => Charged'
<1> SUFFICES ASSUME TranslationsAssumption, Asked, Charged, TextNext PROVE Charged'
  OBVIOUS
<1>0. \A k \in {"global", "ai"} : Limit[k] \in Nat /\ Counted(<<k>>) \in Nat
  BY DEF TranslationsAssumption, Counted, Charged
<1>1. CASE Shows
  <2>1. UNCHANGED <<req, count, calls>>
    BY <1>1, ShowsKeep
  <2>2. UNCHANGED Calling
    BY <2>1 DEF Calling
  <2> QED BY <2>1, <2>2 DEF Charged, Counted
<1>2. ASSUME NEW r \in Requests, Ask(r) PROVE Charged'
  <2>1. /\ \A q \in Requests \ {r} : req'[q] = req[q]
        /\ req[r].pc = "idle" /\ req'[r].pc \in {"lease", "done"} /\ UNCHANGED <<count, calls>>
    BY <1>2, Asks
  <2>2. UNCHANGED Calling
    BY <2>1 DEF Calling
  <2> QED BY <2>1, <2>2 DEF Charged, Counted
<1>3. ASSUME NEW r \in Requests, Works(r) PROVE Charged'
  <2>1. /\ GoesOn(r) /\ req'[r].pc = "call" => Charge(r)
        /\ GoesOn(r)
    BY <1>3, WorksOn
  <2>2. /\ IsFiniteSet(Calling)' /\ Cardinality(Calling) \in Nat
        /\ Cardinality(Calling)' =
             Cardinality(Calling) + (IF req'[r].pc = "call" /\ req[r].pc # "call" THEN 1
                                     ELSE IF req'[r].pc # "call" /\ req[r].pc = "call" THEN -1
                                     ELSE 0)
    BY <2>1, Callers DEF Charged
  <2>3. CASE Charge(r)
    <3>1. calls' = calls /\ req[r].pc = "charge"
      BY <2>3 DEF Charge, At
    <3>2. Cardinality(Calling)' = Cardinality(Calling) + (IF req'[r].pc = "call" THEN 1 ELSE 0)
      BY <2>2, <3>1
    <3>3. /\ count' = [k \in DOMAIN count' |-> count'[k]] /\ \A k \in DOMAIN count' : count'[k] \in Nat
          /\ \A k \in {"global", "ai"} :
               /\ Counted(<<k>>) \in Nat /\ Counted(<<k>>)' >= Counted(<<k>>)
               /\ req'[r].pc = "call" =>
                    Counted(<<k>>)' = Counted(<<k>>) + 1 /\ Counted(<<k>>) < Limit[k]
      BY <2>3, Counts
    <3>4. \A k \in {"global", "ai"} : Counted(<<k>>)' \in Nat
      BY <3>3 DEF Counted
    <3>5. ASSUME NEW k \in {"global", "ai"}, NEW c \in Nat,
                 c >= Counted(<<k>>),
                 req'[r].pc = "call" => c = Counted(<<k>>) + 1 /\ Counted(<<k>>) < Limit[k]
          PROVE  /\ calls' + Cardinality(Calling)' <= c
                 /\ calls' + Cardinality(Calling)' <= Limit[k]
      <4>1. /\ calls + Cardinality(Calling) <= Counted(<<k>>)
            /\ calls + Cardinality(Calling) <= Limit[k] /\ calls \in Nat
        BY DEF Charged
      <4> QED BY <1>0, <2>2, <3>1, <3>2, <3>5, <4>1
    <3>6. \A k \in {"global", "ai"} :
            /\ calls' + Cardinality(Calling)' <= Counted(<<k>>)'
            /\ calls' + Cardinality(Calling)' <= Limit[k]
      BY <3>3, <3>4, <3>5
    <3> QED BY <2>2, <3>1, <3>3, <3>6 DEF Charged
  <2>4. CASE ~Charge(r)
    <3>1. count' = count /\ req'[r].pc # "call"
          /\ \/ calls' = calls
             \/ calls' = calls + 1 /\ req[r].pc = "call"
      BY <1>3, <2>1, <2>4 DEF Works, TakeLease, Recheck, Call, Reread, CommitText, Release, Crash, At
    <3>2. calls' \in Nat /\ calls' + Cardinality(Calling)' <= calls + Cardinality(Calling)
          /\ Cardinality(Calling)' \in Nat
      <4>1. Cardinality(Calling)' \in Nat
        BY <2>2, FS_CardinalityType
      <4> QED BY <2>2, <3>1, <4>1 DEF Charged
    <3>3. \A k \in {"global", "ai"} : Counted(<<k>>)' = Counted(<<k>>)
      BY <3>1 DEF Counted
    <3>4. \A k \in {"global", "ai"} :
            /\ calls' + Cardinality(Calling)' <= Counted(<<k>>)'
            /\ calls' + Cardinality(Calling)' <= Limit[k]
      BY <1>0, <2>2, <3>2, <3>3 DEF Charged
    <3> QED BY <2>2, <3>1, <3>2, <3>4 DEF Charged
  <2> QED BY <2>3, <2>4
<1> QED BY <1>1, <1>2, <1>3, NextParts

------------------------------------------------------------------------------
\* The rows and the audit.
\* What is stored by a step is the commit's, of what is displayed.
LEMMA Commits ==
  ASSUME Asked, TextNext
  PROVE  \/ UNCHANGED <<ready, kept>>
         \/ /\ \A k \in {"generation", "review"} : \A t \in ready' \ ready : [by |-> t.by, kind |-> k] \in kept'
            /\ kept \subseteq kept' /\ UNCHANGED display
            /\ \/ ready' = ready
               \/ \E t : /\ ready' = ready \cup {t} /\ Cached(t.doc, t.lang) = {}
                         /\ t.doc = Displayed.doc /\ t.body = Facts(t.doc)
<1>1. CASE Shows
  BY <1>1, ShowsKeep
<1>2. ASSUME NEW r \in Requests, Ask(r) PROVE UNCHANGED <<ready, kept>>
  BY <1>2, Asks DEF rows
<1>3. ASSUME NEW r \in Requests, Works(r), ~CommitText(r) PROVE UNCHANGED <<ready, kept>>
  BY <1>3 DEF Works, TakeLease, Recheck, Charge, Call, Reread, Release, Crash, rows
<1>4. ASSUME NEW r \in Requests, CommitText(r), ~Guard(r) PROVE UNCHANGED <<ready, kept>>
  BY <1>4 DEF CommitText, rows
<1>5. ASSUME NEW r \in Requests, CommitText(r), Guard(r)
      PROVE  /\ \A k \in {"generation", "review"} : \A t \in ready' \ ready : [by |-> t.by, kind |-> k] \in kept'
             /\ kept \subseteq kept' /\ UNCHANGED display
             /\ \/ ready' = ready
                \/ \E t : /\ ready' = ready \cup {t} /\ Cached(t.doc, t.lang) = {}
                          /\ t.doc = Displayed.doc /\ t.body = Facts(t.doc)
  <2> DEFINE t == [doc |-> req[r].doc, lang |-> req[r].lang, body |-> req[r].body, by |-> r]
  <2>1. /\ req[r].pc = "commit" /\ UNCHANGED display
        /\ ready' = IF Cached(t.doc, t.lang) = {} THEN ready \cup {t} ELSE ready
        /\ kept' = kept \cup {[by |-> r, kind |-> k] : k \in {"generation", "review"}}
    BY <1>5 DEF CommitText, At
  <2>2. t.doc = req[r].doc /\ t.body = req[r].body /\ t.by = r
    OBVIOUS
  <2>3. req[r].doc = Displayed.doc /\ req[r].body = Facts(req[r].doc)
    <3>1. Faithful(req[r])
      BY DEF Asked
    <3>2. edition = req[r].of.edition /\ estimate = req[r].of.estimate
      BY <1>5 DEF Guard
    <3>3. req[r].doc = [edition |-> edition, why |-> IF estimate = Null THEN Null ELSE estimate.why]
      BY <2>1, <3>1, <3>2 DEF Faithful
    <3>4. Displayed.doc = [edition |-> edition, why |-> IF estimate = Null THEN Null ELSE estimate.why]
      BY DEF Displayed
    <3> QED BY <2>1, <3>1, <3>3, <3>4 DEF Faithful
  <2> HIDE DEF t
  <2>4. \A k \in {"generation", "review"} : \A s \in ready' \ ready : [by |-> s.by, kind |-> k] \in kept'
    BY <2>1, <2>2
  <2> QED BY <2>1, <2>2, <2>3, <2>4
<1> QED BY <1>1, <1>2, <1>3, <1>4, <1>5, NextParts

LEMMA RowsStay == Asked /\ OneTranslationEach /\ TextNext => OneTranslationEach'
<1> SUFFICES ASSUME Asked, OneTranslationEach, TextNext PROVE OneTranslationEach'
  OBVIOUS
<1>1. CASE UNCHANGED <<ready, kept>>
  BY <1>1 DEF OneTranslationEach, Cached
<1>2. CASE kept \subseteq kept' /\ ready' = ready
  BY <1>2 DEF OneTranslationEach, Cached
<1>3. ASSUME NEW t, ready' = ready \cup {t}, Cached(t.doc, t.lang) = {}, t.body = Facts(t.doc),
             kept \subseteq kept',
             \A k \in {"generation", "review"} : \A s \in ready' \ ready : [by |-> s.by, kind |-> k] \in kept'
      PROVE  OneTranslationEach'
  <2>1. t \notin ready
    BY <1>3 DEF Cached
  <2>2. Cached(t.doc, t.lang)' = {t}
    BY <1>3 DEF Cached
  <2>3. ASSUME NEW s \in ready PROVE Cached(s.doc, s.lang)' = {s}
    <3>1. Cached(s.doc, s.lang) = {s}
      BY DEF OneTranslationEach
    <3>2. ~(t.doc = s.doc /\ t.lang = s.lang)
      BY <1>3, <2>3 DEF Cached
    <3> QED BY <1>3, <3>1, <3>2 DEF Cached
  <2>4. \A s \in ready : s.body = Facts(s.doc) /\ \A k \in {"generation", "review"} : [by |-> s.by, kind |-> k] \in kept'
    BY <1>3 DEF OneTranslationEach
  <2>5. \A k \in {"generation", "review"} : [by |-> t.by, kind |-> k] \in kept'
    BY <1>3, <2>1
  <2> QED BY <1>3, <2>2, <2>3, <2>4, <2>5 DEF OneTranslationEach
<1> QED BY <1>1, <1>2, <1>3, Commits

LEMMA AuditStays ==
  TranslationsAssumption /\ audit \in Seq(Editions) /\ AuditTellsDisplay /\ TextNext
    => audit' \in Seq(Editions) /\ AuditTellsDisplay'
<1> SUFFICES ASSUME TranslationsAssumption, audit \in Seq(Editions), AuditTellsDisplay, TextNext
             PROVE  audit' \in Seq(Editions) /\ AuditTellsDisplay'
  OBVIOUS
<1>1. CASE UNCHANGED <<audit, edition>>
  BY <1>1 DEF AuditTellsDisplay
<1>2. ASSUME NEW e \in Editions, edition # e, audit' = Append(audit, e), edition' = e
      PROVE  audit' \in Seq(Editions) /\ AuditTellsDisplay'
  <2>1. audit' \in Seq(Editions) /\ Len(audit') = Len(audit) + 1 /\ audit'[Len(audit) + 1] = e
        /\ \A i \in 1..Len(audit) : audit'[i] = audit[i]
    BY <1>2
  <2>2. audit' # <<>> /\ edition' = audit'[Len(audit')]
    BY <1>2, <2>1
  <2>3. ASSUME NEW i \in 1..Len(audit') - 1 PROVE audit'[i] # audit'[i + 1]
    <3>1. CASE i < Len(audit)
      <4>1. i \in 1..Len(audit) - 1 /\ i + 1 \in 1..Len(audit)
        BY <2>1, <3>1
      <4>2. audit[i] # audit[i + 1]
        BY <4>1 DEF AuditTellsDisplay
      <4> QED BY <2>1, <4>1, <4>2
    <3>2. CASE i = Len(audit)
      <4>1. audit # <<>> /\ edition = audit[Len(audit)]
        BY <3>2 DEF AuditTellsDisplay
      <4> QED BY <1>2, <2>1, <3>2, <4>1
    <3> QED BY <2>1, <3>1, <3>2
  <2> QED BY <2>1, <2>2, <2>3 DEF AuditTellsDisplay
<1>3. UNCHANGED <<audit, edition>> \/ \E e \in Editions : edition # e /\ audit' = Append(audit, e) /\ edition' = e
  <2>1. CASE Shows
    BY <2>1 DEF Shows, Reestimate, SetTranslation, Clock, display
  <2>2. ASSUME NEW r \in Requests, Ask(r) \/ Works(r) PROVE UNCHANGED <<audit, edition>>
    BY <2>2 DEF Works, Ask, TakeLease, Recheck, Charge, Call, Reread, CommitText, Release, Crash, display
  <2> QED BY <2>1, <2>2, NextParts
<1> QED BY <1>1, <1>2, <1>3

LEMMA TextStarts == TranslationsAssumption /\ TextInit => TextInv
<1> SUFFICES ASSUME TranslationsAssumption, TextInit PROVE TextInv
  OBVIOUS
<1>1. Asked
  <2>1. \A r \in Requests : req[r] = Fresh
    BY DEF TextInit
  <2>2. Fresh.pc = "idle" /\ Fresh.at = 0 /\ IsRequest(Fresh)
    BY DEF Fresh, IsRequest, ReqFields
  <2>3. Faithful(Fresh)
    BY <2>2 DEF Faithful
  <2>4. req = [r \in Requests |-> req[r]]
    BY DEF TextInit
  <2> QED BY <2>1, <2>2, <2>3, <2>4 DEF Asked, TextInit
<1>2. \A r \in Requests : req[r].pc = "idle"
  BY DEF TextInit, Fresh
<1>3. Leased /\ LeasedOrOvertaken
  BY <1>2 DEF Leased, LeasedOrOvertaken, Generating, TextInit
<1>4. Charged
  <2>1. Calling = {}
    BY <1>2 DEF Calling
  <2>2. IsFiniteSet(Calling) /\ Cardinality(Calling) = 0
    BY <2>1, FS_EmptySet
  <2>3. count = [k \in DOMAIN count |-> count[k]] /\ \A k \in DOMAIN count : count[k] \in Nat
    BY DEF TextInit
  <2>4. \A k \in {"global", "ai"} : Limit[k] \in Nat /\ Counted(<<k>>) = 0
    BY DEF TranslationsAssumption, Counted, TextInit
  <2> QED BY <2>2, <2>3, <2>4 DEF Charged, TextInit
<1>5. audit \in Seq(Editions) /\ AuditTellsDisplay /\ OneTranslationEach
  BY DEF TextInit, AuditTellsDisplay, OneTranslationEach
<1> QED BY <1>1, <1>3, <1>4, <1>5 DEF TextInv

LEMMA TextStays == TranslationsAssumption /\ TextInv /\ [TextNext]_textvars => TextInv'
<1> SUFFICES ASSUME TranslationsAssumption, TextInv, [TextNext]_textvars PROVE TextInv'
  OBVIOUS
<1>1. CASE TextNext
  BY <1>1, AskedStays, LeasedStays, OvertakenOrLeased, ChargedStays, RowsStay, AuditStays DEF TextInv
<1>2. CASE UNCHANGED textvars
  <2>1. UNCHANGED <<now, edition, audit, ready, kept, lease, count, calls, req>>
    BY <1>2 DEF textvars
  <2>2. Asked' /\ Leased' /\ LeasedOrOvertaken'
    BY <2>1 DEF TextInv, Asked, Leased, LeasedOrOvertaken, Overtaken, Generating, Same
  <2>3. Charged'
    <3>1. UNCHANGED Calling
      BY <2>1 DEF Calling
    <3> QED BY <2>1, <3>1 DEF TextInv, Charged, Counted
  <2>4. audit' \in Seq(Editions) /\ AuditTellsDisplay' /\ OneTranslationEach'
    BY <2>1 DEF TextInv, AuditTellsDisplay, OneTranslationEach, Cached
  <2> QED BY <2>2, <2>3, <2>4 DEF TextInv
<1> QED BY <1>1, <1>2

\* Every translation request and every stored row is what the code took it for:
\* the rows and the lease a request read (generate), the counters its call was
\* admitted under, the one row of a document and the audit of the operator's
\* editions, for any requests, limits and clock.
THEOREM TextInvariant == TranslationsAssumption /\ TextSpec => []TextInv
<1> SUFFICES ASSUME TranslationsAssumption PROVE TextSpec => []TextInv
  OBVIOUS
<1>1. TextInit => TextInv
  BY TextStarts
<1>2. TextInv /\ [TextNext]_textvars => TextInv'
  BY TextStays
<1> QED BY <1>1, <1>2, PTL DEF TextSpec

\* Two that generate the same either both hold the one lease, or one was overtaken.
LEMMA LeasesApart == Leased /\ LeasedOrOvertaken => OneGenerator
<1> SUFFICES ASSUME Leased, LeasedOrOvertaken,
                    NEW q \in Requests, NEW r \in Requests,
                    q # r, Generating(q), Generating(r), Same(q, r)
             PROVE  \E s \in Requests :
                      /\ Same(s, r) /\ req[s].pc \notin {"idle", "lease"}
                      /\ req[s].at >= req[q].at + Lease \/ req[s].at >= req[r].at + Lease
  BY DEF OneGenerator
<1>1. CASE Overtaken(q) \/ Overtaken(r)
  BY <1>1 DEF Overtaken, Same
<1>2. CASE (\E x \in lease : x.by = q) /\ (\E y \in lease : y.by = r)
  BY <1>2 DEF Leased, Same
<1> QED BY <1>1, <1>2 DEF LeasedOrOvertaken

LEMMA InvariantTells == TranslationsAssumption /\ TextInv =>
  AuditTellsDisplay /\ OneTranslationEach /\ CallsWithinLimit /\ OneGenerator
<1> SUFFICES ASSUME TranslationsAssumption, TextInv
             PROVE  AuditTellsDisplay /\ OneTranslationEach /\ CallsWithinLimit /\ OneGenerator
  OBVIOUS
<1>1. CallsWithinLimit
  <2>1. Cardinality(Calling) \in Nat /\ calls \in Nat
    BY FS_CardinalityType DEF TextInv, Charged
  <2>2. \A k \in {"global", "ai"} : calls + Cardinality(Calling) <= Limit[k] /\ Limit[k] \in Nat
    BY DEF TextInv, Charged, TranslationsAssumption
  <2> QED BY <2>1, <2>2 DEF CallsWithinLimit
<1> QED BY <1>1, LeasesApart DEF TextInv

LEMMA StoresAsShown == TextInv /\ [TextNext]_textvars => [StoredAsShown]_textvars
<1> SUFFICES ASSUME TextInv, TextNext PROVE StoredAsShown
  OBVIOUS
<1> QED BY Commits DEF TextInv, StoredAsShown

\* A reader is served one translation of a document, with the facts of what was
\* displayed when it was stored (CommitText's batch guards), the model is called
\* within its limits, two generate the same only past a lease that ran out, and
\* the operator's audit ends with what is displayed.
THEOREM TextsAreAsShown == TranslationsAssumption /\ TextSpec => TranslatedAsShown
<1> SUFFICES ASSUME TranslationsAssumption PROVE TextSpec => TranslatedAsShown
  OBVIOUS
<1>1. TextSpec => []TextInv
  BY TextInvariant
<1>2. TextInv => AuditTellsDisplay /\ OneTranslationEach /\ CallsWithinLimit /\ OneGenerator
  BY InvariantTells
<1>3. TextInv /\ [TextNext]_textvars => [StoredAsShown]_textvars
  BY StoresAsShown
<1> QED BY <1>1, <1>2, <1>3, PTL DEF TextSpec, TranslatedAsShown
=============================================================================
