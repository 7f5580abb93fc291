--------------------------- MODULE RegistryProofs ---------------------------
(***************************************************************************)
(* The forecast account, its intake gate and the receipts of               *)
(* forecast_registry, for any wallets, resolutions, payload bounds and     *)
(* window, and any number of intake epochs.                                *)
(*                                                                         *)
(* The window is granted because of an account the program keeps without   *)
(* naming it: the time a proposal has stood open and the time it must      *)
(* still wait always make up the 48 hours (ExposureCounted).  Intake is    *)
(* counted because no receipt is of an epoch that is yet to come           *)
(* (ReceiptsOfEpochs), and a seal is after intake because every receipt    *)
(* was accepted by a deadline that has not moved back since                *)
(* (AcceptedInTime).                                                       *)
(***************************************************************************)
EXTENDS RegistryRoles, Registry, FiniteSetTheorems, TLAPS

\* Forecast::validate accepts the account.
AccountValid == forecast # Zero => Valid(forecast) /\ forecast.pausedAt <= now

\* A gate is of a registered forecast; it is idle until its first epoch.
GateRules ==
  gate # Zero => /\ forecast # Zero
                 /\ (gate.phase = IDLE) <=> (gate.epoch = 0)

\* Time open to challenge and time still to wait make up the window.
ExposureCounted ==
  forecast # Zero =>
    /\ forecast.state \in {CHALLENGE, DISPUTED, ESCALATED} =>
         exposed + forecast.notBefore >= now + MinChallenge
    /\ forecast.state = PAUSED /\ forecast.pausedFrom \in {CHALLENGE, DISPUTED, ESCALATED} =>
         exposed + forecast.notBefore >= forecast.pausedAt + MinChallenge

\* A receipt is of this epoch or an earlier one.
ReceiptsOfEpochs ==
  \A e \in Epochs, u \in Users :
    receipts[<<e, u>>] # Zero => gate # Zero /\ e <= gate.epoch

\* While intake is open, what it has accepted was in time for deadlines that
\* have not moved back.
AcceptedInTime ==
  Gated /\ gate.phase = TAKING =>
    \A u \in Users : Receipt(u) # Zero /\ Receipt(u).status # "draft" =>
      /\ Receipt(u).acceptedAt <= Receipt(u).deadline
      /\ Receipt(u).deadline <= EffectiveDeadline(gate, forecast)

\* A sealed or closed gate found nothing pending and nothing material, and
\* holds a finalizing payload.
SealedClean ==
  Gated /\ gate.phase \in {SEALED, CLOSED} =>
    /\ gate.pending = 0 /\ gate.material = 0
    /\ gate.sealed # Zero /\ gate.sealed.payload.state = FINALIZED

\* The inductive invariant.
IInv ==
  /\ TypeOK /\ AccountValid /\ GateRules /\ ExposureCounted
  /\ ReceiptsOfEpochs /\ AcceptedInTime /\ SealedClean
  /\ WindowElapsed /\ GateStaysMatched /\ GateCoversWindow
  /\ CountsMatchReceipts /\ FinalizedThroughGate /\ SealAfterIntake
  /\ SealedStaysFinalizable

-----------------------------------------------------------------------------
(***************************************************************************)
(* What an accepted advance makes of the account                           *)
(***************************************************************************)
\* The larger of two times.
LEMMA MaxFacts ==
  ASSUME NEW a \in Int, NEW b \in Int
  PROVE  /\ Max2(a, b) \in {a, b}
         /\ Max2(a, b) >= a /\ Max2(a, b) >= b
  BY DEF Max2

\* A payload the relayer may send has the layout of one, and leads to a state
\* the program may move to.
LEMMA PayloadTyped ==
  ASSUME TypeOK, AccountValid, forecast # Zero, NEW a \in Payloads(forecast)
  PROVE  a \in PayloadType /\ a.state \in Successors(forecast, TRUE)
  <1> USE RegistryAssumption DEF OPEN, LOCKED, RESOLVING, PROPOSED, CHALLENGE,
          DISPUTED, ESCALATED, PAUSED, FINALIZED, ARCHIVED
  <1>1. PICK st \in Successors(forecast, TRUE) :
          a \in [state : {st},
                 at : Max2(forecast.at, now - MaxLag)..now,
                 resolution : (IF st = PROPOSED THEN Resolutions ELSE {})
                              \cup {forecast.resolution},
                 disputes : Commitments \cup {forecast.disputes},
                 reputation : {st >= FINALIZED},
                 trigger : {forecast.trigger, forecast.trigger \/ st = LOCKED},
                 until : Untils \cup {0, forecast.until},
                 pending : 0..MaxDisputes, material : 0..MaxDisputes]
    BY DEF Payloads
  <1>2. forecast \in Forecasts /\ now \in Times
    BY DEF TypeOK
  <1>3. st \in OPEN..ARCHIVED
    BY <1>2 DEF Successors, AccountValid, Valid, Forecasts
  <1>4. a.at \in Times
    <2>1. forecast.at \in Nat /\ now - MaxLag \in Int
      BY <1>2 DEF Forecasts, Times
    <2>2. Max2(forecast.at, now - MaxLag) >= forecast.at
          /\ Max2(forecast.at, now - MaxLag) \in Int
      BY <2>1, MaxFacts
    <2> QED
      BY <1>1, <1>2, <2>1, <2>2 DEF Times
  <1>5. /\ a.resolution \in Resolutions \cup {Zero}
        /\ a.disputes \in Commitments \cup {Zero}
        /\ a.reputation \in BOOLEAN /\ a.trigger \in BOOLEAN
        /\ a.until \in Nat /\ a.pending \in Nat /\ a.material \in Nat
    <2>1. /\ a.resolution \in (IF st = PROPOSED THEN Resolutions ELSE {})
                              \cup {forecast.resolution}
          /\ a.disputes \in Commitments \cup {forecast.disputes}
          /\ a.reputation \in {st >= FINALIZED}
          /\ a.trigger \in {forecast.trigger, forecast.trigger \/ st = LOCKED}
          /\ a.until \in Untils \cup {0, forecast.until}
          /\ a.pending \in 0..MaxDisputes /\ a.material \in 0..MaxDisputes
      BY <1>1, Zenon
    <2>2. (st >= FINALIZED) \in BOOLEAN /\ (forecast.trigger \/ st = LOCKED) \in BOOLEAN
      OBVIOUS
    <2>3. a.reputation \in BOOLEAN
      BY <2>1, <2>2, Zenon
    <2>4. a.trigger \in BOOLEAN
      BY <1>2, <2>1, <2>2, Zenon DEF Forecasts
    <2>5. a.resolution \in Resolutions \cup {Zero} /\ a.disputes \in Commitments \cup {Zero}
      BY <1>2, <2>1 DEF Forecasts
    <2>6. a.until \in Nat
      <3>1. forecast.until \in Nat /\ 0 \in Nat /\ Untils \subseteq Nat
        BY <1>2 DEF Forecasts
      <3> HIDE RegistryAssumption
      <3> QED
        BY <2>1, <3>1, Zenon
    <2>7. a.pending \in Nat /\ a.material \in Nat
      BY <2>1
    <2> QED
      BY <2>3, <2>4, <2>5, <2>6, <2>7
  <1>6. a.state = st
    BY <1>1
  <1>7. a = [state |-> a.state, at |-> a.at, resolution |-> a.resolution,
             disputes |-> a.disputes, reputation |-> a.reputation, trigger |-> a.trigger,
             until |-> a.until, pending |-> a.pending, material |-> a.material]
    BY <1>1
  <1> QED
    BY <1>3, <1>4, <1>5, <1>6, <1>7 DEF PayloadType

\* The earliest time of finalization, in the four ways it is set.
LEMMA NotBeforeFacts ==
  ASSUME TypeOK, AccountValid, forecast # Zero, NEW a \in PayloadType,
         NEW i \in BOOLEAN, Accepts(forecast, a, i)
  PROVE  LET b == NotBefore(forecast, a) IN
         /\ b \in Nat /\ b >= a.until
         /\ ~NewProposal(forecast, a) => b >= forecast.notBefore
         /\ NewProposal(forecast, a) => b >= now + MinChallenge
         /\ forecast.state = PROPOSED /\ a.state = CHALLENGE => b >= now + MinChallenge
         /\ forecast.state = PAUSED /\ forecast.notBefore > 0 =>
              b >= forecast.notBefore + (now - forecast.pausedAt)
         /\ \/ NewProposal(forecast, a)
            \/ forecast.state = PROPOSED /\ a.state = CHALLENGE
            \/ forecast.state = PAUSED
            \/ b = Max2(forecast.notBefore, a.until)
  <1> USE RegistryAssumption DEF OPEN, LOCKED, RESOLVING, PROPOSED, CHALLENGE,
          DISPUTED, ESCALATED, PAUSED, FINALIZED, ARCHIVED
  <1>1. /\ forecast.notBefore \in Nat /\ forecast.pausedAt \in Nat
        /\ forecast.state \in Nat /\ now \in Nat /\ a.until \in Nat /\ a.state \in Nat
        /\ forecast.pausedAt <= now
    BY DEF TypeOK, Forecasts, PayloadType, Times, AccountValid
  <1>2. CASE NewProposal(forecast, a)
    <2>1. NotBefore(forecast, a) = Max2(now + MinChallenge, a.until)
      BY <1>2 DEF NotBefore, NewProposal
    <2> QED
      BY <1>1, <1>2, <2>1 DEF Max2, NewProposal
  <1>3. CASE ~NewProposal(forecast, a) /\ forecast.state = PROPOSED /\ a.state = CHALLENGE
    <2>1. NotBefore(forecast, a) = Max2(Max2(forecast.notBefore, now + MinChallenge), a.until)
      BY <1>3 DEF NotBefore
    <2> QED
      BY <1>1, <1>3, <2>1 DEF Max2
  <1>4. CASE ~NewProposal(forecast, a) /\ forecast.state = PAUSED /\ forecast.notBefore > 0
    <2>1. NotBefore(forecast, a)
            = Max2(forecast.notBefore + (now - forecast.pausedAt), a.until)
      BY <1>4 DEF NotBefore
    <2> QED
      BY <1>1, <1>4, <2>1 DEF Max2
  <1>5. CASE /\ ~NewProposal(forecast, a)
             /\ ~(forecast.state = PROPOSED /\ a.state = CHALLENGE)
             /\ ~(forecast.state = PAUSED /\ forecast.notBefore > 0)
    <2>1. NotBefore(forecast, a) = Max2(forecast.notBefore, a.until)
      BY <1>5 DEF NotBefore
    <2> QED
      BY <1>1, <1>5, <2>1 DEF Max2
  <1> QED
    BY <1>2, <1>3, <1>4, <1>5

\* The account stays one: of its layout, and valid.
LEMMA AdvancedTyped ==
  ASSUME TypeOK, AccountValid, forecast # Zero, NEW a \in PayloadType,
         NEW i \in BOOLEAN, Accepts(forecast, a, i)
  PROVE  LET new == Advanced(forecast, a) IN
         /\ new \in Forecasts /\ new # Zero
         /\ Valid(new) /\ new.pausedAt <= now
  <1> USE RegistryAssumption DEF OPEN, LOCKED, RESOLVING, PROPOSED, CHALLENGE,
          DISPUTED, ESCALATED, PAUSED, FINALIZED, ARCHIVED
  <1>1. NotBefore(forecast, a) \in Nat
    BY NotBeforeFacts
  <1>2. Valid(Advanced(forecast, a))
    BY DEF Accepts
  <1>3. /\ Advanced(forecast, a).pausedFrom \in {0} \cup RESOLVING..ESCALATED
        /\ Advanced(forecast, a).pausedAt \in Times
        /\ Advanced(forecast, a).pausedAt <= now
    <2>1. Advanced(forecast, a).state = a.state /\ a.state \in OPEN..ARCHIVED
      BY DEF Advanced, PayloadType
    <2>2. CASE a.state = PAUSED
      BY <1>2, <2>1, <2>2 DEF Advanced, Valid, TypeOK, Times
    <2>3. CASE a.state # PAUSED
      BY <2>1, <2>3 DEF Advanced, TypeOK, Times
    <2> QED
      BY <2>2, <2>3
  <1>4. Advanced(forecast, a) \in Forecasts
    BY <1>1, <1>3 DEF Advanced, Forecasts, PayloadType
  <1> QED
    BY <1>2, <1>3, <1>4

\* What is open and what is still to wait make up the window after an advance
\* if they did before, and a finalizing one finds nothing left to wait.
LEMMA AdvanceCounts ==
  ASSUME TypeOK, AccountValid, ExposureCounted, WindowElapsed, forecast # Zero,
         NEW a \in PayloadType, NEW i \in BOOLEAN, Accepts(forecast, a, i),
         forecast' = Advanced(forecast, a), now' = now, Exposure(a)
  PROVE  ExposureCounted' /\ WindowElapsed'
  <1> USE RegistryAssumption DEF OPEN, LOCKED, RESOLVING, PROPOSED, CHALLENGE,
          DISPUTED, ESCALATED, PAUSED, FINALIZED, ARCHIVED
  <1> DEFINE b == NotBefore(forecast, a)
  <1>1. /\ forecast.state \in OPEN..ARCHIVED /\ forecast.notBefore \in Nat
        /\ forecast.pausedAt \in Nat /\ exposed \in Nat /\ now \in Nat
        /\ a.state \in OPEN..ARCHIVED /\ forecast.pausedAt <= now
        /\ forecast.state = PAUSED => forecast.pausedFrom \in RESOLVING..ESCALATED
    BY DEF TypeOK, Forecasts, PayloadType, Times, AccountValid, Valid
  <1>2. /\ forecast'.state = a.state /\ forecast'.notBefore = b
        /\ forecast'.pausedFrom = (IF a.state = PAUSED THEN forecast.state ELSE 0)
        /\ forecast'.pausedAt = (IF a.state = PAUSED THEN now ELSE 0)
    BY DEF Advanced
  <1>3. /\ b \in Nat
        /\ ~NewProposal(forecast, a) => b >= forecast.notBefore
        /\ forecast.state = PROPOSED /\ a.state = CHALLENGE => b >= now + MinChallenge
        /\ forecast.state = PAUSED /\ forecast.notBefore > 0 =>
             b >= forecast.notBefore + (now - forecast.pausedAt)
    BY NotBeforeFacts
  <1>4. a.state \in Successors(forecast, i)
    BY DEF Accepts, Admissible
  <1>5. exposed' = IF forecast.state = PROPOSED /\ a.state = CHALLENGE THEN 0 ELSE exposed
    BY DEF Exposure
  <1>6. CASE a.state \in {CHALLENGE, DISPUTED, ESCALATED}
    <2>1. ~NewProposal(forecast, a)
      BY <1>6 DEF NewProposal
    <2>2. \/ forecast.state = PROPOSED /\ a.state = CHALLENGE
          \/ forecast.state \in {CHALLENGE, DISPUTED, ESCALATED}
          \/ forecast.state = PAUSED /\ forecast.pausedFrom = a.state
      BY <1>1, <1>4, <1>6 DEF Successors
    <2>3. CASE forecast.state = PROPOSED /\ a.state = CHALLENGE
      BY <1>1, <1>2, <1>3, <1>5, <2>3 DEF ExposureCounted, WindowElapsed
    <2>4. CASE forecast.state \in {CHALLENGE, DISPUTED, ESCALATED}
      <3>1. exposed + forecast.notBefore >= now + MinChallenge /\ exposed' = exposed
        BY <1>5, <2>4 DEF ExposureCounted
      <3>2. b >= forecast.notBefore
        BY <1>3, <2>1
      <3>3. exposed' + b >= now + MinChallenge
        BY <1>1, <1>3, <3>1, <3>2
      <3> QED
        BY <1>2, <1>6, <3>3 DEF ExposureCounted, WindowElapsed
    <2>5. CASE forecast.state = PAUSED /\ forecast.pausedFrom = a.state
      <3>1. exposed + forecast.notBefore >= forecast.pausedAt + MinChallenge /\ exposed' = exposed
        BY <1>5, <1>6, <2>5 DEF ExposureCounted
      <3>2. forecast.notBefore > 0
        BY <1>1, <1>6, <2>5 DEF AccountValid, Valid, Effective
      <3>3. exposed' + b >= now + MinChallenge
        BY <1>1, <1>3, <2>5, <3>1, <3>2
      <3> QED
        BY <1>2, <1>6, <3>3 DEF ExposureCounted, WindowElapsed
    <2> QED
      BY <2>2, <2>3, <2>4, <2>5
  <1>7. CASE a.state = PAUSED
    <2>1. ~NewProposal(forecast, a)
      BY <1>7 DEF NewProposal
    <2>2. exposed' = exposed /\ b >= forecast.notBefore
      BY <1>3, <1>5, <1>7, <2>1
    <2>3. forecast.state \in {CHALLENGE, DISPUTED, ESCALATED} =>
            exposed' + b >= now + MinChallenge
      BY <1>1, <1>3, <2>2 DEF ExposureCounted
    <2> QED
      BY <1>2, <1>7, <2>3 DEF ExposureCounted, WindowElapsed
  <1>8. CASE a.state \in {FINALIZED, ARCHIVED}
    <2>1. \/ forecast.state = CHALLENGE /\ a.state = FINALIZED
          \/ forecast.state = FINALIZED /\ a.state = ARCHIVED
      BY <1>1, <1>4, <1>8 DEF Successors
    <2>2. forecast.state = CHALLENGE => now >= forecast.notBefore
      BY <2>1 DEF Accepts, Admissible
    <2>3. exposed' = exposed /\ exposed >= MinChallenge
      BY <1>1, <1>5, <1>8, <2>1, <2>2 DEF ExposureCounted, WindowElapsed
    <2> QED
      BY <1>2, <1>8, <2>3 DEF ExposureCounted, WindowElapsed
  <1>9. CASE a.state \in OPEN..PROPOSED
    BY <1>2, <1>9 DEF ExposureCounted, WindowElapsed
  <1> QED
    BY <1>1, <1>6, <1>7, <1>8, <1>9

-----------------------------------------------------------------------------
(***************************************************************************)
(* The receipts of an epoch                                                *)
(***************************************************************************)
\* The receipts of a status are finitely many.
LEMMA InEpochFinite ==
  ASSUME NEW status
  PROVE  /\ IsFiniteSet(InEpoch(status))
         /\ Cardinality(InEpoch(status)) \in Nat
  <1>1. InEpoch(status) \in SUBSET Users
    BY DEF InEpoch
  <1>2. IsFiniteSet(InEpoch(status))
    BY <1>1, RegistryAssumption, FS_Subset
  <1> QED
    BY <1>2, FS_CardinalityType

\* What stands on the receipts of the epoch and the gate's counters stays true
\* when neither changes.
LEMMA IntakeKept ==
  ASSUME TypeOK, CountsMatchReceipts, SealAfterIntake, SealedClean, ReceiptsOfEpochs,
         gate # Zero, forecast # Zero, gate' # Zero,
         receipts' = receipts, gate'.epoch = gate.epoch,
         gate'.pending = gate.pending, gate'.material = gate.material,
         gate'.accepted = gate.accepted
  PROVE  CountsMatchReceipts' /\ ReceiptsOfEpochs'
  <1>1. \A s \in {"accepted", "material", "rejected"} : InEpoch(s)' = InEpoch(s)
    BY DEF InEpoch, Receipt
  <1>2. CountsMatchReceipts'
    BY <1>1 DEF CountsMatchReceipts, Gated
  <1>3. ReceiptsOfEpochs'
    BY DEF ReceiptsOfEpochs
  <1> QED
    BY <1>2, <1>3

\* A seal is of the account, its gate and the time, and of nothing else.
LEMMA SealUnmoved ==
  ASSUME UNCHANGED <<forecast, gate, now>>
  PROVE  SealHolds => SealHolds'
  <1> DEFINE a == gate.sealed.payload
  <1>1. Admissible(forecast, a, FALSE)' = Admissible(forecast, a, FALSE)
    BY DEF Admissible, Successors, NewProposal, SameDisputes, Effective
  <1>2. Advanced(forecast, a)' = Advanced(forecast, a)
    BY DEF Advanced, NotBefore, NewProposal
  <1>3. Valid(Advanced(forecast, a))' = Valid(Advanced(forecast, a))
    BY <1>2 DEF Valid, Effective
  <1> QED
    BY <1>1, <1>3 DEF SealHolds, Accepts

\* A new epoch has no receipts yet.
LEMMA EpochOpens ==
  ASSUME TypeOK, NEW g \in Gates, NEW f \in Forecasts, g.epoch < MaxEpoch,
         \A e \in Epochs, u \in Users : receipts[<<e, u>>] # Zero => e <= g.epoch,
         receipts' = receipts, gate' = NewEpoch(g, f)
  PROVE  /\ gate' \in Gates /\ gate'.phase = TAKING
         /\ gate'.epoch = g.epoch + 1 /\ gate'.epoch \in Epochs
         /\ gate'.resolution = f.resolution
         /\ gate'.deadline >= f.notBefore /\ gate'.deadline >= f.until
         /\ CountsMatchReceipts' /\ ReceiptsOfEpochs' /\ AcceptedInTime'
         /\ SealAfterIntake' /\ SealedClean'
  <1> USE RegistryAssumption DEF IDLE, TAKING, SEALED, CLOSED
  <1> DEFINE d == Max2(now + MinChallenge, Max2(f.notBefore, f.until))
  <1>1. /\ f.notBefore \in Nat /\ f.until \in Nat /\ now \in Nat
        /\ f.resolution \in Resolutions \cup {Zero} /\ g.epoch \in 0..MaxEpoch
    BY DEF TypeOK, Forecasts, Gates, Times
  <1>2. d \in Nat /\ d >= f.notBefore /\ d >= f.until
    BY <1>1 DEF Max2
  <1>3. gate' = [g EXCEPT !.epoch = g.epoch + 1, !.resolution = f.resolution,
                   !.opened = now, !.deadline = d,
                   !.pending = 0, !.material = 0, !.accepted = 0, !.phase = TAKING]
    BY DEF NewEpoch
  <1>4. g.epoch + 1 \in Epochs /\ g.epoch + 1 \in 0..MaxEpoch
    BY <1>1 DEF Epochs
  <1>5. /\ gate'.phase = TAKING /\ gate'.epoch = g.epoch + 1
        /\ gate'.resolution = f.resolution /\ gate'.deadline = d
        /\ gate'.pending = 0 /\ gate'.material = 0 /\ gate'.accepted = 0
    BY <1>3 DEF Gates
  <1>6. gate' \in Gates
    <2>1. now \in Times /\ TAKING \in IDLE..CLOSED /\ 0 \in Nat
      BY DEF TypeOK
    <2>2. g.sealed \in SealedAdvances \cup {Zero} /\ g.sealedAt \in Times
      BY DEF Gates
    <2>3. gate' = [phase |-> TAKING, epoch |-> g.epoch + 1, resolution |-> f.resolution,
                   opened |-> now, deadline |-> d, pending |-> 0, material |-> 0, accepted |-> 0,
                   sealed |-> g.sealed, sealedAt |-> g.sealedAt]
      BY <1>3 DEF Gates
    <2> HIDE DEF d
    <2> QED
      BY <1>1, <1>2, <1>4, <2>1, <2>2, <2>3 DEF Gates
  <1>7. \A u \in Users : receipts[<<g.epoch + 1, u>>] = Zero
    BY <1>1, <1>4
  <1>8. \A s \in {"accepted", "material", "rejected"} : InEpoch(s)' = {}
    BY <1>5, <1>7 DEF InEpoch, Receipt
  <1>9. CountsMatchReceipts'
    BY <1>5, <1>8, FS_EmptySet DEF CountsMatchReceipts
  <1>10. ReceiptsOfEpochs'
    <2> SUFFICES ASSUME NEW e \in Epochs, NEW u \in Users, receipts[<<e, u>>] # Zero
                 PROVE  gate' # Zero /\ e <= g.epoch + 1
      BY <1>5 DEF ReceiptsOfEpochs
    <2>1. e <= g.epoch
      OBVIOUS
    <2> QED
      BY <1>1, <1>6, <2>1 DEF Epochs
  <1>11. AcceptedInTime'
    BY <1>5, <1>7 DEF AcceptedInTime, Receipt
  <1>12. SealAfterIntake' /\ SealedClean'
    BY <1>5 DEF SealAfterIntake, SealedClean
  <1> QED
    BY <1>2, <1>4, <1>5, <1>6, <1>9, <1>10, <1>11, <1>12

-----------------------------------------------------------------------------
(***************************************************************************)
(* Every instruction keeps the invariant                                   *)
(***************************************************************************)
\* What the program would accept of the sealed payload does not depend on the
\* time any more, once it is late enough.
LEMMA SealHoldsLater ==
  ASSUME TypeOK, AccountValid, forecast # Zero, gate \in Gates,
         gate.sealed # Zero, gate.sealed.payload.state = FINALIZED, SealHolds,
         now' \in Times, now' >= now, forecast' = forecast, gate'.sealed = gate.sealed
  PROVE  SealHolds'
  <1> USE DEF OPEN, LOCKED, RESOLVING, PROPOSED, CHALLENGE,
          DISPUTED, ESCALATED, PAUSED, FINALIZED, ARCHIVED
  <1> DEFINE a == gate.sealed.payload
  <1>1. /\ now \in Nat /\ now' \in Nat /\ forecast.notBefore \in Nat /\ forecast.until \in Nat
        /\ a.at \in Nat /\ forecast.state \in OPEN..ARCHIVED
    BY DEF TypeOK, Forecasts, Gates, SealedAdvances, PayloadType, Times
  <1>2. Accepts(forecast, a, FALSE)
    BY DEF SealHolds
  <1>3. forecast.state = CHALLENGE
    <2>1. FINALIZED \in Successors(forecast, FALSE)
      BY <1>2 DEF Accepts, Admissible
    <2>2. forecast.state = PAUSED => forecast.pausedFrom \in RESOLVING..ESCALATED
      BY DEF AccountValid, Valid
    <2> QED
      BY <1>1, <2>1, <2>2 DEF Successors
  <1>4. Advanced(forecast, a)' = Advanced(forecast, a)
    BY <1>3 DEF Advanced, NotBefore, NewProposal, Max2
  <1>5. Valid(Advanced(forecast, a))'
    BY <1>2, <1>4 DEF Accepts, Valid, Effective
  <1>6. Admissible(forecast, a, FALSE)'
    BY <1>1, <1>2, <1>3 DEF Accepts, Admissible, Successors, NewProposal, SameDisputes
  <1> QED
    BY <1>5, <1>6 DEF SealHolds, Accepts

\* Time passes.
LEMMA TickKeeps == ASSUME IInv, Tick PROVE IInv'
  <1> USE DEF IInv, Tick, OPEN, LOCKED, RESOLVING, PROPOSED, CHALLENGE,
          DISPUTED, ESCALATED, PAUSED, FINALIZED, ARCHIVED, IDLE, TAKING, SEALED, CLOSED
  <1>1. /\ now \in Nat /\ now' = now + 1 /\ now' \in Times /\ exposed \in Nat
        /\ exposed' \in Nat /\ exposed' >= exposed
        /\ UNCHANGED <<forecast, gate, receipts>>
    BY RegistryAssumption DEF TypeOK, Times
  <1>2. TypeOK'
    BY <1>1 DEF TypeOK
  <1>3. AccountValid'
    BY <1>1 DEF AccountValid, Valid, Effective, TypeOK, Forecasts, Times
  <1>4. ExposureCounted'
    BY <1>1, RegistryAssumption DEF ExposureCounted, TypeOK, Forecasts
  <1>5. GateRules' /\ ReceiptsOfEpochs' /\ SealedClean' /\ GateStaysMatched'
        /\ GateCoversWindow' /\ FinalizedThroughGate'
    BY <1>1 DEF GateRules, ReceiptsOfEpochs, SealedClean, GateStaysMatched, Matched,
       GateCoversWindow, FinalizedThroughGate, Gated
  <1>6. WindowElapsed'
    BY <1>1, RegistryAssumption DEF WindowElapsed
  <1>7. CountsMatchReceipts' /\ SealAfterIntake'
    BY <1>1 DEF CountsMatchReceipts, SealAfterIntake, InEpoch, Receipt, Gated
  <1>8. AcceptedInTime'
    <2> SUFFICES ASSUME Gated, gate.phase = TAKING, NEW u \in Users,
                        Receipt(u) # Zero, Receipt(u).status # "draft"
                 PROVE  /\ Receipt(u).acceptedAt <= Receipt(u).deadline
                        /\ Receipt(u).deadline <= EffectiveDeadline(gate, forecast)'
      BY <1>1 DEF AcceptedInTime, Receipt, Gated
    <2>1. /\ gate.deadline \in Nat /\ forecast.pausedAt \in Nat
          /\ gate.epoch \in Epochs
      BY DEF TypeOK, Gates, Forecasts, Times, Gated, GateRules, Epochs
    <2>2. Receipt(u).deadline \in Nat
      BY <2>1 DEF TypeOK, ReceiptType, Receipt
    <2>3. EffectiveDeadline(gate, forecast)' >= EffectiveDeadline(gate, forecast)
          /\ EffectiveDeadline(gate, forecast) \in Int
          /\ EffectiveDeadline(gate, forecast)' \in Int
      BY <1>1, <2>1 DEF EffectiveDeadline
    <2>4. /\ Receipt(u).acceptedAt <= Receipt(u).deadline
          /\ Receipt(u).deadline <= EffectiveDeadline(gate, forecast)
      BY DEF AcceptedInTime
    <2> QED
      BY <2>2, <2>3, <2>4
  <1>9. SealedStaysFinalizable'
    <2> SUFFICES ASSUME Gated, gate.phase = SEALED PROVE SealHolds' /\ now' > gate.deadline
      BY <1>1 DEF SealedStaysFinalizable, Gated
    <2>1. SealHolds /\ now > gate.deadline /\ gate \in Gates /\ gate.deadline \in Nat
      BY DEF SealedStaysFinalizable, Gated, TypeOK, Gates
    <2>2. SealHolds'
      BY <1>1, <2>1, SealHoldsLater DEF SealedClean, Gated
    <2> QED
      BY <1>1, <2>1, <2>2
  <1> QED
    BY <1>2, <1>3, <1>4, <1>5, <1>6, <1>7, <1>8, <1>9

\* Registration: an open forecast, no gate yet.
LEMMA RegisterKeeps == ASSUME IInv, NEW at \in Times, Register(at) PROVE IInv'
  <1> USE DEF IInv, Register, OPEN, LOCKED, RESOLVING, PROPOSED, CHALLENGE,
          DISPUTED, ESCALATED, PAUSED, FINALIZED, ARCHIVED, IDLE, TAKING, SEALED, CLOSED
  <1>1. gate = Zero /\ gate' = Zero
    BY DEF GateRules
  <1>2. /\ forecast'.state = OPEN /\ forecast'.pausedAt = 0 /\ forecast'.pausedFrom = 0
        /\ UNCHANGED <<now, gate, receipts, exposed>> /\ now \in Nat
    BY DEF TypeOK, Times
  <1>3. TypeOK'
    <2>1. forecast' \in Forecasts
      BY RegistryAssumption DEF Forecasts, Times
    <2> QED
      BY <1>2, <2>1 DEF TypeOK
  <1>4. AccountValid'
    BY <1>2, RegistryAssumption DEF AccountValid, Valid, Effective
  <1>5. ExposureCounted' /\ WindowElapsed' /\ FinalizedThroughGate'
    BY <1>2 DEF ExposureCounted, WindowElapsed, FinalizedThroughGate
  <1>6. GateRules' /\ AcceptedInTime' /\ SealedClean' /\ GateStaysMatched' /\ GateCoversWindow'
        /\ CountsMatchReceipts' /\ SealAfterIntake' /\ SealedStaysFinalizable'
    BY <1>1 DEF GateRules, AcceptedInTime, SealedClean, GateStaysMatched, GateCoversWindow,
       CountsMatchReceipts, SealAfterIntake, SealedStaysFinalizable, Gated
  <1>7. ReceiptsOfEpochs'
    BY <1>1, <1>2 DEF ReceiptsOfEpochs
  <1> QED
    BY <1>3, <1>4, <1>5, <1>6, <1>7
\* The gate is created, idle or in its first epoch.
LEMMA CreateKeeps == ASSUME IInv, CreateGate PROVE IInv'
  <1> USE DEF IInv, CreateGate, OPEN, LOCKED, RESOLVING, PROPOSED, CHALLENGE,
          DISPUTED, ESCALATED, PAUSED, FINALIZED, ARCHIVED, IDLE, TAKING, SEALED, CLOSED
  <1> DEFINE idle == [phase |-> IDLE, epoch |-> 0, resolution |-> Zero,
                      opened |-> 0, deadline |-> 0, pending |-> 0, material |-> 0,
                      accepted |-> 0, sealed |-> Zero, sealedAt |-> 0]
  <1>1. /\ UNCHANGED <<now, forecast, receipts, exposed>>
        /\ gate = Zero /\ forecast \in Forecasts /\ forecast # Zero /\ forecast.state < FINALIZED
    BY DEF TypeOK
  <1>2. \A e \in Epochs, u \in Users : receipts[<<e, u>>] = Zero
    BY <1>1 DEF ReceiptsOfEpochs
  <1>3. idle \in Gates
    BY RegistryAssumption DEF Gates, Times
  <1>4. /\ AccountValid' /\ ExposureCounted' /\ WindowElapsed' /\ FinalizedThroughGate'
    BY <1>1 DEF AccountValid, Valid, Effective, ExposureCounted, WindowElapsed,
       FinalizedThroughGate, Forecasts
  <1>5. CASE forecast.resolution = Zero
    <2>1. gate' = idle /\ gate' \in Gates /\ gate' # Zero
      BY <1>3, <1>5, RegistryAssumption
    <2>2. gate'.phase = IDLE /\ gate'.epoch = 0 /\ gate'.pending = 0
          /\ gate'.material = 0 /\ gate'.accepted = 0
      BY <2>1
    <2>3. TypeOK'
      BY <1>1, <2>1 DEF TypeOK
    <2>4. \A s \in {"accepted", "material", "rejected"} : InEpoch(s)' = {}
      BY <2>2 DEF InEpoch, Epochs
    <2>5. CountsMatchReceipts'
      BY <2>2, <2>4, FS_EmptySet DEF CountsMatchReceipts
    <2>6. ReceiptsOfEpochs'
      BY <1>1, <1>2 DEF ReceiptsOfEpochs
    <2>7. GateRules' /\ AcceptedInTime' /\ SealedClean' /\ GateStaysMatched'
          /\ GateCoversWindow' /\ SealAfterIntake' /\ SealedStaysFinalizable'
      BY <1>1, <2>1, <2>2 DEF GateRules, AcceptedInTime, SealedClean, GateStaysMatched,
         Matched, GateCoversWindow, SealAfterIntake, SealedStaysFinalizable, Gated
    <2> QED
      BY <1>4, <2>3, <2>5, <2>6, <2>7
  <1>6. CASE forecast.resolution # Zero
    <2>1. gate' = NewEpoch(idle, forecast)
      BY <1>6
    <2>2. idle.epoch = 0 /\ 0 < MaxEpoch
      BY RegistryAssumption
    <2> HIDE DEF idle, CreateGate
    <2>3. /\ gate' \in Gates /\ gate'.phase = TAKING
          /\ gate'.epoch = 1 /\ gate'.epoch \in Epochs
          /\ gate'.resolution = forecast.resolution
          /\ gate'.deadline >= forecast.notBefore /\ gate'.deadline >= forecast.until
          /\ CountsMatchReceipts' /\ ReceiptsOfEpochs' /\ AcceptedInTime'
          /\ SealAfterIntake' /\ SealedClean'
      BY <1>1, <1>2, <1>3, <2>1, <2>2, EpochOpens
    <2>4. TypeOK' /\ gate' # Zero
      BY <1>1, <2>3, RegistryAssumption DEF TypeOK
    <2>5. GateRules' /\ GateStaysMatched' /\ GateCoversWindow' /\ SealedStaysFinalizable'
      BY <1>1, <2>3, <2>4 DEF GateRules, GateStaysMatched, Matched, GateCoversWindow,
         SealedStaysFinalizable, Gated, Epochs
    <2> QED
      BY <1>4, <2>3, <2>4, <2>5
  <1> QED
    BY <1>5, <1>6

\* An advance before the gate exists.
LEMMA UngatedKeeps ==
  ASSUME IInv, NEW a \in Payloads(forecast), AdvanceUngated(a)
  PROVE  IInv'
  <1> USE DEF IInv, AdvanceUngated, OPEN, LOCKED, RESOLVING, PROPOSED, CHALLENGE,
          DISPUTED, ESCALATED, PAUSED, FINALIZED, ARCHIVED, IDLE, TAKING, SEALED, CLOSED
  <1>1. a \in PayloadType
    BY PayloadTyped
  <1>2. /\ forecast' \in Forecasts /\ forecast' # Zero
        /\ Valid(forecast') /\ forecast'.pausedAt <= now
    BY <1>1, AdvancedTyped
  <1>3. ExposureCounted' /\ WindowElapsed'
    BY <1>1, AdvanceCounts
  <1>4. gate = Zero /\ UNCHANGED <<now, gate, receipts>>
    OBVIOUS
  <1>5. TypeOK'
    BY <1>2, <1>4 DEF TypeOK, Exposure
  <1>6. AccountValid'
    BY <1>2, <1>4 DEF AccountValid, Valid, Effective
  <1>7. GateRules' /\ AcceptedInTime' /\ SealedClean' /\ GateStaysMatched' /\ GateCoversWindow'
        /\ CountsMatchReceipts' /\ SealAfterIntake' /\ SealedStaysFinalizable'
    BY <1>4 DEF GateRules, AcceptedInTime, SealedClean, GateStaysMatched, GateCoversWindow,
       CountsMatchReceipts, SealAfterIntake, SealedStaysFinalizable, Gated
  <1>8. ReceiptsOfEpochs'
    BY <1>4 DEF ReceiptsOfEpochs
  <1>9. FinalizedThroughGate'
    <2>1. forecast.state < FINALIZED
      BY <1>4 DEF FinalizedThroughGate, TypeOK, Forecasts
    <2>2. a.state \in Successors(forecast, FALSE) /\ a.state # FINALIZED
      BY DEF Accepts, Admissible, NotFinalizing
    <2>3. forecast.state = PAUSED => forecast.pausedFrom \in RESOLVING..ESCALATED
      BY DEF AccountValid, Valid
    <2>4. a.state < FINALIZED
      BY <2>1, <2>2, <2>3 DEF Successors
    <2>5. forecast'.state = a.state /\ a.state \in Nat
      BY <1>1 DEF Advanced, PayloadType
    <2> QED
      BY <2>4, <2>5 DEF FinalizedThroughGate
  <1> QED
    BY <1>3, <1>5, <1>6, <1>7, <1>8, <1>9
\* An advance through an open gate: it keeps the invariant, and within an
\* epoch the time to dispute does not get shorter.
LEMMA GatedKeeps ==
  ASSUME IInv, NEW a \in PayloadType, NEW i \in BOOLEAN,
         forecast # Zero, gate # Zero, Matched, gate.phase \in {IDLE, TAKING},
         NotFinalizing(a), NewProposal(forecast, a) => gate.epoch < MaxEpoch,
         Accepts(forecast, a, i), forecast' = Advanced(forecast, a),
         gate' = FollowedGate(a, Advanced(forecast, a)), Exposure(a),
         UNCHANGED <<now, receipts>>
  PROVE  IInv' /\ DeadlineKept
  <1> USE DEF IInv, OPEN, LOCKED, RESOLVING, PROPOSED, CHALLENGE,
          DISPUTED, ESCALATED, PAUSED, FINALIZED, ARCHIVED, IDLE, TAKING, SEALED, CLOSED
  <1> DEFINE new == Advanced(forecast, a)
  <1>1. /\ forecast' \in Forecasts /\ forecast' # Zero
        /\ Valid(forecast') /\ forecast'.pausedAt <= now
    BY AdvancedTyped
  <1>2. ExposureCounted' /\ WindowElapsed'
    BY AdvanceCounts
  <1>3. /\ now' = now /\ now \in Nat /\ receipts' = receipts
        /\ gate \in Gates /\ forecast \in Forecasts
        /\ gate.deadline \in Nat /\ gate.epoch \in 0..MaxEpoch
        /\ forecast.pausedAt \in Nat /\ forecast.pausedAt <= now
    BY DEF TypeOK, Times, Gates, Forecasts, AccountValid
  <1>4. AccountValid'
    BY <1>1, <1>3 DEF AccountValid, Valid, Effective
  <1>5. /\ forecast'.state = a.state /\ forecast'.resolution = a.resolution
        /\ forecast'.pausedAt = (IF a.state = PAUSED THEN now ELSE 0)
        /\ forecast'.notBefore \in Nat /\ forecast'.until \in Nat
    BY <1>1 DEF Advanced, Forecasts
  <1>6. FinalizedThroughGate'
    <2>1. forecast.state < FINALIZED
      BY <1>3 DEF FinalizedThroughGate, Forecasts
    <2>2. a.state \in Successors(forecast, i) /\ a.state # FINALIZED
      BY DEF Accepts, Admissible, NotFinalizing
    <2>3. forecast.state = PAUSED => forecast.pausedFrom \in RESOLVING..ESCALATED
      BY DEF AccountValid, Valid
    <2>4. a.state < FINALIZED
      BY <2>1, <2>2, <2>3 DEF Successors
    <2>5. a.state \in Nat
      BY DEF PayloadType
    <2> QED
      BY <1>5, <2>4, <2>5 DEF FinalizedThroughGate
  <1> SUFFICES /\ gate' \in Gates /\ GateRules' /\ ReceiptsOfEpochs' /\ AcceptedInTime'
               /\ SealedClean' /\ GateStaysMatched' /\ GateCoversWindow'
               /\ CountsMatchReceipts' /\ SealAfterIntake'
               /\ SealedStaysFinalizable' /\ DeadlineKept
    <2>1. exposed' \in Nat
      BY DEF Exposure, TypeOK
    <2>2. TypeOK'
      BY <1>1, <1>3, <2>1 DEF TypeOK
    <2> QED
      BY <1>2, <1>4, <1>6, <2>2
  <1>7. CASE NewProposal(forecast, a)
    <2>1. gate' = NewEpoch(gate, forecast')
      BY <1>7 DEF FollowedGate
    <2>2. \A e \in Epochs, u \in Users : receipts[<<e, u>>] # Zero => e <= gate.epoch
      BY DEF ReceiptsOfEpochs
    <2>3. /\ gate' \in Gates /\ gate'.phase = TAKING
          /\ gate'.epoch = gate.epoch + 1 /\ gate'.epoch \in Epochs
          /\ gate'.resolution = forecast'.resolution
          /\ gate'.deadline >= forecast'.notBefore /\ gate'.deadline >= forecast'.until
          /\ CountsMatchReceipts' /\ ReceiptsOfEpochs' /\ AcceptedInTime'
          /\ SealAfterIntake' /\ SealedClean'
      BY <1>1, <1>3, <1>7, <2>1, <2>2, EpochOpens
    <2>4. gate' # Zero
      BY <2>3, RegistryAssumption
    <2>5. GateRules' /\ GateStaysMatched' /\ GateCoversWindow' /\ SealedStaysFinalizable'
      BY <1>1, <2>3, <2>4 DEF GateRules, GateStaysMatched, Matched, GateCoversWindow,
         SealedStaysFinalizable, Gated, Epochs
    <2>6. DeadlineKept
      BY <1>3, <2>3 DEF DeadlineKept
    <2> QED
      BY <2>3, <2>5, <2>6
  <1>8. CASE ~NewProposal(forecast, a) /\ gate.phase = TAKING
    <2> DEFINE moved == EffectiveDeadline(gate, forecast)
    <2> DEFINE d == Max2(moved, Max2(forecast'.notBefore, forecast'.until))
    <2>1. gate' = [gate EXCEPT !.deadline = d]
      BY <1>8 DEF FollowedGate
    <2>2. /\ moved \in Nat /\ d \in Nat /\ d >= moved
          /\ d >= forecast'.notBefore /\ d >= forecast'.until
      BY <1>3, <1>5 DEF EffectiveDeadline, Max2
    <2> HIDE DEF moved, d
    <2>3. /\ gate' \in Gates /\ gate' # Zero /\ gate'.phase = TAKING /\ gate'.deadline = d
          /\ gate'.epoch = gate.epoch /\ gate'.resolution = gate.resolution
          /\ gate'.pending = gate.pending /\ gate'.material = gate.material
          /\ gate'.accepted = gate.accepted
      BY <1>3, <1>8, <2>1, <2>2, RegistryAssumption DEF Gates
    <2>4. CountsMatchReceipts' /\ ReceiptsOfEpochs'
      BY <1>3, <2>3, IntakeKept
    <2>5. a.resolution = forecast.resolution
      BY <1>8 DEF Accepts, Admissible
    <2>6. EffectiveDeadline(gate, forecast)' = d
      BY <1>3, <1>5, <2>2, <2>3 DEF EffectiveDeadline
    <2>7. AcceptedInTime'
      <3> SUFFICES ASSUME NEW u \in Users, Receipt(u)' # Zero, Receipt(u)'.status # "draft"
                   PROVE  /\ Receipt(u)'.acceptedAt <= Receipt(u)'.deadline
                          /\ Receipt(u)'.deadline <= d
        BY <2>6 DEF AcceptedInTime
      <3>1. Receipt(u)' = Receipt(u)
        BY <1>3, <2>3 DEF Receipt
      <3>2. /\ Receipt(u).acceptedAt <= Receipt(u).deadline
            /\ Receipt(u).deadline <= moved
        BY <1>8, <3>1 DEF AcceptedInTime, Gated, moved
      <3>3. gate.epoch \in Epochs
        BY <1>3, <1>8 DEF GateRules, Epochs
      <3>4. Receipt(u).deadline \in Nat
        BY <3>1, <3>3 DEF Receipt, TypeOK, ReceiptType
      <3> QED
        BY <2>2, <3>1, <3>2, <3>4
    <2>8. GateRules' /\ SealedClean' /\ SealAfterIntake' /\ SealedStaysFinalizable'
      BY <1>1, <1>8, <2>3 DEF GateRules, SealedClean, SealAfterIntake,
         SealedStaysFinalizable, Gated
    <2>9. GateStaysMatched'
      BY <1>5, <1>8, <2>3, <2>5 DEF GateStaysMatched, Matched
    <2>10. GateCoversWindow'
      BY <2>2, <2>3 DEF GateCoversWindow
    <2>11. DeadlineKept
      BY <2>2, <2>6 DEF DeadlineKept, moved
    <2> QED
      BY <2>3, <2>4, <2>7, <2>8, <2>9, <2>10, <2>11
  <1>9. CASE ~NewProposal(forecast, a) /\ gate.phase = IDLE
    <2>1. gate' = gate
      BY <1>9 DEF FollowedGate
    <2>2. CountsMatchReceipts' /\ ReceiptsOfEpochs'
      BY <1>3, <2>1, IntakeKept
    <2>3. GateRules' /\ AcceptedInTime' /\ SealedClean' /\ GateStaysMatched'
          /\ GateCoversWindow' /\ SealAfterIntake' /\ SealedStaysFinalizable'
      BY <1>1, <1>9, <2>1 DEF GateRules, AcceptedInTime, SealedClean, GateStaysMatched,
         Matched, GateCoversWindow, SealAfterIntake, SealedStaysFinalizable, Gated
    <2>4. DeadlineKept
      BY <1>9 DEF DeadlineKept
    <2> QED
      BY <1>3, <2>1, <2>2, <2>3, <2>4
  <1> HIDE DEF IInv
  <1> QED
    BY <1>7, <1>8, <1>9
\* Modes 0 and 1 of an advance.
LEMMA AdvanceKeeps ==
  ASSUME IInv, NEW a \in Payloads(forecast), AdvanceGated(a)
  PROVE  IInv' /\ DeadlineKept /\ ReplacementReviewed
  <1>1. a \in PayloadType
    BY PayloadTyped DEF IInv, AdvanceGated
  <1>2. IInv' /\ DeadlineKept
    BY <1>1, GatedKeeps DEF AdvanceGated, Follows
  <1>3. ASSUME forecast.resolution # Zero, forecast'.resolution # forecast.resolution
        PROVE  InEpoch("accepted") = {} /\ gate'.epoch = gate.epoch + 1
    <2>1. forecast'.resolution = a.resolution
      BY DEF AdvanceGated, Advanced
    <2>2. NewProposal(forecast, a)
      BY <1>3, <2>1 DEF AdvanceGated, Accepts, Admissible
    <2>3. gate.pending = 0 /\ gate' = NewEpoch(gate, Advanced(forecast, a))
      BY <2>2 DEF AdvanceGated, Follows, FollowedGate
    <2>4. Cardinality(InEpoch("accepted")) = 0
      BY <2>3 DEF IInv, CountsMatchReceipts, Gated, AdvanceGated
    <2>5. InEpoch("accepted") = {}
      BY <2>4, InEpochFinite, FS_EmptySet
    <2>6. gate'.epoch = gate.epoch + 1
      BY <2>3 DEF NewEpoch, IInv, TypeOK, Gates, AdvanceGated
    <2> QED
      BY <2>5, <2>6
  <1> QED
    BY <1>2, <1>3 DEF ReplacementReviewed

\* Mode 2: an accepted receipt is imported.
LEMMA ImportKeeps ==
  ASSUME IInv, NEW a \in Payloads(forecast), NEW u \in Users, ImportReceipt(a, u)
  PROVE  IInv' /\ DeadlineKept /\ ReplacementReviewed
  <1> USE DEF ImportReceipt, OPEN, LOCKED, RESOLVING, PROPOSED, CHALLENGE,
          DISPUTED, ESCALATED, PAUSED, FINALIZED, ARCHIVED, IDLE, TAKING, SEALED, CLOSED
  <1>1. a \in PayloadType
    BY PayloadTyped DEF IInv
  <1>2. ~NewProposal(forecast, a) /\ NotFinalizing(a)
    BY DEF NewProposal, NotFinalizing
  <1>3. IInv' /\ DeadlineKept
    BY <1>1, <1>2, GatedKeeps
  <1>4. forecast'.resolution = forecast.resolution
    BY <1>2 DEF Accepts, Admissible, Advanced
  <1> QED
    BY <1>3, <1>4 DEF ReplacementReviewed

\* A finalizing or archiving payload waits for the account's own times.
LEMMA FinalTimes ==
  ASSUME TypeOK, AccountValid, forecast # Zero, NEW a \in PayloadType,
         Accepts(forecast, a, FALSE), a.state \in {FINALIZED, ARCHIVED}
  PROVE  /\ forecast.state \in {CHALLENGE, FINALIZED}
         /\ a.resolution = forecast.resolution /\ a.until = forecast.until
         /\ NotBefore(forecast, a) = Max2(forecast.notBefore, forecast.until)
  <1> USE DEF OPEN, LOCKED, RESOLVING, PROPOSED, CHALLENGE,
          DISPUTED, ESCALATED, PAUSED, FINALIZED, ARCHIVED
  <1>1. /\ forecast.state \in OPEN..ARCHIVED
        /\ forecast.state = PAUSED => forecast.pausedFrom \in RESOLVING..ESCALATED
    BY DEF TypeOK, Forecasts, AccountValid, Valid
  <1>2. \/ forecast.state = CHALLENGE /\ a.state = FINALIZED
        \/ forecast.state = FINALIZED /\ a.state = ARCHIVED
    BY <1>1 DEF Accepts, Admissible, Successors
  <1>3. ~NewProposal(forecast, a)
    BY <1>2 DEF NewProposal
  <1>4. a.resolution = forecast.resolution /\ a.until = forecast.until
    BY <1>2, <1>3 DEF Accepts, Admissible
  <1>5. \/ NewProposal(forecast, a)
        \/ forecast.state = PROPOSED /\ a.state = CHALLENGE
        \/ forecast.state = PAUSED
        \/ NotBefore(forecast, a) = Max2(forecast.notBefore, a.until)
    BY NotBeforeFacts
  <1> QED
    BY <1>2, <1>3, <1>4, <1>5

\* The account is finalized through a sealed gate, or archived behind a closed
\* one; the gate ends closed with its counters and its deadline as they were.
LEMMA CloseKeeps ==
  ASSUME IInv, NEW a \in PayloadType, forecast # Zero, gate # Zero, Matched,
         gate.phase \in {SEALED, CLOSED}, a.state \in {FINALIZED, ARCHIVED},
         Accepts(forecast, a, FALSE), forecast' = Advanced(forecast, a),
         gate' = [gate EXCEPT !.phase = CLOSED],
         UNCHANGED <<now, receipts, exposed>>
  PROVE  IInv' /\ DeadlineKept /\ ReplacementReviewed
  <1> USE DEF IInv, OPEN, LOCKED, RESOLVING, PROPOSED, CHALLENGE,
          DISPUTED, ESCALATED, PAUSED, FINALIZED, ARCHIVED, IDLE, TAKING, SEALED, CLOSED
  <1>1. /\ forecast.state \in {CHALLENGE, FINALIZED}
        /\ a.resolution = forecast.resolution /\ a.until = forecast.until
        /\ NotBefore(forecast, a) = Max2(forecast.notBefore, forecast.until)
    BY FinalTimes
  <1>2. /\ forecast' \in Forecasts /\ forecast' # Zero
        /\ Valid(forecast') /\ forecast'.pausedAt <= now
    BY AdvancedTyped
  <1>3. ExposureCounted' /\ WindowElapsed'
    <2>1. Exposure(a)
      BY <1>1 DEF Exposure
    <2> QED
      BY <2>1, AdvanceCounts
  <1>4. /\ gate \in Gates /\ forecast \in Forecasts /\ now' = now /\ receipts' = receipts
        /\ gate.deadline \in Nat /\ forecast.notBefore \in Nat /\ forecast.until \in Nat
    BY DEF TypeOK, Gates, Forecasts
  <1>5. /\ gate' \in Gates /\ gate' # Zero /\ gate'.phase = CLOSED
        /\ gate'.deadline = gate.deadline /\ gate'.epoch = gate.epoch
        /\ gate'.resolution = gate.resolution /\ gate'.sealedAt = gate.sealedAt
        /\ gate'.pending = gate.pending /\ gate'.material = gate.material
        /\ gate'.accepted = gate.accepted /\ gate'.sealed = gate.sealed
    BY <1>4, RegistryAssumption DEF Gates
  <1>6. /\ forecast'.resolution = forecast.resolution /\ forecast'.until = forecast.until
        /\ forecast'.notBefore = Max2(forecast.notBefore, forecast.until)
    BY <1>1 DEF Advanced
  <1>7. TypeOK'
    BY <1>2, <1>4, <1>5 DEF TypeOK
  <1>8. AccountValid'
    BY <1>2, <1>4 DEF AccountValid, Valid, Effective
  <1>9. CountsMatchReceipts' /\ ReceiptsOfEpochs'
    BY <1>4, <1>5, IntakeKept
  <1>10. GateRules' /\ AcceptedInTime' /\ FinalizedThroughGate' /\ SealedStaysFinalizable'
    BY <1>2, <1>5 DEF GateRules, AcceptedInTime, FinalizedThroughGate,
       SealedStaysFinalizable, Gated
  <1>11. SealedClean'
    BY <1>5 DEF SealedClean, Gated
  <1>12. GateStaysMatched'
    BY <1>5, <1>6 DEF GateStaysMatched, Matched
  <1>13. GateCoversWindow'
    <2>1. gate.deadline >= forecast.notBefore /\ gate.deadline >= forecast.until
      BY DEF GateCoversWindow, Gated
    <2> QED
      BY <1>4, <1>5, <1>6, <2>1 DEF GateCoversWindow, Max2
  <1>14. SealAfterIntake'
    <2> SUFFICES ASSUME NEW s \in {"accepted", "material", "rejected"}, NEW u \in InEpoch(s)'
                 PROVE  /\ Receipt(u)'.acceptedAt <= Receipt(u)'.deadline
                        /\ Receipt(u)'.deadline < gate'.sealedAt
      BY DEF SealAfterIntake
    <2>1. u \in InEpoch(s) /\ Receipt(u)' = Receipt(u)
      BY <1>4, <1>5 DEF InEpoch, Receipt
    <2> QED
      BY <1>5, <2>1 DEF SealAfterIntake, Gated
  <1>15. DeadlineKept /\ ReplacementReviewed
    BY <1>6 DEF DeadlineKept, ReplacementReviewed
  <1> QED
    BY <1>3, <1>7, <1>8, <1>9, <1>10, <1>11, <1>12, <1>13, <1>14, <1>15

\* The archive event.
LEMMA ArchiveKeeps ==
  ASSUME IInv, NEW a \in Payloads(forecast), Archive(a)
  PROVE  IInv' /\ DeadlineKept /\ ReplacementReviewed
  <1>1. a \in PayloadType
    BY PayloadTyped DEF IInv, Archive
  <1>2. gate' = [gate EXCEPT !.phase = CLOSED]
    BY DEF Archive, IInv, TypeOK, Gates
  <1> QED
    BY <1>1, <1>2, CloseKeeps DEF Archive

\* The sealed payload is applied.
LEMMA FinalizeKeeps ==
  ASSUME IInv, Finalize PROVE IInv' /\ DeadlineKept /\ ReplacementReviewed
  <1>1. /\ gate.sealed.payload \in PayloadType /\ gate.sealed.payload.state = FINALIZED
    BY DEF Finalize, IInv, SealedClean, Gated, TypeOK, Gates, SealedAdvances
  <1> QED
    BY <1>1, CloseKeeps DEF Finalize, SealHolds
\* Nothing but the receipts and the gate's counters moves.
LEMMA IntakeFrame ==
  ASSUME IInv, forecast # Zero, gate \in Gates, gate' \in Gates,
         UNCHANGED <<now, forecast, exposed>>,
         gate'.phase = gate.phase, gate.phase # SEALED, gate'.epoch = gate.epoch,
         gate'.resolution = gate.resolution, gate'.deadline = gate.deadline
  PROVE  /\ AccountValid' /\ GateRules' /\ ExposureCounted' /\ WindowElapsed'
         /\ GateStaysMatched' /\ GateCoversWindow' /\ FinalizedThroughGate'
         /\ SealedStaysFinalizable' /\ DeadlineKept /\ ReplacementReviewed
  <1> USE DEF IInv
  <1>1. gate # Zero /\ gate' # Zero /\ now \in Nat
    BY RegistryAssumption DEF TypeOK, Times
  <1>2. AccountValid' /\ ExposureCounted' /\ WindowElapsed'
    BY DEF AccountValid, Valid, Effective, ExposureCounted, WindowElapsed
  <1>3. GateRules' /\ GateStaysMatched' /\ GateCoversWindow' /\ FinalizedThroughGate'
    BY <1>1 DEF GateRules, GateStaysMatched, Matched, GateCoversWindow,
       FinalizedThroughGate, Gated
  <1>4. SealedStaysFinalizable' /\ ReplacementReviewed
    BY DEF SealedStaysFinalizable, ReplacementReviewed
  <1>5. DeadlineKept
    <2>1. gate.deadline \in Nat /\ (forecast.state = PAUSED => forecast.pausedAt \in Nat)
      BY DEF Gates, TypeOK, Forecasts, Times
    <2>2. EffectiveDeadline(gate, forecast)' = EffectiveDeadline(gate, forecast)
      BY DEF EffectiveDeadline
    <2>3. EffectiveDeadline(gate, forecast) \in Int
      BY <1>1, <2>1 DEF EffectiveDeadline
    <2> QED
      BY <2>2, <2>3 DEF DeadlineKept
  <1> QED
    BY <1>2, <1>3, <1>4, <1>5

\* A draft, opened or growing, is of no account to the gate.
LEMMA DraftKeeps ==
  ASSUME IInv, forecast # Zero, gate # Zero, NEW e \in Epochs, NEW u \in Users, e <= gate.epoch,
         NEW r \in ReceiptType, r.status = "draft",
         receipts[<<e, u>>] # Zero => receipts[<<e, u>>].status = "draft",
         receipts' = [receipts EXCEPT ![<<e, u>>] = r],
         UNCHANGED <<now, forecast, gate, exposed>>
  PROVE  IInv' /\ DeadlineKept /\ ReplacementReviewed
  <1> USE DEF IInv
  <1>1. /\ receipts' \in [Epochs \X Users -> ReceiptType \cup {Zero}]
        /\ receipts'[<<e, u>>] = r /\ r # Zero
        /\ \A f \in Epochs, v \in Users : <<f, v>> # <<e, u>> =>
             receipts'[<<f, v>>] = receipts[<<f, v>>]
    <2>1. receipts \in [Epochs \X Users -> ReceiptType \cup {Zero}] /\ <<e, u>> \in Epochs \X Users
      BY DEF TypeOK
    <2>2. r # Zero
      BY RegistryAssumption
    <2> QED
      BY <2>1, <2>2
  <1>2. TypeOK'
    BY <1>1 DEF TypeOK
  <1>3. \A f \in Epochs, v \in Users :
          \/ receipts'[<<f, v>>] = receipts[<<f, v>>]
          \/ /\ receipts'[<<f, v>>] # Zero /\ receipts'[<<f, v>>].status = "draft"
             /\ receipts[<<f, v>>] # Zero => receipts[<<f, v>>].status = "draft"
    BY <1>1
  <1>4. \A v \in Users : gate.epoch \in Epochs =>
          \/ Receipt(v)' = Receipt(v)
          \/ /\ Receipt(v)' # Zero /\ Receipt(v)'.status = "draft"
             /\ Receipt(v) # Zero => Receipt(v).status = "draft"
    BY <1>3 DEF Receipt
  <1>5. \A s \in {"accepted", "material", "rejected"} : InEpoch(s)' = InEpoch(s)
    BY <1>4 DEF InEpoch
  <1>6. CountsMatchReceipts'
    BY <1>5 DEF CountsMatchReceipts, Gated
  <1>7. ReceiptsOfEpochs'
    BY <1>1 DEF ReceiptsOfEpochs
  <1>8. AcceptedInTime'
    <2> SUFFICES ASSUME Gated, gate.phase = TAKING, NEW v \in Users,
                        Receipt(v)' # Zero, Receipt(v)'.status # "draft"
                 PROVE  /\ Receipt(v)'.acceptedAt <= Receipt(v)'.deadline
                        /\ Receipt(v)'.deadline <= EffectiveDeadline(gate, forecast)'
      BY DEF AcceptedInTime, Gated
    <2>1. gate.epoch \in Epochs
      BY DEF TypeOK, Gates, GateRules, Epochs, TAKING, IDLE
    <2>2. Receipt(v)' = Receipt(v)
      BY <1>4, <2>1
    <2>3. EffectiveDeadline(gate, forecast)' = EffectiveDeadline(gate, forecast)
      BY DEF EffectiveDeadline
    <2> QED
      BY <2>2, <2>3 DEF AcceptedInTime
  <1>9. SealAfterIntake'
    <2> SUFFICES ASSUME Gated, gate.phase \in {SEALED, CLOSED},
                        NEW s \in {"accepted", "material", "rejected"}, NEW v \in InEpoch(s)'
                 PROVE  /\ Receipt(v)'.acceptedAt <= Receipt(v)'.deadline
                        /\ Receipt(v)'.deadline < gate.sealedAt
      BY DEF SealAfterIntake, Gated
    <2>1. v \in InEpoch(s)
      BY <1>5
    <2>2. v \in Users /\ gate.epoch \in Epochs /\ Receipt(v)' # Zero /\ Receipt(v)'.status = s
      BY DEF InEpoch
    <2>3. Receipt(v)' = Receipt(v)
      BY <1>4, <2>2
    <2> QED
      BY <2>1, <2>3 DEF SealAfterIntake
  <1>10. AccountValid' /\ ExposureCounted' /\ WindowElapsed' /\ GateRules' /\ GateStaysMatched'
         /\ GateCoversWindow' /\ FinalizedThroughGate' /\ SealedClean' /\ SealedStaysFinalizable'
    <2>1. AccountValid' /\ ExposureCounted' /\ WindowElapsed'
      BY DEF AccountValid, Valid, Effective, ExposureCounted, WindowElapsed
    <2>2. GateRules' /\ GateStaysMatched' /\ GateCoversWindow' /\ FinalizedThroughGate' /\ SealedClean'
      BY DEF GateRules, GateStaysMatched, Matched, GateCoversWindow,
         FinalizedThroughGate, SealedClean, Gated
    <2>3. SealHolds => SealHolds'
      BY SealUnmoved
    <2>4. SealedStaysFinalizable'
      BY <2>3 DEF SealedStaysFinalizable, Gated
    <2> QED
      BY <2>1, <2>2, <2>4
  <1>11. DeadlineKept /\ ReplacementReviewed
    <2>1. now \in Nat /\ gate \in Gates /\ gate.deadline \in Nat /\ forecast.pausedAt \in Nat
      BY DEF TypeOK, Gates, Times, Forecasts
    <2>2. EffectiveDeadline(gate, forecast)' = EffectiveDeadline(gate, forecast)
          /\ EffectiveDeadline(gate, forecast) \in Int
      BY <2>1 DEF EffectiveDeadline
    <2> QED
      BY <2>2 DEF DeadlineKept, ReplacementReviewed
  <1> QED
    BY <1>2, <1>6, <1>7, <1>8, <1>9, <1>10, <1>11

LEMMA OpenKeeps ==
  ASSUME IInv, NEW u \in Users, OpenReceipt(u)
  PROVE  IInv' /\ DeadlineKept /\ ReplacementReviewed
  <1>1. gate.epoch \in Epochs
    BY DEF OpenReceipt, IInv, TypeOK, Gates, GateRules, Epochs, TAKING, IDLE
  <1>2. Draft \in ReceiptType /\ Draft.status = "draft"
    BY RegistryAssumption DEF Draft, ReceiptType, Times
  <1>3. /\ forecast # Zero /\ gate # Zero /\ gate.epoch <= gate.epoch
        /\ receipts[<<gate.epoch, u>>] = Zero
        /\ receipts' = [receipts EXCEPT ![<<gate.epoch, u>>] = Draft]
        /\ UNCHANGED <<now, forecast, gate, exposed>>
    BY <1>1 DEF OpenReceipt, Receipt, Epochs
  <1> QED
    BY <1>1, <1>2, <1>3, DraftKeeps

LEMMA AppendKeeps ==
  ASSUME IInv, NEW e \in Epochs, NEW u \in Users, AppendChunk(e, u)
  PROVE  IInv' /\ DeadlineKept /\ ReplacementReviewed
  <1> DEFINE old == receipts[<<e, u>>]
             r == [old EXCEPT !.body = @ + 1]
  <1>1. old \in ReceiptType /\ old.status = "draft" /\ old.body < BodyLength
    BY DEF AppendChunk, IInv, TypeOK
  <1>2. r \in ReceiptType /\ r.status = "draft"
    BY <1>1, RegistryAssumption DEF ReceiptType
  <1>3. gate # Zero /\ forecast # Zero /\ e <= gate.epoch
    BY DEF AppendChunk, IInv, ReceiptsOfEpochs, GateRules
  <1>4. /\ receipts' = [receipts EXCEPT ![<<e, u>>] = r]
        /\ UNCHANGED <<now, forecast, gate, exposed>>
    BY DEF AppendChunk
  <1> HIDE DEF r
  <1> QED
    BY <1>1, <1>2, <1>3, <1>4, DraftKeeps
\* A complete draft is submitted in time.
LEMMA SubmitKeeps ==
  ASSUME IInv, NEW u \in Users, Submit(u)
  PROVE  IInv' /\ DeadlineKept /\ ReplacementReviewed
  <1> USE DEF IInv, TAKING, SEALED, CLOSED, IDLE
  <1> DEFINE e == gate.epoch
             d == EffectiveDeadline(gate, forecast)
             old == Receipt(u)
             r == [old EXCEPT !.status = "accepted", !.acceptedAt = now, !.deadline = d]
  <1>1. /\ forecast # Zero /\ gate # Zero /\ gate \in Gates /\ gate.phase = TAKING
        /\ now \in Times /\ now \in Nat /\ gate.deadline \in Nat /\ forecast.pausedAt \in Nat
        /\ forecast.pausedAt <= now /\ gate.pending \in Nat /\ gate.accepted \in Nat
        /\ UNCHANGED <<now, forecast, exposed>>
    BY DEF Submit, TypeOK, Gates, Forecasts, Times, AccountValid
  <1>2. e \in Epochs
    BY <1>1 DEF GateRules, Gates, Epochs
  <1>3. d \in Nat /\ now <= d
    BY <1>1 DEF Submit, EffectiveDeadline
  <1>4. /\ old \in ReceiptType /\ old.status = "draft" /\ old # Zero
        /\ receipts' = [receipts EXCEPT ![<<e, u>>] = r]
    BY <1>2 DEF Submit, Receipt, TypeOK
  <1>5. /\ r \in ReceiptType /\ r.status = "accepted" /\ r.acceptedAt = now /\ r.deadline = d
    BY <1>1, <1>3, <1>4 DEF ReceiptType
  <1> HIDE DEF r, d
  <1>6. gate' = [gate EXCEPT !.pending = @ + 1, !.accepted = @ + 1]
    BY DEF Submit
  <1>7. /\ gate' \in Gates /\ gate' # Zero /\ gate'.phase = TAKING /\ gate'.epoch = e
        /\ gate'.resolution = gate.resolution /\ gate'.deadline = gate.deadline
        /\ gate'.pending = gate.pending + 1 /\ gate'.accepted = gate.accepted + 1
        /\ gate'.material = gate.material
    <2> DEFINE p == gate.pending + 1
               n == gate.accepted + 1
    <2>1. p \in Nat /\ n \in Nat
      BY <1>1
    <2>2. gate' = [gate EXCEPT !.pending = p, !.accepted = n]
      BY <1>6
    <2> HIDE DEF p, n
    <2>3. gate' \in Gates
      BY <1>1, <2>1, <2>2 DEF Gates
    <2>4. gate' # Zero
      BY <2>3, RegistryAssumption
    <2>5. gate'.pending = p /\ gate'.accepted = n
      BY <1>1, <2>2 DEF Gates
    <2> QED
      BY <1>1, <2>2, <2>3, <2>4, <2>5 DEF Gates, p, n
  <1>8. /\ receipts' \in [Epochs \X Users -> ReceiptType \cup {Zero}]
        /\ receipts'[<<e, u>>] = r /\ r # Zero
        /\ \A f \in Epochs, v \in Users : <<f, v>> # <<e, u>> =>
             receipts'[<<f, v>>] = receipts[<<f, v>>]
    <2>1. receipts \in [Epochs \X Users -> ReceiptType \cup {Zero}] /\ <<e, u>> \in Epochs \X Users
      BY <1>2 DEF TypeOK
    <2>2. r # Zero
      BY <1>5, RegistryAssumption
    <2> QED
      BY <1>4, <1>5, <2>1, <2>2
  <1>9. /\ Receipt(u)' = r
        /\ \A v \in Users \ {u} : Receipt(v)' = Receipt(v)
    BY <1>2, <1>7, <1>8 DEF Receipt
  <1>10. TypeOK'
    BY <1>1, <1>7, <1>8 DEF TypeOK
  <1>11. /\ InEpoch("accepted")' = InEpoch("accepted") \cup {u} /\ u \notin InEpoch("accepted")
         /\ InEpoch("material")' = InEpoch("material")
         /\ InEpoch("rejected")' = InEpoch("rejected")
    BY <1>2, <1>4, <1>5, <1>7, <1>8, <1>9 DEF InEpoch
  <1>12. CountsMatchReceipts'
    <2>1. Cardinality(InEpoch("accepted"))' = Cardinality(InEpoch("accepted")) + 1
      BY <1>11, InEpochFinite, FS_AddElement
    <2>2. /\ gate.pending = Cardinality(InEpoch("accepted"))
          /\ gate.material = Cardinality(InEpoch("material"))
          /\ gate.accepted = Cardinality(InEpoch("accepted"))
                             + Cardinality(InEpoch("material"))
                             + Cardinality(InEpoch("rejected"))
      BY <1>1 DEF CountsMatchReceipts, Gated
    <2>3. /\ Cardinality(InEpoch("accepted")) \in Nat /\ Cardinality(InEpoch("material")) \in Nat
          /\ Cardinality(InEpoch("rejected")) \in Nat
      BY InEpochFinite
    <2>4. /\ Cardinality(InEpoch("material"))' = Cardinality(InEpoch("material"))
          /\ Cardinality(InEpoch("rejected"))' = Cardinality(InEpoch("rejected"))
      BY <1>11
    <2> QED
      BY <1>7, <2>1, <2>2, <2>3, <2>4 DEF CountsMatchReceipts
  <1>13. ReceiptsOfEpochs'
    <2> SUFFICES ASSUME NEW f \in Epochs, NEW v \in Users, receipts'[<<f, v>>] # Zero
                 PROVE  f <= e
      BY <1>7 DEF ReceiptsOfEpochs
    <2>1. f = e \/ receipts[<<f, v>>] # Zero
      BY <1>8
    <2> QED
      BY <1>2, <2>1 DEF ReceiptsOfEpochs, Epochs
  <1>14. AcceptedInTime'
    <2> SUFFICES ASSUME NEW v \in Users, Receipt(v)' # Zero, Receipt(v)'.status # "draft"
                 PROVE  /\ Receipt(v)'.acceptedAt <= Receipt(v)'.deadline
                        /\ Receipt(v)'.deadline <= EffectiveDeadline(gate, forecast)'
      BY DEF AcceptedInTime
    <2>1. EffectiveDeadline(gate, forecast)' = d
      BY <1>1, <1>7 DEF EffectiveDeadline, d
    <2>2. CASE v = u
      BY <1>1, <1>3, <1>5, <1>9, <2>1, <2>2
    <2>3. CASE v # u
      BY <1>1, <1>9, <2>1, <2>3 DEF AcceptedInTime, Gated, d
    <2> QED
      BY <2>2, <2>3
  <1>15. SealAfterIntake' /\ SealedClean'
    BY <1>7 DEF SealAfterIntake, SealedClean
  <1>16. /\ AccountValid' /\ GateRules' /\ ExposureCounted' /\ WindowElapsed'
         /\ GateStaysMatched' /\ GateCoversWindow' /\ FinalizedThroughGate'
         /\ SealedStaysFinalizable' /\ DeadlineKept /\ ReplacementReviewed
    <2> HIDE DEF IInv
    <2>1. gate'.phase = gate.phase /\ gate.phase # SEALED
      BY <1>1, <1>7
    <2> HIDE DEF TAKING, SEALED, CLOSED, IDLE
    <2> QED
      BY <1>1, <1>7, <2>1, IntakeFrame
  <1> QED
    BY <1>10, <1>12, <1>13, <1>14, <1>15, <1>16

\* A review rejects an accepted receipt or finds it material.
LEMMA ReviewKeeps ==
  ASSUME IInv, NEW u \in Users, NEW how \in {"rejected", "material"}, Review(u, how)
  PROVE  IInv' /\ DeadlineKept /\ ReplacementReviewed
  <1> USE DEF IInv, TAKING, SEALED, CLOSED, IDLE
  <1> DEFINE e == gate.epoch
             old == Receipt(u)
             r == [old EXCEPT !.status = how]
  <1>1. /\ forecast # Zero /\ gate # Zero /\ gate \in Gates /\ gate.phase = TAKING
        /\ gate.pending \in Nat /\ gate.pending > 0 /\ gate.material \in Nat
        /\ gate.accepted \in Nat /\ UNCHANGED <<now, forecast, exposed>>
    BY DEF Review, TypeOK, Gates
  <1>2. e \in Epochs
    BY <1>1 DEF GateRules, Gates, Epochs
  <1>3. /\ old \in ReceiptType /\ old.status = "accepted" /\ old # Zero
        /\ receipts' = [receipts EXCEPT ![<<e, u>>] = r]
    BY <1>2 DEF Review, Receipt, TypeOK
  <1>4. /\ r \in ReceiptType /\ r.status = how
        /\ r.acceptedAt = old.acceptedAt /\ r.deadline = old.deadline
    BY <1>3 DEF ReceiptType
  <1> HIDE DEF r
  <1>5. gate' = [gate EXCEPT !.pending = gate.pending - 1,
                   !.material = IF how = "material" THEN gate.material + 1 ELSE gate.material]
    BY DEF Review, Reviewed
  <1>6. /\ gate' \in Gates /\ gate' # Zero /\ gate'.phase = TAKING /\ gate'.epoch = e
        /\ gate'.resolution = gate.resolution /\ gate'.deadline = gate.deadline
        /\ gate'.pending = gate.pending - 1 /\ gate'.accepted = gate.accepted
        /\ gate'.material = (IF how = "material" THEN gate.material + 1 ELSE gate.material)
    <2> DEFINE p == gate.pending - 1
               m == IF how = "material" THEN gate.material + 1 ELSE gate.material
    <2>1. p \in Nat /\ m \in Nat
      BY <1>1
    <2>2. gate' = [gate EXCEPT !.pending = p, !.material = m]
      BY <1>5
    <2> HIDE DEF p, m
    <2>3. gate' \in Gates
      BY <1>1, <2>1, <2>2 DEF Gates
    <2>4. gate' # Zero
      BY <2>3, RegistryAssumption
    <2>5. gate'.pending = p /\ gate'.material = m
      BY <1>1, <2>2 DEF Gates
    <2> QED
      BY <1>1, <2>2, <2>3, <2>4, <2>5 DEF Gates, p, m
  <1>7. /\ receipts' \in [Epochs \X Users -> ReceiptType \cup {Zero}]
        /\ receipts'[<<e, u>>] = r /\ r # Zero
        /\ \A f \in Epochs, v \in Users : <<f, v>> # <<e, u>> =>
             receipts'[<<f, v>>] = receipts[<<f, v>>]
    <2>1. receipts \in [Epochs \X Users -> ReceiptType \cup {Zero}] /\ <<e, u>> \in Epochs \X Users
      BY <1>2 DEF TypeOK
    <2>2. r # Zero
      BY <1>4, RegistryAssumption
    <2> QED
      BY <1>3, <1>4, <2>1, <2>2
  <1>8. /\ Receipt(u)' = r
        /\ \A v \in Users \ {u} : Receipt(v)' = Receipt(v)
    BY <1>2, <1>6, <1>7 DEF Receipt
  <1>9. TypeOK'
    BY <1>1, <1>6, <1>7 DEF TypeOK
  <1>10. /\ InEpoch("accepted")' = InEpoch("accepted") \ {u} /\ u \in InEpoch("accepted")
         /\ InEpoch(how)' = InEpoch(how) \cup {u} /\ u \notin InEpoch(how)
         /\ \A s \in {"material", "rejected"} \ {how} : InEpoch(s)' = InEpoch(s)
    BY <1>2, <1>3, <1>4, <1>6, <1>7, <1>8 DEF InEpoch
  <1>11. CountsMatchReceipts'
    <2>1. Cardinality(InEpoch("accepted"))' = Cardinality(InEpoch("accepted")) - 1
      BY <1>10, InEpochFinite, FS_RemoveElement
    <2>2. Cardinality(InEpoch(how))' = Cardinality(InEpoch(how)) + 1
      BY <1>10, InEpochFinite, FS_AddElement
    <2>3. \A s \in {"material", "rejected"} \ {how} :
            Cardinality(InEpoch(s))' = Cardinality(InEpoch(s))
      BY <1>10
    <2>4. /\ gate.pending = Cardinality(InEpoch("accepted"))
          /\ gate.material = Cardinality(InEpoch("material"))
          /\ gate.accepted = Cardinality(InEpoch("accepted"))
                             + Cardinality(InEpoch("material"))
                             + Cardinality(InEpoch("rejected"))
      BY <1>1 DEF CountsMatchReceipts, Gated
    <2>5. /\ Cardinality(InEpoch("accepted")) \in Nat /\ Cardinality(InEpoch("material")) \in Nat
          /\ Cardinality(InEpoch("rejected")) \in Nat
      BY InEpochFinite
    <2>6. CASE how = "material"
      <3>1. /\ Cardinality(InEpoch("material"))' = Cardinality(InEpoch("material")) + 1
            /\ Cardinality(InEpoch("rejected"))' = Cardinality(InEpoch("rejected"))
        BY <2>2, <2>3, <2>6
      <3> QED
        BY <1>6, <2>1, <2>4, <2>5, <2>6, <3>1 DEF CountsMatchReceipts
    <2>7. CASE how = "rejected"
      <3>1. /\ Cardinality(InEpoch("rejected"))' = Cardinality(InEpoch("rejected")) + 1
            /\ Cardinality(InEpoch("material"))' = Cardinality(InEpoch("material"))
        BY <2>2, <2>3, <2>7
      <3> QED
        BY <1>6, <2>1, <2>4, <2>5, <2>7, <3>1 DEF CountsMatchReceipts
    <2> QED
      BY <2>6, <2>7
  <1>12. ReceiptsOfEpochs'
    <2> SUFFICES ASSUME NEW f \in Epochs, NEW v \in Users, receipts'[<<f, v>>] # Zero
                 PROVE  f <= e
      BY <1>6 DEF ReceiptsOfEpochs
    <2>1. f = e \/ receipts[<<f, v>>] # Zero
      BY <1>7
    <2> QED
      BY <1>2, <2>1 DEF ReceiptsOfEpochs, Epochs
  <1>13. AcceptedInTime'
    <2> SUFFICES ASSUME NEW v \in Users, Receipt(v)' # Zero, Receipt(v)'.status # "draft"
                 PROVE  /\ Receipt(v)'.acceptedAt <= Receipt(v)'.deadline
                        /\ Receipt(v)'.deadline <= EffectiveDeadline(gate, forecast)'
      BY DEF AcceptedInTime
    <2>1. EffectiveDeadline(gate, forecast)' = EffectiveDeadline(gate, forecast)
      BY <1>1, <1>6 DEF EffectiveDeadline
    <2>2. /\ Receipt(v) # Zero /\ Receipt(v).status # "draft"
          /\ Receipt(v)'.acceptedAt = Receipt(v).acceptedAt
          /\ Receipt(v)'.deadline = Receipt(v).deadline
      BY <1>3, <1>4, <1>8
    <2>3. /\ Receipt(v).acceptedAt <= Receipt(v).deadline
          /\ Receipt(v).deadline <= EffectiveDeadline(gate, forecast)
      BY <1>1, <2>2 DEF AcceptedInTime, Gated
    <2> QED
      BY <2>1, <2>2, <2>3
  <1>14. SealAfterIntake' /\ SealedClean'
    BY <1>6 DEF SealAfterIntake, SealedClean
  <1>15. /\ AccountValid' /\ GateRules' /\ ExposureCounted' /\ WindowElapsed'
         /\ GateStaysMatched' /\ GateCoversWindow' /\ FinalizedThroughGate'
         /\ SealedStaysFinalizable' /\ DeadlineKept /\ ReplacementReviewed
    <2> HIDE DEF IInv
    <2>1. gate'.phase = gate.phase /\ gate.phase # SEALED
      BY <1>1, <1>6
    <2> HIDE DEF TAKING, SEALED, CLOSED, IDLE
    <2> QED
      BY <1>1, <1>6, <2>1, IntakeFrame
  <1> QED
    BY <1>9, <1>11, <1>12, <1>13, <1>14, <1>15
\* Intake is sealed over a payload the account accepts.
LEMMA SealKeeps ==
  ASSUME IInv, NEW a \in Payloads(forecast), Seal(a)
  PROVE  IInv' /\ DeadlineKept /\ ReplacementReviewed
  <1> USE DEF IInv, OPEN, LOCKED, RESOLVING, PROPOSED, CHALLENGE,
          DISPUTED, ESCALATED, PAUSED, FINALIZED, ARCHIVED, TAKING, SEALED, CLOSED, IDLE
  <1>1. /\ forecast # Zero /\ gate # Zero /\ gate \in Gates /\ gate.phase = TAKING
        /\ forecast \in Forecasts /\ now \in Times /\ now \in Nat /\ gate.deadline \in Nat
        /\ UNCHANGED <<now, forecast, receipts, exposed>>
        /\ gate.pending = 0 /\ gate.material = 0 /\ forecast.state = CHALLENGE
        /\ now > gate.deadline /\ a.state = FINALIZED /\ Accepts(forecast, a, FALSE)
    <2>1. /\ forecast # Zero /\ gate # Zero /\ gate.phase = TAKING
          /\ UNCHANGED <<now, forecast, receipts, exposed>>
          /\ gate.pending = 0 /\ gate.material = 0 /\ forecast.state = CHALLENGE
          /\ now > gate.deadline /\ a.state = FINALIZED
      BY DEF Seal, SealReady
    <2>2. Accepts(forecast, a, FALSE)
      BY DEF Seal
    <2>3. gate \in Gates /\ forecast \in Forecasts /\ now \in Times
      BY <2>1 DEF TypeOK
    <2>4. gate.deadline \in Nat /\ now \in Nat
      BY <2>3 DEF Gates, Times
    <2> QED
      BY <2>1, <2>2, <2>3, <2>4
  <1>2. a \in PayloadType
    BY <1>1, PayloadTyped
  <1> DEFINE x == [payload |-> a, over |-> forecast]
  <1>3. x \in SealedAdvances /\ x # Zero /\ x.payload = a /\ x.over = forecast
    BY <1>1, <1>2, RegistryAssumption DEF SealedAdvances
  <1>4. gate' = [gate EXCEPT !.phase = SEALED, !.sealedAt = now, !.sealed = x]
    BY DEF Seal
  <1> HIDE DEF x
  <1>5. /\ gate' \in Gates /\ gate' # Zero /\ gate'.phase = SEALED /\ gate'.epoch = gate.epoch
        /\ gate'.resolution = gate.resolution /\ gate'.deadline = gate.deadline
        /\ gate'.pending = 0 /\ gate'.material = 0 /\ gate'.accepted = gate.accepted
        /\ gate'.sealed = x /\ gate'.sealedAt = now
    <2>1. gate' \in Gates
      <3>1. SEALED \in IDLE..CLOSED /\ x \in SealedAdvances \cup {Zero}
        BY <1>3
      <3> HIDE DEF IInv, IDLE, CLOSED, SEALED
      <3> QED
        BY <1>1, <1>4, <3>1 DEF Gates
    <2>2. gate' # Zero
      BY <2>1, RegistryAssumption
    <2> QED
      BY <1>1, <1>4, <2>1, <2>2 DEF Gates
  <1>6. TypeOK'
    BY <1>1, <1>5 DEF TypeOK
  <1>7. AccountValid' /\ ExposureCounted' /\ WindowElapsed'
    BY <1>1 DEF AccountValid, Valid, Effective, ExposureCounted, WindowElapsed
  <1>8. CountsMatchReceipts' /\ ReceiptsOfEpochs'
    BY <1>1, <1>5, IntakeKept
  <1>9. GateRules' /\ GateStaysMatched' /\ GateCoversWindow' /\ FinalizedThroughGate'
        /\ AcceptedInTime' /\ SealedClean'
    BY <1>1, <1>3, <1>5 DEF GateRules, GateStaysMatched, Matched, GateCoversWindow,
       FinalizedThroughGate, AcceptedInTime, SealedClean, Gated
  <1>10. SealAfterIntake'
    <2> SUFFICES ASSUME NEW s \in {"accepted", "material", "rejected"}, NEW u \in InEpoch(s)'
                 PROVE  /\ Receipt(u)'.acceptedAt <= Receipt(u)'.deadline
                        /\ Receipt(u)'.deadline < now
      BY <1>5 DEF SealAfterIntake
    <2>1. /\ Receipt(u)' = Receipt(u) /\ u \in Users /\ gate.epoch \in Epochs
          /\ Receipt(u) # Zero /\ Receipt(u).status # "draft"
      BY <1>1, <1>5 DEF InEpoch, Receipt
    <2>2. EffectiveDeadline(gate, forecast) = gate.deadline
      BY <1>1 DEF EffectiveDeadline
    <2>3. /\ Receipt(u).acceptedAt <= Receipt(u).deadline
          /\ Receipt(u).deadline <= gate.deadline
      BY <1>1, <2>1, <2>2 DEF AcceptedInTime, Gated
    <2>4. Receipt(u).deadline \in Nat
      BY <2>1 DEF Receipt, TypeOK, ReceiptType
    <2> QED
      BY <1>1, <2>1, <2>3, <2>4
  <1>11. SealedStaysFinalizable'
    <2>1. Accepts(forecast, a, FALSE)'
      <3> HIDE DEF IInv
      <3> QED
        BY <1>1 DEF Accepts, Admissible, Advanced, Valid, Effective, NotBefore,
           NewProposal, SameDisputes, Successors, Max2
    <2>2. SealHolds'
      BY <1>1, <1>3, <1>5, <2>1 DEF SealHolds
    <2> QED
      BY <1>1, <1>5, <2>2 DEF SealedStaysFinalizable
  <1>12. DeadlineKept /\ ReplacementReviewed
    BY <1>1, <1>5 DEF DeadlineKept, ReplacementReviewed, EffectiveDeadline
  <1> QED
    BY <1>6, <1>7, <1>8, <1>9, <1>10, <1>11, <1>12
\* Every step keeps the invariant, and replaces and postpones as it should.
LEMMA StepKeeps ==
  ASSUME IInv, [Next]_vars
  PROVE  IInv' /\ DeadlineKept /\ ReplacementReviewed
  <1>1. CASE Tick
    <2>1. IInv'
      BY <1>1, TickKeeps
    <2>2. ReplacementReviewed
      BY <1>1 DEF Tick, ReplacementReviewed
    <2>3. DeadlineKept
      <3> SUFFICES ASSUME Gated
                   PROVE  EffectiveDeadline(gate, forecast)
                            <= EffectiveDeadline(gate, forecast)'
        BY DEF DeadlineKept
      <3>1. now \in Nat /\ now' = now + 1 /\ gate.deadline \in Nat /\ forecast.pausedAt \in Nat
        BY <1>1 DEF Tick, IInv, TypeOK, Times, Gates, Forecasts, Gated
      <3> QED
        BY <1>1, <3>1 DEF Tick, EffectiveDeadline
    <2> QED
      BY <2>1, <2>2, <2>3
  <1>2. CASE \E at \in Times : Register(at)
    <2>1. gate = Zero
      BY <1>2 DEF Register, IInv, GateRules
    <2> QED
      BY <1>2, <2>1, RegisterKeeps DEF DeadlineKept, ReplacementReviewed, Gated
  <1>3. CASE CreateGate
    <2>1. gate = Zero
      BY <1>3 DEF CreateGate
    <2> QED
      BY <1>3, <2>1, CreateKeeps DEF DeadlineKept, ReplacementReviewed, Gated
  <1>4. CASE Relay
    <2>1. PICK a \in Payloads(forecast) :
            \/ AdvanceUngated(a)
            \/ AdvanceGated(a)
            \/ \E u \in Users : ImportReceipt(a, u)
            \/ Archive(a)
            \/ Seal(a)
      BY <1>4 DEF Relay
    <2>2. CASE AdvanceUngated(a)
      <3>1. gate = Zero
        BY <2>2 DEF AdvanceUngated
      <3> QED
        BY <2>2, <3>1, UngatedKeeps DEF DeadlineKept, ReplacementReviewed, Gated
    <2> QED
      BY <2>1, <2>2, AdvanceKeeps, ImportKeeps, ArchiveKeeps, SealKeeps
  <1>5. CASE Intake
    BY <1>5, OpenKeeps, SubmitKeeps, AppendKeeps, ReviewKeeps DEF Intake
  <1>6. CASE Finalize
    BY <1>6, FinalizeKeeps
  <1>7. CASE UNCHANGED vars
    <2> USE <1>7 DEF IInv, vars
    <2>1. TypeOK' /\ AccountValid' /\ GateRules' /\ ExposureCounted' /\ ReceiptsOfEpochs'
          /\ WindowElapsed' /\ GateStaysMatched' /\ GateCoversWindow' /\ SealedClean'
          /\ FinalizedThroughGate'
      BY DEF TypeOK, AccountValid, Valid, Effective, GateRules, ExposureCounted,
         ReceiptsOfEpochs, WindowElapsed, GateStaysMatched, Matched, GateCoversWindow,
         SealedClean, FinalizedThroughGate, Gated
    <2>2. AcceptedInTime' /\ CountsMatchReceipts' /\ SealAfterIntake'
      BY DEF AcceptedInTime, CountsMatchReceipts, SealAfterIntake, InEpoch, Receipt,
         EffectiveDeadline, Gated
    <2>3. SealHolds => SealHolds'
      BY SealUnmoved
    <2>4. SealedStaysFinalizable'
      BY <2>3 DEF SealedStaysFinalizable, Gated
    <2>5. ReplacementReviewed
      BY DEF ReplacementReviewed
    <2>6. DeadlineKept
      <3>1. Gated => EffectiveDeadline(gate, forecast) \in Int
        BY DEF EffectiveDeadline, Gated, TypeOK, Gates, Forecasts, Times
      <3>2. EffectiveDeadline(gate, forecast)' = EffectiveDeadline(gate, forecast)
        BY DEF EffectiveDeadline
      <3> QED
        BY <3>1, <3>2 DEF DeadlineKept
    <2> QED
      BY <2>1, <2>2, <2>4, <2>5, <2>6
  <1> QED
    BY <1>1, <1>2, <1>3, <1>4, <1>5, <1>6, <1>7 DEF Next

LEMMA InitHolds == ASSUME Init PROVE IInv
  <1> USE DEF Init
  <1>1. TypeOK
    BY RegistryAssumption DEF TypeOK, Times
  <1>2. ReceiptsOfEpochs
    BY DEF ReceiptsOfEpochs
  <1>3. /\ AccountValid /\ GateRules /\ ExposureCounted /\ AcceptedInTime /\ SealedClean
        /\ WindowElapsed /\ GateStaysMatched /\ GateCoversWindow /\ CountsMatchReceipts
        /\ FinalizedThroughGate /\ SealAfterIntake /\ SealedStaysFinalizable
    BY DEF AccountValid, GateRules, ExposureCounted, AcceptedInTime, SealedClean,
       WindowElapsed, GateStaysMatched, GateCoversWindow, CountsMatchReceipts,
       FinalizedThroughGate, SealAfterIntake, SealedStaysFinalizable, Gated
  <1> QED
    BY <1>1, <1>2, <1>3 DEF IInv

\* The invariant of the account, its gate and its receipts.
THEOREM Invariant == Spec => []IInv
  <1>1. Init => IInv
    BY InitHolds
  <1>2. IInv /\ [Next]_vars => IInv'
    BY StepKeeps
  <1> QED
    BY <1>1, <1>2, PTL DEF Spec

-----------------------------------------------------------------------------
(***************************************************************************)
(* What it establishes                                                     *)
(***************************************************************************)
\* Whatever times the payloads claim, a finalized proposal stood open for
\* MIN_CHALLENGE_MS of unpaused chain time, behind a gate that always loads
\* and takes disputes for all of it.
THEOREM WindowGranted == Spec => []FullChainWindow
  <1>1. IInv => FullChainWindow
    BY DEF IInv, FullChainWindow
  <1> QED
    BY <1>1, Invariant, PTL

\* A seal counts every receipt of its epoch, and a forecast is finalized only
\* through a seal, with no accepted dispute against it.
THEOREM SealsRespect == Spec => []SealsRespectReviews
  <1>1. ASSUME IInv, Gated, forecast.state >= FINALIZED
        PROVE  InEpoch("accepted") = {} /\ InEpoch("material") = {}
    <2>1. gate.phase = CLOSED
      BY <1>1 DEF IInv, FinalizedThroughGate, Gated
    <2>2. Cardinality(InEpoch("accepted")) = 0 /\ Cardinality(InEpoch("material")) = 0
      BY <1>1, <2>1 DEF IInv, SealedClean, CountsMatchReceipts
    <2> QED
      BY <2>2, InEpochFinite, FS_EmptySet
  <1>2. IInv => SealsRespectReviews
    BY <1>1 DEF IInv, SealsRespectReviews, NoDisputeOverridden
  <1> QED
    BY <1>2, Invariant, PTL

\* What is sealed can be finalized, however much later.
THEOREM SealsStay == Spec => []SealedStaysFinalizable
  <1>1. IInv => SealedStaysFinalizable
    BY DEF IInv
  <1> QED
    BY <1>1, Invariant, PTL

\* A proposal is replaced only once every receipt against it is reviewed, and
\* the time to file one never gets shorter.
THEOREM ReplacementsReviewed == Spec => ReplacedOnlyReviewed
  <1>1. IInv /\ [Next]_vars => [ReplacementReviewed /\ DeadlineKept]_vars
    BY StepKeeps
  <1> QED
    BY <1>1, Invariant, PTL DEF Spec, ReplacedOnlyReviewed

-----------------------------------------------------------------------------
(***************************************************************************)
(* The config and reviewer accounts, for any number of keys, rotations and *)
(* signed transactions                                                     *)
(***************************************************************************)
\* The revision of the role counts its changes; no role is revision 0.
RevisionCounts == Commitment(role).revision = changes

\* An appointment names the revision of the moment it was signed.
SignedOverRevision == \A t \in signed : t.over.revision = t.at

\* The inductive invariant.
RolesInv == RolesTypeOK /\ ConfigReadable /\ RevisionCounts /\ SignedOverRevision

\* What an appointment names of the role is a key and a revision.
LEMMA CommitmentType ==
  ASSUME role \in [key : Keys, revision : Nat \ {0}] \cup {Default}
  PROVE  Commitment(role) \in [key : Key, revision : Nat]
  BY DEF Commitment, Key

\* The accounts start empty.
LEMMA RolesInitially == RolesInit => RolesInv
  BY DEF RolesInit, RolesInv, RolesTypeOK, ConfigReadable, RevisionCounts, SignedOverRevision,
         Commitment

\* An instruction that only rotates keys leaves a config that decodes.
LEMMA RotationKeeps ==
  ASSUME RolesInv,
         config' \in [admin : Keys, relayer : Keys, pending : Key],
         Decodes(config'),
         UNCHANGED <<role, signed, changes>>
  PROVE  RolesInv'
  BY DEF RolesInv, RolesTypeOK, ConfigReadable, RevisionCounts, SignedOverRevision,
         Commitment

\* Every instruction keeps the invariant.
LEMMA RolesStep == RolesInv /\ [RolesNext]_roles => RolesInv'
<1> SUFFICES ASSUME RolesInv, [RolesNext]_roles PROVE RolesInv'
  OBVIOUS
<1> USE RolesAssumption
<1> USE DEF RolesInv
<1>1. ASSUME NEW k \in Keys, Initialize(k) PROVE RolesInv'
  BY <1>1, RotationKeeps DEF Initialize, Decodes, Key
<1>2. ASSUME NEW k \in Keys, SetRelayer(k) PROVE RolesInv'
  <2>1. config \in [admin : Keys, relayer : Keys, pending : Key]
    BY <1>2 DEF SetRelayer, RolesTypeOK
  <2>2. /\ config' \in [admin : Keys, relayer : Keys, pending : Key]
        /\ Decodes(config')
    BY <1>2, <2>1 DEF SetRelayer, Decodes
  <2> QED BY <1>2, <2>2, RotationKeeps DEF SetRelayer
<1>3. ASSUME NEW k \in Keys, ProposeAdmin(k) PROVE RolesInv'
  <2>1. config \in [admin : Keys, relayer : Keys, pending : Key]
    BY <1>3 DEF ProposeAdmin, RolesTypeOK
  <2>2. /\ config' \in [admin : Keys, relayer : Keys, pending : Key]
        /\ Decodes(config')
    BY <1>3, <2>1 DEF ProposeAdmin, Decodes, Key
  <2> QED BY <1>3, <2>2, RotationKeeps DEF ProposeAdmin
<1>4. ASSUME AcceptAdmin PROVE RolesInv'
  <2>1. config \in [admin : Keys, relayer : Keys, pending : Key]
    BY <1>4 DEF AcceptAdmin, RolesTypeOK
  <2>2. /\ config' \in [admin : Keys, relayer : Keys, pending : Key]
        /\ Decodes(config')
    BY <1>4, <2>1 DEF AcceptAdmin, Decodes, Key
  <2> QED BY <1>4, <2>2, RotationKeeps DEF AcceptAdmin
<1>5. ASSUME NEW k \in Keys, SignAppointment(k) PROVE RolesInv'
  <2> DEFINE t == [by |-> config.admin, key |-> k, over |-> Commitment(role),
                   at |-> changes]
  <2>1. /\ signed' = signed \cup {t}
        /\ UNCHANGED <<config, role, changes>>
    BY <1>5 DEF SignAppointment
  <2>2. t \in [by : Keys, key : Keys, over : [key : Key, revision : Nat], at : Nat]
    BY <1>5, CommitmentType DEF SignAppointment, RolesTypeOK
  <2>3. t.over.revision = t.at
    BY DEF RevisionCounts
  <2>4. RolesTypeOK' BY <2>1, <2>2 DEF RolesTypeOK
  <2>5. SignedOverRevision' BY <2>1, <2>3 DEF SignedOverRevision
  <2>6. ConfigReadable' /\ RevisionCounts'
    BY <2>1 DEF ConfigReadable, RevisionCounts, Commitment, Decodes
  <2> QED BY <2>4, <2>5, <2>6
<1>6. ASSUME NEW t \in signed, SetReviewer(t) PROVE RolesInv'
  <2>1. /\ role' = [key |-> t.key, revision |-> changes + 1]
        /\ changes' = changes + 1 /\ changes \in Nat
        /\ UNCHANGED <<config, signed>>
    BY <1>6 DEF SetReviewer, NextRevision, RevisionCounts, Commitment, RolesTypeOK
  <2>2. t.key \in Keys BY DEF RolesTypeOK
  <2>3. RolesTypeOK' BY <2>1, <2>2 DEF RolesTypeOK
  <2>4. role' # Default BY <2>1, <2>2
  <2>5. RevisionCounts' BY <2>1, <2>4 DEF RevisionCounts, Commitment
  <2>6. ConfigReadable' /\ SignedOverRevision'
    BY <2>1 DEF ConfigReadable, SignedOverRevision, Decodes
  <2> QED BY <2>3, <2>5, <2>6
<1>7. ASSUME UNCHANGED roles PROVE RolesInv'
  BY <1>7 DEF roles, RolesTypeOK, ConfigReadable, RevisionCounts, SignedOverRevision,
              Commitment, Decodes
<1> QED BY <1>1, <1>2, <1>3, <1>4, <1>5, <1>6, <1>7 DEF RolesNext

\* The invariant holds in every reachable state.
LEMMA RolesInvariant == RolesSpec => []RolesInv
  BY RolesInitially, RolesStep, PTL DEF RolesSpec

\* The accounts hold records of their declared layout (their codecs).
THEOREM RolesTypeCorrect == RolesSpec => []RolesTypeOK
  BY RolesInvariant, PTL DEF RolesInv

\* No order of initialization, rotation, proposal and acceptance makes the
\* program write a config that Config::decode refuses.
THEOREM ConfigStaysReadable == RolesSpec => []NeverBricked
<1>1. RolesInv => NeverBricked
  BY DEF RolesInv, NeverBricked
<1> QED BY RolesInvariant, <1>1, PTL

\* An appointment that lands was signed, by the administrator of that moment's
\* config, over the role as it stands: never again, never after a change.
THEOREM AppointmentsAreFresh == RolesSpec => NoStaleAppointment
<1> DEFINE Fresh == changes' # changes =>
                      \E t \in signed : t.at = changes /\ t.key = role'.key
                                        /\ t.by = config.admin
<1>1. ASSUME RolesInv, [RolesNext]_roles PROVE [Fresh]_roles
  <2>1. CASE \E t \in signed : SetReviewer(t)
    <3>1. PICK t \in signed : SetReviewer(t) BY <2>1
    <3>2. t.at = changes
      BY <1>1, <3>1 DEF RolesInv, SetReviewer, SignedOverRevision, RevisionCounts
    <3>3. t.key = role'.key /\ t.by = config.admin BY <3>1 DEF SetReviewer
    <3> QED BY <3>2, <3>3
  <2>2. CASE ~ \E t \in signed : SetReviewer(t)
    BY <1>1, <2>2 DEF RolesNext, roles, Initialize, SetRelayer, ProposeAdmin,
                      SignAppointment, AcceptAdmin
  <2> QED BY <2>1, <2>2
<1>2. RolesInv /\ [][RolesNext]_roles => NoStaleAppointment
  <2>1. NoStaleAppointment <=> [][Fresh]_roles
    BY DEF NoStaleAppointment
  <2> QED BY <2>1, <1>1, RolesStep, PTL
<1> QED BY <1>2, RolesInitially, PTL DEF RolesSpec
=============================================================================
