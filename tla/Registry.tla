------------------------------- MODULE Registry -------------------------------
(***************************************************************************)
(* One forecast in the Solana program forecast_registry: its account, its  *)
(* intake gate and the dispute receipts users file against it              *)
(* (programs/forecast_registry/src/lib.rs).                                *)
(*                                                                         *)
(* The program trusts neither the order nor the content of what the relay  *)
(* sends: an Advance is any payload that names the account's revision and  *)
(* event as its predecessor (a payload that does not is refused before it  *)
(* is looked at, so those hashes are left out).  Every action is taken by  *)
(* the holder of its role: the relayer (register, gate, advance, seal,     *)
(* finalize), the reviewer (review, and the co-signature of a replacement) *)
(* or the disputing user; who holds a role is RegistryRoles' business.     *)
(***************************************************************************)
EXTENDS Integers, FiniteSets

CONSTANTS
  Users,          \* wallets that file disputes
  Resolutions,    \* resolution commitments
  Yes,            \* the resolutions whose outcome is YES
  Commitments,    \* dispute-set commitments
  OpenAt, CloseAt,\* the specification's participation window
  MinChallenge,   \* MIN_CHALLENGE_MS, 48 hours
  MaxDisputes,    \* the cap of 256 on domain disputes
  BodyLength,     \* chunks in a receipt's evidence body
  Untils,         \* bound: the challenge deadlines a payload may carry
  MaxLag,         \* bound: how long after it occurred an event is relayed
  MaxEpoch,       \* bound on the intake epochs
  MaxTime,        \* bound on the chain clock
  Zero            \* the zero commitment

\* The states a registered forecast may be in.
OPEN      == 2
LOCKED    == 3
RESOLVING == 4
PROPOSED  == 5
CHALLENGE == 6
DISPUTED  == 7
ESCALATED == 8
PAUSED    == 9
FINALIZED == 10
ARCHIVED  == 11

\* Gate.phase.
IDLE   == 0
TAKING == 1
SEALED == 2
CLOSED == 3

Times  == 0..MaxTime
Epochs == 1..MaxEpoch

\* The layouts of the accounts and of a payload.
Forecasts ==
  [state : OPEN..ARCHIVED, at : Times, resolution : Resolutions \cup {Zero},
   disputes : Commitments \cup {Zero}, reputation : BOOLEAN,
   trigger : BOOLEAN, until : Nat, pending : Nat, material : Nat,
   notBefore : Nat, pausedFrom : {0} \cup RESOLVING..ESCALATED,
   pausedAt : Times]
PayloadType ==
  [state : OPEN..ARCHIVED, at : Times, resolution : Resolutions \cup {Zero},
   disputes : Commitments \cup {Zero}, reputation : BOOLEAN,
   trigger : BOOLEAN, until : Nat, pending : Nat, material : Nat]
SealedAdvances == [payload : PayloadType, over : Forecasts]
Gates ==
  [phase : IDLE..CLOSED, epoch : 0..MaxEpoch,
   resolution : Resolutions \cup {Zero}, opened : Times, deadline : Nat,
   pending : Nat, material : Nat, accepted : Nat,
   sealed : SealedAdvances \cup {Zero},
   sealedAt : Times]
ReceiptType ==
  [status : {"draft", "accepted", "rejected", "material"},
   body : 0..BodyLength, acceptedAt : Times, deadline : Nat]

ASSUME RegistryAssumption ==
  /\ OpenAt \in Nat /\ CloseAt \in Nat /\ OpenAt < CloseAt
  /\ MinChallenge \in Nat \ {0} /\ MaxDisputes \in Nat
  /\ BodyLength \in Nat \ {0} /\ MaxLag \in Nat
  /\ MaxEpoch \in Nat \ {0} /\ MaxTime \in Nat \ {0} /\ Untils \subseteq Nat
  /\ Yes \subseteq Resolutions
  /\ Zero \notin Resolutions /\ Zero \notin Commitments
  /\ Zero \notin Forecasts /\ Zero \notin Gates /\ Zero \notin ReceiptType
  /\ Zero \notin SealedAdvances
  /\ IsFiniteSet(Users)

VARIABLES
  now,            \* Clock sysvar, in milliseconds
  forecast,       \* the forecast account, Zero before it is registered
  gate,           \* the intake gate account, Zero before it is created
  receipts,       \* [Epochs \X Users -> a receipt account, or Zero]
  exposed         \* history: unpaused chain time since the challenge opened

vars == <<now, forecast, gate, receipts, exposed>>

Max2(a, b) == IF a >= b THEN a ELSE b

-----------------------------------------------------------------------------
(***************************************************************************)
(* The forecast account                                                    *)
(***************************************************************************)
Effective(f) == IF f.state = PAUSED THEN f.pausedFrom ELSE f.state

\* Forecast::validate.
Valid(f) ==
  /\ IF f.state = PAUSED
     THEN f.pausedFrom \in RESOLVING..ESCALATED /\ f.pausedAt > 0
     ELSE f.pausedFrom = 0 /\ f.pausedAt = 0
  /\ IF Effective(f) >= PROPOSED
     THEN f.resolution # Zero /\ f.notBefore > 0
     ELSE f.resolution = Zero /\ f.notBefore = 0
  /\ IF Effective(f) >= CHALLENGE
     THEN f.until > 0
     ELSE f.until = 0 /\ f.pending = 0 /\ f.material = 0
  /\ f.pending + f.material <= MaxDisputes
  /\ f.notBefore >= f.until
  /\ Effective(f) \in {FINALIZED, ARCHIVED} => f.at >= f.until
  /\ Effective(f) \in {CHALLENGE, FINALIZED, ARCHIVED} =>
       f.pending = 0 /\ f.material = 0
  /\ Effective(f) = ESCALATED => f.pending = 0 /\ f.material > 0
  /\ f.pending + f.material > 0 => f.disputes # Zero
  /\ (Effective(f) >= FINALIZED) <=> f.reputation
  /\ f.state = OPEN => ~f.trigger /\ f.at < CloseAt
  /\ f.state # OPEN => f.at >= CloseAt \/ f.trigger
  /\ f.at < CloseAt /\ Effective(f) >= PROPOSED => f.resolution \in Yes

\* The transitions Forecast::advance_intake calls legal.
Successors(f, imported) ==
  CASE f.state = OPEN      -> {OPEN, LOCKED}
    [] f.state = LOCKED    -> {RESOLVING}
    [] f.state = RESOLVING -> {PROPOSED, PAUSED}
    [] f.state = PROPOSED  -> {CHALLENGE, PAUSED}
    [] f.state = CHALLENGE -> {DISPUTED, PAUSED, FINALIZED}
    [] f.state = DISPUTED  -> {CHALLENGE, DISPUTED, ESCALATED, PAUSED}
    [] f.state = ESCALATED -> {PROPOSED, PAUSED}
                              \cup (IF imported THEN {DISPUTED} ELSE {})
    [] f.state = PAUSED    -> {f.pausedFrom}
    [] f.state = FINALIZED -> {ARCHIVED}
    [] OTHER               -> {}

NewProposal(f, a) == f.state \in {RESOLVING, ESCALATED} /\ a.state = PROPOSED

SameDisputes(f, a) ==
  a.disputes = f.disputes /\ a.pending = f.pending /\ a.material = f.material

\* What advance_intake requires of a payload before it looks at its result.
Admissible(f, a, imported) ==
  /\ f.at <= a.at /\ a.at <= now
  /\ a.state \in Successors(f, imported)
  /\ \/ a.trigger = f.trigger
     \/ f.state = OPEN /\ a.state = LOCKED /\ a.trigger /\ a.at < CloseAt
  /\ IF NewProposal(f, a)
     THEN /\ a.resolution \notin {Zero, f.resolution}
          /\ a.until = 0 /\ a.pending = 0 /\ a.material = 0
     ELSE /\ a.resolution = f.resolution
          /\ IF f.state = PROPOSED /\ a.state = CHALLENGE
             THEN a.until > a.at ELSE a.until >= f.until
  /\ a.reputation # f.reputation => a.state = FINALIZED
  /\ f.state = FINALIZED => a.disputes = f.disputes /\ a.until = f.until
  /\ a.state = PAUSED => SameDisputes(f, a) /\ a.until = f.until
  /\ f.state = PAUSED => SameDisputes(f, a) /\ now >= f.pausedAt
  /\ a.state = FINALIZED =>
       /\ f.pending = 0 /\ f.material = 0 /\ SameDisputes(f, a)
       /\ a.until = f.until /\ a.at >= f.until
       /\ now >= f.notBefore /\ now >= f.until

\* Mutant: beginning the challenge does not restart the 48 hours.
NotBeforeProposalOnly(f, a) ==
  LET base == CASE NewProposal(f, a) -> now + MinChallenge
                [] f.state = PAUSED /\ f.notBefore > 0 ->
                     f.notBefore + (now - f.pausedAt)
                [] OTHER -> f.notBefore
  IN Max2(base, a.until)

\* The earliest chain time of finalization: 48 hours of chain time from the
\* proposal and from the challenge, moved by the chain time spent paused.
NotBefore(f, a) ==
  LET base == CASE NewProposal(f, a) -> now + MinChallenge
                [] f.state = PROPOSED /\ a.state = CHALLENGE ->
                     Max2(f.notBefore, now + MinChallenge)
                [] f.state = PAUSED /\ f.notBefore > 0 ->
                     f.notBefore + (now - f.pausedAt)
                [] OTHER -> f.notBefore
  IN Max2(base, a.until)

Advanced(f, a) ==
  [state |-> a.state, at |-> a.at, resolution |-> a.resolution,
   disputes |-> a.disputes, reputation |-> a.reputation,
   trigger |-> a.trigger, until |-> a.until, pending |-> a.pending,
   material |-> a.material, notBefore |-> NotBefore(f, a),
   pausedFrom |-> IF a.state = PAUSED THEN f.state ELSE 0,
   pausedAt |-> IF a.state = PAUSED THEN now ELSE 0]

\* Forecast::advance_intake succeeds.
Accepts(f, a, imported) == Admissible(f, a, imported) /\ Valid(Advanced(f, a))

-----------------------------------------------------------------------------
(***************************************************************************)
(* The intake gate and the receipts                                        *)
(***************************************************************************)
\* Gate::new_epoch for the proposal f has just received.
NewEpoch(g, f) ==
  [g EXCEPT !.epoch = g.epoch + 1, !.resolution = f.resolution,
            !.opened = now,
            !.deadline = Max2(now + MinChallenge, Max2(f.notBefore, f.until)),
            !.pending = 0, !.material = 0, !.accepted = 0, !.phase = TAKING]

\* Gate::effective_deadline: an outage extends intake as it goes on.
EffectiveDeadline(g, f) ==
  IF f.state = PAUSED THEN g.deadline + (now - f.pausedAt) ELSE g.deadline

Receipt(u) == receipts[<<gate.epoch, u>>]

Draft == [status |-> "draft", body |-> 0, acceptedAt |-> 0, deadline |-> 0]

Init ==
  /\ now = 1 /\ exposed = 0
  /\ forecast = Zero /\ gate = Zero
  /\ receipts = [x \in Epochs \X Users |-> Zero]

Tick ==
  /\ now < MaxTime
  /\ now' = now + 1
  /\ exposed' = IF forecast # Zero
                  /\ forecast.state \in {CHALLENGE, DISPUTED, ESCALATED}
                THEN exposed + 1 ELSE exposed
  /\ UNCHANGED <<forecast, gate, receipts>>

\* Tag 1: register an OPEN forecast.
Register(at) ==
  /\ forecast = Zero
  /\ at <= now /\ at < CloseAt
  /\ forecast' = [state |-> OPEN, at |-> at, resolution |-> Zero,
                  disputes |-> Zero, reputation |-> FALSE, trigger |-> FALSE,
                  until |-> 0, pending |-> 0, material |-> 0, notBefore |-> 0,
                  pausedFrom |-> 0, pausedAt |-> 0]
  /\ UNCHANGED <<now, gate, receipts, exposed>>

\* Tag 6: create the gate, at once in its first epoch if there is a proposal.
CreateGate ==
  /\ forecast # Zero /\ gate = Zero
  /\ forecast.state < FINALIZED
  /\ LET idle == [phase |-> IDLE, epoch |-> 0, resolution |-> Zero,
                  opened |-> 0, deadline |-> 0, pending |-> 0, material |-> 0,
                  accepted |-> 0, sealed |-> Zero, sealedAt |-> 0]
     IN gate' = IF forecast.resolution = Zero
                THEN idle ELSE NewEpoch(idle, forecast)
  /\ UNCHANGED <<now, forecast, receipts, exposed>>

\* Gate::same: the gate and the account must name the same proposal.
Matched == gate.phase # IDLE => gate.resolution = forecast.resolution

\* The history restarts with every challenge.
Exposure(a) ==
  exposed' = IF forecast.state = PROPOSED /\ a.state = CHALLENGE
             THEN 0 ELSE exposed

\* No advance finalizes; only a sealed gate does.
NotFinalizing(a) == a.state # FINALIZED

\* Tag 7 before the gate account exists: a plain advance.
AdvanceUngated(a) ==
  /\ forecast # Zero /\ gate = Zero
  /\ NotFinalizing(a)
  /\ Accepts(forecast, a, FALSE)
  /\ forecast' = Advanced(forecast, a)
  /\ Exposure(a)
  /\ UNCHANGED <<now, gate, receipts>>

\* What an advance does to an open gate.  A new proposal opens an epoch; any
\* other event keeps the deadline behind the outage and the account's times.
FollowedGate(a, new) ==
  IF NewProposal(forecast, a)
  THEN NewEpoch(gate, new)
  ELSE IF gate.phase = TAKING
  THEN LET moved == EffectiveDeadline(gate, forecast)
       IN [gate EXCEPT !.deadline =
             Max2(moved, Max2(new.notBefore, new.until))]
  ELSE gate

\* Mutant: a sealed gate still lets events through.
FollowsSealed(a) ==
  /\ gate.phase \in {IDLE, TAKING, SEALED}
  /\ NewProposal(forecast, a) => gate.pending = 0 /\ gate.epoch < MaxEpoch

\* Mutant: a replacement does not wait for the receipts' reviews.
FollowsUnreviewed(a) ==
  /\ gate.phase \in {IDLE, TAKING}
  /\ NewProposal(forecast, a) => gate.epoch < MaxEpoch

\* The gate is open, and an adjudicated replacement (mode 1) finds every
\* receipt of the epoch reviewed.
Follows(a) ==
  /\ gate.phase \in {IDLE, TAKING}
  /\ NewProposal(forecast, a) => gate.pending = 0 /\ gate.epoch < MaxEpoch

\* Tag 7, modes 0 and 1.
AdvanceGated(a) ==
  /\ forecast # Zero /\ gate # Zero
  /\ Matched
  /\ NotFinalizing(a)
  /\ Follows(a)
  /\ Accepts(forecast, a, FALSE)
  /\ forecast' = Advanced(forecast, a)
  /\ gate' = FollowedGate(a, Advanced(forecast, a))
  /\ Exposure(a)
  /\ UNCHANGED <<now, receipts>>

\* Tag 7, mode 2: an accepted receipt reopens the review of an escalated
\* forecast.
ImportReceipt(a, u) ==
  /\ forecast # Zero /\ gate # Zero
  /\ Matched
  /\ gate.phase = TAKING
  /\ forecast.state = ESCALATED /\ a.state = DISPUTED
  /\ Receipt(u) # Zero /\ Receipt(u).status = "accepted"
  /\ gate.pending > 0
  /\ Accepts(forecast, a, TRUE)
  /\ forecast' = Advanced(forecast, a)
  /\ gate' = FollowedGate(a, Advanced(forecast, a))
  /\ Exposure(a)
  /\ UNCHANGED <<now, receipts>>

\* Tag 7 after finalization: only the archive event.
Archive(a) ==
  /\ forecast # Zero /\ gate # Zero
  /\ Matched
  /\ gate.phase = CLOSED
  /\ forecast.state = FINALIZED /\ a.state = ARCHIVED
  /\ Accepts(forecast, a, FALSE)
  /\ forecast' = Advanced(forecast, a)
  /\ UNCHANGED <<now, gate, receipts, exposed>>

\* Tag 8: a user opens a receipt in the current epoch.
OpenReceipt(u) ==
  /\ forecast # Zero /\ gate # Zero
  /\ Matched
  /\ gate.phase = TAKING
  /\ Receipt(u) = Zero
  /\ receipts' = [receipts EXCEPT ![<<gate.epoch, u>>] = Draft]
  /\ UNCHANGED <<now, forecast, gate, exposed>>

\* Tag 9: the next chunk of the body.  The gate is not consulted, so a draft
\* of any epoch may grow.
AppendChunk(e, u) ==
  /\ receipts[<<e, u>>] # Zero
  /\ receipts[<<e, u>>].status = "draft"
  /\ receipts[<<e, u>>].body < BodyLength
  /\ receipts' = [receipts EXCEPT ![<<e, u>>].body = @ + 1]
  /\ UNCHANGED <<now, forecast, gate, exposed>>

\* Tag 10: submit a complete receipt while the gate takes disputes.
Submit(u) ==
  /\ forecast # Zero /\ gate # Zero
  /\ Matched
  /\ gate.phase = TAKING
  /\ Effective(forecast) \in CHALLENGE..ESCALATED
  /\ gate.opened <= now /\ now <= EffectiveDeadline(gate, forecast)
  /\ Receipt(u) # Zero
  /\ Receipt(u).status = "draft" /\ Receipt(u).body = BodyLength
  /\ receipts' = [receipts EXCEPT ![<<gate.epoch, u>>] =
       [@ EXCEPT !.status = "accepted", !.acceptedAt = now,
                 !.deadline = EffectiveDeadline(gate, forecast)]]
  /\ gate' = [gate EXCEPT !.pending = @ + 1, !.accepted = @ + 1]
  /\ UNCHANGED <<now, forecast, exposed>>

\* A reviewed receipt leaves the pending count; a material one is counted.
Reviewed(disposition) ==
  [gate EXCEPT !.pending = @ - 1,
               !.material = IF disposition = "material" THEN @ + 1 ELSE @]

\* Tag 11: the reviewer rejects an accepted receipt or finds it material.
Review(u, disposition) ==
  /\ forecast # Zero /\ gate # Zero
  /\ Matched
  /\ gate.phase = TAKING /\ gate.pending > 0
  /\ Receipt(u) # Zero /\ Receipt(u).status = "accepted"
  /\ receipts' = [receipts EXCEPT ![<<gate.epoch, u>>].status = disposition]
  /\ gate' = Reviewed(disposition)
  /\ UNCHANGED <<now, forecast, exposed>>

\* Mutant: pending receipts do not keep the gate open.
SealReadyPending ==
  /\ gate.phase = TAKING /\ gate.material = 0
  /\ forecast.state = CHALLENGE /\ now > gate.deadline

SealReady ==
  /\ gate.phase = TAKING /\ gate.pending = 0 /\ gate.material = 0
  /\ forecast.state = CHALLENGE /\ now > gate.deadline

\* Tag 12: after the deadline, close intake over one finalizing payload.
Seal(a) ==
  /\ forecast # Zero /\ gate # Zero
  /\ Matched
  /\ SealReady
  /\ a.state = FINALIZED
  /\ Accepts(forecast, a, FALSE)
  /\ gate' = [gate EXCEPT !.phase = SEALED, !.sealedAt = now,
                          !.sealed = [payload |-> a, over |-> forecast]]
  /\ UNCHANGED <<now, forecast, receipts, exposed>>

\* The sealed payload is still one the account accepts: it follows the event
\* the account is at, and passes advance.
SealHolds ==
  /\ forecast = gate.sealed.over
  /\ Accepts(forecast, gate.sealed.payload, FALSE)

\* Tag 13: apply the sealed payload and no other.
Finalize ==
  /\ forecast # Zero /\ gate # Zero
  /\ Matched
  /\ gate.phase = SEALED
  /\ now > gate.deadline
  /\ SealHolds
  /\ forecast' = Advanced(forecast, gate.sealed.payload)
  /\ gate' = [gate EXCEPT !.phase = CLOSED]
  /\ UNCHANGED <<now, receipts, exposed>>

\* The payloads the relayer may send, within the bounds: a state the program
\* may move to and fields that it does not refuse whatever the account holds.
Payloads(f) ==
  UNION {[state : {st},
          at : Max2(f.at, now - MaxLag)..now,
          resolution : (IF st = PROPOSED THEN Resolutions ELSE {})
                       \cup {f.resolution},
          disputes : Commitments \cup {f.disputes},
          reputation : {st >= FINALIZED},
          trigger : {f.trigger, f.trigger \/ st = LOCKED},
          until : Untils \cup {0, f.until},
          pending : 0..MaxDisputes, material : 0..MaxDisputes] :
         st \in Successors(f, TRUE)}

Relay ==
  /\ forecast # Zero
  /\ \E a \in Payloads(forecast) :
       \/ AdvanceUngated(a)
       \/ AdvanceGated(a)
       \/ \E u \in Users : ImportReceipt(a, u)
       \/ Archive(a)
       \/ Seal(a)

Intake ==
  \/ \E u \in Users :
       \/ OpenReceipt(u)
       \/ Submit(u)
       \/ \E e \in Epochs : AppendChunk(e, u)
       \/ \E d \in {"rejected", "material"} : Review(u, d)

Next ==
  \/ Tick
  \/ \E at \in Times : Register(at)
  \/ CreateGate
  \/ Relay
  \/ Intake
  \/ Finalize

Spec == Init /\ [][Next]_vars

-----------------------------------------------------------------------------
(***************************************************************************)
(* Properties                                                              *)
(***************************************************************************)
\* Every account holds a record of its declared layout.
TypeOK ==
  /\ now \in Times
  /\ exposed \in Nat
  /\ forecast \in Forecasts \cup {Zero}
  /\ gate \in Gates \cup {Zero}
  /\ receipts \in [Epochs \X Users -> ReceiptType \cup {Zero}]

Gated == forecast # Zero /\ gate # Zero
InEpoch(status) ==
  {u \in Users : /\ gate.epoch \in Epochs
                 /\ Receipt(u) # Zero /\ Receipt(u).status = status}

\* The gate never loses its forecast: whatever the relayer sends, the check
\* every instruction makes on loading the gate (Gate::same) succeeds.
GateStaysMatched == Gated => Matched

\* The gate's counters are exactly the receipts of its epoch.
CountsMatchReceipts ==
  Gated =>
    /\ gate.pending = Cardinality(InEpoch("accepted"))
    /\ gate.material = Cardinality(InEpoch("material"))
    /\ gate.accepted = Cardinality(InEpoch("accepted"))
                       + Cardinality(InEpoch("material"))
                       + Cardinality(InEpoch("rejected"))

\* No forecast is finalized over a dispute that was accepted on chain against
\* the very proposal being finalized, unless the reviewer rejected it.
NoDisputeOverridden ==
  Gated /\ forecast.state >= FINALIZED =>
    InEpoch("accepted") = {} /\ InEpoch("material") = {}

\* A finalized proposal stood open to challenge for 48 hours of chain time not
\* spent paused, whatever times the relayer's payloads claimed.
WindowElapsed ==
  forecast # Zero /\ forecast.state >= FINALIZED => exposed >= MinChallenge

\* A forecast is finalized only through its gate.
FinalizedThroughGate ==
  forecast # Zero /\ forecast.state >= FINALIZED =>
    gate # Zero /\ gate.phase = CLOSED

\* Intake covers the whole time the account must wait: the gate never closes
\* before the earliest moment of finalization, pauses included.
GateCoversWindow ==
  Gated /\ gate.phase # IDLE =>
    gate.deadline >= forecast.notBefore /\ gate.deadline >= forecast.until

\* Sealing and submitting never overlap: every receipt of a sealed epoch was
\* accepted, by its own recorded deadline, before the seal.
SealAfterIntake ==
  Gated /\ gate.phase \in {SEALED, CLOSED} =>
    \A s \in {"accepted", "material", "rejected"} : \A u \in InEpoch(s) :
      /\ Receipt(u).acceptedAt <= Receipt(u).deadline
      /\ Receipt(u).deadline < gate.sealedAt

\* The whole window of 48 hours is granted on chain whatever the relay does,
\* and the gate, which always matches its forecast, takes disputes for all of
\* it (Gate::same, Gate::effective_deadline and the checks of advance_intake).
FullChainWindow == WindowElapsed /\ GateStaysMatched /\ GateCoversWindow

\* A seal counts every receipt the epoch admitted, and no accepted dispute is
\* overridden: finality goes through the gate (tags 10 to 13).
SealsRespectReviews ==
  /\ TypeOK /\ SealAfterIntake /\ NoDisputeOverridden
  /\ CountsMatchReceipts /\ FinalizedThroughGate

\* A seal cannot be undone: nothing that may happen after it makes the program
\* refuse the sealed payload.
SealedStaysFinalizable ==
  Gated /\ gate.phase = SEALED => SealHolds /\ now > gate.deadline

\* Within an epoch the time to dispute never gets shorter.
DeadlineKept ==
  Gated /\ gate.phase = TAKING /\ gate'.epoch = gate.epoch =>
    EffectiveDeadline(gate, forecast) <= EffectiveDeadline(gate, forecast)'

\* With a gate, a proposal is replaced only when every receipt accepted against
\* it has been reviewed.
ReplacementReviewed ==
  Gated /\ forecast.resolution # Zero /\ forecast'.resolution # forecast.resolution =>
    InEpoch("accepted") = {} /\ gate'.epoch = gate.epoch + 1

\* A proposal is replaced only after its disputes were reviewed, and until then
\* the time to dispute it never gets shorter (tag 7, modes 0 to 2).
ReplacedOnlyReviewed == [][ReplacementReviewed /\ DeadlineKept]_vars
=============================================================================
