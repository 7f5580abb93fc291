-------------------------------- MODULE Intake --------------------------------
(***************************************************************************)
(* The mirror of one forecast's dispute intake: finalized chain state is   *)
(* read account by account and written, under the generation of a binding, *)
(* to tables that the local finalization is admitted against               *)
(* (apps/web-rs/src/dispute_intake.rs, with the accounts of                *)
(* dispute_wire.rs and the tables of 0025_independent_intake.sql).         *)
(*                                                                         *)
(* The chain is what Registry models, cut down to what the mirror compares *)
(* and kept for every slot, since a read may be answered as of any slot    *)
(* that is recent enough.  Deadlines only grow there (DeadlineNeverShrinks)*)
(* and are left out; addresses, commitments and bodies are identities.     *)
(***************************************************************************)
EXTENDS Integers, Sequences, FiniteSets

CONSTANTS
  Requesters,     \* requests to the mirror that may overlap
  Users,          \* wallets that file receipts
  Candidates,     \* snapshots a final event may carry
  MaxEpoch, MaxSlot, MaxRevisions, MaxGeneration,   \* bounds
  Missing

IntakeAssumption ==
  /\ {MaxEpoch, MaxSlot, MaxRevisions, MaxGeneration} \subseteq Nat \ {0}
  /\ Missing \notin Int /\ Missing \notin Nat \X Candidates /\ IsFiniteSet(Users)

Epochs == 1..MaxEpoch
Addresses == Epochs \X Users
Generations == 1..MaxGeneration

VARIABLES
  recorded,       \* the local record by revision: [state, proposal]
  final,          \* the candidate the record became final with, or Missing
  onchain,        \* by slot: [gate, forecast, receipts]
  binding,        \* intake_bindings.generation, 0 when there is none
  head,           \* intake_heads: [generation, slot, gate], or Missing
  mirrored,       \* intake_receipts and their heads: [slot, status], or Missing
  seals,          \* intake_seals: [Epochs -> [candidate, gate], or Missing]
  admissions,     \* intake_seal_admissions: context_slot, or 0
  request,        \* [Requesters -> a request]
  alarms          \* history: verdicts that the chain contradicts itself

mirror == <<binding, head, mirrored, seals, admissions>>
intakevars == <<recorded, final, onchain, mirror, request, alarms>>

-----------------------------------------------------------------------------
(***************************************************************************)
(* The chain, as dispute_wire describes its accounts                       *)
(***************************************************************************)
\* Accumulator.phase and Receipt.status.
DORMANT == 0
TAKING == 1
SEALED == 2
DRAFT == 0
PENDING == 1
DISMISSED == 2
MATERIAL == 3

\* Accumulator::invariants.
GateInvariants(g) ==
  /\ g.revision > 0 /\ g.pending + g.material <= g.accepted
  /\ IF g.phase = DORMANT
     THEN g.epoch = 0 /\ g.proposal = 0 /\ g.accepted = 0
     ELSE g.epoch > 0 /\ g.proposal > 0
  /\ IF g.phase < SEALED
     THEN g.sealed = Missing
     ELSE g.pending = 0 /\ g.material = 0 /\ g.sealed # Missing /\ g.sealed[1] > g.proposal

Now == onchain[Len(onchain)]

\* The chain moves on by one slot.
Moves(gate, forecast, receipts) ==
  /\ Len(onchain) < MaxSlot
  /\ onchain' = Append(onchain, [gate |-> gate, forecast |-> forecast, receipts |-> receipts])
  /\ UNCHANGED <<recorded, final, mirror, request, alarms>>

Dormant == [epoch |-> 0, revision |-> 1, proposal |-> 0, accepted |-> 0, pending |-> 0,
            material |-> 0, phase |-> DORMANT, sealed |-> Missing]

Bumped(gate) == [gate EXCEPT !.revision = @ + 1]

\* The account takes the next revision of the record.  A proposal opens an
\* epoch once the receipts of the last are reviewed; any other event may move
\* the deadline of an open one.
AdvanceGate ==
  LET g == Now.gate  next == Now.forecast + 1 IN
  /\ next <= Len(recorded) /\ g.phase < SEALED
  /\ IF recorded[next].proposal # recorded[Now.forecast].proposal
     THEN /\ g.pending = 0 /\ g.epoch < MaxEpoch
          /\ Moves([Dormant EXCEPT !.epoch = g.epoch + 1, !.revision = g.revision + 1,
                                   !.proposal = next, !.phase = TAKING],
                   next, Now.receipts)
     ELSE \E gate \in {g, Bumped(g)} : Moves(gate, next, Now.receipts)

\* Receipt::accepted, from a draft of the current epoch.
Submit(u) ==
  LET g == Now.gate IN
  /\ g.phase = TAKING /\ Now.receipts[<<g.epoch, u>>] = DRAFT
  /\ Moves([Bumped(g) EXCEPT !.pending = @ + 1, !.accepted = @ + 1], Now.forecast,
           [Now.receipts EXCEPT ![<<g.epoch, u>>] = PENDING])

Recounted(g, disposition) ==
  [Bumped(g) EXCEPT !.pending = @ - 1, !.material = IF disposition = MATERIAL THEN @ + 1 ELSE @]

\* Receipt::reviewed, with the disposition of encode_review.
ReviewReceipt(u, disposition) ==
  LET g == Now.gate IN
  /\ g.phase = TAKING /\ Now.receipts[<<g.epoch, u>>] = PENDING
  /\ disposition \in {DISMISSED, MATERIAL}
  /\ Moves(Recounted(g, disposition), Now.forecast, [Now.receipts EXCEPT ![<<g.epoch, u>>] = disposition])

\* Accumulator::sealed: a candidate is a final event of the next revision.
Seal(c) ==
  LET g == Now.gate IN
  /\ g.phase = TAKING /\ g.pending = 0 /\ g.material = 0
  /\ recorded[Now.forecast].state = "CHALLENGE"
  /\ Moves([Bumped(g) EXCEPT !.phase = SEALED, !.sealed = <<Now.forecast + 1, c>>],
           Now.forecast, Now.receipts)

-----------------------------------------------------------------------------
(***************************************************************************)
(* The local record                                                        *)
(***************************************************************************)
NoRequest == [pc |-> "idle"]

IntakeInit ==
  /\ recorded \in {<<[state |-> "CHALLENGE", proposal |-> 1]>>, <<[state |-> "OTHER", proposal |-> 0]>>}
  /\ final = Missing
  /\ onchain = <<[gate |-> IF recorded[1].proposal = 0 THEN Dormant
                         ELSE [Dormant EXCEPT !.epoch = 1, !.proposal = 1, !.phase = TAKING],
                forecast |-> 1, receipts |-> [a \in Addresses |-> DRAFT]]>>
  /\ binding = 0 /\ head = Missing
  /\ mirrored = [a \in Addresses |-> Missing]
  /\ seals = [e \in Epochs |-> Missing]
  /\ admissions = [x \in Epochs \X Generations |-> 0]
  /\ request = [w \in Requesters |-> NoRequest] /\ alarms = {}

\* Any command but finalize: the proposal stands, or is replaced.
CommitLocally ==
  /\ final = Missing /\ Len(recorded) < MaxRevisions
  /\ LET last == recorded[Len(recorded)] IN
     \E entry \in {[state |-> "CHALLENGE", proposal |-> last.proposal],
                   [state |-> "OTHER", proposal |-> last.proposal],
                   [state |-> "OTHER", proposal |-> last.proposal + 1]} :
       /\ entry.state = "CHALLENGE" => entry.proposal > 0
       /\ recorded' = Append(recorded, entry)
  /\ UNCHANGED <<final, onchain, mirror, request, alarms>>

Unsettled(epoch) ==
  \E a \in Addresses : mirrored[a] # Missing /\
    mirrored[a].status \in IF a[1] = epoch THEN {PENDING, MATERIAL} ELSE {PENDING}

\* admission_guard_sql: the candidate was sealed, as mirrored under the
\* binding's generation, and follows the record as it is now.
Admits(candidate, epoch) ==
  /\ head # Missing /\ head.generation = binding /\ head.gate.epoch = epoch
  /\ head.gate.phase = SEALED /\ head.gate.pending = 0 /\ head.gate.material = 0
  /\ seals[epoch] # Missing /\ seals[epoch].candidate = candidate /\ head.gate = seals[epoch].gate
  /\ admissions[<<epoch, binding>>] \in 1..head.slot
  /\ candidate[1] = Len(recorded) + 1
  /\ ~Unsettled(epoch)

\* The commit the guard is inserted into.
FinalizeLocally(c, epoch) ==
  /\ final = Missing /\ recorded[Len(recorded)].state = "CHALLENGE"
  /\ Admits(<<Len(recorded) + 1, c>>, epoch)
  /\ final' = <<Len(recorded) + 1, c>>
  /\ UNCHANGED <<recorded, onchain, mirror, request, alarms>>

-----------------------------------------------------------------------------
(***************************************************************************)
(* Requests to the mirror                                                  *)
(***************************************************************************)
\* activate, refresh, import_receipt or verify_and_store_seal begins: the
\* binding is checked, and the head gives the least slot to read at.  The
\* caller names a receipt or a candidate.
Begin(w) ==
  /\ request[w].pc = "idle"
  /\ \E op \in {"refresh"} \cup (IF binding = 0 THEN {} ELSE {"import", "seal"}),
        address \in Addresses, c \in Candidates :
       request' = [request EXCEPT ![w] =
         [pc |-> "reading", op |-> op, generation |-> IF binding = 0 THEN 1 ELSE binding,
          activates |-> binding = 0,
          minimum |-> IF head = Missing THEN 1 ELSE head.slot,
          address |-> IF op = "import" THEN address ELSE Missing,
          candidate |-> IF op = "seal" THEN <<Len(recorded) + 1, c>> ELSE Missing]]
  /\ UNCHANGED <<recorded, final, onchain, mirror, alarms>>

\* Mutant: the gate is not read a second time.
ReadOnce(first, last) == TRUE

\* The gate read before the other accounts is the one read after them.
SameGate(first, last) == onchain[first].gate = onchain[last].gate

\* observe's checks on what it read.
ProposalBound(gate, forecast) ==
  gate.phase = DORMANT \/ (recorded[forecast].proposal = recorded[gate.proposal].proposal /\ gate.proposal <= forecast)

\* import_receipt's checks on a receipt that was submitted.
CounterBound(me, gate, status) ==
  IF me.address[1] = gate.epoch
  THEN /\ gate.accepted > 0
       /\ status = PENDING => gate.pending > 0
       /\ status = MATERIAL => gate.material > 0
  ELSE status \in {DISMISSED, MATERIAL}

\* verify_and_store_seal's checks, encode_finalize among them.
SealBound(me, gate, forecast) ==
  /\ gate.phase = SEALED /\ gate.sealed = me.candidate
  /\ recorded[forecast].state = "CHALLENGE" /\ me.candidate[1] = forecast + 1

\* observe reads gate, receipt, forecast and gate again, each at a slot no
\* older than the last; a gate that changed is read once more and then given
\* up.  What is found consistent is to be written.
ObserveChain(w) ==
  LET me == request[w] IN
  /\ me.pc = "reading"
  /\ \E a, b, c, d \in me.minimum..Len(onchain) :
       /\ a <= b /\ b <= c /\ c <= d
       /\ LET gate == onchain[d].gate
              forecast == onchain[c].forecast
              status == IF me.op = "import" THEN onchain[b].receipts[me.address] ELSE DRAFT
              alarm == IF ~ProposalBound(gate, forecast) THEN {"intake_proposal_binding"}
                       ELSE IF me.op # "import" \/ status = DRAFT THEN {}
                       ELSE IF me.address[1] > gate.epoch THEN {"intake_future_epoch"}
                       ELSE IF ~CounterBound(me, gate, status) THEN {"intake_receipt_counter_binding"}
                       ELSE {}
              refused == \/ me.op = "import" /\ status = DRAFT
                         \/ me.op = "seal" /\ ~SealBound(me, gate, forecast)
          IN IF ~SameGate(a, d)
             THEN request' = [request EXCEPT ![w] = NoRequest] /\ UNCHANGED alarms
             ELSE /\ alarms' = alarms \cup alarm
                  /\ request' = [request EXCEPT ![w] =
                       IF alarm # {} \/ refused THEN NoRequest
                       ELSE [pc |-> "writing", op |-> me.op, generation |-> me.generation,
                             activates |-> me.activates, address |-> me.address,
                             candidate |-> me.candidate, gate |-> gate, slot |-> d,
                             status |-> status, seen |-> b]]
  /\ UNCHANGED <<recorded, final, onchain, mirror>>

\* The upsert of intake_heads, which the guard after it requires to apply.
HeadAdvances(me) ==
  \/ head = Missing
  \/ LET new == me.gate  old == head.gate IN
     /\ me.generation >= head.generation /\ new.revision >= old.revision
     /\ me.slot >= head.slot
     /\ \/ new.epoch = old.epoch /\ new.phase >= old.phase /\ new.accepted >= old.accepted
        \/ new.epoch > old.epoch /\ old.phase < SEALED /\ new.phase >= TAKING
     /\ new.revision # old.revision \/ new = old

\* The upsert of intake_receipt_heads, and the guard after it.
ReceiptAdvances(me) ==
  \/ mirrored[me.address] = Missing
  \/ LET old == mirrored[me.address] IN
     /\ me.seen >= old.slot
     /\ me.status = old.status \/ (old.status = PENDING /\ me.status \in {DISMISSED, MATERIAL})

\* immutable("intake_seals") and the guard on what is mirrored.
SealStores(me) ==
  /\ \/ seals[me.gate.epoch] = Missing
     \/ seals[me.gate.epoch] = [candidate |-> me.candidate, gate |-> me.gate]
  /\ ~Unsettled(me.gate.epoch)

\* The batch: all of it under the generation, or nothing.
Fenced(me) == binding = me.generation \/ (me.activates /\ binding = 0)

Max2(a, b) == IF a >= b THEN a ELSE b

Write(w) ==
  LET me == request[w]
      applies == /\ Fenced(me) /\ HeadAdvances(me)
                 /\ me.op = "import" => ReceiptAdvances(me)
                 /\ me.op = "seal" => SealStores(me)
  IN
  /\ me.pc = "writing"
  /\ request' = [request EXCEPT ![w] = NoRequest]
  /\ IF ~applies THEN UNCHANGED mirror
     ELSE /\ binding' = IF binding = 0 THEN me.generation ELSE binding
          /\ head' = [generation |-> me.generation, slot |-> me.slot, gate |-> me.gate]
          /\ mirrored' = IF me.op = "import"
               THEN [mirrored EXCEPT ![me.address] = [slot |-> me.seen, status |-> me.status]]
               ELSE mirrored
          /\ seals' = IF me.op = "seal"
               THEN [seals EXCEPT ![me.gate.epoch] = [candidate |-> me.candidate, gate |-> me.gate]]
               ELSE seals
          /\ admissions' = IF me.op = "seal"
               THEN [admissions EXCEPT ![<<me.gate.epoch, me.generation>>] = Max2(@, me.slot)]
               ELSE admissions
  /\ UNCHANGED <<recorded, final, onchain, alarms>>

\* A read or the batch fails, or the same gate was filed at the same slot with
\* another reading of the forecast (intake_epoch_observations is immutable).
Fails(w) ==
  /\ request[w].pc # "idle"
  /\ request' = [request EXCEPT ![w] = NoRequest]
  /\ UNCHANGED <<recorded, final, onchain, mirror, alarms>>

\* advance_generation.
AdvanceGeneration ==
  /\ binding \in 1..(MaxGeneration - 1)
  /\ binding' = binding + 1
  /\ UNCHANGED <<recorded, final, onchain, head, mirrored, seals, admissions, request, alarms>>

IntakeNext ==
  \/ CommitLocally \/ AdvanceGate \/ AdvanceGeneration
  \/ \E u \in Users : Submit(u) \/ \E d \in {DISMISSED, MATERIAL} : ReviewReceipt(u, d)
  \/ \E c \in Candidates : Seal(c) \/ \E e \in Epochs : FinalizeLocally(c, e)
  \/ \E w \in Requesters : Begin(w) \/ ObserveChain(w) \/ Write(w) \/ Fails(w)

IntakeSpec == IntakeInit /\ [][IntakeNext]_intakevars

-----------------------------------------------------------------------------
(***************************************************************************)
(* Properties                                                              *)
(***************************************************************************)
\* The mirror holds the past of the chain: its head and each receipt are what
\* the chain had at the slot they are filed under, every gate that is filed
\* satisfies the accounts' own invariants, and a head never runs ahead of
\* its binding.
FiledFromChain ==
  /\ head # Missing => head.gate = onchain[head.slot].gate /\ head.generation <= binding
  /\ \A s \in 1..Len(onchain) : GateInvariants(onchain[s].gate)
  /\ \A a \in Addresses : mirrored[a] # Missing =>
       mirrored[a].status = onchain[mirrored[a].slot].receipts[a]

\* An honest chain is never found to contradict itself, although its accounts
\* are read one by one while it moves (the gate read on both sides).
NoFalseAlarm == alarms = {}

\* The record becomes final only with the very event the chain sealed, while
\* no receipt is left unreviewed there and none of the epoch is material.
FinalAsSealed ==
  final # Missing =>
    /\ Now.gate.sealed = final
    /\ \A a \in Addresses : Now.receipts[a] # PENDING /\
         (a[1] = Now.gate.epoch => Now.receipts[a] # MATERIAL)

\* What is filed never goes back in time: a late answer of a slow request
\* does not undo what a later one wrote.
NoStepBack ==
  /\ head # Missing => head'.slot >= head.slot /\ head'.gate.revision >= head.gate.revision
  /\ \A a \in Addresses : mirrored[a] # Missing /\ mirrored[a].status # PENDING =>
       mirrored'[a].status = mirrored[a].status
NeverBackwards == [][NoStepBack]_intakevars

\* The mirror holds the past of the chain and never goes back in it, the record
\* becomes final only as the chain sealed it, and an honest chain is never found
\* to contradict itself.
MirrorsThePast == [](FiledFromChain /\ FinalAsSealed /\ NoFalseAlarm) /\ NeverBackwards
=============================================================================
