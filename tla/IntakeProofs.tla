----------------------------- MODULE IntakeProofs -----------------------------
(***************************************************************************)
(* The mirror of the dispute intake, for any number of overlapping         *)
(* requests, wallets, candidates, epochs, slots and generations: it holds  *)
(* the past of the chain and never goes back, an honest chain is never     *)
(* found to contradict itself, and the record becomes final only with what *)
(* the chain sealed.                                                       *)
(*                                                                         *)
(* Accounts are read one by one while the chain moves.  What makes the     *)
(* readings fit is that every change of a gate is a revision of it         *)
(* (Chained): a gate that reads the same twice has stood in between, so    *)
(* that what was read in between is what it counts (Counted) and of the    *)
(* proposal it names (OfProposal).                                         *)
(***************************************************************************)
EXTENDS Intake, FiniteSetTheorems, TLAPS

Gates ==
  [epoch : 0..MaxEpoch, revision : Nat, proposal : Nat, accepted : Nat, pending : Nat,
   material : Nat, phase : {DORMANT, TAKING, SEALED}, sealed : {Missing} \cup (Nat \X Candidates)]
Entries == [state : {"CHALLENGE", "OTHER"}, proposal : Nat]
Slots ==
  [gate : Gates, forecast : Nat, receipts : [Addresses -> {DRAFT, PENDING, DISMISSED, MATERIAL}]]

\* Who has a receipt of the slot's epoch with a status, or one beyond a draft.
With(x, status) == {u \in Users : x.receipts[<<x.gate.epoch, u>>] = status}
Filed(x) == {u \in Users : x.receipts[<<x.gate.epoch, u>>] # DRAFT}

\* A gate counts the receipts of its epoch; those of earlier epochs are
\* reviewed, and there are none of later ones.
Counted(x) ==
  /\ x.gate.phase # DORMANT =>
       /\ x.gate.pending = Cardinality(With(x, PENDING))
       /\ x.gate.material = Cardinality(With(x, MATERIAL))
       /\ x.gate.accepted = Cardinality(Filed(x))
  /\ \A a \in Addresses :
       /\ a[1] < x.gate.epoch => x.receipts[a] # PENDING
       /\ a[1] > x.gate.epoch => x.receipts[a] = DRAFT

\* A gate that has opened is of a proposal the forecast still has.
OfProposal(x) ==
  /\ x.forecast \in 1..Len(recorded)
  /\ x.gate.phase # DORMANT =>
       /\ x.gate.proposal \in 1..x.forecast
       /\ recorded[x.forecast].proposal = recorded[x.gate.proposal].proposal

SlotOK(x) == x \in Slots /\ GateInvariants(x.gate) /\ Counted(x) /\ OfProposal(x)

\* Every change of a gate is a revision of it, and a sealed one is the last.
Chained ==
  \A s, t \in 1..Len(onchain) : s <= t =>
    /\ onchain[s].gate.revision <= onchain[t].gate.revision
    /\ onchain[s].gate.revision = onchain[t].gate.revision => onchain[s].gate = onchain[t].gate
    /\ onchain[s].gate.phase = SEALED => s = t

History ==
  /\ recorded \in Seq(Entries) /\ Len(recorded) >= 1
  /\ onchain \in Seq(Slots) /\ Len(onchain) >= 1
  /\ \A s \in 1..Len(onchain) : SlotOK(onchain[s])
  /\ Chained

\* A request reads from a slot there is, and writes what it read.
Faithful(p) ==
  /\ p.pc \in {"idle", "reading", "writing"}
  /\ p.pc # "idle" =>
       /\ p.generation \in Nat
       /\ p.op = "import" => p.address \in Addresses
  /\ p.pc = "reading" => p.minimum \in 1..Len(onchain)
  /\ p.pc = "writing" =>
       /\ p.slot \in 1..Len(onchain) /\ p.gate = onchain[p.slot].gate
       /\ p.op = "import" => p.seen \in 1..Len(onchain) /\ p.status = onchain[p.seen].receipts[p.address]
       /\ p.op = "seal" => p.gate.sealed = p.candidate

\* What is filed is what the chain had.
Filings ==
  /\ binding \in Nat
  /\ head # Missing =>
       /\ head.slot \in 1..Len(onchain) /\ head.gate = onchain[head.slot].gate
       /\ head.generation \in Nat /\ head.generation <= binding
  /\ mirrored = [a \in Addresses |-> mirrored[a]]
  /\ \A a \in Addresses : mirrored[a] # Missing =>
       /\ mirrored[a].slot \in 1..Len(onchain)
       /\ mirrored[a].status = onchain[mirrored[a].slot].receipts[a]
  /\ seals = [e \in Epochs |-> seals[e]]
  /\ \A e \in Epochs : seals[e] # Missing => seals[e].gate.sealed = seals[e].candidate

IntakeInv ==
  /\ History /\ Filings
  /\ request = [w \in Requesters |-> request[w]] /\ \A w \in Requesters : Faithful(request[w])
  /\ final # Missing => Now.gate.phase = SEALED /\ Now.gate.sealed = final
  /\ NoFalseAlarm

-----------------------------------------------------------------------------
(***************************************************************************)
(* The chain                                                               *)
(***************************************************************************)
LEMMA Bounds ==
  ASSUME IntakeAssumption
  PROVE  /\ MaxEpoch \in Nat /\ MaxSlot \in Nat /\ MaxRevisions \in Nat /\ MaxGeneration \in Nat
         /\ MaxEpoch >= 1 /\ MaxGeneration >= 1
BY DEF IntakeAssumption

\* The last slot is one of them.
LEMMA Last ==
  ASSUME History
  PROVE  /\ Len(onchain) \in Nat /\ Len(onchain) >= 1 /\ Len(onchain) \in 1..Len(onchain)
         /\ Now \in Slots /\ SlotOK(Now)
BY DEF History, Now, SlotOK

LEMMA SlotTypes ==
  ASSUME NEW x \in Slots
  PROVE  /\ x.gate \in Gates /\ x.forecast \in Nat
         /\ x.receipts \in [Addresses -> {DRAFT, PENDING, DISMISSED, MATERIAL}]
         /\ x.gate.epoch \in 0..MaxEpoch /\ x.gate.revision \in Nat /\ x.gate.proposal \in Nat
         /\ x.gate.accepted \in Nat /\ x.gate.pending \in Nat /\ x.gate.material \in Nat
         /\ x.gate.phase \in {DORMANT, TAKING, SEALED}
BY DEF Slots, Gates

\* One more slot, of a gate that was not sealed and is revised when it changes.
LEMMA Appended ==
  ASSUME History, NEW x, SlotOK(x), onchain' = Append(onchain, x), recorded' = recorded,
         Now.gate.phase # SEALED,
         Now.gate.revision <= x.gate.revision,
         Now.gate.revision = x.gate.revision => Now.gate = x.gate
  PROVE  /\ History' /\ Len(onchain') = Len(onchain) + 1 /\ onchain'[Len(onchain) + 1] = x
         /\ \A s \in 1..Len(onchain) : onchain'[s] = onchain[s]
<1> DEFINE n == Len(onchain)
<1>1. /\ n \in Nat /\ n >= 1 /\ onchain \in Seq(Slots) /\ x \in Slots
      /\ Now = onchain[n] /\ n \in 1..n
  <2>1. n \in Nat /\ n >= 1 /\ n \in 1..n
    BY Last
  <2>2. onchain \in Seq(Slots)
    BY DEF History
  <2>3. x \in Slots
    BY DEF SlotOK
  <2>4. Now = onchain[n]
    BY DEF Now
  <2> QED BY <2>1, <2>2, <2>3, <2>4
<1>0. n \in Nat /\ n >= 1
  BY <1>1
<1>2. /\ onchain' \in Seq(Slots) /\ Len(onchain') = n + 1 /\ onchain'[n + 1] = x
      /\ \A s \in 1..n : onchain'[s] = onchain[s]
  BY <1>1
<1>3. \A s \in 1..n : onchain[s] \in Slots /\ onchain[s].gate.revision \in Nat
  <2>1. \A s \in 1..n : onchain[s] \in Slots
    BY <1>1
  <2> QED BY <2>1, SlotTypes
<1>4. x.gate.revision \in Nat
  BY <1>1, SlotTypes
<1> HIDE DEF n
<1>5. \A s \in 1..n + 1 : SlotOK(onchain'[s])
  <2> SUFFICES ASSUME NEW s \in 1..n + 1 PROVE SlotOK(onchain'[s])
    OBVIOUS
  <2>1. CASE s = n + 1
    BY <1>2, <2>1
  <2>2. CASE s # n + 1
    <3>1. s \in 1..n
      BY <1>1, <2>2
    <3> QED BY <1>2, <3>1 DEF History, n
  <2> QED BY <2>1, <2>2
<1>6. Chained'
  <2> SUFFICES ASSUME NEW s \in 1..n + 1, NEW t \in 1..n + 1, s <= t
               PROVE  /\ onchain'[s].gate.revision <= onchain'[t].gate.revision
                      /\ onchain'[s].gate.revision = onchain'[t].gate.revision => onchain'[s].gate = onchain'[t].gate
                      /\ onchain'[s].gate.phase = SEALED => s = t
    BY <1>2 DEF Chained
  <2>1. \A i, j \in 1..n : i <= j =>
          /\ onchain[i].gate.revision <= onchain[j].gate.revision
          /\ onchain[i].gate.revision = onchain[j].gate.revision => onchain[i].gate = onchain[j].gate
          /\ onchain[i].gate.phase = SEALED => i = j
    BY DEF History, Chained, n
  <2>2. CASE t \in 1..n
    <3>1. s \in 1..n
      BY <1>1, <2>2
    <3> QED BY <1>2, <2>1, <2>2, <3>1
  <2>3. CASE t = n + 1 /\ s = n + 1
    BY <1>2, <1>4, <2>3
  <2>4. CASE t = n + 1 /\ s \in 1..n
    <3>1. /\ onchain[s].gate.revision <= Now.gate.revision
          /\ onchain[s].gate.revision = Now.gate.revision => onchain[s].gate = Now.gate
          /\ onchain[s].gate.phase = SEALED => s = n
      BY <1>1, <2>1, <2>4
    <3>2. onchain[s].gate.phase # SEALED
      BY <1>1, <3>1
    <3> QED BY <1>1, <1>2, <1>3, <1>4, <2>4, <3>1, <3>2
  <2>5. t \in 1..n \/ (t = n + 1 /\ (s = n + 1 \/ s \in 1..n))
    BY <1>0
  <2> QED BY <2>2, <2>3, <2>4, <2>5
<1>7. ASSUME NEW s \in 1..n + 1 PROVE SlotOK(onchain[s])'
  <2> DEFINE y == onchain'[s]
  <2>1. SlotOK(y)
    BY <1>5
  <2>2. y \in Slots /\ GateInvariants(y.gate) /\ Counted(y)
    BY <2>1 DEF SlotOK
  <2>3. OfProposal(y)
    BY <2>1 DEF SlotOK
  <2>4. OfProposal(onchain[s])'
    BY <2>3 DEF OfProposal
  <2>5. (onchain[s] \in Slots /\ GateInvariants(onchain[s].gate) /\ Counted(onchain[s]))'
    BY <2>2
  <2> QED BY <2>4, <2>5 DEF SlotOK
<1>8. History'
  <2>1. onchain' \in Seq(Slots) /\ Len(onchain') >= 1
    BY <1>0, <1>2
  <2>2. recorded' \in Seq(Entries) /\ Len(recorded') >= 1
    BY DEF History
  <2>3. (\A s \in 1..Len(onchain) : SlotOK(onchain[s]))'
    BY <1>2, <1>7
  <2> QED BY <1>6, <2>1, <2>2, <2>3 DEF History
<1> QED BY <1>2, <1>8 DEF n
\* The filings of the mirror and what requests carry are of slots that stay.
LEMMA ChainMoves ==
  ASSUME IntakeInv, NEW x, SlotOK(x), Now.gate.phase # SEALED,
         Now.gate.revision <= x.gate.revision,
         Now.gate.revision = x.gate.revision => Now.gate = x.gate,
         onchain' = Append(onchain, x), UNCHANGED <<recorded, final, mirror, request, alarms>>
  PROVE  IntakeInv'
<1> DEFINE n == Len(onchain)
<1>1. /\ n \in Nat /\ History' /\ Len(onchain') = n + 1
      /\ \A s \in 1..n : onchain'[s] = onchain[s]
  <2>1. History
    BY DEF IntakeInv
  <2> QED BY <2>1, Last, Appended
<1> HIDE DEF n
<1>2. \A s \in 1..n : s \in 1..(n + 1)
  BY <1>1
<1>3. Filings'
  <2>1. UNCHANGED <<binding, head, mirrored, seals>>
    BY DEF mirror
  <2> QED BY <1>1, <1>2, <2>1 DEF IntakeInv, Filings, n
<1>4. ASSUME NEW w \in Requesters PROVE Faithful(request[w])'
  <2>1. Faithful(request[w])
    BY DEF IntakeInv
  <2> QED BY <1>1, <1>2, <2>1 DEF Faithful, n
<1>5. final' = Missing
  BY DEF IntakeInv
<1> QED BY <1>1, <1>3, <1>4, <1>5 DEF IntakeInv, NoFalseAlarm

-----------------------------------------------------------------------------
(***************************************************************************)
(* Counting receipts                                                       *)
(***************************************************************************)
LEMMA CountsFinite ==
  ASSUME IntakeAssumption, NEW x, NEW status
  PROVE  /\ IsFiniteSet(With(x, status)) /\ IsFiniteSet(Filed(x))
         /\ Cardinality(With(x, status)) \in Nat /\ Cardinality(Filed(x)) \in Nat
<1>1. With(x, status) \subseteq Users /\ Filed(x) \subseteq Users
  BY DEF With, Filed
<1>2. IsFiniteSet(With(x, status)) /\ IsFiniteSet(Filed(x))
  BY <1>1, FS_Subset DEF IntakeAssumption
<1> QED BY <1>2, FS_CardinalityType

\* A receipt that is submitted or reviewed moves from one count to another.
LEMMA Recounts ==
  ASSUME IntakeAssumption, NEW x \in Slots, NEW y, NEW u \in Users, NEW status, NEW e \in Epochs,
         x.gate.epoch = e, y.gate.epoch = e,
         y.receipts = [x.receipts EXCEPT ![<<e, u>>] = status]
  PROVE  /\ \A k : k # status /\ k # x.receipts[<<e, u>>] => With(y, k) = With(x, k)
         /\ status # x.receipts[<<e, u>>] =>
              /\ Cardinality(With(y, status)) = Cardinality(With(x, status)) + 1
              /\ Cardinality(With(y, x.receipts[<<e, u>>])) =
                   Cardinality(With(x, x.receipts[<<e, u>>])) - 1
         /\ status # DRAFT /\ x.receipts[<<e, u>>] = DRAFT =>
              Cardinality(Filed(y)) = Cardinality(Filed(x)) + 1
         /\ status # DRAFT /\ x.receipts[<<e, u>>] # DRAFT => Filed(y) = Filed(x)
<1> DEFINE old == x.receipts[<<e, u>>]
<1>1. /\ \A v \in Users : <<e, v>> \in Addresses
      /\ y.receipts[<<e, u>>] = status
      /\ \A v \in Users : v # u => y.receipts[<<e, v>>] = x.receipts[<<e, v>>]
  <2>1. x.receipts \in [Addresses -> {DRAFT, PENDING, DISMISSED, MATERIAL}]
    BY SlotTypes
  <2> QED BY <2>1 DEF Addresses
<1> HIDE DEF old
<1>2. old = x.receipts[<<e, u>>]
  BY DEF old
<1>3. ASSUME NEW k, k # status, k # old PROVE With(y, k) = With(x, k)
  BY <1>1, <1>2, <1>3 DEF With
<1>4. ASSUME status # old
      PROVE  /\ Cardinality(With(y, status)) = Cardinality(With(x, status)) + 1
             /\ Cardinality(With(y, old)) = Cardinality(With(x, old)) - 1
  <2>1. With(y, status) = With(x, status) \cup {u} /\ u \notin With(x, status)
    BY <1>1, <1>2, <1>4 DEF With
  <2>2. With(y, old) = With(x, old) \ {u} /\ u \in With(x, old)
    BY <1>1, <1>2, <1>4 DEF With
  <2>3. IsFiniteSet(With(x, status)) /\ IsFiniteSet(With(x, old))
    BY CountsFinite
  <2>4. Cardinality(With(y, status)) = Cardinality(With(x, status)) + 1
    BY <2>1, <2>3, FS_AddElement
  <2>5. Cardinality(With(y, old)) = Cardinality(With(x, old)) - 1
    BY <2>2, <2>3, FS_RemoveElement
  <2> QED BY <2>4, <2>5
<1>5. ASSUME status # DRAFT, old = DRAFT PROVE Cardinality(Filed(y)) = Cardinality(Filed(x)) + 1
  <2>1. Filed(y) = Filed(x) \cup {u} /\ u \notin Filed(x)
    BY <1>1, <1>2, <1>5 DEF Filed
  <2> QED BY <2>1, CountsFinite, FS_AddElement
<1>6. ASSUME status # DRAFT, old # DRAFT PROVE Filed(y) = Filed(x)
  BY <1>1, <1>2, <1>6 DEF Filed
<1> QED BY <1>2, <1>3, <1>4, <1>5, <1>6

\* A count of zero is of nobody.
LEMMA NoneCounted ==
  ASSUME IntakeAssumption, NEW x, NEW status, Cardinality(With(x, status)) = 0
  PROVE  \A u \in Users : x.receipts[<<x.gate.epoch, u>>] # status
<1>1. With(x, status) = {}
  BY CountsFinite, FS_EmptySet
<1> QED BY <1>1 DEF With
LEMMA SomeCounted ==
  ASSUME IntakeAssumption, NEW x, NEW u \in Users
  PROVE  /\ Cardinality(With(x, x.receipts[<<x.gate.epoch, u>>])) >= 1
         /\ x.receipts[<<x.gate.epoch, u>>] # DRAFT => Cardinality(Filed(x)) >= 1
<1> DEFINE status == x.receipts[<<x.gate.epoch, u>>]
<1>1. u \in With(x, status) /\ (status # DRAFT => u \in Filed(x))
  BY DEF With, Filed
<1>2. ASSUME NEW S, IsFiniteSet(S), u \in S PROVE Cardinality(S) >= 1
  <2>1. Cardinality(S) \in Nat /\ Cardinality(S) # 0
    BY <1>2, FS_CardinalityType, FS_EmptySet
  <2> QED BY <2>1
<1> QED BY <1>1, <1>2, CountsFinite
-----------------------------------------------------------------------------
(***************************************************************************)
(* The steps of the chain                                                  *)
(***************************************************************************)
\* What the invariant says of the last slot.
LEMMA AtNow ==
  ASSUME IntakeInv
  PROVE  /\ Now \in Slots /\ GateInvariants(Now.gate) /\ Counted(Now) /\ OfProposal(Now)
         /\ History /\ Filings
BY Last DEF IntakeInv, SlotOK

\* A gate that has opened is of an epoch.
LEMMA OfEpoch ==
  ASSUME IntakeAssumption, NEW x \in Slots, GateInvariants(x.gate), x.gate.phase # DORMANT
  PROVE  x.gate.epoch \in Epochs
BY SlotTypes, Bounds DEF GateInvariants, Epochs

LEMMA SubmitStep ==
  ASSUME IntakeAssumption, IntakeInv, NEW u \in Users, Submit(u) PROVE IntakeInv'
<1> DEFINE g == Now.gate
           e == g.epoch
           gate == [Bumped(g) EXCEPT !.pending = @ + 1, !.accepted = @ + 1]
           receipts == [Now.receipts EXCEPT ![<<e, u>>] = PENDING]
           x == [gate |-> gate, forecast |-> Now.forecast, receipts |-> receipts]
<1>1. /\ Now \in Slots /\ GateInvariants(g) /\ Counted(Now) /\ OfProposal(Now)
      /\ g \in Gates /\ g.phase = TAKING /\ Now.receipts[<<e, u>>] = DRAFT
      /\ e \in Epochs /\ <<e, u>> \in Addresses
  BY AtNow, SlotTypes, OfEpoch DEF Submit, TAKING, DORMANT, Addresses
<1>2. /\ gate \in Gates /\ gate.epoch = e /\ gate.revision = g.revision + 1
      /\ gate.proposal = g.proposal /\ gate.accepted = g.accepted + 1
      /\ gate.pending = g.pending + 1 /\ gate.material = g.material
      /\ gate.phase = TAKING /\ gate.sealed = g.sealed
  <2> DEFINE r == g.revision + 1
             p == g.pending + 1
             a == g.accepted + 1
  <2>1. r \in Nat /\ p \in Nat /\ a \in Nat
    BY <1>1 DEF Gates
  <2>2. gate = [g EXCEPT !.revision = r, !.pending = p, !.accepted = a]
    BY <1>1 DEF Bumped, Gates
  <2> HIDE DEF r, p, a, gate
  <2>3. gate \in Gates /\ gate.epoch = e /\ gate.revision = r /\ gate.proposal = g.proposal
        /\ gate.accepted = a /\ gate.pending = p /\ gate.material = g.material
        /\ gate.phase = g.phase /\ gate.sealed = g.sealed
    BY <1>1, <2>1, <2>2 DEF Gates
  <2> QED BY <1>1, <2>3 DEF r, p, a
<1>3. receipts \in [Addresses -> {DRAFT, PENDING, DISMISSED, MATERIAL}]
      /\ receipts[<<e, u>>] = PENDING
      /\ \A b \in Addresses : b # <<e, u>> => receipts[b] = Now.receipts[b]
  BY <1>1, SlotTypes
<1> HIDE DEF gate, receipts
<1>4. x \in Slots /\ x.gate = gate /\ x.forecast = Now.forecast /\ x.receipts = receipts
  BY <1>1, <1>2, <1>3, SlotTypes DEF Slots
<1>5. onchain' = Append(onchain, x) /\ UNCHANGED <<recorded, final, mirror, request, alarms>>
  BY DEF Submit, Moves, gate, receipts
<1> HIDE DEF x
<1>6. GateInvariants(gate)
  BY <1>1, <1>2, SlotTypes DEF GateInvariants, DORMANT, TAKING, SEALED
<1>7. Counted(x)
  <2>1. /\ Cardinality(With(x, PENDING)) = Cardinality(With(Now, PENDING)) + 1
        /\ With(x, MATERIAL) = With(Now, MATERIAL)
        /\ Cardinality(Filed(x)) = Cardinality(Filed(Now)) + 1
    BY <1>1, <1>2, <1>4, Recounts DEF receipts, DRAFT, PENDING, MATERIAL
  <2>2. \A b \in Addresses : /\ b[1] < e => receipts[b] # PENDING
                             /\ b[1] > e => receipts[b] = DRAFT
    <3> SUFFICES ASSUME NEW b \in Addresses, b[1] # e
                 PROVE  receipts[b] = Now.receipts[b] /\ b # <<e, u>>
      BY <1>1, <1>3, SlotTypes DEF Counted, Addresses, Epochs
    <3> QED BY <1>3
  <2> QED BY <1>1, <1>2, <1>4, <2>1, <2>2 DEF Counted, DORMANT, TAKING
<1>8. OfProposal(x)
  BY <1>1, <1>2, <1>4 DEF OfProposal, DORMANT, TAKING
<1>9. g.revision \in Nat /\ g.phase # SEALED
  BY <1>1, SlotTypes DEF TAKING, SEALED
<1> QED BY <1>2, <1>4, <1>5, <1>6, <1>7, <1>8, <1>9, ChainMoves DEF SlotOK

LEMMA ReviewStep ==
  ASSUME IntakeAssumption, IntakeInv, NEW u \in Users, NEW d \in {DISMISSED, MATERIAL}, ReviewReceipt(u, d)
  PROVE  IntakeInv'
<1> DEFINE g == Now.gate
           e == g.epoch
           gate == Recounted(g, d)
           receipts == [Now.receipts EXCEPT ![<<e, u>>] = d]
           x == [gate |-> gate, forecast |-> Now.forecast, receipts |-> receipts]
<1>1. /\ Now \in Slots /\ GateInvariants(g) /\ Counted(Now) /\ OfProposal(Now)
      /\ g \in Gates /\ g.phase = TAKING /\ Now.receipts[<<e, u>>] = PENDING
      /\ e \in Epochs /\ <<e, u>> \in Addresses
  BY AtNow, SlotTypes, OfEpoch DEF ReviewReceipt, TAKING, DORMANT, Addresses
<1>2. g.pending >= 1
  BY <1>1, SomeCounted DEF Counted, TAKING, DORMANT
<1>3. /\ gate \in Gates /\ gate.epoch = e /\ gate.revision = g.revision + 1
      /\ gate.proposal = g.proposal /\ gate.accepted = g.accepted
      /\ gate.pending = g.pending - 1
      /\ gate.material = IF d = MATERIAL THEN g.material + 1 ELSE g.material
      /\ gate.phase = TAKING /\ gate.sealed = g.sealed
  <2> DEFINE r == g.revision + 1
             p == g.pending - 1
             m == IF d = MATERIAL THEN g.material + 1 ELSE g.material
  <2>1. r \in Nat /\ p \in Nat /\ m \in Nat
    BY <1>1, <1>2, SlotTypes
  <2>2. gate = [g EXCEPT !.revision = r, !.pending = p, !.material = m]
    BY <1>1 DEF Recounted, Bumped, Gates
  <2> HIDE DEF r, p, m, gate
  <2>3. gate \in Gates /\ gate.epoch = e /\ gate.revision = r /\ gate.proposal = g.proposal
        /\ gate.accepted = g.accepted /\ gate.pending = p /\ gate.material = m
        /\ gate.phase = g.phase /\ gate.sealed = g.sealed
    BY <1>1, <2>1, <2>2 DEF Gates
  <2> QED BY <1>1, <2>3 DEF r, p, m
<1>4. receipts \in [Addresses -> {DRAFT, PENDING, DISMISSED, MATERIAL}]
      /\ receipts[<<e, u>>] = d
      /\ \A b \in Addresses : b # <<e, u>> => receipts[b] = Now.receipts[b]
  BY <1>1, SlotTypes
<1> HIDE DEF gate, receipts
<1>5. x \in Slots /\ x.gate = gate /\ x.forecast = Now.forecast /\ x.receipts = receipts
  BY <1>1, <1>3, <1>4, SlotTypes DEF Slots
<1>6. onchain' = Append(onchain, x) /\ UNCHANGED <<recorded, final, mirror, request, alarms>>
  BY DEF ReviewReceipt, Moves, gate, receipts
<1> HIDE DEF x
<1>7. GateInvariants(gate)
  BY <1>1, <1>2, <1>3, SlotTypes DEF GateInvariants, DORMANT, TAKING, SEALED
<1>8. Counted(x)
  <2>1. /\ Cardinality(With(x, PENDING)) = Cardinality(With(Now, PENDING)) - 1
        /\ Cardinality(With(x, d)) = Cardinality(With(Now, d)) + 1
        /\ d # MATERIAL => With(x, MATERIAL) = With(Now, MATERIAL)
        /\ Filed(x) = Filed(Now)
    <3>1. x \in Slots /\ x.gate.epoch = e /\ x.receipts = [Now.receipts EXCEPT ![<<e, u>>] = d]
      BY <1>3, <1>5 DEF receipts
    <3>2. /\ \A k : k # d /\ k # PENDING => With(x, k) = With(Now, k)
          /\ d # PENDING =>
               /\ Cardinality(With(x, d)) = Cardinality(With(Now, d)) + 1
               /\ Cardinality(With(x, PENDING)) = Cardinality(With(Now, PENDING)) - 1
          /\ d # DRAFT /\ PENDING # DRAFT => Filed(x) = Filed(Now)
      BY <1>1, <3>1, Recounts
    <3>3. d # PENDING /\ d # DRAFT /\ PENDING # DRAFT /\ PENDING # MATERIAL
      BY <1>1 DEF DRAFT, PENDING, DISMISSED, MATERIAL, ReviewReceipt
    <3> QED BY <3>2, <3>3
  <2>2. \A b \in Addresses : /\ b[1] < e => receipts[b] # PENDING
                             /\ b[1] > e => receipts[b] = DRAFT
    <3> SUFFICES ASSUME NEW b \in Addresses, b[1] # e
                 PROVE  receipts[b] = Now.receipts[b] /\ b # <<e, u>>
      BY <1>1, <1>4, SlotTypes DEF Counted, Addresses, Epochs
    <3> QED BY <1>4
  <2> QED BY <1>1, <1>3, <1>5, <2>1, <2>2 DEF Counted, DORMANT, TAKING
<1>9. OfProposal(x)
  BY <1>1, <1>3, <1>5 DEF OfProposal, DORMANT, TAKING
<1>10. g.revision \in Nat /\ g.phase # SEALED
  BY <1>1, SlotTypes DEF TAKING, SEALED
<1> QED BY <1>3, <1>5, <1>6, <1>7, <1>8, <1>9, <1>10, ChainMoves DEF SlotOK

\* A slot whose receipts and epoch are the last one's: the counts are, too.
LEMMA SameReceipts ==
  ASSUME IntakeInv, NEW x,
         x.receipts = Now.receipts, x.gate.epoch = Now.gate.epoch,
         x.gate.accepted = Now.gate.accepted, x.gate.pending = Now.gate.pending,
         x.gate.material = Now.gate.material,
         x.gate.phase # DORMANT => Now.gate.phase # DORMANT
  PROVE  Counted(x)
BY AtNow DEF Counted, With, Filed

LEMMA SealStep ==
  ASSUME IntakeAssumption, IntakeInv, NEW c \in Candidates, Seal(c) PROVE IntakeInv'
<1> DEFINE g == Now.gate
           sealed == <<Now.forecast + 1, c>>
           gate == [Bumped(g) EXCEPT !.phase = SEALED, !.sealed = sealed]
           x == [gate |-> gate, forecast |-> Now.forecast, receipts |-> Now.receipts]
<1>1. /\ Now \in Slots /\ GateInvariants(g) /\ Counted(Now) /\ OfProposal(Now)
      /\ g \in Gates /\ g.phase = TAKING /\ g.pending = 0 /\ g.material = 0
      /\ Now.forecast \in Nat
  BY AtNow, SlotTypes DEF Seal
<1>2. sealed \in Nat \X Candidates /\ sealed[1] = Now.forecast + 1 /\ sealed # Missing
  <2>1. sealed \in Nat \X Candidates
    BY <1>1
  <2> QED BY <2>1 DEF IntakeAssumption
<1> HIDE DEF sealed
<1>3. /\ gate \in Gates /\ gate.epoch = g.epoch /\ gate.revision = g.revision + 1
      /\ gate.proposal = g.proposal /\ gate.accepted = g.accepted
      /\ gate.pending = g.pending /\ gate.material = g.material
      /\ gate.phase = SEALED /\ gate.sealed = sealed
  <2> DEFINE r == g.revision + 1
  <2>1. r \in Nat
    BY <1>1, SlotTypes
  <2>2. gate = [g EXCEPT !.revision = r, !.phase = SEALED, !.sealed = sealed]
    BY <1>1 DEF Bumped, Gates
  <2> HIDE DEF r, gate
  <2>3. /\ gate \in Gates /\ gate.epoch = g.epoch /\ gate.revision = r
        /\ gate.proposal = g.proposal /\ gate.accepted = g.accepted
        /\ gate.pending = g.pending /\ gate.material = g.material
        /\ gate.phase = SEALED /\ gate.sealed = sealed
    BY <1>1, <1>2, <2>1, <2>2 DEF Gates
  <2> QED BY <2>3 DEF r
<1> HIDE DEF gate
<1>4. x \in Slots /\ x.gate = gate /\ x.forecast = Now.forecast /\ x.receipts = Now.receipts
  BY <1>1, <1>3, SlotTypes DEF Slots
<1>5. onchain' = Append(onchain, x) /\ UNCHANGED <<recorded, final, mirror, request, alarms>>
  BY DEF Seal, Moves, gate, sealed
<1> HIDE DEF x
<1>6. g.phase # DORMANT /\ g.phase # SEALED /\ g.revision \in Nat
  BY <1>1, SlotTypes DEF TAKING, DORMANT, SEALED
<1>7. GateInvariants(gate)
  <2>1. g.proposal < Now.forecast + 1
    BY <1>1, <1>6 DEF OfProposal
  <2> QED BY <1>1, <1>2, <1>3, <1>6, <2>1, SlotTypes DEF GateInvariants, DORMANT, TAKING, SEALED
<1>8. Counted(x)
  BY <1>3, <1>4, <1>6, SameReceipts
<1>9. OfProposal(x)
  BY <1>1, <1>3, <1>4, <1>6 DEF OfProposal
<1> QED BY <1>3, <1>4, <1>5, <1>6, <1>7, <1>8, <1>9, ChainMoves DEF SlotOK

\* The gate of an epoch that opens.
LEMMA DormantGate ==
  ASSUME IntakeAssumption
  PROVE  /\ Dormant \in Gates /\ Dormant.accepted = 0 /\ Dormant.pending = 0
         /\ Dormant.material = 0 /\ Dormant.sealed = Missing /\ Dormant.phase = DORMANT
         /\ Dormant.epoch = 0 /\ Dormant.proposal = 0 /\ Dormant.revision = 1
BY Bounds DEF Dormant, Gates, DORMANT

LEMMA AdvanceStep ==
  ASSUME IntakeAssumption, IntakeInv, AdvanceGate PROVE IntakeInv'
<1> DEFINE g == Now.gate
           next == Now.forecast + 1
<1>1. /\ Now \in Slots /\ GateInvariants(g) /\ Counted(Now) /\ OfProposal(Now)
      /\ g \in Gates /\ g.phase < SEALED /\ next <= Len(recorded)
      /\ Now.forecast \in Nat /\ Now.forecast >= 1 /\ Len(recorded) \in Nat
  BY AtNow, SlotTypes DEF AdvanceGate, OfProposal, History
<1>2. g.phase # SEALED /\ g.revision \in Nat /\ next \in 1..Len(recorded)
  BY <1>1, SlotTypes DEF SEALED
<1>3. CASE recorded[next].proposal # recorded[Now.forecast].proposal
  <2> DEFINE gate == [Dormant EXCEPT !.epoch = g.epoch + 1, !.revision = g.revision + 1,
                                     !.proposal = next, !.phase = TAKING]
             x == [gate |-> gate, forecast |-> next, receipts |-> Now.receipts]
  <2>1. g.pending = 0 /\ g.epoch < MaxEpoch
    BY <1>3 DEF AdvanceGate
  <2>2. /\ gate \in Gates /\ gate.epoch = g.epoch + 1 /\ gate.revision = g.revision + 1
        /\ gate.proposal = next /\ gate.accepted = 0 /\ gate.pending = 0 /\ gate.material = 0
        /\ gate.phase = TAKING /\ gate.sealed = Missing
    <3> DEFINE e == g.epoch + 1
               r == g.revision + 1
    <3>1. e \in 0..MaxEpoch /\ r \in Nat /\ next \in Nat
      BY <1>1, <2>1, SlotTypes, Bounds, SMTT(20)
    <3>2. gate = [Dormant EXCEPT !.epoch = e, !.revision = r, !.proposal = next, !.phase = TAKING]
      OBVIOUS
    <3> HIDE DEF e, r, gate, next
    <3>3. /\ gate \in Gates /\ gate.epoch = e /\ gate.revision = r
          /\ gate.proposal = next /\ gate.accepted = 0 /\ gate.pending = 0 /\ gate.material = 0
          /\ gate.phase = TAKING /\ gate.sealed = Missing
      BY <3>1, <3>2, DormantGate DEF Gates
    <3> QED BY <3>3 DEF e, r
  <2> HIDE DEF gate
  <2>3. x \in Slots /\ x.gate = gate /\ x.forecast = next /\ x.receipts = Now.receipts
    BY <1>1, <2>2, SlotTypes DEF Slots
  <2>4. onchain' = Append(onchain, x) /\ UNCHANGED <<recorded, final, mirror, request, alarms>>
    BY <1>3 DEF AdvanceGate, Moves, gate
  <2> HIDE DEF x
  <2>5. g.epoch \in Nat
    BY <1>1, SlotTypes
  <2>6. GateInvariants(gate)
    BY <1>1, <1>2, <2>2, <2>5 DEF GateInvariants, DORMANT, TAKING, SEALED
  <2>7. Counted(x)
    <3>1. \A u \in Users : Now.receipts[<<g.epoch + 1, u>>] = DRAFT
      <4>1. \A u \in Users : <<g.epoch + 1, u>> \in Addresses
        BY <2>1, <2>5, Bounds DEF Addresses, Epochs
      <4> QED BY <1>1, <2>5, <4>1 DEF Counted
    <3>2. With(x, PENDING) = {} /\ With(x, MATERIAL) = {} /\ Filed(x) = {}
      BY <2>2, <2>3, <3>1 DEF With, Filed, DRAFT, PENDING, MATERIAL
    <3>3. ASSUME NEW a \in Addresses
          PROVE  /\ a[1] < g.epoch + 1 => Now.receipts[a] # PENDING
                 /\ a[1] > g.epoch + 1 => Now.receipts[a] = DRAFT
      <4>1. a[1] \in Nat /\ a[1] >= 1 /\ a[2] \in Users /\ a = <<a[1], a[2]>>
        BY Bounds DEF Addresses, Epochs
      <4>2. CASE a[1] = g.epoch
        <5>1. g.phase # DORMANT
          BY <1>1, <4>1, <4>2 DEF GateInvariants
        <5>2. Cardinality(With(Now, PENDING)) = 0
          BY <1>1, <2>1, <5>1 DEF Counted
        <5>3. Now.receipts[<<g.epoch, a[2]>>] # PENDING
          BY <4>1, <5>2, NoneCounted
        <5> QED BY <2>5, <4>1, <4>2, <5>3
      <4>3. CASE a[1] # g.epoch
        BY <1>1, <2>5, <4>1, <4>3 DEF Counted
      <4> QED BY <4>2, <4>3
    <3> QED BY <2>2, <2>3, <3>2, <3>3, FS_EmptySet DEF Counted
  <2>8. OfProposal(x)
    BY <1>2, <2>2, <2>3 DEF OfProposal
  <2> QED BY <1>2, <2>2, <2>3, <2>4, <2>6, <2>7, <2>8, ChainMoves DEF SlotOK
<1>4. CASE recorded[next].proposal = recorded[Now.forecast].proposal
  <2>1. PICK gate \in {g, Bumped(g)} : Moves(gate, next, Now.receipts)
    BY <1>4 DEF AdvanceGate
  <2> DEFINE x == [gate |-> gate, forecast |-> next, receipts |-> Now.receipts]
  <2>2. /\ gate \in Gates /\ gate.epoch = g.epoch /\ gate.proposal = g.proposal
        /\ gate.accepted = g.accepted /\ gate.pending = g.pending /\ gate.material = g.material
        /\ gate.phase = g.phase /\ gate.sealed = g.sealed
        /\ gate = g \/ gate.revision = g.revision + 1
    <3> DEFINE r == g.revision + 1
    <3>1. r \in Nat /\ Bumped(g) = [g EXCEPT !.revision = r]
      BY <1>2 DEF Bumped
    <3> HIDE DEF r
    <3>2. CASE gate = g
      BY <1>1, <3>2
    <3>3. CASE gate = [g EXCEPT !.revision = r]
      <4>1. /\ gate \in Gates /\ gate.epoch = g.epoch /\ gate.proposal = g.proposal
            /\ gate.accepted = g.accepted /\ gate.pending = g.pending /\ gate.material = g.material
            /\ gate.phase = g.phase /\ gate.sealed = g.sealed /\ gate.revision = r
        BY <1>1, <3>1, <3>3 DEF Gates
      <4> QED BY <4>1 DEF r
    <3> QED BY <2>1, <3>1, <3>2, <3>3
  <2>3. x \in Slots /\ x.gate = gate /\ x.forecast = next /\ x.receipts = Now.receipts
    BY <1>1, <2>2, SlotTypes DEF Slots
  <2>4. onchain' = Append(onchain, x) /\ UNCHANGED <<recorded, final, mirror, request, alarms>>
    BY <2>1 DEF Moves
  <2> HIDE DEF x
  <2>5. GateInvariants(gate)
    <3>1. gate.revision > 0
      BY <1>1, <1>2, <2>2 DEF GateInvariants
    <3> QED BY <1>1, <2>2, <3>1 DEF GateInvariants
  <2>6. Counted(x)
    BY <2>2, <2>3, SameReceipts
  <2>7. OfProposal(x)
    BY <1>1, <1>2, <1>4, <2>2, <2>3, SlotTypes DEF OfProposal
  <2>8. gate.revision = g.revision => gate = g
    BY <1>2, <2>2
  <2>9. g.revision <= gate.revision
    BY <1>2, <2>2
  <2> QED BY <1>2, <2>2, <2>3, <2>4, <2>5, <2>6, <2>7, <2>8, <2>9, ChainMoves DEF SlotOK
<1> QED BY <1>3, <1>4
-----------------------------------------------------------------------------
(***************************************************************************)
(* The steps of the record and of the requests                             *)
(***************************************************************************)
\* Nothing but a request changes: what it is now must be faithful.
LEMMA RequestMoves ==
  ASSUME IntakeInv, NEW w, NEW p, Faithful(p), request' = [request EXCEPT ![w] = p],
         UNCHANGED <<recorded, final, onchain, mirror>>, alarms' = {}
  PROVE  IntakeInv'
<1>1. /\ request = [v \in Requesters |-> request[v]] /\ \A v \in Requesters : Faithful(request[v])
      /\ History /\ Filings /\ (final # Missing => Now.gate.phase = SEALED /\ Now.gate.sealed = final)
  BY DEF IntakeInv
<1>2. request' = [v \in Requesters |-> IF v = w THEN p ELSE request[v]]
  BY <1>1
<1>3. ASSUME NEW v \in Requesters PROVE Faithful(request[v])'
  <2> DEFINE q == request'[v]
  <2>1. Faithful(q)
    BY <1>1, <1>2
  <2>2. Faithful(q) => Faithful(request[v])'
    BY DEF Faithful
  <2> QED BY <2>1, <2>2
<1>4. History'
  BY <1>1 DEF History, Chained, SlotOK, OfProposal
<1>5. Filings'
  BY <1>1 DEF Filings, mirror
<1>6. request' = [v \in Requesters |-> request'[v]]
  BY <1>2
<1>7. (final # Missing => Now.gate.phase = SEALED /\ Now.gate.sealed = final)'
  BY <1>1 DEF Now
<1> QED BY <1>3, <1>4, <1>5, <1>6, <1>7 DEF IntakeInv, NoFalseAlarm

\* The record grows: what was of its past proposals still is.
LEMMA CommitStep ==
  ASSUME IntakeAssumption, IntakeInv, CommitLocally PROVE IntakeInv'
<1> DEFINE n == Len(recorded)
<1>1. History /\ Filings /\ final = Missing /\ n \in Nat /\ n >= 1
      /\ recorded \in Seq(Entries)
  BY DEF IntakeInv, CommitLocally, History
<1>2. PICK entry \in Entries : recorded' = Append(recorded, entry)
  <2>1. recorded[n] \in Entries
    BY <1>1
  <2> DEFINE p == recorded[n].proposal
             q == p + 1
  <2>2. p \in Nat /\ q \in Nat
    BY <2>1 DEF Entries
  <2>3. PICK entry \in {[state |-> "CHALLENGE", proposal |-> p], [state |-> "OTHER", proposal |-> p],
                        [state |-> "OTHER", proposal |-> q]} : recorded' = Append(recorded, entry)
    BY DEF CommitLocally
  <2> HIDE DEF p, q
  <2>4. entry \in Entries
    BY <2>2, <2>3 DEF Entries
  <2> QED BY <2>3, <2>4
<1>3. /\ UNCHANGED <<final, onchain, mirror, request, alarms>>
  BY DEF CommitLocally
<1>4. /\ recorded' \in Seq(Entries) /\ Len(recorded') = n + 1
      /\ \A i \in 1..n : recorded'[i] = recorded[i]
  BY <1>1, <1>2
<1> HIDE DEF n
<1>5. ASSUME NEW s \in 1..Len(onchain) PROVE SlotOK(onchain[s])'
  <2>1. SlotOK(onchain[s])
    BY <1>1 DEF History
  <2>2. onchain[s].forecast \in 1..n /\ onchain[s].forecast \in 1..(n + 1)
    BY <1>1, <2>1 DEF SlotOK, OfProposal, n
  <2>3. onchain[s].gate.phase # DORMANT =>
          onchain[s].gate.proposal \in 1..n
    BY <1>1, <2>1, <2>2 DEF SlotOK, OfProposal
  <2>4. OfProposal(onchain[s])'
    BY <1>3, <1>4, <2>1, <2>2, <2>3 DEF SlotOK, OfProposal
  <2> QED BY <1>3, <2>1, <2>4 DEF SlotOK, GateInvariants, Counted, With, Filed
<1>6. History'
  <2>1. Chained'
    BY <1>1, <1>3 DEF History, Chained
  <2>2. onchain' \in Seq(Slots) /\ Len(onchain') >= 1
    BY <1>1, <1>3 DEF History
  <2>3. (\A s \in 1..Len(onchain) : SlotOK(onchain[s]))'
    BY <1>3, <1>5
  <2> QED BY <1>1, <1>4, <2>1, <2>2, <2>3 DEF History
<1>7. Filings'
  BY <1>1, <1>3 DEF Filings, mirror
<1>8. ASSUME NEW w \in Requesters PROVE Faithful(request[w])'
  BY <1>3 DEF IntakeInv, Faithful
<1> QED BY <1>1, <1>3, <1>6, <1>7, <1>8 DEF IntakeInv, NoFalseAlarm

\* A sealed gate is the last there is.
LEMMA SealedIsLast ==
  ASSUME IntakeInv, NEW s \in 1..Len(onchain), onchain[s].gate.phase = SEALED
  PROVE  s = Len(onchain) /\ onchain[s] = Now
<1>1. History /\ Len(onchain) \in 1..Len(onchain) /\ s <= Len(onchain)
  BY Last DEF IntakeInv
<1> QED BY <1>1 DEF History, Chained, Now

LEMMA FinalizeStep ==
  ASSUME IntakeAssumption, IntakeInv, NEW c \in Candidates, NEW epoch \in Epochs, FinalizeLocally(c, epoch)
  PROVE  IntakeInv'
<1> DEFINE candidate == <<Len(recorded) + 1, c>>
<1>1. /\ Admits(candidate, epoch) /\ final' = candidate
      /\ UNCHANGED <<recorded, onchain, mirror, request, alarms>>
  BY DEF FinalizeLocally
<1> HIDE DEF candidate
<1>2. /\ head # Missing /\ head.gate.phase = SEALED /\ head.gate = seals[epoch].gate
      /\ seals[epoch] # Missing /\ seals[epoch].candidate = candidate
  BY <1>1 DEF Admits
<1>3. head.slot \in 1..Len(onchain) /\ head.gate = onchain[head.slot].gate
      /\ seals[epoch].gate.sealed = seals[epoch].candidate
  BY <1>2 DEF IntakeInv, Filings
<1>4. Now.gate.phase = SEALED /\ Now.gate.sealed = candidate
  BY <1>2, <1>3, SealedIsLast
<1>5. (Now.gate.phase = SEALED /\ Now.gate.sealed = final)'
  BY <1>1, <1>4 DEF Now
<1>6. History'
  BY <1>1 DEF IntakeInv, History, Chained, SlotOK, OfProposal
<1>7. Filings'
  BY <1>1 DEF IntakeInv, Filings, mirror
<1>8. ASSUME NEW w \in Requesters PROVE Faithful(request[w])'
  BY <1>1 DEF IntakeInv, Faithful
<1> QED BY <1>1, <1>5, <1>6, <1>7, <1>8 DEF IntakeInv, NoFalseAlarm
LEMMA BeginStep ==
  ASSUME IntakeInv, NEW w \in Requesters, Begin(w) PROVE IntakeInv'
<1> DEFINE minimum == IF head = Missing THEN 1 ELSE head.slot
           generation == IF binding = 0 THEN 1 ELSE binding
<1>1. minimum \in 1..Len(onchain) /\ generation \in Nat
  BY Last DEF IntakeInv, Filings
<1>a. PICK op \in {"refresh"} \cup (IF binding = 0 THEN {} ELSE {"import", "seal"}),
             address \in Addresses, c \in Candidates :
        request' = [request EXCEPT ![w] =
          [pc |-> "reading", op |-> op, generation |-> generation, activates |-> binding = 0,
           minimum |-> minimum, address |-> IF op = "import" THEN address ELSE Missing,
           candidate |-> IF op = "seal" THEN <<Len(recorded) + 1, c>> ELSE Missing]]
  BY Zenon DEF Begin
<1> HIDE DEF minimum, generation
<1>2. op \in {"refresh", "import", "seal"}
  BY <1>a
<1> DEFINE p == [pc |-> "reading", op |-> op, generation |-> generation, activates |-> binding = 0,
                 minimum |-> minimum, address |-> IF op = "import" THEN address ELSE Missing,
                 candidate |-> IF op = "seal" THEN <<Len(recorded) + 1, c>> ELSE Missing]
<1>3. Faithful(p)
  BY <1>1, <1>2 DEF Faithful
<1>4. request' = [request EXCEPT ![w] = p]
  BY <1>a
<1> HIDE DEF p
<1>5. UNCHANGED <<recorded, final, onchain, mirror>> /\ alarms' = {}
  BY DEF Begin, IntakeInv, NoFalseAlarm
<1> QED BY <1>3, <1>4, <1>5, RequestMoves

\* A gate that reads the same before and after has stood in between.
LEMMA StoodBetween ==
  ASSUME IntakeInv, NEW a \in 1..Len(onchain), NEW d \in 1..Len(onchain), NEW s \in 1..Len(onchain),
         a <= s, s <= d, SameGate(a, d)
  PROVE  onchain[s].gate = onchain[d].gate
<1>1. /\ onchain[a].gate.revision <= onchain[s].gate.revision
      /\ onchain[s].gate.revision <= onchain[d].gate.revision
      /\ onchain[s].gate.revision = onchain[d].gate.revision => onchain[s].gate = onchain[d].gate
  BY DEF IntakeInv, History, Chained
<1>2. onchain[a] \in Slots /\ onchain[s] \in Slots /\ onchain[d] \in Slots
  BY DEF IntakeInv, History
<1>3. /\ onchain[a].gate.revision \in Nat /\ onchain[s].gate.revision \in Nat
      /\ onchain[d].gate.revision \in Nat
  BY <1>2, SlotTypes
<1>4. onchain[a].gate.revision = onchain[d].gate.revision
  BY DEF SameGate
<1> QED BY <1>1, <1>3, <1>4

\* What is read between two readings of a gate is of the proposal it names
\* and is among what it counts.
LEMMA ReadingsFit ==
  ASSUME IntakeAssumption, IntakeInv, NEW a \in 1..Len(onchain), NEW b \in 1..Len(onchain),
         NEW c \in 1..Len(onchain), NEW d \in 1..Len(onchain), a <= b, b <= c, c <= d, SameGate(a, d)
  PROVE  /\ ProposalBound(onchain[d].gate, onchain[c].forecast)
         /\ \A me : me.address \in Addresses /\ onchain[b].receipts[me.address] # DRAFT =>
              /\ me.address[1] <= onchain[d].gate.epoch
              /\ CounterBound(me, onchain[d].gate, onchain[b].receipts[me.address])
<1> DEFINE gate == onchain[d].gate
<1>1. onchain[b].gate = gate /\ onchain[c].gate = gate
  <2>1. a <= c /\ b <= d
    BY Last DEF IntakeInv
  <2> QED BY <2>1, StoodBetween
<1>2. SlotOK(onchain[b]) /\ SlotOK(onchain[c])
  BY DEF IntakeInv, History
<1>3. ProposalBound(gate, onchain[c].forecast)
  <2>1. gate.phase # DORMANT =>
          /\ gate.proposal \in 1..onchain[c].forecast
          /\ recorded[onchain[c].forecast].proposal = recorded[gate.proposal].proposal
    BY <1>1, <1>2 DEF SlotOK, OfProposal
  <2>2. onchain[c].forecast \in Nat
    BY <1>2, SlotTypes DEF SlotOK
  <2> QED BY <2>1, <2>2 DEF ProposalBound
<1>4. ASSUME NEW me, me.address \in Addresses, onchain[b].receipts[me.address] # DRAFT
      PROVE  /\ me.address[1] <= gate.epoch
             /\ CounterBound(me, gate, onchain[b].receipts[me.address])
  <2> DEFINE x == onchain[b]
             e == me.address[1]
             u == me.address[2]
             status == x.receipts[me.address]
  <2>1. /\ x \in Slots /\ GateInvariants(gate) /\ Counted(x) /\ x.gate = gate
        /\ gate.epoch \in Nat /\ status \in {PENDING, DISMISSED, MATERIAL}
    BY <1>1, <1>2, <1>4, SlotTypes, Bounds DEF SlotOK
  <2>2. e \in Nat /\ e >= 1 /\ u \in Users /\ me.address = <<e, u>>
    BY <1>4, Bounds DEF Addresses, Epochs
  <2>3. e <= gate.epoch
    BY <1>4, <2>1, <2>2 DEF Counted
  <2>4. CASE e = gate.epoch
    <3>1. gate.phase # DORMANT
      BY <2>1, <2>2, <2>4 DEF GateInvariants
    <3>2. /\ gate.pending = Cardinality(With(x, PENDING))
          /\ gate.material = Cardinality(With(x, MATERIAL))
          /\ gate.accepted = Cardinality(Filed(x))
      BY <2>1, <3>1 DEF Counted
    <3>3. Cardinality(With(x, status)) >= 1 /\ Cardinality(Filed(x)) >= 1
      BY <1>4, <2>1, <2>2, <2>4, SomeCounted
    <3>4. gate.accepted \in Nat /\ gate.pending \in Nat /\ gate.material \in Nat
      BY <2>1, SlotTypes
    <3>5. /\ gate.accepted > 0
          /\ status = PENDING => gate.pending > 0
          /\ status = MATERIAL => gate.material > 0
      BY <3>2, <3>3, <3>4
    <3> QED BY <2>3, <2>4, <3>5 DEF CounterBound
  <2>5. CASE e # gate.epoch
    <3>1. status # PENDING
      BY <1>4, <2>1, <2>2, <2>3, <2>5 DEF Counted
    <3> QED BY <2>1, <2>2, <2>3, <2>5, <3>1 DEF CounterBound
  <2> QED BY <2>3, <2>4, <2>5
<1> QED BY <1>3, <1>4
LEMMA ObserveStep ==
  ASSUME IntakeAssumption, IntakeInv, NEW w \in Requesters, ObserveChain(w) PROVE IntakeInv'
<1> DEFINE me == request[w]
<1>1. /\ Faithful(me) /\ me.pc = "reading" /\ alarms = {}
      /\ UNCHANGED <<recorded, final, onchain, mirror>> /\ Len(onchain) \in Nat
  BY Last DEF IntakeInv, ObserveChain, NoFalseAlarm
<1>2. /\ me.minimum \in 1..Len(onchain) /\ me.generation \in Nat
      /\ me.op = "import" => me.address \in Addresses
  BY <1>1 DEF Faithful
<1> DEFINE Status(b) == IF me.op = "import" THEN onchain[b].receipts[me.address] ELSE DRAFT
           Alarm(b, c, d) ==
             IF ~ProposalBound(onchain[d].gate, onchain[c].forecast) THEN {"intake_proposal_binding"}
             ELSE IF me.op # "import" \/ Status(b) = DRAFT THEN {}
             ELSE IF me.address[1] > onchain[d].gate.epoch THEN {"intake_future_epoch"}
             ELSE IF ~CounterBound(me, onchain[d].gate, Status(b))
                  THEN {"intake_receipt_counter_binding"} ELSE {}
           Refused(b, c, d) == \/ me.op = "import" /\ Status(b) = DRAFT
                               \/ me.op = "seal" /\ ~SealBound(me, onchain[d].gate, onchain[c].forecast)
           Found(b, d) == [pc |-> "writing", op |-> me.op, generation |-> me.generation,
                           activates |-> me.activates, address |-> me.address,
                           candidate |-> me.candidate, gate |-> onchain[d].gate, slot |-> d,
                           status |-> Status(b), seen |-> b]
<1>3. PICK a, b, c, d \in me.minimum..Len(onchain) :
        /\ a <= b /\ b <= c /\ c <= d
        /\ IF ~SameGate(a, d)
           THEN request' = [request EXCEPT ![w] = NoRequest] /\ UNCHANGED alarms
           ELSE /\ alarms' = alarms \cup Alarm(b, c, d)
                /\ request' = [request EXCEPT ![w] =
                     IF Alarm(b, c, d) # {} \/ Refused(b, c, d) THEN NoRequest ELSE Found(b, d)]
  BY DEF ObserveChain
<1>4. /\ a \in 1..Len(onchain) /\ b \in 1..Len(onchain) /\ c \in 1..Len(onchain) /\ d \in 1..Len(onchain)
  BY <1>1, <1>2
<1>5. Faithful(NoRequest)
  BY DEF Faithful, NoRequest
<1>6. ASSUME SameGate(a, d) PROVE Alarm(b, c, d) = {}
  <2>1. ProposalBound(onchain[d].gate, onchain[c].forecast)
    BY <1>3, <1>4, <1>6, ReadingsFit
  <2>2. ASSUME me.op = "import", Status(b) # DRAFT
        PROVE  ~(me.address[1] > onchain[d].gate.epoch) /\ CounterBound(me, onchain[d].gate, Status(b))
    <3>1. me.address \in Addresses /\ onchain[b].receipts[me.address] # DRAFT
      BY <1>2, <2>2
    <3>2. /\ me.address[1] <= onchain[d].gate.epoch
          /\ CounterBound(me, onchain[d].gate, onchain[b].receipts[me.address])
      BY <1>3, <1>4, <1>6, <3>1, ReadingsFit
    <3>3. me.address[1] \in Nat /\ onchain[d].gate.epoch \in Nat
      <4>1. onchain[d] \in Slots
        BY <1>4 DEF IntakeInv, History
      <4> QED BY <3>1, <4>1, SlotTypes, Bounds DEF Addresses, Epochs
    <3> QED BY <2>2, <3>2, <3>3
  <2> QED BY <2>1, <2>2
<1>7. ASSUME ~Refused(b, c, d) PROVE Faithful(Found(b, d))
  <2>1. me.op = "seal" => onchain[d].gate.sealed = me.candidate
    BY <1>7 DEF SealBound
  <2>2. me.op = "import" => Status(b) = onchain[b].receipts[me.address]
    OBVIOUS
  <2> HIDE DEF me, Status
  <2> QED BY <1>2, <1>4, <2>1, <2>2 DEF Faithful
<1>8. PICK p : Faithful(p) /\ request' = [request EXCEPT ![w] = p]
  <2> HIDE DEF me, Alarm, Refused, Found
  <2> QED BY <1>3, <1>5, <1>7
<1>9. alarms' = {}
  <2> HIDE DEF me, Alarm, Refused, Found
  <2> QED BY <1>1, <1>3, <1>6
<1> QED BY <1>1, <1>8, <1>9, RequestMoves

LEMMA FailsStep ==
  ASSUME IntakeInv, NEW w \in Requesters, Fails(w) PROVE IntakeInv'
<1>1. Faithful(NoRequest)
  BY DEF Faithful, NoRequest
<1> QED BY <1>1, RequestMoves DEF Fails, IntakeInv, NoFalseAlarm

\* What is written is what was read.
LEMMA WriteStep ==
  ASSUME IntakeAssumption, IntakeInv, NEW w \in Requesters, Write(w) PROVE IntakeInv'
<1> DEFINE me == request[w]
<1>1. /\ Faithful(me) /\ me.pc = "writing" /\ request' = [request EXCEPT ![w] = NoRequest]
      /\ UNCHANGED <<recorded, final, onchain, alarms>>
  BY DEF IntakeInv, Write
<1>2. /\ me.generation \in Nat /\ me.slot \in 1..Len(onchain) /\ me.gate = onchain[me.slot].gate
      /\ me.op = "import" => /\ me.address \in Addresses /\ me.seen \in 1..Len(onchain)
                             /\ me.status = onchain[me.seen].receipts[me.address]
      /\ me.op = "seal" => me.gate.sealed = me.candidate
  BY <1>1 DEF Faithful
<1>3. Faithful(NoRequest)
  BY DEF Faithful, NoRequest
<1>4. CASE UNCHANGED mirror
  BY <1>1, <1>3, <1>4, RequestMoves DEF IntakeInv, NoFalseAlarm
<1>5. CASE ~UNCHANGED mirror
  <2>1. /\ Fenced(me)
        /\ binding' = IF binding = 0 THEN me.generation ELSE binding
        /\ head' = [generation |-> me.generation, slot |-> me.slot, gate |-> me.gate]
        /\ mirrored' = IF me.op = "import"
             THEN [mirrored EXCEPT ![me.address] = [slot |-> me.seen, status |-> me.status]]
             ELSE mirrored
        /\ seals' = IF me.op = "seal"
             THEN [seals EXCEPT ![me.gate.epoch] = [candidate |-> me.candidate, gate |-> me.gate]]
             ELSE seals
    BY <1>5 DEF Write
  <2> HIDE DEF me
  <2>2. binding \in Nat /\ binding' \in Nat /\ me.generation <= binding'
    BY <1>2, <2>1 DEF Fenced, IntakeInv, Filings
  <2>3. /\ head'.slot = me.slot /\ head'.gate = me.gate /\ head'.generation = me.generation
    BY <2>1
  <2>4. /\ mirrored' = [a \in Addresses |-> mirrored'[a]]
        /\ \A a \in Addresses : mirrored'[a] # Missing =>
             /\ mirrored'[a].slot \in 1..Len(onchain)
             /\ mirrored'[a].status = onchain[mirrored'[a].slot].receipts[a]
    <3>1. /\ mirrored = [a \in Addresses |-> mirrored[a]]
          /\ \A a \in Addresses : mirrored[a] # Missing =>
               /\ mirrored[a].slot \in 1..Len(onchain)
               /\ mirrored[a].status = onchain[mirrored[a].slot].receipts[a]
      BY DEF IntakeInv, Filings
    <3>2. CASE me.op = "import"
      <4> DEFINE r == [slot |-> me.seen, status |-> me.status]
      <4>1. r.slot = me.seen /\ r.status = me.status
        OBVIOUS
      <4>2. mirrored' = [mirrored EXCEPT ![me.address] = r]
        BY <2>1, <3>2
      <4> HIDE DEF r
      <4>3. mirrored' = [a \in Addresses |-> IF a = me.address THEN r ELSE mirrored[a]]
        BY <3>1, <4>2
      <4> QED BY <1>2, <3>1, <3>2, <4>1, <4>3
    <3>3. CASE me.op # "import"
      BY <2>1, <3>1, <3>3
    <3> QED BY <3>2, <3>3
  <2>5. /\ seals' = [e \in Epochs |-> seals'[e]]
        /\ \A e \in Epochs : seals'[e] # Missing => seals'[e].gate.sealed = seals'[e].candidate
    <3>1. /\ seals = [e \in Epochs |-> seals[e]]
          /\ \A e \in Epochs : seals[e] # Missing => seals[e].gate.sealed = seals[e].candidate
      BY DEF IntakeInv, Filings
    <3>2. CASE me.op = "seal"
      <4> DEFINE r == [candidate |-> me.candidate, gate |-> me.gate]
      <4>1. r.candidate = me.candidate /\ r.gate = me.gate
        OBVIOUS
      <4>2. seals' = [seals EXCEPT ![me.gate.epoch] = r]
        BY <2>1, <3>2
      <4> HIDE DEF r
      <4>3. seals' = [e \in Epochs |-> IF e = me.gate.epoch THEN r ELSE seals[e]]
        BY <3>1, <4>2
      <4> QED BY <1>2, <3>1, <3>2, <4>1, <4>3
    <3>3. CASE me.op # "seal"
      BY <2>1, <3>1, <3>3
    <3> QED BY <3>2, <3>3
  <2>6. Filings'
    BY <1>1, <1>2, <2>2, <2>3, <2>4, <2>5 DEF Filings
  <2>7. History'
    BY <1>1 DEF IntakeInv, History, Chained, SlotOK, OfProposal
  <2>8. (final # Missing => Now.gate.phase = SEALED /\ Now.gate.sealed = final)'
    BY <1>1 DEF IntakeInv, Now
  <2>9. request' = [v \in Requesters |-> IF v = w THEN NoRequest ELSE request[v]]
    BY <1>1 DEF IntakeInv
  <2>10. ASSUME NEW v \in Requesters PROVE Faithful(request[v])'
    BY <1>1, <2>9 DEF IntakeInv, Faithful, NoRequest
  <2>11. request' = [v \in Requesters |-> request'[v]] /\ alarms' = {}
    BY <1>1, <2>9 DEF IntakeInv, NoFalseAlarm
  <2> QED BY <2>6, <2>7, <2>8, <2>10, <2>11 DEF IntakeInv, NoFalseAlarm
<1> QED BY <1>4, <1>5
LEMMA GenerationStep ==
  ASSUME IntakeInv, AdvanceGeneration PROVE IntakeInv'
<1>1. /\ binding \in Nat /\ binding' = binding + 1
      /\ UNCHANGED <<recorded, final, onchain, head, mirrored, seals, admissions, request, alarms>>
  BY DEF IntakeInv, Filings, AdvanceGeneration
<1>2. History'
  BY <1>1 DEF IntakeInv, History, Chained, SlotOK, OfProposal
<1>3. head # Missing => head.generation \in Nat /\ head.generation <= binding'
  BY <1>1 DEF IntakeInv, Filings
<1>4. Filings'
  BY <1>1, <1>3 DEF IntakeInv, Filings
<1>5. ASSUME NEW w \in Requesters PROVE Faithful(request[w])'
  BY <1>1 DEF IntakeInv, Faithful
<1>6. (final # Missing => Now.gate.phase = SEALED /\ Now.gate.sealed = final)'
  BY <1>1 DEF IntakeInv, Now
<1> QED BY <1>1, <1>2, <1>4, <1>5, <1>6 DEF IntakeInv, NoFalseAlarm

LEMMA Stutters ==
  ASSUME IntakeInv, UNCHANGED intakevars PROVE IntakeInv'
<1>1. UNCHANGED <<recorded, final, onchain, mirror, request, alarms>>
  BY DEF intakevars
<1>2. History'
  BY <1>1 DEF IntakeInv, History, Chained, SlotOK, OfProposal
<1>3. Filings'
  BY <1>1 DEF IntakeInv, Filings, mirror
<1>4. ASSUME NEW w \in Requesters PROVE Faithful(request[w])'
  BY <1>1 DEF IntakeInv, Faithful
<1> QED BY <1>1, <1>2, <1>3, <1>4 DEF IntakeInv, NoFalseAlarm, Now

-----------------------------------------------------------------------------
(***************************************************************************)
(* The record as it begins, and every step                                 *)
(***************************************************************************)
LEMMA Initially ==
  ASSUME IntakeAssumption, IntakeInit PROVE IntakeInv
<1> DEFINE open == [Dormant EXCEPT !.epoch = 1, !.proposal = 1, !.phase = TAKING]
           receipts == [a \in Addresses |-> DRAFT]
<1>1. /\ open \in Gates /\ open.epoch = 1 /\ open.revision = 1 /\ open.proposal = 1
      /\ open.accepted = 0 /\ open.pending = 0 /\ open.material = 0
      /\ open.phase = TAKING /\ open.sealed = Missing
  <2>1. 1 \in 0..MaxEpoch /\ 1 \in Nat
    BY Bounds
  <2> QED BY <2>1, DormantGate DEF Gates
<1>2. PICK gate \in {open, Dormant} :
        /\ onchain = <<[gate |-> gate, forecast |-> 1, receipts |-> receipts]>>
        /\ recorded \in Seq(Entries) /\ Len(recorded) = 1
        /\ gate.phase # DORMANT => gate.proposal = 1
  <2>1. CASE recorded = <<[state |-> "CHALLENGE", proposal |-> 1]>>
    <3>1. recorded[1].proposal = 1 /\ recorded \in Seq(Entries) /\ Len(recorded) = 1
      BY <2>1 DEF Entries
    <3>2. onchain = <<[gate |-> open, forecast |-> 1, receipts |-> receipts]>>
      BY <3>1 DEF IntakeInit
    <3> QED BY <1>1, <3>1, <3>2
  <2>2. CASE recorded = <<[state |-> "OTHER", proposal |-> 0]>>
    <3>1. recorded[1].proposal = 0 /\ recorded \in Seq(Entries) /\ Len(recorded) = 1
      BY <2>2 DEF Entries
    <3>2. onchain = <<[gate |-> Dormant, forecast |-> 1, receipts |-> receipts]>>
      BY <3>1 DEF IntakeInit
    <3> QED BY <3>1, <3>2, DormantGate
  <2> QED BY <2>1, <2>2 DEF IntakeInit
<1> DEFINE x == [gate |-> gate, forecast |-> 1, receipts |-> receipts]
<1>3. /\ gate \in Gates /\ GateInvariants(gate) /\ gate.phase # SEALED
      /\ gate.epoch \in Nat /\ gate.revision \in Nat
      /\ gate.accepted = 0 /\ gate.pending = 0 /\ gate.material = 0
  <2>1. CASE gate = open
    BY <1>1, <2>1 DEF GateInvariants, TAKING, DORMANT, SEALED
  <2>2. CASE gate = Dormant
    BY <2>2, DormantGate DEF GateInvariants, TAKING, DORMANT, SEALED
  <2> QED BY <2>1, <2>2
<1> HIDE DEF open
<1>4. receipts \in [Addresses -> {DRAFT, PENDING, DISMISSED, MATERIAL}]
      /\ \A a \in Addresses : receipts[a] = DRAFT
  OBVIOUS
<1> HIDE DEF receipts
<1>5. x \in Slots /\ x.gate = gate /\ x.forecast = 1 /\ x.receipts = receipts
  BY <1>3, <1>4 DEF Slots
<1>6. onchain = <<x>>
  BY <1>2
<1> HIDE DEF x
<1>7. onchain \in Seq(Slots) /\ Len(onchain) = 1 /\ onchain[1] = x
  BY <1>5, <1>6
<1>8. Counted(x)
  <2>1. CASE gate.phase = DORMANT
    BY <1>4, <1>5, <2>1 DEF Counted, DRAFT, PENDING
  <2>2. CASE gate.phase # DORMANT
    <3>1. gate.epoch \in Epochs
      BY <1>3, <2>2, <1>5, OfEpoch
    <3>2. \A u \in Users : <<gate.epoch, u>> \in Addresses
      BY <3>1 DEF Addresses
    <3>3. With(x, PENDING) = {} /\ With(x, MATERIAL) = {} /\ Filed(x) = {}
      BY <1>4, <1>5, <3>2 DEF With, Filed, DRAFT, PENDING, MATERIAL
    <3> QED BY <1>3, <1>4, <1>5, <3>3, FS_EmptySet DEF Counted, DRAFT, PENDING
  <2> QED BY <2>1, <2>2
<1>9. OfProposal(x)
  BY <1>2, <1>5 DEF OfProposal
<1>10. History
  <2>1. SlotOK(x)
    BY <1>3, <1>5, <1>8, <1>9 DEF SlotOK
  <2>2. Chained
    BY <1>3, <1>5, <1>7 DEF Chained
  <2> QED BY <1>2, <1>7, <2>1, <2>2 DEF History
<1>11. Filings
  BY Bounds DEF IntakeInit, Filings
<1>12. Faithful(NoRequest)
  BY DEF Faithful, NoRequest
<1>13. request = [w \in Requesters |-> NoRequest] /\ final = Missing /\ alarms = {}
  BY DEF IntakeInit
<1> QED BY <1>10, <1>11, <1>12, <1>13 DEF IntakeInv, NoFalseAlarm

LEMMA Step ==
  ASSUME IntakeAssumption, IntakeInv, [IntakeNext]_intakevars PROVE IntakeInv'
<1>1. CASE CommitLocally
  BY <1>1, CommitStep
<1>2. CASE AdvanceGate
  BY <1>2, AdvanceStep
<1>3. CASE AdvanceGeneration
  BY <1>3, GenerationStep
<1>4. CASE \E u \in Users : Submit(u) \/ \E d \in {DISMISSED, MATERIAL} : ReviewReceipt(u, d)
  BY <1>4, SubmitStep, ReviewStep
<1>5. CASE \E c \in Candidates : Seal(c) \/ \E e \in Epochs : FinalizeLocally(c, e)
  BY <1>5, SealStep, FinalizeStep
<1>6. CASE \E w \in Requesters : Begin(w) \/ ObserveChain(w) \/ Write(w) \/ Fails(w)
  BY <1>6, BeginStep, ObserveStep, WriteStep, FailsStep
<1>7. CASE UNCHANGED intakevars
  BY <1>7, Stutters
<1> QED BY <1>1, <1>2, <1>3, <1>4, <1>5, <1>6, <1>7 DEF IntakeNext

-----------------------------------------------------------------------------
(***************************************************************************)
(* Theorems                                                                *)
(***************************************************************************)
\* The inductive invariant: what is filed and what is on its way is what the
\* chain had, and the chain's gates are chained, counted and of a proposal.
THEOREM Mirrored == IntakeAssumption /\ IntakeSpec => []IntakeInv
<1> SUFFICES ASSUME IntakeAssumption PROVE IntakeSpec => []IntakeInv
  OBVIOUS
<1>1. IntakeInit => IntakeInv
  BY Initially
<1>2. IntakeInv /\ [IntakeNext]_intakevars => IntakeInv'
  BY Step
<1> QED BY <1>1, <1>2, PTL DEF IntakeSpec

\* The mirror holds the past of the chain under the generation of its binding,
\* and every gate satisfies the accounts' own invariants (dispute_wire's
\* Accumulator::invariants; the upserts of intake_heads and its receipts).
THEOREM FiledAsHeld == IntakeAssumption /\ IntakeSpec => []FiledFromChain
<1>1. IntakeInv => FiledFromChain
  BY DEF IntakeInv, History, SlotOK, Filings, FiledFromChain
<1> QED BY <1>1, Mirrored, PTL

\* observe and import_receipt never refuse an honest chain as contradicting
\* itself, whichever slots their four reads are answered at.
THEOREM HonestChainRaisesNothing == IntakeAssumption /\ IntakeSpec => []NoFalseAlarm
<1>1. IntakeInv => NoFalseAlarm
  BY DEF IntakeInv
<1> QED BY <1>1, Mirrored, PTL

\* The finalization admission_guard_sql lets through is of the event the chain
\* sealed, with no receipt unreviewed and none of the epoch material.
THEOREM FinalIsSealed == IntakeAssumption /\ IntakeSpec => []FinalAsSealed
<1> SUFFICES ASSUME IntakeAssumption PROVE IntakeSpec => []FinalAsSealed
  OBVIOUS
<1>1. ASSUME IntakeInv PROVE FinalAsSealed
  <2> SUFFICES ASSUME final # Missing
               PROVE  /\ Now.gate.sealed = final
                      /\ \A a \in Addresses : Now.receipts[a] # PENDING /\
                           (a[1] = Now.gate.epoch => Now.receipts[a] # MATERIAL)
    BY DEF FinalAsSealed
  <2> DEFINE g == Now.gate
  <2>1. g.sealed = final /\ g.phase = SEALED
    BY <1>1 DEF IntakeInv
  <2>2. /\ Now \in Slots /\ GateInvariants(g) /\ Counted(Now) /\ g.epoch \in Nat
        /\ g.phase # DORMANT /\ ~(g.phase < SEALED)
    BY <1>1, <2>1, AtNow, SlotTypes DEF SEALED, DORMANT
  <2>3. Cardinality(With(Now, PENDING)) = 0 /\ Cardinality(With(Now, MATERIAL)) = 0
    BY <2>2 DEF Counted, GateInvariants
  <2>4. ASSUME NEW a \in Addresses
        PROVE  Now.receipts[a] # PENDING /\ (a[1] = g.epoch => Now.receipts[a] # MATERIAL)
    <3>1. a[1] \in Nat /\ a[2] \in Users /\ a = <<a[1], a[2]>>
      BY Bounds DEF Addresses, Epochs
    <3>2. CASE a[1] = g.epoch
      BY <2>3, <3>1, <3>2, NoneCounted
    <3>3. CASE a[1] # g.epoch
      BY <2>2, <3>1, <3>3 DEF Counted, DRAFT, PENDING
    <3> QED BY <3>2, <3>3
  <2> QED BY <2>1, <2>4
<1>2. IntakeInv => FinalAsSealed
  BY <1>1
<1>3. IntakeSpec => []IntakeInv
  BY Mirrored
<1> QED BY <1>2, <1>3, PTL

\* A late answer of a slow request does not undo what a later one filed (the
\* conditions of the upserts of intake_heads and intake_receipt_heads).
THEOREM FilingsOnlyAdvance == IntakeAssumption /\ IntakeSpec => NeverBackwards
<1> SUFFICES ASSUME IntakeAssumption PROVE IntakeSpec => NeverBackwards
  OBVIOUS
<1>1. ASSUME IntakeInv, [IntakeNext]_intakevars PROVE [NoStepBack]_intakevars
  <2>1. CASE UNCHANGED <<head, mirrored>>
    <3>1. head # Missing => head.slot \in Nat /\ head.gate.revision \in Nat
      <4> SUFFICES ASSUME head # Missing PROVE head.slot \in Nat /\ head.gate.revision \in Nat
        OBVIOUS
      <4>1. head.slot \in 1..Len(onchain) /\ head.gate = onchain[head.slot].gate
        BY <1>1 DEF IntakeInv, Filings
      <4>2. onchain[head.slot] \in Slots /\ Len(onchain) \in Nat
        BY <1>1, <4>1 DEF IntakeInv, History
      <4> QED BY <4>1, <4>2, SlotTypes
    <3> QED BY <2>1, <3>1 DEF NoStepBack
  <2>2. ASSUME NEW w \in Requesters, Write(w), ~UNCHANGED <<head, mirrored>> PROVE NoStepBack
    <3> DEFINE me == request[w]
    <3>1. /\ HeadAdvances(me) /\ (me.op = "import" => ReceiptAdvances(me))
          /\ head' = [generation |-> me.generation, slot |-> me.slot, gate |-> me.gate]
          /\ mirrored' = IF me.op = "import"
               THEN [mirrored EXCEPT ![me.address] = [slot |-> me.seen, status |-> me.status]]
               ELSE mirrored
      BY <2>2 DEF Write, mirror
    <3> HIDE DEF me
    <3>2. head # Missing => head'.slot >= head.slot /\ head'.gate.revision >= head.gate.revision
      BY <3>1 DEF HeadAdvances
    <3>3. ASSUME NEW a \in Addresses, mirrored[a] # Missing, mirrored[a].status # PENDING
          PROVE  mirrored'[a].status = mirrored[a].status
      <4>1. CASE me.op = "import" /\ a = me.address
        <5>1. me.status = mirrored[a].status
          BY <3>1, <3>3, <4>1 DEF ReceiptAdvances
        <5> DEFINE r == [slot |-> me.seen, status |-> me.status]
        <5>2. r.status = me.status
          OBVIOUS
        <5>3. mirrored' = [mirrored EXCEPT ![me.address] = r]
          BY <3>1, <4>1
        <5> HIDE DEF r
        <5>4. mirrored'[a] = r
          BY <1>1, <4>1, <5>3 DEF IntakeInv, Filings
        <5> QED BY <5>1, <5>2, <5>4
      <4>2. CASE ~(me.op = "import" /\ a = me.address)
        <5>1. mirrored'[a] = mirrored[a]
          BY <1>1, <3>1, <4>2 DEF IntakeInv, Filings
        <5> QED BY <5>1
      <4> QED BY <4>1, <4>2
    <3> QED BY <3>2, <3>3 DEF NoStepBack
  <2>3. UNCHANGED <<head, mirrored>> \/ \E w \in Requesters : Write(w)
    BY <1>1 DEF IntakeNext, intakevars, mirror, CommitLocally, AdvanceGate, AdvanceGeneration, Submit, ReviewReceipt, Seal,
               Moves, FinalizeLocally, Begin, ObserveChain, Fails
  <2> QED BY <2>1, <2>2, <2>3
<1>2. IntakeInv /\ [IntakeNext]_intakevars => [NoStepBack]_intakevars
  BY <1>1
<1>3. IntakeSpec => []IntakeInv
  BY Mirrored
<1> QED BY <1>2, <1>3, PTL DEF IntakeSpec, NeverBackwards

\* What the finalization of a record is admitted against is the past of the
\* chain, whatever requests overlap and however their answers are delayed.
THEOREM HoldsThePast == IntakeAssumption /\ IntakeSpec => MirrorsThePast
<1> SUFFICES ASSUME IntakeAssumption PROVE IntakeSpec => MirrorsThePast
  OBVIOUS
<1> QED BY FiledAsHeld, FinalIsSealed, HonestChainRaisesNothing, FilingsOnlyAdvance, PTL
        DEF MirrorsThePast
=============================================================================
