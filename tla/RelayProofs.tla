------------------------------ MODULE RelayProofs ------------------------------
(***************************************************************************)
(* The relay, for any number of overlapping passes, any length of history  *)
(* and whatever nodes lag, transactions are lost and passes are killed:    *)
(* the chain copies the record in order, a delivery is recorded as         *)
(* confirmed only when it and all before it are on the chain, no answer of *)
(* a lagging node is taken for a conflict, and a tracked record becomes    *)
(* final only when the chain's may.  Last, the ledger of the daily budget: *)
(* its condition is what keeps it, in whatever order the reads and the     *)
(* updates of overlapping deliveries come.                                 *)
(***************************************************************************)
EXTENDS Relay, DailySpend, FiniteSetTheorems, TLAPS

\* Intents and deliveries are queued together, none beyond the history, and
\* none of it is missing once the forecast is enrolled (the trigger
\* registry_intent_queue; backfill).
Tracked ==
  /\ \A r \in Revs : (delivery[r] = None) <=> (intents[r] = None)
  /\ \A r \in Revs : r > Len(log) => delivery[r] = None
  /\ enabled => \A r \in 1..Len(log) : delivery[r] # None

\* What is confirmed is on the chain, unleased, and so is all before it.
Copied ==
  \A r \in Confirmed : /\ r <= chain
                       /\ delivery[r].token = None
                       /\ 1..r \subseteq Confirmed

\* A pass has a revision in hand all of whose predecessors are confirmed, and
\* concludes that it is confirmed only if the chain has it.
Carried(p) ==
  p.pc # "idle" =>
    /\ p.row # None
    /\ enabled /\ p.rev \in 1..Len(log)
    /\ 1..(p.rev - 1) \subseteq Confirmed
    /\ p.pc = "concluding" /\ p.result = "confirmed" => p.rev <= chain
InHand == \A w \in Workers : Carried(worker[w])

\* Nothing is sent, and so nothing lands, that is not in the history.
Sent ==
  /\ chain <= Len(log)
  /\ \A s \in Signatures : txs[s] # None => s[1] <= Len(log)

\* What the gate recorded of the record as it stands is true of the chain and
\* stays so (prepare_finalization).
Gate ==
  observed # None =>
    /\ observed.rev <= Len(log)
    /\ observed.rev = Len(log) /\ observed.ready =>
         chain >= Len(log) /\ due # None /\ due <= 0

RelayInv == TypeOK /\ Tracked /\ Copied /\ InHand /\ Sent /\ Gate /\ FinalOnlyAfterChain

-----------------------------------------------------------------------------
(***************************************************************************)
(* The steps of a pass                                                     *)
(***************************************************************************)
Sendings == [Signatures -> Optional([fate : {"sent", "landed", "failed"}, life : 0..TxLife])]

\* Whatever a pass does to itself and to its transactions, the rest rests.
LEMMA PassAlone ==
  ASSUME RelayInv, NEW w \in Workers, NEW p \in Passes, Carried(p),
         worker' = [worker EXCEPT ![w] = p],
         UNCHANGED <<local, delivery, observed, chain, due, finalizer>>,
         txs' \in Sendings, faults' \in 0..MaxFaults,
         \A s \in Signatures : txs'[s] # None => s[1] <= Len(log)
  PROVE  RelayInv'
<1> USE DEF RelayInv, local
<1>1. TypeOK'
  <2>1. worker' \in [Workers -> Passes]
    BY DEF TypeOK
  <2> QED BY <2>1 DEF TypeOK, Sendings
<1>2. Tracked'
  BY DEF Tracked
<1>3. Confirmed' = Confirmed
  BY DEF Confirmed
<1>4. Copied'
  BY <1>3 DEF Copied
<1>5. InHand'
  <2> SUFFICES ASSUME NEW v \in Workers PROVE Carried(worker[v])'
    BY DEF InHand
  <2>1. worker'[v] = p \/ worker'[v] = worker[v]
    BY DEF TypeOK
  <2>2. Carried(worker[v])
    BY DEF InHand
  <2> QED BY <1>3, <2>1, <2>2 DEF Carried
<1>6. Sent'
  BY DEF Sent
<1>7. Gate' /\ FinalOnlyAfterChain'
  BY DEF Gate, FinalOnlyAfterChain
<1> QED BY <1>1, <1>2, <1>4, <1>5, <1>6, <1>7

LEMMA Bounds ==
  /\ MaxRev \in Nat /\ MaxRev >= 2 /\ MaxLate \in Nat /\ MaxFaults \in Nat
  /\ Lease \in Nat /\ Backoff \in Nat /\ Resend \in Nat /\ TxLife \in Nat /\ Challenge \in Nat
  /\ Lease >= 1 /\ Backoff >= 1 /\ Resend >= 1 /\ TxLife >= 1 /\ Challenge >= 1
  /\ Past \in Int /\ Past = 0 - MaxLate
  /\ \A t : t \in Retries <=> t \in Int /\ Past <= t /\ t <= Backoff + Challenge
BY RelayAssumption DEF Past, Retries

LEMMA IdleFits == Idle \in Passes /\ Carried(Idle)
BY Bounds DEF Idle, Passes, Carried, Optional

\* A pass ends with a verdict of its own, or with what it sent; it may say
\* that its revision is confirmed only when the chain has it.
LEMMA Concluding ==
  ASSUME RelayInv, NEW w \in Workers, worker[w].pc \in {"leased", "sending"},
         NEW result \in Verdicts, NEW retry \in Retries,
         result = "confirmed" => worker[w].rev <= chain,
         Conclude(w, result, retry),
         UNCHANGED <<local, delivery, observed, chain, due, finalizer>>,
         txs' \in Sendings, faults' \in 0..MaxFaults,
         \A s \in Signatures : txs'[s] # None => s[1] <= Len(log)
  PROVE  RelayInv'
<1> DEFINE p == [worker[w] EXCEPT !.pc = "concluding", !.result = result, !.retry = retry]
<1>1. worker[w] \in Passes /\ Carried(worker[w])
  BY DEF RelayInv, TypeOK, InHand
<1>2. /\ p \in Passes
      /\ p.pc = "concluding" /\ p.result = result
      /\ p.rev = worker[w].rev /\ p.row = worker[w].row
  BY <1>1 DEF Passes, Optional
<1>3. Carried(p)
  BY <1>1, <1>2 DEF Carried
<1>4. worker' = [worker EXCEPT ![w] = p]
  BY DEF Conclude
<1> HIDE DEF p
<1> QED BY <1>2, <1>3, <1>4, PassAlone

\* What the conjuncts say of one pass and its transactions.
LEMMA AtWork ==
  ASSUME RelayInv, NEW w \in Workers
  PROVE  /\ worker[w] \in Passes /\ Carried(worker[w])
         /\ txs \in Sendings /\ faults \in 0..MaxFaults
         /\ \A s \in Signatures : txs[s] # None => s[1] <= Len(log)
         /\ chain \in 0..MaxRev /\ chain <= Len(log)
         /\ due \in Optional(Past..Challenge)
BY DEF RelayInv, TypeOK, InHand, Sent, Sendings

LEMMA SelectedPass ==
  ASSUME NEW r, NEW row
  PROVE  [Idle EXCEPT !.pc = "selected", !.rev = r, !.row = row] \in
           [pc : {"selected"}, late : {0}, rev : {r}, row : {row}, sent : {None},
            result : {None}, retry : {Past}]
BY DEF Idle

LEMMA OnSync ==
  ASSUME RelayInv, NEW w \in Workers, Sync(w)
  PROVE  RelayInv'
<1>1. PICK r \in Revs :
        /\ Due(r, 0)
        /\ worker' = [worker EXCEPT ![w] =
             [Idle EXCEPT !.pc = "selected", !.rev = r, !.row = Selected(delivery[r])]]
  BY DEF Sync
<1> DEFINE p == [Idle EXCEPT !.pc = "selected", !.rev = r, !.row = Selected(delivery[r])]
<1>2. delivery[r] \in Rows /\ Open(delivery[r]) /\ r \in 1..Len(log)
  BY <1>1 DEF RelayInv, TypeOK, Tracked, Due, Optional, Revs
<1>3. Selected(delivery[r]) \in Selections /\ Selected(delivery[r]) # None
  BY <1>2, ValuesAssumption DEF Selected, Selections, Rows, Open
<1>4. /\ p \in Passes
      /\ p.pc = "selected" /\ p.rev = r /\ p.row = Selected(delivery[r])
  <2>1. p \in [pc : {"selected"}, late : {0}, rev : {r}, row : {Selected(delivery[r])},
               sent : {None}, result : {None}, retry : {Past}]
    BY SelectedPass
  <2>2. r \in 0..MaxRev /\ 0 \in 0..MaxLate /\ Past \in Retries
    BY Bounds DEF Revs
  <2> HIDE DEF p
  <2> QED BY <1>3, <2>1, <2>2 DEF Passes, Optional
<1>5. 1..(r - 1) \subseteq Confirmed
  <2> SUFFICES ASSUME NEW q \in 1..(r - 1) PROVE q \in Confirmed
    OBVIOUS
  <2>1. q \in Revs /\ q \in 1..Len(log)
    BY <1>2, Bounds DEF Revs, RelayInv, TypeOK
  <2>2. delivery[q] # None
    BY <2>1 DEF RelayInv, Tracked, Sync
  <2> QED BY <1>1, <2>1, <2>2 DEF Due, PredecessorsConfirmed, Confirmed
<1>6. Carried(p)
  BY <1>2, <1>3, <1>4, <1>5 DEF Carried, Sync
<1>7. worker' = [worker EXCEPT ![w] = p]
  BY <1>1
<1> HIDE DEF p
<1> QED BY <1>4, <1>6, <1>7, AtWork, PassAlone DEF Sync

LEMMA OnObserve ==
  ASSUME RelayInv, NEW w \in Workers, Observe(w)
  PROVE  RelayInv'
<1> DEFINE me == worker[w]
<1>1. PICK view \in Views :
       IF ~Faithful(me.rev) THEN Conclude(w, "local_intent_mismatch", Past)
       ELSE IF Stale(view) THEN Conclude(w, "chain_observation_stale", Backoff - me.late)
       ELSE IF view = 0 /\ me.rev # 1 THEN Conclude(w, "chain_predecessor_missing", Past)
       ELSE IF view = me.rev THEN Conclude(w, "confirmed", Past)
       ELSE IF view # me.rev - 1 THEN Conclude(w, "chain_revision_mismatch", Past)
       ELSE IF log[me.rev] = "FINALIZED" /\ due # None /\ due + me.late > 0
            THEN Conclude(w, "chain_challenge_pending", due)
       ELSE IF Awaited(me) THEN Conclude(w, "transaction_pending", Backoff - me.late)
       ELSE worker' = [worker EXCEPT ![w] = [@ EXCEPT !.pc = "sending"]]
  BY DEF Observe
<1>2. /\ UNCHANGED <<local, delivery, observed, chain, due, txs, finalizer, faults>>
      /\ me.pc = "leased"
  BY DEF Observe
<1>3. me \in Passes /\ Carried(me) /\ me.late \in 0..MaxLate /\ view <= chain
  <2>1. me \in Passes /\ Carried(me)
    BY AtWork
  <2>2. view <= chain
    BY <1>1, AtWork, Bounds DEF Views
  <2> QED BY <2>1, <2>2 DEF Passes
<1>4. /\ Past \in Retries /\ Backoff - me.late \in Retries
      /\ due # None => due \in Retries
  <2>1. Past \in Retries
    BY Bounds
  <2>2. Backoff - me.late \in Int /\ Past <= Backoff - me.late /\ Backoff - me.late <= Backoff + Challenge
    BY <1>3, Bounds
  <2>3. due # None => due \in Int /\ Past <= due /\ due <= Challenge
    BY AtWork, Bounds DEF Optional
  <2> HIDE DEF me
  <2> QED BY <2>1, <2>2, <2>3, Bounds
<1>5. CASE \E result \in Verdicts, retry \in Retries :
             Conclude(w, result, retry) /\ (result = "confirmed" => me.rev <= chain)
  BY <1>2, <1>5, AtWork, Concluding
<1>6. CASE worker' = [worker EXCEPT ![w] = [@ EXCEPT !.pc = "sending"]]
  <2> DEFINE p == [me EXCEPT !.pc = "sending"]
  <2>1. /\ p \in Passes /\ p.pc = "sending" /\ p.rev = me.rev /\ p.row = me.row
    BY <1>3 DEF Passes
  <2>2. Carried(p)
    BY <1>2, <1>3, <2>1 DEF Carried
  <2>3. worker' = [worker EXCEPT ![w] = p]
    BY <1>6
  <2> HIDE DEF p
  <2> QED BY <1>2, <2>1, <2>2, <2>3, AtWork, PassAlone
<1>7. \/ \E result \in Verdicts, retry \in Retries :
             Conclude(w, result, retry) /\ (result = "confirmed" => me.rev <= chain)
      \/ worker' = [worker EXCEPT ![w] = [@ EXCEPT !.pc = "sending"]]
  <2>1. {"local_intent_mismatch", "chain_observation_stale", "chain_predecessor_missing",
         "confirmed", "chain_revision_mismatch", "chain_challenge_pending",
         "transaction_pending"} \subseteq Verdicts
    BY DEF Verdicts
  <2>2. view = me.rev => me.rev <= chain
    BY <1>3
  <2> HIDE DEF me
  <2> QED BY <1>1, <1>4, <2>1, <2>2
<1> QED BY <1>5, <1>6, <1>7

LEMMA OnWithheld ==
  ASSUME RelayInv, NEW w \in Workers, Withheld(w)
  PROVE  RelayInv'
<1>1. Past \in Retries /\ "resolution_eligibility_blocked" \in Verdicts
  BY Bounds DEF Verdicts
<1> QED BY <1>1, AtWork, Concluding DEF Withheld

\* A transaction goes out for the revision a pass has in hand.
LEMMA SendingOut ==
  ASSUME RelayInv, NEW w \in Workers, worker[w].pc = "sending",
         NEW n \in Unused(worker[w].rev),
         txs' = [txs EXCEPT ![<<worker[w].rev, n>>] = [fate |-> "sent", life |-> TxLife]]
  PROVE  /\ <<worker[w].rev, n>> \in Signatures
         /\ txs' \in Sendings
         /\ \A s \in Signatures : txs'[s] # None => s[1] <= Len(log)
<1>1. worker[w].rev \in 1..Len(log) /\ worker[w].rev \in Revs
  <2>1. worker[w].rev \in 1..Len(log)
    BY AtWork DEF Carried
  <2>2. Len(log) \in 1..MaxRev
    BY DEF RelayInv, TypeOK, Revs
  <2> QED BY <2>1, <2>2, Bounds DEF Revs
<1>2. <<worker[w].rev, n>> \in Signatures
  BY <1>1 DEF Signatures, Unused
<1>3. [fate |-> "sent", life |-> TxLife] \in [fate : {"sent", "landed", "failed"}, life : 0..TxLife]
  BY Bounds
<1>4. txs' \in Sendings
  BY <1>2, <1>3, AtWork DEF Sendings, Optional
<1>5. ASSUME NEW s \in Signatures, txs'[s] # None PROVE s[1] <= Len(log)
  <2>1. CASE s = <<worker[w].rev, n>>
    BY <1>1, <2>1
  <2>2. CASE s # <<worker[w].rev, n>>
    BY <1>2, <1>5, <2>2, AtWork DEF Sendings
  <2> QED BY <2>1, <2>2
<1> QED BY <1>2, <1>4, <1>5

LEMMA OnSend ==
  ASSUME RelayInv, NEW w \in Workers, Send(w)
  PROVE  RelayInv'
<1>1. /\ worker[w].pc = "sending"
      /\ UNCHANGED <<local, delivery, observed, chain, due, finalizer, faults>>
      /\ Past \in Retries /\ "transport" \in Verdicts
      /\ faults' \in 0..MaxFaults
  <2>1. /\ worker[w].pc = "sending"
        /\ UNCHANGED <<local, delivery, observed, chain, due, finalizer, faults>>
    BY DEF Send
  <2>2. Past \in Retries /\ "transport" \in Verdicts
    BY Bounds DEF Verdicts
  <2> QED BY <2>1, <2>2, AtWork
<1>2. CASE Conclude(w, "transport", Past) /\ UNCHANGED txs
  BY <1>1, <1>2, AtWork, Concluding
<1>3. ASSUME NEW n \in Unused(worker[w].rev),
             txs' = [txs EXCEPT ![<<worker[w].rev, n>>] = [fate |-> "sent", life |-> TxLife]],
             worker' = [worker EXCEPT ![w] =
               [@ EXCEPT !.pc = "concluding", !.sent = <<worker[w].rev, n>>, !.result = "sent"]]
      PROVE  RelayInv'
  <2> DEFINE p == [worker[w] EXCEPT !.pc = "concluding", !.sent = <<worker[w].rev, n>>,
                                    !.result = "sent"]
  <2>1. /\ <<worker[w].rev, n>> \in Signatures
        /\ txs' \in Sendings
        /\ \A s \in Signatures : txs'[s] # None => s[1] <= Len(log)
    BY <1>1, <1>3, SendingOut
  <2>2. worker[w] \in Passes /\ Carried(worker[w])
    BY AtWork
  <2>3. /\ p \in Passes /\ p.result = "sent"
        /\ p.rev = worker[w].rev /\ p.row = worker[w].row
    BY <2>1, <2>2 DEF Passes, Optional
  <2>4. Carried(p)
    BY <1>1, <2>2, <2>3 DEF Carried
  <2>5. worker' = [worker EXCEPT ![w] = p]
    BY <1>3
  <2> HIDE DEF p
  <2> QED BY <1>1, <2>1, <2>3, <2>4, <2>5, PassAlone
<1> QED BY <1>2, <1>3 DEF Send

LEMMA OnTransportFails ==
  ASSUME RelayInv, NEW w \in Workers, TransportFails(w)
  PROVE  RelayInv'
<1>1. /\ worker[w].pc \in {"leased", "sending"}
      /\ Conclude(w, "transport", Past)
      /\ UNCHANGED <<local, delivery, observed, chain, due, finalizer>>
      /\ Past \in Retries /\ "transport" \in Verdicts /\ "transport" # "confirmed"
      /\ faults' \in 0..MaxFaults
  BY AtWork, Bounds DEF TransportFails, Fault, Verdicts
<1>2. /\ txs' \in Sendings
      /\ \A s \in Signatures : txs'[s] # None => s[1] <= Len(log)
  <2>1. CASE UNCHANGED txs
    BY <2>1, AtWork
  <2>2. CASE /\ worker[w].pc = "sending"
             /\ \E n \in Unused(worker[w].rev) :
                  txs' = [txs EXCEPT ![<<worker[w].rev, n>>] = [fate |-> "sent", life |-> TxLife]]
    BY <2>2, SendingOut
  <2> QED BY <2>1, <2>2 DEF TransportFails
<1> QED BY <1>1, <1>2, Concluding

LEMMA OnKilled ==
  ASSUME RelayInv, NEW w \in Workers, Killed(w)
  PROVE  RelayInv'
<1>1. faults' \in 0..MaxFaults
  BY AtWork, Bounds DEF Killed, Fault
<1> QED BY <1>1, AtWork, IdleFits, PassAlone DEF Killed

-----------------------------------------------------------------------------
(***************************************************************************)
(* The steps that write a delivery                                         *)
(***************************************************************************)
\* The set of confirmed revisions, of whatever the deliveries are.
LEMMA ConfirmedOf ==
  \A r : r \in Confirmed <=> r \in Revs /\ delivery[r] # None /\ delivery[r].status = "confirmed"
BY DEF Confirmed

\* A row is written for a revision that was not confirmed, and if it is now,
\* the chain has it and all before it were.
Justified(r, row) ==
  row.status = "confirmed" => row.token = None /\ r <= chain /\ 1..(r - 1) \subseteq Confirmed

LEMMA RowWritten ==
  ASSUME RelayInv, NEW w \in Workers, NEW p \in Passes, Carried(p),
         NEW r \in 1..Len(log), NEW row \in Rows,
         delivery[r] # None, r \notin Confirmed, Justified(r, row),
         delivery' = [delivery EXCEPT ![r] = row],
         worker' = [worker EXCEPT ![w] = p],
         UNCHANGED <<local, observed, chain, due, txs, finalizer, faults>>
  PROVE  /\ RelayInv'
         /\ Confirmed' = IF row.status = "confirmed" THEN Confirmed \union {r} ELSE Confirmed
<1> USE DEF local
<1>1. /\ r \in Revs /\ row # None
      /\ delivery \in [Revs -> Optional(Rows)]
      /\ Revs \subseteq Nat
  BY ValuesAssumption, Bounds DEF RelayInv, TypeOK, Revs
<1>2. Confirmed' = IF row.status = "confirmed" THEN Confirmed \union {r} ELSE Confirmed
  BY <1>1 DEF Confirmed
<1>3. Confirmed \subseteq Confirmed'
  BY <1>2
<1>4. TypeOK'
  <2>1. delivery' \in [Revs -> Optional(Rows)]
    BY <1>1 DEF Optional
  <2>2. worker' \in [Workers -> Passes]
    BY DEF RelayInv, TypeOK
  <2> QED BY <2>1, <2>2 DEF RelayInv, TypeOK
<1>5. Tracked'
  BY <1>1 DEF RelayInv, Tracked
<1>6. Copied'
  <2> SUFFICES ASSUME NEW q \in Confirmed'
               PROVE  q <= chain /\ delivery'[q].token = None /\ 1..q \subseteq Confirmed'
    BY DEF Copied
  <2>1. CASE q = r /\ row.status = "confirmed"
    <3>1. 1..r \subseteq (1..(r - 1)) \union {r}
      BY <1>1
    <3> QED BY <1>1, <1>2, <2>1, <3>1 DEF Justified
  <2>2. CASE q \in Confirmed
    <3>1. q # r /\ delivery'[q] = delivery[q]
      BY <1>1, <2>2 DEF Confirmed
    <3>2. q <= chain /\ delivery[q].token = None /\ 1..q \subseteq Confirmed
      BY <2>2 DEF RelayInv, Copied
    <3> QED BY <1>3, <3>1, <3>2
  <2> QED BY <1>2, <2>1, <2>2
<1>7. InHand'
  <2> SUFFICES ASSUME NEW v \in Workers PROVE Carried(worker[v])'
    BY DEF InHand
  <2>1. worker'[v] = p \/ worker'[v] = worker[v]
    BY DEF RelayInv, TypeOK
  <2>2. Carried(worker[v])
    BY AtWork
  <2> QED BY <1>3, <2>1, <2>2 DEF Carried
<1>8. Sent' /\ Gate' /\ FinalOnlyAfterChain'
  BY DEF RelayInv, Sent, Gate, FinalOnlyAfterChain
<1> QED BY <1>2, <1>4, <1>5, <1>6, <1>7, <1>8 DEF RelayInv

\* A pass that is under way has a row to write, and knows what it selected.
LEMMA RowInHand ==
  ASSUME RelayInv, NEW w \in Workers, worker[w].pc # "idle"
  PROVE  /\ enabled /\ worker[w].rev \in 1..Len(log) /\ worker[w].rev \in Revs
         /\ delivery[worker[w].rev] \in Rows /\ delivery[worker[w].rev] # None
         /\ worker[w].row \in Selections
         /\ 1..(worker[w].rev - 1) \subseteq Confirmed
<1>1. /\ worker[w].rev \in 1..Len(log) /\ worker[w].row # None
      /\ 1..(worker[w].rev - 1) \subseteq Confirmed /\ enabled
  BY AtWork DEF Carried
<1>2. worker[w].rev \in Revs
  BY <1>1, Bounds DEF RelayInv, TypeOK, Revs
<1>3. delivery[worker[w].rev] # None
  BY <1>1 DEF RelayInv, Tracked
<1>4. delivery[worker[w].rev] \in Rows
  BY <1>2, <1>3 DEF RelayInv, TypeOK, Optional
<1>5. worker[w].row \in Selections
  BY <1>1, AtWork DEF Passes, Optional
<1> QED BY <1>1, <1>2, <1>3, <1>4, <1>5

LEMMA OnClaim ==
  ASSUME RelayInv, NEW w \in Workers, Claim(w)
  PROVE  RelayInv' /\ Confirmed' = Confirmed
<1> DEFINE me == worker[w]
           r  == me.rev
           was == delivery[r]
           row == [was EXCEPT !.token = w, !.lease = Lease - me.late]
           p   == [me EXCEPT !.pc = "leased"]
<1>1. /\ me \in Passes /\ Carried(me) /\ me.pc = "selected" /\ me.late \in 0..MaxLate
      /\ r \in 1..Len(log) /\ was \in Rows /\ was # None
  <2>1. me.pc = "selected"
    BY DEF Claim
  <2> QED BY <2>1, AtWork, RowInHand DEF Passes
<1>2. CASE Open(was) /\ was.lease + me.late <= 0
  <2>1. /\ delivery' = [delivery EXCEPT ![r] = row]
        /\ worker' = [worker EXCEPT ![w] = p]
        /\ UNCHANGED <<local, observed, chain, due, txs, finalizer, faults>>
    BY <1>2 DEF Claim
  <2>2. /\ p \in Passes /\ p.pc = "leased" /\ p.rev = r /\ p.row = me.row
    BY <1>1 DEF Passes
  <2>3. Carried(p)
    BY <1>1, <2>2 DEF Carried
  <2>4. Lease - me.late \in Past..Lease
    BY <1>1, Bounds, SMTT(20)
  <2>5. row \in Rows /\ row.status = was.status
    BY <1>1, <2>4 DEF Rows, Optional
  <2>6. was.status # "confirmed"
    BY <1>2 DEF Open
  <2>7. r \notin Confirmed /\ Justified(r, row)
    BY <2>5, <2>6 DEF Confirmed, Justified
  <2> HIDE DEF row, p
  <2>8. /\ RelayInv'
        /\ Confirmed' = IF row.status = "confirmed" THEN Confirmed \union {r} ELSE Confirmed
    <3> HIDE DEF me, r, was
    <3>1. delivery[r] # None
      BY <1>1 DEF was
    <3>2. worker' = [worker EXCEPT ![w] = p] /\ delivery' = [delivery EXCEPT ![r] = row]
      BY <2>1
    <3>3. /\ p \in Passes /\ Carried(p) /\ r \in 1..Len(log) /\ row \in Rows
          /\ r \notin Confirmed /\ Justified(r, row)
          /\ UNCHANGED <<local, observed, chain, due, txs, finalizer, faults>>
      BY <1>1, <2>1, <2>2, <2>3, <2>5, <2>7, Zenon
    <3> QED BY <3>1, <3>2, <3>3, RowWritten, Zenon
  <2> QED BY <2>5, <2>6, <2>8
<1>3. CASE ~(Open(was) /\ was.lease + me.late <= 0)
  <2>1. RelayInv'
    BY <1>3, AtWork, IdleFits, PassAlone DEF Claim
  <2>2. UNCHANGED delivery
    BY <1>3 DEF Claim
  <2> QED BY <2>1, <2>2 DEF Confirmed
<1> QED BY <1>2, <1>3

LEMMA FreeRow ==
  ASSUME NEW row \in Rows
  PROVE  Free(row) \in Rows /\ Free(row).token = None /\ Free(row).status = row.status
<1>1. Past \in Past..Lease
  BY Bounds
<1> QED BY <1>1 DEF Free, Rows, Optional

\* The outcome of a pass leaves what is confirmed, or adds the revision it had
\* in hand, the next one.
LEMMA OnFinish ==
  ASSUME RelayInv, NEW w \in Workers, Finish(w)
  PROVE  /\ RelayInv'
         /\ \/ Confirmed' = Confirmed
            \/ \E r \in 1..chain : /\ Confirmed' = Confirmed \union {r}
                                   /\ r \notin Confirmed /\ 1..(r - 1) \subseteq Confirmed
<1> DEFINE me == worker[w]
           r  == me.rev
           was == delivery[r]
<1>1. /\ me \in Passes /\ Carried(me) /\ me.pc = "concluding"
      /\ me.late \in 0..MaxLate /\ me.retry \in Retries
      /\ me.result \in Optional(Verdicts \union {"sent"})
      /\ me.sent \in Optional(Signatures)
      /\ r \in 1..Len(log) /\ was \in Rows /\ was # None
      /\ me.row.status \in {"pending", "submitted"}
      /\ 1..(r - 1) \subseteq Confirmed
      /\ me.result = "confirmed" => r <= chain
  <2>1. me.pc = "concluding"
    BY DEF Finish
  <2>2. me \in Passes /\ Carried(me)
    BY AtWork
  <2>3. me.result = "confirmed" => r <= chain
    BY <2>1, <2>2 DEF Carried
  <2>4. me.row.status \in {"pending", "submitted"}
    BY <2>1, RowInHand DEF Selections
  <2> QED BY <2>1, <2>2, <2>3, <2>4, RowInHand DEF Passes
<1>2. worker' = [worker EXCEPT ![w] = Idle]
      /\ UNCHANGED <<local, observed, chain, due, txs, finalizer, faults>>
  BY DEF Finish
<1>3. ASSUME Holds(w), NEW row \in Rows, Justified(r, row),
             delivery' = [delivery EXCEPT ![r] = row]
      PROVE  /\ RelayInv'
             /\ \/ Confirmed' = Confirmed
                \/ \E q \in 1..chain : /\ Confirmed' = Confirmed \union {q}
                                       /\ q \notin Confirmed /\ 1..(q - 1) \subseteq Confirmed
  <2>1. was.token = w /\ w # None
    BY <1>3, RelayAssumption DEF Holds
  <2>2. r \notin Confirmed
    BY <2>1 DEF RelayInv, Copied
  <2>3. /\ RelayInv'
        /\ Confirmed' = IF row.status = "confirmed" THEN Confirmed \union {r} ELSE Confirmed
    <3> HIDE DEF me
    <3> QED BY <1>1, <1>2, <1>3, <2>2, IdleFits, RowWritten DEF me
  <2>4. row.status = "confirmed" => r \in 1..chain
    BY <1>1, <1>3, AtWork, Bounds DEF Justified
  <2> QED BY <1>1, <2>2, <2>3, <2>4
<1>4. Free(was) \in Rows /\ Free(was).token = None /\ Free(was).status = was.status
  BY <1>1, FreeRow
<1>5. CASE ~Holds(w)
  <2>1. UNCHANGED delivery
    BY <1>5 DEF Finish
  <2>2. RelayInv'
    BY <1>2, <2>1, AtWork, IdleFits, PassAlone
  <2> QED BY <2>1, <2>2 DEF Confirmed
<1>6. CASE Holds(w) /\ me.result = "confirmed"
  <2> DEFINE row == [Free(was) EXCEPT !.status = "confirmed", !.error = None]
  <2>1. row \in Rows /\ row.token = None
    BY <1>4 DEF Rows, Optional
  <2>2. delivery' = [delivery EXCEPT ![r] = row]
    BY <1>6 DEF Finish
  <2>3. Justified(r, row)
    BY <1>1, <1>6, <2>1 DEF Justified
  <2> HIDE DEF row
  <2> QED BY <1>3, <1>6, <2>1, <2>2, <2>3
<1>7. CASE Holds(w) /\ me.result # "confirmed" /\ me.result = "sent"
  <2> DEFINE row == Submitted(me, was)
  <2>1. me.late \in Ages /\ 1 - me.late \in Retries
    BY <1>1, Bounds, SMTT(20) DEF Ages
  <2>2. row \in Rows /\ row.status = "submitted"
    BY <1>1, <1>4, <2>1 DEF Submitted, Rows, Optional
  <2>3. delivery' = [delivery EXCEPT ![r] = row]
    BY <1>7 DEF Finish
  <2>4. Justified(r, row)
    BY <2>2 DEF Justified
  <2> HIDE DEF row
  <2> QED BY <1>3, <1>7, <2>2, <2>3, <2>4
<1>8. CASE Holds(w) /\ me.result # "confirmed" /\ me.result # "sent"
  <2> DEFINE row == Released(me, was)
  <2>1. me.result \in Optional(Verdicts)
    BY <1>1, <1>8 DEF Optional
  <2>2. row \in Rows /\ row.status # "confirmed"
    BY <1>1, <1>4, <2>1 DEF Released, Rows
  <2>3. delivery' = [delivery EXCEPT ![r] = row]
    BY <1>8 DEF Finish
  <2>4. Justified(r, row)
    BY <2>2 DEF Justified
  <2> HIDE DEF row
  <2> QED BY <1>3, <1>8, <2>2, <2>3, <2>4
<1> QED BY <1>5, <1>6, <1>7, <1>8

-----------------------------------------------------------------------------
(***************************************************************************)
(* The chain                                                               *)
(***************************************************************************)
\* An account that takes the next revision has it from the history, and what
\* it then says of its deadline is no less true of the record as it stands.
LEMMA OnExecute ==
  ASSUME RelayInv, NEW s \in Signatures, Execute(s)
  PROVE  /\ RelayInv'
         /\ chain' = chain \/ (chain' = chain + 1 /\ chain < Len(log))
<1> USE DEF RelayInv
<1>1. /\ s[1] \in Nat /\ s[1] <= Len(log) /\ txs[s] # None
      /\ chain \in Nat /\ Len(log) \in 1..MaxRev
      /\ due # None => due \in Past..Challenge
      /\ txs[s] \in [fate : {"sent", "landed", "failed"}, life : 0..TxLife]
  BY Bounds, SMTT(20) DEF Execute, TypeOK, Sent, Signatures, Revs, Optional
<1>2. /\ chain' = chain \/ (chain' = chain + 1 /\ chain' = s[1] /\ ~(log[s[1]] = "FINALIZED" /\ due # None /\ due > 0))
      /\ txs' \in Sendings
      /\ \A t \in Signatures : txs'[t] # None => txs[t] # None
      /\ due' \in Optional(Past..Challenge)
      /\ due' = due \/ (chain' = s[1] /\ chain' = chain + 1 /\ log[s[1]] = "CHALLENGE" /\ due' # None)
  <2>1. txs \in Sendings
    BY DEF TypeOK, Sendings
  <2>2. ASSUME NEW fate \in {"landed", "failed"}, txs' = [txs EXCEPT ![s].fate = fate, ![s].life = 0]
        PROVE  txs' \in Sendings /\ \A t \in Signatures : txs'[t] # None => txs[t] # None
    <3>1. [[txs[s] EXCEPT !.fate = fate] EXCEPT !.life = 0]
             \in [fate : {"sent", "landed", "failed"}, life : 0..TxLife]
      <4>1. 0 \in 0..TxLife
        BY Bounds
      <4> QED BY <1>1, <4>1
    <3>2. txs' = [txs EXCEPT ![s] = [[txs[s] EXCEPT !.fate = fate] EXCEPT !.life = 0]]
      BY <2>1, <2>2 DEF Sendings
    <3> QED BY <1>1, <2>1, <3>1, <3>2 DEF Sendings, Optional
  <2>3. CASE s[1] = chain + 1 /\ ~(log[s[1]] = "FINALIZED" /\ due # None /\ due > 0)
    <3>1. chain' = s[1] /\ txs' = [txs EXCEPT ![s].fate = "landed", ![s].life = 0]
      BY <2>3 DEF Execute
    <3>2. CASE log[s[1]] = "CHALLENGE"
      <4>1. PICK d \in {Challenge} \union ({due} \ {None}) : due' = d
        BY <2>3, <3>2 DEF Execute
      <4>2. d # None /\ d \in Past..Challenge
        BY <1>1, <4>1, Bounds, RelayAssumption
      <4> QED BY <2>2, <2>3, <3>1, <3>2, <4>1, <4>2 DEF Optional
    <3>3. CASE log[s[1]] # "CHALLENGE"
      <4>1. due' = due
        BY <2>3, <3>3 DEF Execute
      <4> QED BY <1>1, <2>2, <2>3, <3>1, <4>1 DEF TypeOK, Optional
    <3> QED BY <3>2, <3>3
  <2>4. CASE ~(s[1] = chain + 1 /\ ~(log[s[1]] = "FINALIZED" /\ due # None /\ due > 0))
    <3>1. chain' = chain /\ due' = due /\ txs' = [txs EXCEPT ![s].fate = "failed", ![s].life = 0]
      BY <2>4 DEF Execute
    <3> QED BY <2>2, <3>1 DEF TypeOK, Optional
  <2> QED BY <2>3, <2>4
<1>3. UNCHANGED <<log, early, intents, delivery, enabled, observed, worker, finalizer, gated, faults>>
  BY DEF Execute, local
<1>4. chain' \in 0..MaxRev /\ chain <= chain' /\ chain' <= Len(log)
  BY <1>1, <1>2, Bounds DEF TypeOK, Sent
<1>5. TypeOK'
  BY <1>2, <1>3, <1>4 DEF TypeOK, Sendings
<1>6. Tracked' /\ Confirmed' = Confirmed
  BY <1>3 DEF Tracked, Confirmed
<1>7. Copied'
  <2> SUFFICES ASSUME NEW q \in Confirmed
               PROVE  q <= chain' /\ delivery[q].token = None /\ 1..q \subseteq Confirmed
    BY <1>3, <1>6 DEF Copied
  <2>1. q \in Nat
    BY DEF Confirmed, Revs
  <2> QED BY <1>1, <1>4, <2>1 DEF Copied
<1>8. InHand'
  <2> SUFFICES ASSUME NEW v \in Workers PROVE Carried(worker[v])'
    BY DEF InHand
  <2>1. Carried(worker[v]) /\ worker[v].rev \in 0..MaxRev
    BY AtWork DEF Passes
  <2> QED BY <1>1, <1>3, <1>4, <1>6, <2>1 DEF Carried
<1>9. Sent'
  BY <1>2, <1>3, <1>4 DEF Sent
<1>10. Gate'
  BY <1>1, <1>2, <1>3, <1>4 DEF Gate
<1>11. FinalOnlyAfterChain'
  BY <1>1, <1>2, <1>3, <1>4 DEF FinalOnlyAfterChain
<1>12. chain' = chain \/ (chain' = chain + 1 /\ chain < Len(log))
  BY <1>1, <1>2
<1> QED BY <1>5, <1>6, <1>7, <1>8, <1>9, <1>10, <1>11, <1>12

LEMMA OnLose ==
  ASSUME RelayInv, NEW s \in Signatures, Lose(s)
  PROVE  RelayInv'
<1> USE DEF RelayInv
<1>1. /\ txs[s] \in [fate : {"sent", "landed", "failed"}, life : 0..TxLife]
      /\ txs[s] # None /\ txs \in Sendings /\ 0 \in 0..TxLife
      /\ faults' \in 0..MaxFaults
  BY Bounds, SMTT(20) DEF Lose, TypeOK, Optional, Sendings, Fault
<1>2. UNCHANGED <<local, delivery, observed, chain, due, worker, finalizer>>
  BY DEF Lose
<1>3. [[txs[s] EXCEPT !.fate = "failed"] EXCEPT !.life = 0]
        \in [fate : {"sent", "landed", "failed"}, life : 0..TxLife]
  BY <1>1
<1>4. txs' = [txs EXCEPT ![s] = [[txs[s] EXCEPT !.fate = "failed"] EXCEPT !.life = 0]]
  BY <1>1 DEF Lose, Sendings
<1>5. txs' \in Sendings /\ \A t \in Signatures : txs'[t] # None => txs[t] # None
  BY <1>1, <1>3, <1>4 DEF Sendings, Optional
<1>6. TypeOK'
  BY <1>1, <1>2, <1>5 DEF TypeOK, Sendings, local
<1>7. Tracked' /\ Confirmed' = Confirmed
  BY <1>2 DEF Tracked, Confirmed, local
<1>8. Copied'
  BY <1>2, <1>7 DEF Copied
<1>9. InHand'
  BY <1>2, <1>7 DEF InHand, Carried, local
<1>10. Sent'
  BY <1>2, <1>5 DEF Sent, local
<1>11. Gate' /\ FinalOnlyAfterChain'
  BY <1>2 DEF Gate, FinalOnlyAfterChain, local
<1> QED BY <1>6, <1>7, <1>8, <1>9, <1>10, <1>11

-----------------------------------------------------------------------------
(***************************************************************************)
(* Time                                                                    *)
(***************************************************************************)
LEMMA LeftTyped ==
  /\ \A t \in Past..Lease : Left(t) \in Past..Lease
  /\ \A t \in Past..Challenge : Left(t) \in Past..Challenge /\ Left(t) <= t
  /\ \A t \in Retries : Left(t) \in Retries
  /\ \A t \in Ages : Aged(t) \in Ages
<1>1. \A t \in Past..Lease : Left(t) \in Past..Lease
  BY Bounds DEF Left
<1>2. \A t \in Past..Challenge : Left(t) \in Past..Challenge /\ Left(t) <= t
  BY Bounds DEF Left
<1>3. \A t \in Retries : Left(t) \in Retries
  <2> SUFFICES ASSUME NEW t \in Retries PROVE Left(t) \in Retries
    OBVIOUS
  <2>1. t \in Int /\ Past <= t /\ t <= Backoff + Challenge
    BY Bounds
  <2>2. Left(t) \in Int /\ Past <= Left(t) /\ Left(t) <= Backoff + Challenge
    BY <2>1, Bounds DEF Left
  <2> QED BY <2>2, Bounds
<1>4. \A t \in Ages : Aged(t) \in Ages
  BY Bounds DEF Aged, Ages
<1> QED BY <1>1, <1>2, <1>3, <1>4

\* A row ages, and nothing else becomes of it.
LEMMA RowAges ==
  ASSUME NEW row \in Rows
  PROVE  LET old == [row EXCEPT !.lease = Left(@), !.retry = Left(@),
                                !.age = IF row.signature = None THEN @ ELSE Aged(@)]
         IN /\ old \in Rows /\ old.status = row.status /\ old.token = row.token
            /\ old.error = row.error
<1>1. /\ Left(row.lease) \in Past..Lease /\ Left(row.retry) \in Retries
      /\ (IF row.signature = None THEN row.age ELSE Aged(row.age)) \in Ages
  BY LeftTyped DEF Rows
<1> HIDE DEF Rows
<1> DEFINE l == Left(row.lease)
           t == Left(row.retry)
           a == IF row.signature = None THEN row.age ELSE Aged(row.age)
<1>2. l \in Past..Lease /\ t \in Retries /\ a \in Ages
  BY <1>1
<1> HIDE DEF l, t, a
<1>3. LET old == [row EXCEPT !.lease = l, !.retry = t, !.age = a]
      IN /\ old \in Rows /\ old.status = row.status /\ old.token = row.token
         /\ old.error = row.error
  BY <1>2 DEF Rows
<1> QED BY <1>3 DEF l, t, a

\* So does what a pass under way selected.
LEMMA PassAges ==
  ASSUME NEW p \in Passes, p.pc # "idle", p.row # None, p.late < MaxLate
  PROVE  LET old == [p EXCEPT !.late = @ + 1, !.retry = Left(@), !.row.age = Aged(@)]
         IN /\ old \in Passes /\ old.pc = p.pc /\ old.rev = p.rev /\ old.result = p.result
            /\ old.row \in Selections
<1> DEFINE l == p.late + 1
           t == Left(p.retry)
           a == Aged(p.row.age)
           row == [p.row EXCEPT !.age = a]
<1>1. p.row \in Selections /\ p.late \in 0..MaxLate /\ p.retry \in Retries
  BY DEF Passes, Optional
<1>2. p.row.age \in Ages
  BY <1>1 DEF Selections
<1>3. l \in 0..MaxLate /\ t \in Retries /\ a \in Ages
  BY <1>1, <1>2, LeftTyped, Bounds
<1> HIDE DEF l, t, a
<1>4. row \in Selections
  BY <1>1, <1>3 DEF Selections
<1>5. LET old == [p EXCEPT !.late = l, !.retry = t, !.row = row]
      IN /\ old \in Passes /\ old.pc = p.pc /\ old.rev = p.rev /\ old.result = p.result
         /\ old.row = row
  <2> HIDE DEF row
  <2> QED BY <1>3, <1>4 DEF Passes, Optional
<1>6. [p EXCEPT !.late = @ + 1, !.retry = Left(@), !.row.age = Aged(@)] =
        [p EXCEPT !.late = l, !.retry = t, !.row = row]
  BY DEF Passes, l, t, a
<1> HIDE DEF row
<1> QED BY <1>4, <1>5, <1>6

LEMMA OnTick ==
  ASSUME RelayInv, Tick
  PROVE  RelayInv' /\ Confirmed' = Confirmed
<1> USE DEF RelayInv
<1>1. UNCHANGED <<log, early, intents, enabled, gated, observed, chain, finalizer, faults>>
  BY DEF Tick, local
<1>2. ASSUME NEW r \in Revs
      PROVE  /\ delivery'[r] \in Optional(Rows)
             /\ (delivery'[r] = None) <=> (delivery[r] = None)
             /\ delivery[r] # None => /\ delivery'[r].status = delivery[r].status
                                      /\ delivery'[r].token = delivery[r].token
  <2>1. delivery'[r] = IF delivery[r] = None THEN None
          ELSE [delivery[r] EXCEPT !.lease = Left(@), !.retry = Left(@),
                                   !.age = IF delivery[r].signature = None THEN @ ELSE Aged(@)]
    BY DEF Tick
  <2>2. CASE delivery[r] = None
    BY <2>1, <2>2 DEF Optional
  <2>3. CASE delivery[r] # None
    <3>1. delivery[r] \in Rows
      BY <2>3 DEF TypeOK, Optional
    <3>2. /\ delivery'[r] \in Rows
          /\ delivery'[r].status = delivery[r].status
          /\ delivery'[r].token = delivery[r].token
      BY <2>1, <2>3, <3>1, RowAges
    <3> QED BY <2>3, <3>2, ValuesAssumption DEF Optional
  <2> QED BY <2>2, <2>3
<1>3. delivery' \in [Revs -> Optional(Rows)]
  <2>1. delivery' = [r \in Revs |-> delivery'[r]]
    BY DEF Tick
  <2> QED BY <1>2, <2>1
<1>4. Confirmed' = Confirmed
  BY <1>2 DEF Confirmed
<1>5. ASSUME NEW w \in Workers
      PROVE  worker'[w] \in Passes /\ Carried(worker[w])'
  <2>0. worker'[w] = IF worker[w].pc = "idle" THEN Idle
          ELSE [worker[w] EXCEPT !.late = @ + 1, !.retry = Left(@), !.row.age = Aged(@)]
    BY DEF Tick
  <2>1. CASE worker[w].pc = "idle"
    BY <2>0, <2>1, IdleFits DEF Carried, Idle
  <2>2. CASE worker[w].pc # "idle"
    <3>1. worker[w].late < MaxLate /\ worker[w] \in Passes /\ Carried(worker[w])
      BY <2>2, AtWork DEF Tick
    <3>2. /\ worker'[w] \in Passes /\ worker'[w].pc = worker[w].pc
          /\ worker'[w].rev = worker[w].rev /\ worker'[w].result = worker[w].result
          /\ worker'[w].row \in Selections
      <4>1. worker[w].row # None
        BY <2>2, <3>1 DEF Carried
      <4> QED BY <2>0, <2>2, <3>1, <4>1, PassAges
    <3> QED BY <1>1, <1>4, <3>1, <3>2, ValuesAssumption DEF Carried
  <2> QED BY <2>1, <2>2
<1>6. worker' \in [Workers -> Passes]
  <2>1. worker' = [w \in Workers |-> worker'[w]]
    BY DEF Tick
  <2> QED BY <1>5, <2>1
<1>7. /\ due' \in Optional(Past..Challenge)
      /\ due # None => due' # None /\ (due <= 0 => due' <= 0)
  <2>1. CASE due = None
    BY <2>1 DEF Tick, Optional
  <2>2. CASE due # None
    <3>1. due \in Past..Challenge /\ due' = Left(due)
      BY <2>2 DEF Tick, TypeOK, Optional
    <3>2. due' \in Past..Challenge /\ due' <= due
      BY <3>1, LeftTyped
    <3> QED BY <3>1, <3>2, Bounds, RelayAssumption DEF Optional
  <2> QED BY <2>1, <2>2
<1>8. txs' \in Sendings /\ \A s \in Signatures : txs'[s] # None => txs[s] # None
  <2>1. ASSUME NEW s \in Signatures
        PROVE  /\ txs'[s] \in Optional([fate : {"sent", "landed", "failed"}, life : 0..TxLife])
               /\ txs'[s] # None => txs[s] # None
    <3>1. txs'[s] = IF txs[s] = None \/ txs[s].fate # "sent" THEN txs[s]
                    ELSE [txs[s] EXCEPT !.life = @ - 1]
      BY DEF Tick
    <3>2. CASE txs[s] = None \/ txs[s].fate # "sent"
      BY <3>1, <3>2 DEF TypeOK
    <3>3. CASE txs[s] # None /\ txs[s].fate = "sent"
      <4>1. txs[s] \in [fate : {"sent", "landed", "failed"}, life : 0..TxLife] /\ txs[s].life > 0
        BY <3>3 DEF TypeOK, Optional, Tick
      <4>2. txs[s].life - 1 \in 0..TxLife
        BY <4>1, Bounds
      <4> QED BY <3>1, <3>3, <4>1, <4>2 DEF Optional
    <3> QED BY <3>2, <3>3
  <2>2. txs' = [s \in Signatures |-> txs'[s]]
    BY DEF Tick
  <2> QED BY <2>1, <2>2 DEF Sendings
<1>9. TypeOK'
  BY <1>1, <1>3, <1>6, <1>7, <1>8 DEF TypeOK, Sendings
<1>10. Tracked'
  BY <1>1, <1>2, Bounds DEF Tracked, TypeOK, Revs
<1>11. Copied'
  <2> SUFFICES ASSUME NEW q \in Confirmed
               PROVE  q <= chain /\ delivery'[q].token = None /\ 1..q \subseteq Confirmed
    BY <1>1, <1>4 DEF Copied
  <2>1. q \in Revs /\ delivery[q] # None
    BY DEF Confirmed
  <2> QED BY <1>2, <2>1 DEF Copied
<1>12. InHand'
  BY <1>5 DEF InHand
<1>13. Sent'
  BY <1>1, <1>8 DEF Sent
<1>14. Gate' /\ FinalOnlyAfterChain'
  BY <1>1, <1>7 DEF Gate, FinalOnlyAfterChain
<1> QED BY <1>4, <1>9, <1>10, <1>11, <1>12, <1>13, <1>14

-----------------------------------------------------------------------------
(***************************************************************************)
(* The record                                                              *)
(***************************************************************************)
LEMMA QueuedFits == Queued \in Rows /\ Queued # None /\ Queued.status = "pending"
<1>1. Past \in Past..Lease /\ Past \in Retries /\ 0 \in Ages
  BY Bounds DEF Ages
<1>2. Queued \in Rows
  BY <1>1 DEF Queued, Rows, Optional
<1> QED BY <1>2, ValuesAssumption DEF Queued

\* A commit extends the history by an intent and its delivery, and leaves what
\* is known of the rest.
LEMMA Recorded ==
  ASSUME RelayInv, NEW state \in States, Record(state),
         UNCHANGED <<enabled, chain, txs, worker>>
  PROVE  /\ log' \in Seq(States) /\ Len(log') = Len(log) + 1 /\ Len(log') \in Revs
         /\ log'[Len(log')] = state
         /\ intents' \in [Revs -> Optional(Forms)] /\ delivery' \in [Revs -> Optional(Rows)]
         /\ Confirmed' = Confirmed
         /\ Tracked' /\ Copied' /\ InHand' /\ Sent'
<1> USE DEF RelayInv
<1> DEFINE n == Len(log) + 1
<1>1. /\ log \in Seq(States) /\ n \in Revs /\ log' = Append(log, state)
      /\ intents' = [intents EXCEPT ![n] = "whole"]
      /\ delivery' = [delivery EXCEPT ![n] = Queued]
      /\ intents \in [Revs -> Optional(Forms)] /\ delivery \in [Revs -> Optional(Rows)]
      /\ Revs = 1..MaxRev /\ Len(log) \in Nat
  BY Bounds DEF Record, TypeOK, Revs
<1>2. /\ log' \in Seq(States) /\ Len(log') = n /\ log'[n] = state
  BY <1>1
<1>3. delivery[n] = None /\ n \notin Confirmed
  BY <1>1 DEF Tracked, Confirmed
<1>4. "whole" \in Forms /\ "whole" # None
  BY ValuesAssumption DEF Forms
<1>5. intents' \in [Revs -> Optional(Forms)] /\ delivery' \in [Revs -> Optional(Rows)]
  BY <1>1, <1>4, QueuedFits DEF Optional
<1>6. ASSUME NEW r \in Revs
      PROVE  /\ r = n => delivery'[r] = Queued /\ intents'[r] = "whole"
             /\ r # n => delivery'[r] = delivery[r] /\ intents'[r] = intents[r]
  BY <1>1
<1>7. Confirmed' = Confirmed
  BY <1>1, <1>3, <1>6, QueuedFits DEF Confirmed
<1> HIDE DEF n
<1>8. Tracked'
  <2>1. \A r \in Revs : (delivery'[r] = None) <=> (intents'[r] = None)
    BY <1>4, <1>6, QueuedFits DEF Tracked
  <2>2. \A r \in Revs : r > Len(log') => delivery'[r] = None
    BY <1>1, <1>2, <1>6 DEF Tracked, n
  <2>3. enabled => \A r \in 1..Len(log') : delivery'[r] # None
    <3> SUFFICES ASSUME enabled, NEW r \in 1..Len(log') PROVE delivery'[r] # None
      OBVIOUS
    <3>1. r \in Revs /\ (r = n \/ r \in 1..Len(log))
      BY <1>1, <1>2, Bounds DEF n
    <3> QED BY <1>6, <3>1, QueuedFits DEF Tracked, n
  <2> QED BY <2>1, <2>2, <2>3 DEF Tracked
<1>9. Copied'
  <2> SUFFICES ASSUME NEW q \in Confirmed
               PROVE  q <= chain /\ delivery'[q].token = None /\ 1..q \subseteq Confirmed
    BY <1>7 DEF Copied
  <2>1. q \in Revs /\ q # n
    BY <1>3 DEF Confirmed
  <2> QED BY <1>6, <2>1 DEF Copied
<1>10. InHand'
  <2> SUFFICES ASSUME NEW v \in Workers PROVE Carried(worker[v])'
    BY DEF InHand
  <2>1. Carried(worker[v]) /\ 1..Len(log) \subseteq 1..Len(log')
    BY <1>1, <1>2, AtWork DEF n
  <2> QED BY <1>7, <2>1 DEF Carried
<1>11. Sent'
  <2>1. chain \in Int /\ \A s \in Signatures : s[1] \in Int
    BY Bounds DEF TypeOK, Signatures, Revs
  <2> QED BY <1>1, <1>2, <2>1 DEF Sent, n
<1> QED BY <1>1, <1>2, <1>5, <1>7, <1>8, <1>9, <1>10, <1>11 DEF n

LEMMA OnCommit ==
  ASSUME RelayInv, Commit
  PROVE  RelayInv' /\ Confirmed' = Confirmed /\ Len(log') = Len(log) + 1
<1>1. PICK state \in {"LIVE", "CHALLENGE"}, upgrade \in BOOLEAN :
        Record(state) /\ early' = IF upgrade THEN Len(log) + 1 ELSE early
  BY DEF Commit
<1>2. UNCHANGED <<enabled, observed, chain, due, txs, worker, finalizer, gated, faults>>
  BY DEF Commit
<1>3. /\ log' \in Seq(States) /\ Len(log') = Len(log) + 1 /\ Len(log') \in Revs
      /\ log'[Len(log')] = state
      /\ intents' \in [Revs -> Optional(Forms)] /\ delivery' \in [Revs -> Optional(Rows)]
      /\ Confirmed' = Confirmed /\ Tracked' /\ Copied' /\ InHand' /\ Sent'
  BY <1>1, <1>2, Recorded DEF States
<1>4. TypeOK'
  <2>1. early' \in 0..MaxRev
    BY <1>1, <1>3, Bounds DEF RelayInv, TypeOK, Revs
  <2> QED BY <1>2, <1>3, <2>1 DEF RelayInv, TypeOK
<1>5. Gate'
  <2>1. observed # None => observed.rev \in Int /\ observed.rev <= Len(log)
    BY DEF RelayInv, TypeOK, Gate, Optional, Revs
  <2>2. Len(log) \in Int
    BY DEF RelayInv, TypeOK, Revs
  <2> QED BY <1>2, <1>3, <2>1, <2>2 DEF Gate
<1>6. FinalOnlyAfterChain'
  BY <1>1, <1>3 DEF FinalOnlyAfterChain
<1> QED BY <1>3, <1>4, <1>5, <1>6 DEF RelayInv

\* Enrolling queues what was never queued, and nothing of it was confirmed.
LEMMA OnEnable ==
  ASSUME RelayInv, Enable
  PROVE  RelayInv' /\ Confirmed' = Confirmed
<1> USE DEF RelayInv
<1> DEFINE missing == {r \in 1..Len(log) : intents[r] = None}
<1>1. /\ enabled' = TRUE
      /\ intents' = [r \in Revs |-> IF r \in missing THEN Stored(r) ELSE intents[r]]
      /\ delivery' = [r \in Revs |-> IF r \in missing THEN Queued ELSE delivery[r]]
      /\ UNCHANGED <<log, early, observed, chain, due, txs, worker, finalizer, gated, faults>>
  BY DEF Enable
<1>2. /\ intents \in [Revs -> Optional(Forms)] /\ delivery \in [Revs -> Optional(Rows)]
      /\ Len(log) \in Revs /\ Revs = 1..MaxRev
  BY DEF TypeOK, Revs
<1>3. ASSUME NEW r \in Revs
      PROVE  /\ r \in missing => /\ delivery[r] = None /\ delivery'[r] = Queued
                                 /\ intents'[r] = "base"
             /\ r \notin missing => delivery'[r] = delivery[r] /\ intents'[r] = intents[r]
             /\ r \in missing <=> r <= Len(log) /\ intents[r] = None
  BY <1>1, <1>2, Bounds DEF Tracked, Stored
<1> HIDE DEF missing
<1>4. "base" \in Forms /\ "base" # None
  BY ValuesAssumption DEF Forms
<1>5. delivery' \in [Revs -> Optional(Rows)] /\ intents' \in [Revs -> Optional(Forms)]
  <2>1. \A r \in Revs : delivery'[r] \in Optional(Rows) /\ intents'[r] \in Optional(Forms)
    BY <1>2, <1>3, <1>4, QueuedFits DEF Optional
  <2>2. delivery' = [r \in Revs |-> delivery'[r]] /\ intents' = [r \in Revs |-> intents'[r]]
    BY <1>1
  <2> QED BY <2>1, <2>2
<1>6. Confirmed' = Confirmed
  BY <1>3, QueuedFits DEF Confirmed
<1>7. TypeOK'
  BY <1>1, <1>5 DEF TypeOK
<1>8. Tracked'
  <2>1. \A r \in Revs : (delivery'[r] = None) <=> (intents'[r] = None)
    BY <1>3, <1>4, QueuedFits DEF Tracked
  <2>2. \A r \in Revs : r > Len(log') => delivery'[r] = None
    <3> SUFFICES ASSUME NEW r \in Revs, r > Len(log) PROVE delivery'[r] = None
      BY <1>1
    <3>1. r \notin missing
      BY <1>2, <1>3, Bounds
    <3> QED BY <1>3, <3>1 DEF Tracked
  <2>3. \A r \in 1..Len(log') : delivery'[r] # None
    <3> SUFFICES ASSUME NEW r \in 1..Len(log) PROVE delivery'[r] # None
      BY <1>1
    <3>1. r \in Revs /\ r <= Len(log)
      BY <1>2, Bounds
    <3> QED BY <1>3, <3>1, QueuedFits DEF Tracked
  <2> QED BY <2>1, <2>2, <2>3 DEF Tracked
<1>9. Copied'
  <2> SUFFICES ASSUME NEW q \in Confirmed
               PROVE  q <= chain /\ delivery'[q].token = None /\ 1..q \subseteq Confirmed
    BY <1>1, <1>6 DEF Copied
  <2>1. q \in Revs /\ delivery[q] # None
    BY DEF Confirmed
  <2> QED BY <1>3, <2>1 DEF Copied
<1>10. InHand'
  BY <1>1, <1>6 DEF InHand, Carried
<1>11. Sent' /\ Gate' /\ FinalOnlyAfterChain'
  BY <1>1 DEF Sent, Gate, FinalOnlyAfterChain
<1> QED BY <1>6, <1>7, <1>8, <1>9, <1>10, <1>11

-----------------------------------------------------------------------------
(***************************************************************************)
(* Finalization                                                            *)
(***************************************************************************)
\* Neither step of a finalize touches the deliveries.
LEMMA FinalizeAlone ==
  ASSUME RelayInv, UNCHANGED <<local, delivery, chain, due, txs, worker, faults>>,
         observed' \in Optional([rev : Revs, ready : BOOLEAN]),
         finalizer' \in [pc : {"idle", "loaded", "ready"}, rev : 0..MaxRev, ready : BOOLEAN],
         Gate'
  PROVE  RelayInv' /\ Confirmed' = Confirmed
<1> USE DEF RelayInv, local
<1>1. TypeOK'
  BY DEF TypeOK
<1>2. Tracked' /\ Confirmed' = Confirmed
  BY DEF Tracked, Confirmed
<1>3. Copied' /\ Sent' /\ FinalOnlyAfterChain'
  BY <1>2 DEF Copied, Sent, FinalOnlyAfterChain
<1>4. InHand'
  BY <1>2 DEF InHand, Carried
<1> QED BY <1>1, <1>2, <1>3, <1>4

LEMMA OnBeginFinalize ==
  ASSUME RelayInv, BeginFinalize
  PROVE  RelayInv' /\ Confirmed' = Confirmed
<1>1. Len(log) \in 0..MaxRev
  BY Bounds DEF RelayInv, TypeOK, Revs
<1>2. finalizer' \in [pc : {"idle", "loaded", "ready"}, rev : 0..MaxRev, ready : BOOLEAN]
  BY <1>1 DEF BeginFinalize
<1>3. Gate' /\ observed' \in Optional([rev : Revs, ready : BOOLEAN])
  BY DEF BeginFinalize, local, RelayInv, Gate, TypeOK
<1> QED BY <1>2, <1>3, FinalizeAlone DEF BeginFinalize

\* What is recorded of the account is what an answer, which may be behind,
\* said of it: it held the record's last revision and its deadline had passed.
LEMMA OnPrepare ==
  ASSUME RelayInv, Prepare
  PROVE  RelayInv' /\ Confirmed' = Confirmed
<1> USE DEF RelayInv
<1>1. UNCHANGED <<local, delivery, chain, due, txs, worker, faults>>
  BY DEF Prepare
<1>2. finalizer' \in [pc : {"idle", "loaded", "ready"}, rev : 0..MaxRev, ready : BOOLEAN]
  <2>1. /\ [finalizer EXCEPT !.pc = "ready"] \in [pc : {"idle", "loaded", "ready"}, rev : 0..MaxRev, ready : BOOLEAN]
        /\ [finalizer EXCEPT !.pc = "idle"] \in [pc : {"idle", "loaded", "ready"}, rev : 0..MaxRev, ready : BOOLEAN]
    BY DEF TypeOK
  <2> HIDE DEF RelayInv
  <2> QED BY <2>1 DEF Prepare
<1>3. \/ UNCHANGED observed
      \/ \E view \in Views, seen \in BOOLEAN :
           view = Len(log) /\ observed' = [rev |-> view, ready |-> DeadlinePassed(seen)]
  <2> HIDE DEF RelayInv
  <2> QED BY DEF Prepare
<1>4. CASE UNCHANGED observed
  BY <1>1, <1>2, <1>4, FinalizeAlone DEF Gate, TypeOK, local
<1>5. ASSUME NEW view \in Views, NEW seen \in BOOLEAN, view = Len(log),
             observed' = [rev |-> view, ready |-> DeadlinePassed(seen)]
      PROVE  RelayInv' /\ Confirmed' = Confirmed
  <2>1. view \in Revs /\ DeadlinePassed(seen) \in BOOLEAN
    BY <1>5 DEF TypeOK, DeadlinePassed
  <2>2. observed' \in Optional([rev : Revs, ready : BOOLEAN])
    BY <1>5, <2>1 DEF Optional
  <2>3. chain >= Len(log)
    BY <1>5, Bounds DEF Views, TypeOK
  <2>4. observed'.ready => due # None /\ due <= 0
    BY <1>5 DEF DeadlinePassed
  <2>5. observed'.rev = Len(log)
    BY <1>5
  <2>6. Gate'
    <3>1. log' = log /\ chain' = chain /\ due' = due /\ Len(log) \in Int
      BY <1>1 DEF local, TypeOK, Revs
    <3> QED BY <2>3, <2>4, <2>5, <3>1 DEF Gate
  <2> QED BY <1>1, <1>2, <2>2, <2>6, FinalizeAlone
<1> QED BY <1>3, <1>4, <1>5

LEMMA OnCommitFinal ==
  ASSUME RelayInv, CommitFinal
  PROVE  /\ RelayInv' /\ Confirmed' = Confirmed
         /\ Len(log') = Len(log) \/ Len(log') = Len(log) + 1
<1>1. /\ finalizer' = [finalizer EXCEPT !.pc = "idle"]
      /\ UNCHANGED <<early, enabled, observed, chain, due, txs, worker, faults>>
  BY DEF CommitFinal
<1>2. finalizer' \in [pc : {"idle", "loaded", "ready"}, rev : 0..MaxRev, ready : BOOLEAN]
  BY <1>1 DEF RelayInv, TypeOK
<1>3. CASE finalizer.rev = Len(log) /\ TriggerAllows
  <2>1. Record("FINALIZED") /\ gated' = enabled /\ "FINALIZED" \in States
    BY <1>3 DEF CommitFinal, States
  <2>2. /\ log' \in Seq(States) /\ Len(log') = Len(log) + 1 /\ Len(log') \in Revs
        /\ intents' \in [Revs -> Optional(Forms)] /\ delivery' \in [Revs -> Optional(Rows)]
        /\ Confirmed' = Confirmed /\ Tracked' /\ Copied' /\ InHand' /\ Sent'
    BY <1>1, <2>1, Recorded
  <2>3. TypeOK'
    BY <1>1, <1>2, <2>1, <2>2 DEF RelayInv, TypeOK
  <2>4. Len(log) \in Int /\ chain \in Int
    BY Bounds DEF RelayInv, TypeOK, Revs
  <2>5. Gate'
    <3>1. observed # None => observed.rev \in Int /\ observed.rev <= Len(log)
      BY DEF RelayInv, TypeOK, Gate, Optional, Revs
    <3> QED BY <1>1, <2>2, <2>4, <3>1 DEF Gate
  <2>6. FinalOnlyAfterChain'
    <3>1. enabled => chain >= Len(log) /\ due # None /\ due <= 0
      BY <1>3 DEF TriggerAllows, RelayInv, Gate
    <3> QED BY <1>1, <2>1, <2>2, <2>4, <3>1 DEF FinalOnlyAfterChain
  <2> QED BY <2>2, <2>3, <2>5, <2>6 DEF RelayInv
<1>4. CASE ~(finalizer.rev = Len(log) /\ TriggerAllows)
  <2>1. UNCHANGED <<local, delivery, chain, due, txs, worker, faults, observed>>
    BY <1>1, <1>4 DEF CommitFinal, local
  <2>2. Gate' /\ observed' \in Optional([rev : Revs, ready : BOOLEAN])
    BY <2>1 DEF RelayInv, Gate, TypeOK, local
  <2> QED BY <1>2, <2>1, <2>2, FinalizeAlone DEF local
<1> QED BY <1>3, <1>4

-----------------------------------------------------------------------------
(***************************************************************************)
(* The invariant                                                           *)
(***************************************************************************)
LEMMA Initially == Init => RelayInv /\ Confirmed = {} /\ chain = 0
<1> SUFFICES ASSUME Init PROVE RelayInv /\ Confirmed = {} /\ chain = 0
  OBVIOUS
<1>1. log \in Seq(States) /\ Len(log) \in {1, 2} /\ log[Len(log)] # "FINALIZED"
  <2>1. log = <<"LIVE">> \/ log = <<"LIVE", "CHALLENGE">>
    BY DEF Init
  <2>2. CASE log = <<"LIVE">>
    BY <2>2 DEF States
  <2>3. CASE log = <<"LIVE", "CHALLENGE">>
    BY <2>3 DEF States
  <2> QED BY <2>1, <2>2, <2>3
<1>2. Len(log) \in Revs
  BY <1>1, Bounds DEF Revs
<1>3. early \in 0..MaxRev
  BY <1>1, Bounds DEF Init
<1>4. "whole" \in Forms /\ "whole" # None
  BY ValuesAssumption DEF Forms
<1>5. ASSUME NEW r \in Revs
      PROVE  /\ delivery[r] \in Optional(Rows) /\ intents[r] \in Optional(Forms)
             /\ (delivery[r] = None) <=> (intents[r] = None)
             /\ delivery[r] = None <=> ~(enabled /\ r <= Len(log))
             /\ delivery[r] # None => delivery[r].status # "confirmed"
  BY <1>4, QueuedFits DEF Init, Optional
<1>6. delivery \in [Revs -> Optional(Rows)] /\ intents \in [Revs -> Optional(Forms)]
  <2>1. delivery = [r \in Revs |-> delivery[r]] /\ intents = [r \in Revs |-> intents[r]]
    BY DEF Init
  <2> QED BY <1>5, <2>1
<1>7. /\ txs = [s \in Signatures |-> None] /\ worker = [w \in Workers |-> Idle]
      /\ observed = None /\ chain = 0 /\ due = None /\ gated = FALSE /\ faults = 0
      /\ enabled \in BOOLEAN
      /\ finalizer = [pc |-> "idle", rev |-> 0, ready |-> FALSE]
  BY DEF Init
<1>8. TypeOK
  <2>1. 0 \in 0..MaxRev /\ 0 \in 0..MaxFaults
    BY Bounds
  <2>2. finalizer \in [pc : {"idle", "loaded", "ready"}, rev : 0..MaxRev, ready : BOOLEAN]
    BY <1>7, <2>1
  <2>3. worker \in [Workers -> Passes]
    BY <1>7, IdleFits
  <2>4. /\ observed \in Optional([rev : Revs, ready : BOOLEAN]) /\ due \in Optional(Past..Challenge)
        /\ txs \in [Signatures -> Optional([fate : {"sent", "landed", "failed"}, life : 0..TxLife])]
    BY <1>7 DEF Optional
  <2> QED BY <1>1, <1>2, <1>3, <1>6, <1>7, <2>1, <2>2, <2>3, <2>4 DEF TypeOK
<1>9. Confirmed = {}
  BY <1>5 DEF Confirmed
<1>10. Tracked
  <2>1. ASSUME NEW r \in 1..Len(log) PROVE r \in Revs /\ r <= Len(log)
    BY <1>2, Bounds DEF Revs
  <2>2. \A r \in Revs : r > Len(log) => ~(r <= Len(log))
    BY <1>1, Bounds DEF Revs
  <2> QED BY <1>5, <2>1, <2>2 DEF Tracked
<1>11. Copied /\ Sent
  BY <1>1, <1>7, <1>9 DEF Copied, Sent
<1>12. InHand
  BY <1>7 DEF InHand, Carried, Idle
<1>13. Gate /\ FinalOnlyAfterChain
  BY <1>1, <1>7 DEF Gate, FinalOnlyAfterChain
<1> QED BY <1>7, <1>8, <1>9, <1>10, <1>11, <1>12, <1>13 DEF RelayInv

\* A step extends the record, or the chain's copy of it by the next revision,
\* or confirms the next revision of what is copied, or none of these.
Extends  == Len(log') = Len(log) + 1 /\ chain' = chain /\ Confirmed' = Confirmed
Copies   == chain < Len(log) /\ chain' = chain + 1 /\ Len(log') = Len(log) /\ Confirmed' = Confirmed
Confirms ==
  /\ Len(log') = Len(log) /\ chain' = chain
  /\ \E r \in 1..chain : /\ Confirmed' = Confirmed \union {r}
                         /\ r \notin Confirmed /\ 1..(r - 1) \subseteq Confirmed
Rests    == Len(log') = Len(log) /\ chain' = chain /\ Confirmed' = Confirmed

Progress == Extends \/ Copies \/ Confirms \/ Rests

LEMMA PassSteps ==
  ASSUME RelayInv, NEW w \in Workers, Pass(w) \/ Withheld(w) \/ TransportFails(w) \/ Killed(w)
  PROVE  RelayInv' /\ Progress
<1>1. CASE Sync(w)
  BY <1>1, OnSync DEF Sync, Progress, Rests, Confirmed, local
<1>2. CASE Claim(w)
  BY <1>2, OnClaim DEF Claim, Progress, Rests, local
<1>3. CASE Observe(w)
  BY <1>3, OnObserve DEF Observe, Progress, Rests, Confirmed, local
<1>4. CASE Send(w)
  BY <1>4, OnSend DEF Send, Progress, Rests, Confirmed, local
<1>5. CASE Finish(w)
  <2>1. Len(log') = Len(log) /\ chain' = chain
    BY <1>5 DEF Finish, local
  <2> QED BY <1>5, <2>1, OnFinish DEF Progress, Rests, Confirms
<1>6. CASE Withheld(w)
  BY <1>6, OnWithheld DEF Withheld, Progress, Rests, Confirmed, local
<1>7. CASE TransportFails(w)
  BY <1>7, OnTransportFails DEF TransportFails, Progress, Rests, Confirmed, local
<1>8. CASE Killed(w)
  BY <1>8, OnKilled DEF Killed, Progress, Rests, Confirmed, local
<1> QED BY <1>1, <1>2, <1>3, <1>4, <1>5, <1>6, <1>7, <1>8 DEF Pass

LEMMA ChainSteps ==
  ASSUME RelayInv, NEW s \in Signatures, Execute(s) \/ Lose(s)
  PROVE  RelayInv' /\ Progress
<1>1. CASE Execute(s)
  <2>1. Len(log') = Len(log) /\ Confirmed' = Confirmed
    BY <1>1 DEF Execute, local, Confirmed
  <2> QED BY <1>1, <2>1, OnExecute DEF Progress, Rests, Copies
<1>2. CASE Lose(s)
  BY <1>2, OnLose DEF Lose, Progress, Rests, Confirmed, local
<1> QED BY <1>1, <1>2

LEMMA RelayStep == RelayInv /\ [Next]_vars => RelayInv' /\ Progress
<1> SUFFICES ASSUME RelayInv, [Next]_vars PROVE RelayInv' /\ Progress
  OBVIOUS
<1>1. CASE UNCHANGED vars
  <2>1. Confirmed' = Confirmed
    BY <1>1 DEF vars, Confirmed
  <2>2. RelayInv'
    BY <1>1, <2>1 DEF vars, RelayInv, TypeOK, Tracked, Copied, InHand, Carried, Sent, Gate,
                      FinalOnlyAfterChain
  <2> QED BY <1>1, <2>1, <2>2 DEF vars, Progress, Rests
<1>2. CASE Commit
  BY <1>2, OnCommit DEF Commit, Progress, Extends
<1>3. CASE Enable
  BY <1>3, OnEnable DEF Enable, Progress, Rests
<1>4. CASE Tick
  BY <1>4, OnTick DEF Tick, Progress, Rests, local
<1>5. CASE BeginFinalize
  BY <1>5, OnBeginFinalize DEF BeginFinalize, Progress, Rests, local
<1>6. CASE Prepare
  BY <1>6, OnPrepare DEF Prepare, Progress, Rests, local
<1>7. CASE CommitFinal
  BY <1>7, OnCommitFinal DEF CommitFinal, Progress, Rests, Extends
<1> QED BY <1>1, <1>2, <1>3, <1>4, <1>5, <1>6, <1>7, PassSteps, ChainSteps DEF Next

\* The relay's rows and passes are what the conjuncts say, throughout.
THEOREM Invariant == Spec => []RelayInv
BY Initially, RelayStep, PTL DEF Spec

\* A tracked record that became final could have been finalized on chain at
\* that moment, whatever was read from behind, lost, killed or overtaken in
\* between (prepare_finalization, the trigger registry_finalization_guard).
THEOREM FinalBehindChain == Spec => []FinalOnlyAfterChain
BY Invariant, PTL DEF RelayInv

-----------------------------------------------------------------------------
(***************************************************************************)
(* What the relay implements                                               *)
(***************************************************************************)
\* What is confirmed is a prefix, so that it is what is acknowledged.
LEMMA Prefix ==
  ASSUME RelayInv
  PROVE  /\ Acknowledged = Cardinality(Confirmed)
         /\ IsFiniteSet(Confirmed)
<1>1. {r \in Revs : \A p \in 1..r : p \in Confirmed} = Confirmed
  <2>1. ASSUME NEW r \in Confirmed PROVE r \in Revs /\ \A p \in 1..r : p \in Confirmed
    BY DEF RelayInv, Copied, Confirmed
  <2>2. ASSUME NEW r \in Revs, \A p \in 1..r : p \in Confirmed PROVE r \in Confirmed
    BY <2>2, Bounds DEF Revs
  <2> QED BY <2>1, <2>2
<1>2. IsFiniteSet(Revs) /\ Confirmed \subseteq Revs
  BY FS_Interval, Bounds DEF Revs, Confirmed
<1>3. IsFiniteSet(Confirmed)
  BY <1>2, FS_Subset
<1> QED BY <1>1, <1>3 DEF Acknowledged

\* Confirming the next revision acknowledges one more of what is copied.
LEMMA ConfirmsNext ==
  ASSUME RelayInv, RelayInv', Confirms
  PROVE  Acknowledged' = Acknowledged + 1 /\ Acknowledged < chain
<1>1. PICK r \in 1..chain : /\ Confirmed' = Confirmed \union {r}
                            /\ r \notin Confirmed /\ 1..(r - 1) \subseteq Confirmed
  BY DEF Confirms
<1>2. /\ Acknowledged = Cardinality(Confirmed)
      /\ IsFiniteSet(Confirmed)
  BY Prefix
<1>3. Acknowledged' = Cardinality(Confirmed')
  <2>1. (Acknowledged = Cardinality(Confirmed))'
    <3>1. {q \in Revs : \A p \in 1..q : p \in Confirmed'} = Confirmed'
      <4>1. ASSUME NEW q \in Confirmed' PROVE q \in Revs /\ \A p \in 1..q : p \in Confirmed'
        BY DEF RelayInv, Copied, Confirmed
      <4>2. ASSUME NEW q \in Revs, \A p \in 1..q : p \in Confirmed' PROVE q \in Confirmed'
        BY <4>2, Bounds DEF Revs
      <4> QED BY <4>1, <4>2
    <3> QED BY <3>1 DEF Acknowledged
  <2> QED BY <2>1
<1>4. Cardinality(Confirmed \union {r}) = Cardinality(Confirmed) + 1
  BY <1>1, <1>2, FS_AddElement
<1>5. Confirmed = 1..(r - 1)
  <2>1. ASSUME NEW q \in Confirmed PROVE q \in 1..(r - 1)
    <3>1. q \in 1..MaxRev /\ 1..q \subseteq Confirmed
      BY DEF RelayInv, Copied, Confirmed, Revs
    <3>2. r \in Int /\ 1 <= r /\ r \notin Confirmed
      BY <1>1, AtWork DEF RelayInv, TypeOK
    <3> QED BY <3>1, <3>2, Bounds
  <2> QED BY <1>1, <2>1
<1>6. Cardinality(Confirmed) = r - 1
  <2>1. r \in Int /\ 1 <= r
    BY <1>1
  <2> QED BY <1>5, <2>1, FS_Interval
<1>7. r \in Int /\ r <= chain /\ chain \in Int
  BY <1>1 DEF RelayInv, TypeOK
<1> QED BY <1>1, <1>2, <1>3, <1>4, <1>6, <1>7

LEMMA StepRefines == RelayInv /\ RelayInv' /\ Progress => [R!Next]_(R!vars)
<1> SUFFICES ASSUME RelayInv, RelayInv', Progress PROVE [R!Next]_(R!vars)
  OBVIOUS
<1>1. Confirmed' = Confirmed => Acknowledged' = Acknowledged
  BY DEF Acknowledged
<1>2. CASE Extends
  BY <1>1, <1>2 DEF Extends, R!Next, R!Append
<1>3. CASE Copies
  BY <1>1, <1>3 DEF Copies, R!Next, R!Copy
<1>4. CASE Confirms
  BY <1>4, ConfirmsNext DEF Confirms, R!Next, R!Acknowledge
<1>5. CASE Rests
  BY <1>1, <1>5 DEF Rests, R!vars
<1> QED BY <1>2, <1>3, <1>4, <1>5 DEF Progress

LEMMA InitRefines == Init => R!Init
<1> SUFFICES ASSUME Init PROVE R!Init
  OBVIOUS
<1>1. RelayInv /\ Confirmed = {} /\ chain = 0
  BY Initially
<1>2. Acknowledged = 0
  BY <1>1, Prefix, FS_EmptySet
<1>3. Len(log) \in Nat
  BY <1>1, Bounds DEF RelayInv, TypeOK, Revs
<1> QED BY <1>1, <1>2, <1>3 DEF R!Init

\* The relay implements the replica: the chain copies the record entry by
\* entry and in order, and what is confirmed is a prefix of what it copied,
\* confirmed one after the other (sync, deliver).
THEOREM RelayRefinesReplica == Spec => ChainFollows
<1>1. Spec => []RelayInv
  BY Invariant
<1>2. RelayInv /\ [Next]_vars => RelayInv' /\ [R!Next]_(R!vars)
  BY RelayStep, StepRefines
<1> QED BY <1>1, <1>2, InitRefines, PTL DEF Spec, ChainFollows, R!Spec

-----------------------------------------------------------------------------
(***************************************************************************)
(* No verdict is mistaken                                                  *)
(***************************************************************************)
\* A revision is sent once all before it are confirmed, so that the chain is
\* never more than one revision ahead of what is confirmed.
Ordered ==
  /\ \A s \in Signatures : txs[s] # None => 1..(s[1] - 1) \subseteq Confirmed
  /\ 1..(chain - 1) \subseteq Confirmed

\* A pass that found the chain beyond its revision was overtaken: another has
\* confirmed it.
Overtaken(p) ==
  p.pc = "concluding" =>
    /\ p.result # "chain_predecessor_missing"
    /\ p.result = "chain_revision_mismatch" => p.rev \in Confirmed

Judged == Ordered /\ (\A w \in Workers : Overtaken(worker[w])) /\ NeverMisjudged

Mistakes == {"chain_revision_mismatch", "chain_predecessor_missing"}

LEMMA ConfirmedGrows == Progress => Confirmed \subseteq Confirmed'
BY DEF Progress, Extends, Copies, Confirms, Rests

\* The last of a set of revisions.
LEMMA LastOf ==
  ASSUME NEW n \in Nat, NEW S, S \subseteq 1..n, S # {}
  PROVE  \E i \in S : \A j \in S : j <= i
<1> DEFINE T == {m \in Nat : \E i \in S : m = n - i}
<1>1. \A i \in S : n - i \in T /\ i \in Nat
  OBVIOUS
<1>2. T \subseteq Nat /\ T # {}
  BY <1>1
<1>3. PICK m \in T : \A y \in T : ~ (<<y, m>> \in OpToRel(<, Nat))
  <2> HIDE DEF T
  <2> QED BY <1>2, NatLessThanWellFounded, WFMin
<1>4. \A y \in T : ~(y < m)
  BY <1>2, <1>3 DEF OpToRel
<1>5. PICK i \in S : m = n - i
  BY <1>3
<1>6. \A j \in S : ~(n - j < m)
  BY <1>1, <1>4
<1> HIDE DEF T
<1> QED BY <1>1, <1>5, <1>6

LEMMA MaxConfirmedIs ==
  ASSUME RelayInv, NEW r \in Confirmed
  PROVE  MaxConfirmed \in Confirmed /\ r <= MaxConfirmed
<1>1. Confirmed \subseteq 1..MaxRev /\ Confirmed # {} /\ MaxRev \in Nat
  BY Bounds DEF Confirmed, Revs
<1>2. \E i \in Confirmed : \A j \in Confirmed : j <= i
  BY <1>1, LastOf
<1>3. MaxConfirmed = CHOOSE i \in Confirmed : \A j \in Confirmed : j <= i
  BY <1>1 DEF MaxConfirmed
<1> QED BY <1>2, <1>3

\* An answer that is not older than what is confirmed misleads only a pass
\* that was overtaken.
LEMMA ViewsMislead ==
  ASSUME RelayInv, Judged, NEW w \in Workers, worker[w].pc = "leased", NEW view \in Views,
         ~Stale(view)
  PROVE  /\ ~(view = 0 /\ worker[w].rev # 1)
         /\ (view # worker[w].rev /\ view # worker[w].rev - 1) => worker[w].rev \in Confirmed
<1> DEFINE r == worker[w].rev
<1>1. /\ r \in 1..Len(log) /\ r \in Int /\ 1 <= r /\ 1..(r - 1) \subseteq Confirmed
      /\ view \in Int /\ view <= chain /\ chain \in Int
  BY AtWork, RowInHand, Bounds DEF Views
<1>2. r # 1 => r - 1 <= view /\ 1 <= view
  <2> SUFFICES ASSUME r # 1 PROVE r - 1 <= view /\ 1 <= view
    OBVIOUS
  <2>1. r - 1 \in Confirmed /\ r - 1 >= 1
    BY <1>1
  <2>2. MaxConfirmed \in Int /\ r - 1 <= MaxConfirmed
    <3>1. MaxConfirmed \in Confirmed /\ r - 1 <= MaxConfirmed
      BY <2>1, MaxConfirmedIs
    <3> QED BY <3>1, Bounds DEF Confirmed, Revs
  <2> QED BY <1>1, <2>1, <2>2 DEF Stale
<1>3. r < chain => r \in Confirmed
  BY <1>1 DEF Judged, Ordered
<1>4. view >= 0
  BY Bounds, AtWork DEF Views
<1> QED BY <1>1, <1>2, <1>3, <1>4

\* What the other conjuncts need of a step: nothing is sent out of order, no
\* pass ends in a mistake it was not led to, and no row is given one.
LEMMA StaysJudged ==
  ASSUME RelayInv, Judged, Progress,
         \A s \in Signatures : txs'[s] # None =>
            txs[s] # None \/ 1..(s[1] - 1) \subseteq Confirmed,
         chain' = chain \/ \E s \in Signatures : txs[s] # None /\ chain' = s[1],
         \A w \in Workers : \/ Overtaken(worker'[w])
                            \/ /\ worker'[w].pc = worker[w].pc /\ worker'[w].result = worker[w].result
                               /\ worker'[w].rev = worker[w].rev,
         DOMAIN delivery' = DOMAIN delivery,
         \A r \in DOMAIN delivery : delivery'[r] # None =>
            \/ delivery'[r].error \notin Mistakes
            \/ delivery[r] # None /\ delivery'[r].error = delivery[r].error
  PROVE  Judged'
<1>1. Confirmed \subseteq Confirmed'
  BY ConfirmedGrows
<1>2. Ordered'
  BY <1>1 DEF Judged, Ordered
<1>3. \A w \in Workers : Overtaken(worker[w])'
  BY <1>1 DEF Judged, Overtaken
<1>4. NeverMisjudged'
  BY DEF Judged, NeverMisjudged, Mistakes
<1> QED BY <1>2, <1>3, <1>4 DEF Judged

\* A pass that does not write a delivery.
LEMMA PassJudged ==
  ASSUME RelayInv, Judged, Progress, NEW w \in Workers, NEW p \in Passes, Overtaken(p),
         worker' = [worker EXCEPT ![w] = p],
         UNCHANGED <<chain, delivery>>,
         \A s \in Signatures : txs'[s] # None =>
            txs[s] # None \/ 1..(s[1] - 1) \subseteq Confirmed
  PROVE  Judged'
<1>1. \A v \in Workers : Overtaken(worker'[v]) \/ worker'[v] = worker[v]
  BY DEF RelayInv, TypeOK
<1> QED BY <1>1, StaysJudged

LEMMA ConcludingJudged ==
  ASSUME RelayInv, Judged, Progress, NEW w \in Workers, NEW result \in Verdicts, NEW retry \in Retries,
         Conclude(w, result, retry),
         result # "chain_predecessor_missing",
         result = "chain_revision_mismatch" => worker[w].rev \in Confirmed,
         UNCHANGED <<chain, delivery>>,
         \A s \in Signatures : txs'[s] # None =>
            txs[s] # None \/ 1..(s[1] - 1) \subseteq Confirmed
  PROVE  Judged'
<1> DEFINE p == [worker[w] EXCEPT !.pc = "concluding", !.result = result, !.retry = retry]
<1>1. p \in Passes /\ p.result = result /\ p.rev = worker[w].rev
  BY AtWork DEF Passes, Optional
<1>2. worker' = [worker EXCEPT ![w] = p]
  BY DEF Conclude
<1>3. Overtaken(p)
  BY <1>1 DEF Overtaken
<1> HIDE DEF p
<1> QED BY <1>1, <1>2, <1>3, PassJudged

LEMMA ObserveJudged ==
  ASSUME RelayInv, Judged, Progress, NEW w \in Workers, Observe(w)
  PROVE  Judged'
<1> DEFINE me == worker[w]
<1>1. PICK view \in Views :
       IF ~Faithful(me.rev) THEN Conclude(w, "local_intent_mismatch", Past)
       ELSE IF Stale(view) THEN Conclude(w, "chain_observation_stale", Backoff - me.late)
       ELSE IF view = 0 /\ me.rev # 1 THEN Conclude(w, "chain_predecessor_missing", Past)
       ELSE IF view = me.rev THEN Conclude(w, "confirmed", Past)
       ELSE IF view # me.rev - 1 THEN Conclude(w, "chain_revision_mismatch", Past)
       ELSE IF log[me.rev] = "FINALIZED" /\ due # None /\ due + me.late > 0
            THEN Conclude(w, "chain_challenge_pending", due)
       ELSE IF Awaited(me) THEN Conclude(w, "transaction_pending", Backoff - me.late)
       ELSE worker' = [worker EXCEPT ![w] = [@ EXCEPT !.pc = "sending"]]
  BY DEF Observe
<1>2. UNCHANGED <<chain, delivery, txs>> /\ me.pc = "leased"
  BY DEF Observe
<1>3. /\ Past \in Retries /\ Backoff - me.late \in Retries
      /\ due # None => due \in Retries
  <2>1. Past \in Retries
    BY Bounds
  <2>2. me.late \in 0..MaxLate
    BY AtWork DEF Passes
  <2>3. Backoff - me.late \in Int /\ Past <= Backoff - me.late /\ Backoff - me.late <= Backoff + Challenge
    BY <2>2, Bounds
  <2>4. due # None => due \in Int /\ Past <= due /\ due <= Challenge
    BY AtWork, Bounds DEF Optional
  <2> HIDE DEF me
  <2> QED BY <2>1, <2>3, <2>4, Bounds
<1>4. CASE \E result \in Verdicts, retry \in Retries :
             /\ Conclude(w, result, retry) /\ result # "chain_predecessor_missing"
             /\ result = "chain_revision_mismatch" => me.rev \in Confirmed
  BY <1>2, <1>4, ConcludingJudged
<1>5. CASE worker' = [worker EXCEPT ![w] = [@ EXCEPT !.pc = "sending"]]
  <2> DEFINE p == [me EXCEPT !.pc = "sending"]
  <2>1. p \in Passes /\ p.pc = "sending"
    BY AtWork DEF Passes
  <2>2. worker' = [worker EXCEPT ![w] = p] /\ Overtaken(p)
    BY <1>5, <2>1 DEF Overtaken
  <2> HIDE DEF p
  <2> QED BY <1>2, <2>1, <2>2, PassJudged
<1>6. ~Stale(view) => /\ ~(view = 0 /\ me.rev # 1)
                      /\ (view # me.rev /\ view # me.rev - 1) => me.rev \in Confirmed
  BY <1>2, ViewsMislead
<1>7. \/ \E result \in Verdicts, retry \in Retries :
             /\ Conclude(w, result, retry) /\ result # "chain_predecessor_missing"
             /\ result = "chain_revision_mismatch" => me.rev \in Confirmed
      \/ worker' = [worker EXCEPT ![w] = [@ EXCEPT !.pc = "sending"]]
  <2>1. {"local_intent_mismatch", "chain_observation_stale", "chain_predecessor_missing",
         "confirmed", "chain_revision_mismatch", "chain_challenge_pending",
         "transaction_pending"} \subseteq Verdicts
    BY DEF Verdicts
  <2> HIDE DEF me
  <2> QED BY <1>1, <1>3, <1>6, <2>1
<1> QED BY <1>4, <1>5, <1>7

LEMMA SendJudged ==
  ASSUME RelayInv, Judged, Progress, NEW w \in Workers, Send(w) \/ TransportFails(w)
  PROVE  Judged'
<1>1. /\ worker[w].pc # "idle" /\ UNCHANGED <<chain, delivery>>
      /\ Past \in Retries /\ "transport" \in Verdicts
  <2>1. worker[w].pc # "idle" /\ UNCHANGED <<chain, delivery>>
    BY DEF Send, TransportFails
  <2>2. Past \in Retries
    BY Bounds
  <2>3. "transport" \in Verdicts
    BY DEF Verdicts
  <2> QED BY <2>1, <2>2, <2>3
<1>2. /\ worker[w] \in Passes /\ worker[w].rev \in Revs
      /\ 1..(worker[w].rev - 1) \subseteq Confirmed
  BY <1>1, AtWork, RowInHand
<1>3. ASSUME NEW n \in Unused(worker[w].rev),
             txs' = [txs EXCEPT ![<<worker[w].rev, n>>] = [fate |-> "sent", life |-> TxLife]]
      PROVE  \A s \in Signatures : txs'[s] # None =>
               txs[s] # None \/ 1..(s[1] - 1) \subseteq Confirmed
  <2> SUFFICES ASSUME NEW s \in Signatures, txs'[s] # None
               PROVE  txs[s] # None \/ 1..(s[1] - 1) \subseteq Confirmed
    OBVIOUS
  <2>1. CASE s = <<worker[w].rev, n>>
    BY <1>2, <2>1
  <2>2. CASE s # <<worker[w].rev, n>>
    BY <1>3, <2>2 DEF RelayInv, TypeOK
  <2> QED BY <2>1, <2>2
<1>4. \A s \in Signatures : txs'[s] # None => txs[s] # None \/ 1..(s[1] - 1) \subseteq Confirmed
  <2>1. \/ UNCHANGED txs
        \/ \E n \in Unused(worker[w].rev) :
             txs' = [txs EXCEPT ![<<worker[w].rev, n>>] = [fate |-> "sent", life |-> TxLife]]
    BY DEF Send, TransportFails
  <2> QED BY <1>3, <2>1
<1>5. CASE Conclude(w, "transport", Past)
  BY <1>1, <1>4, <1>5, ConcludingJudged
<1>6. ASSUME NEW n \in Unused(worker[w].rev),
             worker' = [worker EXCEPT ![w] =
               [@ EXCEPT !.pc = "concluding", !.sent = <<worker[w].rev, n>>, !.result = "sent"]]
      PROVE  Judged'
  <2> DEFINE p == [worker[w] EXCEPT !.pc = "concluding", !.sent = <<worker[w].rev, n>>,
                                    !.result = "sent"]
  <2>1. <<worker[w].rev, n>> \in Signatures
    BY <1>2 DEF Signatures, Unused
  <2>2. p \in Passes /\ p.result = "sent"
    BY <1>2, <2>1 DEF Passes, Optional
  <2>3. worker' = [worker EXCEPT ![w] = p] /\ Overtaken(p)
    BY <1>6, <2>2 DEF Overtaken
  <2> HIDE DEF p
  <2> QED BY <1>1, <1>4, <2>2, <2>3, PassJudged
<1>7. \/ Conclude(w, "transport", Past)
      \/ \E n \in Unused(worker[w].rev) : worker' = [worker EXCEPT ![w] =
               [@ EXCEPT !.pc = "concluding", !.sent = <<worker[w].rev, n>>, !.result = "sent"]]
  BY DEF Send, TransportFails
<1> QED BY <1>5, <1>6, <1>7

\* The pass that was overtaken holds no lease, and its verdict is not written.
LEMMA FinishJudged ==
  ASSUME RelayInv, Judged, Progress, NEW w \in Workers, Finish(w)
  PROVE  Judged'
<1> DEFINE me == worker[w]
           r  == me.rev
           was == delivery[r]
<1>1. /\ me.pc = "concluding" /\ UNCHANGED <<chain, txs>>
      /\ worker' = [worker EXCEPT ![w] = Idle]
  BY DEF Finish
<1>2. r \in Revs /\ was \in Rows /\ was # None
  BY <1>1, RowInHand
<1>3. \A v \in Workers : Overtaken(worker'[v]) \/ worker'[v] = worker[v]
  <2>1. Overtaken(Idle)
    BY DEF Overtaken, Idle
  <2> QED BY <1>1, <2>1 DEF RelayInv, TypeOK
<1>4. ASSUME Holds(w), NEW row \in Rows, row.error \notin Mistakes,
             delivery' = [delivery EXCEPT ![r] = row]
      PROVE  Judged'
  <2>1. /\ DOMAIN delivery' = DOMAIN delivery
        /\ \A q \in DOMAIN delivery : q = r \/ delivery'[q] = delivery[q]
        /\ delivery'[r] = row
    BY <1>2, <1>4 DEF RelayInv, TypeOK
  <2> HIDE DEF r, me
  <2> QED BY <1>1, <1>3, <1>4, <2>1, StaysJudged
<1>5. Holds(w) => me.result \notin Mistakes
  <2> SUFFICES ASSUME Holds(w) PROVE me.result \notin Mistakes
    OBVIOUS
  <2>1. was.token = w /\ w # None
    BY RelayAssumption DEF Holds
  <2>2. r \notin Confirmed
    BY <2>1 DEF RelayInv, Copied
  <2>3. Overtaken(me)
    BY DEF Judged
  <2> QED BY <1>1, <2>2, <2>3 DEF Overtaken, Mistakes
<1>6. Free(was) \in Rows /\ Free(was).error = was.error
  BY <1>2, FreeRow DEF Free, Rows
<1>7. CASE ~Holds(w)
  <2>1. UNCHANGED delivery
    BY <1>7 DEF Finish
  <2> QED BY <1>1, <1>3, <2>1, StaysJudged
<1>8. /\ Past \in Retries /\ 1 - me.late \in Retries /\ me.late \in Ages
      /\ me.sent \in Optional(Signatures) /\ me.retry \in Retries
      /\ me.row.status \in {"pending", "submitted"}
      /\ me.result # "sent" => me.result \in Optional(Verdicts)
  <2>1. /\ me.late \in 0..MaxLate /\ me.sent \in Optional(Signatures) /\ me.retry \in Retries
        /\ me.result # "sent" => me.result \in Optional(Verdicts)
    BY AtWork DEF Passes, Optional
  <2>2. me.row.status \in {"pending", "submitted"}
    BY <1>1, RowInHand DEF Selections
  <2>3. 1 - me.late \in Int /\ Past <= 1 - me.late /\ 1 - me.late <= Backoff + Challenge
        /\ me.late \in Ages
    BY <2>1, Bounds DEF Ages
  <2>4. Past \in Retries /\ 1 - me.late \in Retries
    BY <2>3, Bounds
  <2> HIDE DEF me
  <2> QED BY <2>1, <2>2, <2>3, <2>4
<1>9. None \notin Mistakes
  BY ValuesAssumption DEF Verdicts, Mistakes
<1>10. CASE Holds(w) /\ me.result = "confirmed"
  <2> DEFINE row == [Free(was) EXCEPT !.status = "confirmed", !.error = None]
  <2>1. row \in Rows /\ row.error = None
    <3> HIDE DEF was
    <3> QED BY <1>6 DEF Rows, Optional
  <2>2. delivery' = [delivery EXCEPT ![r] = row]
    BY <1>10 DEF Finish
  <2> HIDE DEF row
  <2> QED BY <1>4, <1>9, <1>10, <2>1, <2>2
<1>11. CASE Holds(w) /\ me.result = "sent"
  <2> DEFINE row == Submitted(me, was)
  <2>1. row \in Rows /\ row.error = None
    <3> HIDE DEF was, me
    <3> QED BY <1>6, <1>8 DEF Submitted, Rows, Optional
  <2>2. delivery' = [delivery EXCEPT ![r] = row]
    BY <1>11 DEF Finish
  <2> HIDE DEF row
  <2> QED BY <1>4, <1>9, <1>11, <2>1, <2>2
<1>12. CASE Holds(w) /\ me.result \notin {"confirmed", "sent"}
  <2> DEFINE row == Released(me, was)
  <2>1. row \in Rows /\ row.error = me.result
    <3> HIDE DEF was, me
    <3>1. (IF me.result \in Waiting THEN me.row.status ELSE "blocked") \in
            {"pending", "submitted", "confirmed", "blocked"}
      BY <1>8
    <3> QED BY <1>6, <1>8, <1>12, <3>1 DEF Released, Rows
  <2>2. delivery' = [delivery EXCEPT ![r] = row]
    BY <1>12 DEF Finish
  <2> HIDE DEF row
  <2> QED BY <1>4, <1>5, <1>12, <2>1, <2>2
<1> QED BY <1>7, <1>10, <1>11, <1>12

\* Neither taking a revision in hand nor letting go of it judges anything.
LEMMA HandsJudged ==
  ASSUME RelayInv, Judged, Progress, NEW w \in Workers, Sync(w) \/ Withheld(w) \/ Killed(w)
  PROVE  Judged'
<1>1. UNCHANGED <<chain, delivery, txs>>
  BY DEF Sync, Withheld, Killed
<1>2. CASE Sync(w)
  <2>1. PICK r \in Revs :
          worker' = [worker EXCEPT ![w] =
            [Idle EXCEPT !.pc = "selected", !.rev = r, !.row = Selected(delivery[r])]]
    BY <1>2 DEF Sync
  <2> DEFINE p == [Idle EXCEPT !.pc = "selected", !.rev = r, !.row = Selected(delivery[r])]
  <2>2. p.pc = "selected" /\ worker'[w] = p
    <3>1. p.pc = "selected"
      BY SelectedPass
    <3> QED BY <2>1, <3>1 DEF RelayInv, TypeOK
  <2>3. \A v \in Workers : v # w => worker'[v] = worker[v]
    BY <2>1 DEF RelayInv, TypeOK
  <2>4. \A v \in Workers : Overtaken(worker'[v]) \/ worker'[v] = worker[v]
    BY <2>2, <2>3 DEF Overtaken
  <2> HIDE DEF p
  <2> QED BY <1>1, <2>4, StaysJudged
<1>3. CASE Withheld(w)
  <2>1. Past \in Retries
    BY Bounds
  <2>2. "resolution_eligibility_blocked" \in Verdicts
    BY DEF Verdicts
  <2>3. Conclude(w, "resolution_eligibility_blocked", Past)
    BY <1>3 DEF Withheld
  <2> QED BY <1>1, <2>1, <2>2, <2>3, ConcludingJudged
<1>4. CASE Killed(w)
  <2>1. worker' = [worker EXCEPT ![w] = Idle] /\ Overtaken(Idle)
    BY <1>4 DEF Killed, Overtaken, Idle
  <2> QED BY <1>1, <2>1, IdleFits, PassJudged
<1> QED BY <1>2, <1>3, <1>4

LEMMA ClaimJudged ==
  ASSUME RelayInv, Judged, Progress, NEW w \in Workers, Claim(w)
  PROVE  Judged'
<1> DEFINE me == worker[w]
           r  == me.rev
           was == delivery[r]
           row == [was EXCEPT !.token = w, !.lease = Lease - me.late]
           p   == [me EXCEPT !.pc = "leased"]
<1>1. me.pc = "selected" /\ UNCHANGED <<chain, txs>>
  BY DEF Claim
<1>2. me \in Passes /\ r \in Revs /\ was \in Rows /\ was # None
  BY <1>1, AtWork, RowInHand
<1>3. p.pc = "leased" /\ Idle.pc = "idle" /\ row.error = was.error
  BY <1>2 DEF Passes, Rows, Idle
<1>4. \/ worker' = [worker EXCEPT ![w] = p] /\ delivery' = [delivery EXCEPT ![r] = row]
      \/ worker' = [worker EXCEPT ![w] = Idle] /\ UNCHANGED delivery
  BY DEF Claim
<1> HIDE DEF p, row
<1>5. \A v \in Workers : Overtaken(worker'[v]) \/ worker'[v] = worker[v]
  BY <1>3, <1>4 DEF RelayInv, TypeOK, Overtaken
<1>6. /\ DOMAIN delivery' = DOMAIN delivery
      /\ \A q \in DOMAIN delivery : delivery'[q] = delivery[q] \/ (q = r /\ delivery'[q] = row)
  <2>1. delivery \in [Revs -> Optional(Rows)]
    BY DEF RelayInv, TypeOK
  <2>2. CASE UNCHANGED delivery
    BY <2>2
  <2>3. CASE delivery' = [delivery EXCEPT ![r] = row]
    <3> HIDE DEF r, was, me
    <3> QED BY <2>1, <2>3
  <2> QED BY <1>4, <2>2, <2>3
<1>7. \A q \in DOMAIN delivery : delivery'[q] # None =>
        delivery[q] # None /\ delivery'[q].error = delivery[q].error
  BY <1>2, <1>3, <1>6
<1> QED BY <1>1, <1>5, <1>6, <1>7, StaysJudged

\* What lands was sent, and so extends what is confirmed by at most one.
LEMMA ChainJudged ==
  ASSUME RelayInv, Judged, Progress, NEW s \in Signatures, Execute(s) \/ Lose(s)
  PROVE  Judged'
<1>1. UNCHANGED <<delivery, worker>> /\ txs[s] # None
  BY DEF Execute, Lose
<1>2. chain' = chain \/ chain' = s[1]
  BY DEF Execute, Lose
<1>3. \A t \in Signatures : t # s => txs'[t] = txs[t]
  <2>1. \/ txs' = [txs EXCEPT ![s].fate = "landed", ![s].life = 0]
        \/ txs' = [txs EXCEPT ![s].fate = "failed", ![s].life = 0]
    BY DEF Execute, Lose
  <2> QED BY <2>1 DEF RelayInv, TypeOK
<1> QED BY <1>1, <1>2, <1>3, StaysJudged

LEMMA TickJudged ==
  ASSUME RelayInv, Judged, Progress, Tick
  PROVE  Judged'
<1>1. UNCHANGED chain
  BY DEF Tick
<1>2. \A s \in Signatures : txs'[s] # None => txs[s] # None
  BY DEF Tick
<1>3. ASSUME NEW w \in Workers
      PROVE  \/ Overtaken(worker'[w])
             \/ /\ worker'[w].pc = worker[w].pc /\ worker'[w].result = worker[w].result
                /\ worker'[w].rev = worker[w].rev
  <2>1. worker'[w] = IF worker[w].pc = "idle" THEN Idle
          ELSE [worker[w] EXCEPT !.late = @ + 1, !.retry = Left(@), !.row.age = Aged(@)]
    BY DEF Tick
  <2>2. CASE worker[w].pc = "idle"
    BY <2>1, <2>2 DEF Overtaken, Idle
  <2>3. CASE worker[w].pc # "idle"
    <3>1. /\ worker[w] \in Passes /\ worker[w].row # None /\ worker[w].late < MaxLate
      BY <2>3, AtWork DEF Carried, Tick
    <3> QED BY <2>1, <2>3, <3>1, PassAges
  <2> QED BY <2>2, <2>3
<1>4. DOMAIN delivery' = DOMAIN delivery /\ DOMAIN delivery = Revs
  BY DEF Tick, RelayInv, TypeOK
<1>5. ASSUME NEW r \in Revs, delivery'[r] # None
      PROVE  delivery[r] # None /\ delivery'[r].error = delivery[r].error
  <2>1. delivery'[r] = IF delivery[r] = None THEN None
          ELSE [delivery[r] EXCEPT !.lease = Left(@), !.retry = Left(@),
                                   !.age = IF delivery[r].signature = None THEN @ ELSE Aged(@)]
    BY DEF Tick
  <2>2. delivery[r] # None
    BY <1>5, <2>1
  <2>3. delivery[r] \in Rows
    BY <2>2 DEF RelayInv, TypeOK, Optional
  <2> QED BY <2>1, <2>2, <2>3, RowAges
<1> QED BY <1>1, <1>2, <1>3, <1>4, <1>5, StaysJudged

\* What is queued has no verdict yet.
LEMMA QueueJudged ==
  ASSUME RelayInv, Judged, Progress, UNCHANGED <<chain, txs, worker>>,
         DOMAIN delivery' = DOMAIN delivery,
         \A r \in DOMAIN delivery : delivery'[r] = delivery[r] \/ delivery'[r] = Queued
  PROVE  Judged'
<1>1. Queued.error \notin Mistakes
  BY ValuesAssumption DEF Queued, Verdicts, Mistakes
<1> QED BY <1>1, StaysJudged

LEMMA RecordJudged ==
  ASSUME RelayInv, Judged, Progress,
         Commit \/ Enable \/ BeginFinalize \/ Prepare \/ CommitFinal
  PROVE  Judged'
<1>1. UNCHANGED <<chain, txs, worker>>
  BY DEF Commit, Enable, BeginFinalize, Prepare, CommitFinal
<1>2. delivery \in [Revs -> Optional(Rows)]
  BY DEF RelayInv, TypeOK
<1>3. CASE \E state : Record(state)
  BY <1>1, <1>2, <1>3, QueueJudged DEF Record
<1>4. CASE Enable
  <2>1. \E S : delivery' = [r \in Revs |-> IF r \in S THEN Queued ELSE delivery[r]]
    BY <1>4 DEF Enable
  <2> QED BY <1>1, <1>2, <2>1, QueueJudged
<1>5. CASE UNCHANGED delivery
  BY <1>1, <1>5, QueueJudged
<1>6. (\E state : Record(state)) \/ Enable \/ UNCHANGED delivery
  BY DEF Commit, BeginFinalize, Prepare, CommitFinal
<1> QED BY <1>3, <1>4, <1>5, <1>6

LEMMA InitJudged == Init => Judged
<1> SUFFICES ASSUME Init PROVE Judged
  OBVIOUS
<1>1. RelayInv /\ Confirmed = {} /\ chain = 0
  BY Initially
<1>2. Ordered
  BY <1>1 DEF Init, Ordered
<1>3. \A w \in Workers : Overtaken(worker[w])
  BY DEF Init, Overtaken, Idle
<1>4. Queued.error \notin Mistakes
  BY ValuesAssumption DEF Queued, Verdicts, Mistakes
<1>5. NeverMisjudged
  BY <1>4 DEF Init, NeverMisjudged, Mistakes
<1> QED BY <1>2, <1>3, <1>5 DEF Judged

LEMMA JudgedStep == RelayInv /\ Judged /\ [Next]_vars => Judged'
<1> SUFFICES ASSUME RelayInv, Judged, [Next]_vars PROVE Judged'
  OBVIOUS
<1>1. Progress
  BY RelayStep
<1>2. CASE UNCHANGED vars
  BY <1>1, <1>2, QueueJudged DEF vars
<1>3. CASE \E w \in Workers : Pass(w) \/ Withheld(w) \/ TransportFails(w) \/ Killed(w)
  BY <1>1, <1>3, HandsJudged, ClaimJudged, ObserveJudged, SendJudged, FinishJudged DEF Pass
<1>4. CASE \E s \in Signatures : Execute(s) \/ Lose(s)
  BY <1>1, <1>4, ChainJudged
<1>5. CASE Commit \/ Enable \/ BeginFinalize \/ Prepare \/ CommitFinal
  BY <1>1, <1>5, RecordJudged
<1>6. CASE Tick
  BY <1>1, <1>6, TickJudged
<1> QED BY <1>2, <1>3, <1>4, <1>5, <1>6 DEF Next

\* No answer of a node, however far behind, blocks a delivery for good as a
\* disagreement between the chain and the record: an answer that would mislead
\* is older than what is confirmed, or meets a pass whose lease is gone
\* (deliver, release).
THEOREM NothingMisjudged == Spec => []NeverMisjudged
<1>1. Spec => []RelayInv
  BY Invariant
<1>2. Judged => NeverMisjudged
  BY DEF Judged
<1> QED BY <1>1, <1>2, InitJudged, JudgedStep, PTL DEF Spec

-----------------------------------------------------------------------------
(***************************************************************************)
(* The ledger of the daily budget, for any deliveries, days and amounts    *)
(***************************************************************************)
\* A delivery between its two reads: what it asks for is what it asked for,
\* and what it read of the day before was within the limit.
Reservations ==
  [pc : {"new", "exhausted", "reserving", "confirming", "authorized"},
   day : Days, amount : Amounts, before : Nat]

SpendTypes ==
  /\ reserved \in [Days -> Nat]
  /\ caller \in [Callers -> Reservations]

\* The ledger with its types: what a day holds is only ever raised by a
\* delivery whose amount still fits.
SpendInv == SpendTypes /\ LedgerWithinLimit

LEMMA SpendInitially == SpendInit => SpendInv
BY SpendAssumption DEF SpendInit, SpendInv, SpendTypes, Reservations, LedgerWithinLimit

LEMMA SpendStep == SpendInv /\ [SpendNext]_spend => SpendInv'
<1> SUFFICES ASSUME SpendInv, [SpendNext]_spend PROVE SpendInv'
    OBVIOUS
<1> USE SpendAssumption DEF SpendInv, SpendTypes
<1>1. CASE UNCHANGED spend
  BY <1>1 DEF spend, LedgerWithinLimit
<1>2. ASSUME NEW c \in Callers, ReadBefore(c) PROVE SpendInv'
  BY <1>2 DEF ReadBefore, Reservations, LedgerWithinLimit
<1>3. ASSUME NEW c \in Callers, Reserve(c) PROVE SpendInv'
  <2>1. caller' \in [Callers -> Reservations]
    BY <1>3 DEF Reserve, Reservations
  <2>2. /\ caller[c].day \in Days /\ caller[c].amount \in Nat
        /\ reserved[caller[c].day] \in Nat
    BY DEF Reservations
  <2>3. CASE Fits(c)
    <3>1. reserved[caller[c].day] + caller[c].amount <= Limit
      BY <2>2, <2>3 DEF Fits
    <3>2. reserved' = [reserved EXCEPT ![caller[c].day] = @ + caller[c].amount]
      BY <1>3, <2>3 DEF Reserve
    <3> QED BY <2>1, <2>2, <3>1, <3>2 DEF LedgerWithinLimit
  <2>4. CASE ~Fits(c)
    BY <1>3, <2>1, <2>4 DEF Reserve, LedgerWithinLimit
  <2> QED BY <2>3, <2>4
<1>4. ASSUME NEW c \in Callers, ReadAfter(c) PROVE SpendInv'
  BY <1>4 DEF ReadAfter, Reservations, LedgerWithinLimit
<1> QED BY <1>1, <1>2, <1>3, <1>4 DEF SpendNext

\* The types and the bound hold throughout (reserve_daily_spend).
THEOREM Reserved == SpendSpec => []SpendInv
BY SpendInitially, SpendStep, PTL DEF SpendSpec

\* However many deliveries reserve at once, no day's ledger passes the limit
\* (reserve_daily_spend's conditional update).
THEOREM WithinLimit == SpendSpec => []LedgerWithinLimit
BY Reserved, PTL DEF SpendInv
=============================================================================
