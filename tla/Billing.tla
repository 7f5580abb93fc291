------------------------------ MODULE Billing ------------------------------
(***************************************************************************)
(* The sandbox service billing (billing.rs): a pool of operator capital    *)
(* and the invoices it backs, each a principal, an envelope of cost and    *)
(* the provider attempts that reserve from it.  Every command reads the    *)
(* pool, reads its invoice, and writes one batch guarded by the versions   *)
(* of both; a command carries a key, so that one sent again is answered    *)
(* from the audit.                                                         *)
(***************************************************************************)
EXTENDS Integers, FiniteSets, FiniteSetsExt, TLC

CONSTANTS
  Callers,        \* commands under way at once
  Invoices, Attempts,
  Price, Cap,     \* priceCents and costCapCents of a quote
  MaxAttempts,    \* maxAttempts of a quote
  Amounts,        \* what may be funded, reserved or charged
  ExpiresAt, RefundUntil,
  MaxCents,       \* MAX_CENTS
  MaxTime,        \* bound
  Nil

BillingAssumption ==
  /\ {Price, Cap, MaxAttempts, MaxCents} \subseteq Nat \ {0} /\ Amounts \subseteq Nat
  /\ ExpiresAt \in Nat /\ RefundUntil \in Nat /\ RefundUntil >= ExpiresAt

VARIABLES
  now,
  capital,        \* service_billing_sandbox_capital: [available, version]
  invoice,        \* service_billing_sandbox_invoices
  audit,          \* service_billing_sandbox_audit: by key, the request it made
  caller,         \* commands under way
  paidIn, paidOut \* what came from outside and went there

vars == <<now, capital, invoice, audit, caller, paidIn, paidOut>>
books == <<capital, invoice, audit, paidIn, paidOut>>

Idle == [pc |-> "idle", do |-> Nil, cap |-> Nil, made |-> Nil]

\* A command, and its key: what it does to what, whatever its amount (one
\* funding of each amount).
Plain == {"quote", "accept", "publish", "complete", "request_refund", "finish_refund", "release"}
Commands ==
  {[act |-> "fund", inv |-> Nil, att |-> a, amt |-> a] : a \in Amounts \ {0}} \cup
  {[act |-> x, inv |-> i, att |-> Nil, amt |-> 0] : x \in Plain, i \in Invoices} \cup
  {[act |-> x, inv |-> i, att |-> t, amt |-> a] :
     x \in {"start_attempt", "start_refund_attempt"}, i \in Invoices, t \in Attempts,
     a \in Amounts \ {0}} \cup
  {[act |-> "mark_uncertain", inv |-> i, att |-> t, amt |-> 0] : i \in Invoices, t \in Attempts} \cup
  {[act |-> "settle_attempt", inv |-> i, att |-> t, amt |-> a] :
     i \in Invoices, t \in Attempts, a \in Amounts}
Key(c) == <<c.act, c.inv, c.att>>

Init ==
  /\ now = 0 /\ capital = [available |-> 0, version |-> 0]
  /\ invoice = [i \in Invoices |-> Nil] /\ audit = [k \in {} |-> Nil]
  /\ caller = [w \in Callers |-> Idle] /\ paidIn = 0 /\ paidOut = 0

------------------------------------------------------------------------------
(***************************************************************************)
(* What a command makes of the invoice it read and the pool, or Nil when   *)
(* it is refused: [inv, available].                                        *)
(***************************************************************************)
Outstanding(v) == {t \in DOMAIN v.attempts : v.attempts[t].state # "settled"}
SumHeld(v) == MapThenSumSet(LAMBDA t : v.attempts[t].cap, Outstanding(v))
Pending(v) == Outstanding(v) # {}
Active(v) == v # Nil /\ v.phase \notin {"QUOTED", "CLOSED"}
With(v, f) == f @@ v

Quoted == [phase |-> "QUOTED", pay |-> "UNFUNDED", assets |-> 0, principal |-> 0,
           remaining |-> 0, spent |-> 0, attempts |-> [t \in {} |-> Nil], version |-> 0]

\* accept_sandbox_receipt: the simulated payment funds both sides.
Accepts(v, available) == v # Nil /\ v.phase = "QUOTED" /\ now < ExpiresAt /\ available >= Cap
Accepted(v) == With(v, [phase |-> "ACCEPTED_COMPILING", pay |-> "SANDBOX_FUNDED",
                        principal |-> Price, remaining |-> Cap, assets |-> Price + Cap])

\* start_attempt, start_refund_attempt: a reservation within the envelope.
Working(v) ==
  \/ v.phase = "PUBLISHED_SERVICING"
  \/ v.phase = "ACCEPTED_COMPILING" /\ v.pay = "SANDBOX_FUNDED"
Starts(v, c) ==
  /\ IF c.act = "start_refund_attempt" THEN v.pay = "REFUND_PENDING" ELSE Working(v)
  /\ c.att \notin DOMAIN v.attempts /\ Cardinality(DOMAIN v.attempts) < MaxAttempts
  /\ c.amt <= v.remaining - SumHeld(v)
Started(v, c) ==
  With(v, [attempts |-> v.attempts @@ (c.att :> [cap |-> c.amt, state |-> "reserved"])])

\* mark_uncertain, settle_attempt: of an attempt that is outstanding.
Settles(v, c) ==
  /\ c.att \in Outstanding(v)
  /\ c.act = "settle_attempt" => c.amt <= v.attempts[c.att].cap
Settled(v, c) ==
  With(v, [attempts  |-> [v.attempts EXCEPT ![c.att].state =
                            IF c.act = "mark_uncertain" THEN "uncertain" ELSE "settled"],
           assets    |-> v.assets - c.amt,
           remaining |-> v.remaining - c.amt,
           spent     |-> v.spent + c.amt])

\* request_refund: an unpublished one has no work left to do.
RefundAsked(v) ==
  With(v, [pay |-> "REFUND_PENDING",
           phase |-> IF v.phase = "ACCEPTED_COMPILING" THEN "COMPLETED_REFUND_WINDOW" ELSE v.phase])
\* finish_refund: the principal goes back.
Refunded(v) == With(v, [assets |-> v.assets - v.principal, principal |-> 0,
                        pay |-> "SANDBOX_REFUNDED"])
\* release: what is left goes to the pool, when the refund exposure has ended.
Releases(v) ==
  /\ v.phase = "COMPLETED_REFUND_WINDOW" /\ ~Pending(v)
  /\ \/ v.pay = "SANDBOX_REFUNDED"
     \/ v.pay = "SANDBOX_FUNDED" /\ now >= RefundUntil
Released(v) ==
  With(v, [assets |-> 0, principal |-> 0, remaining |-> 0, phase |-> "CLOSED",
           pay |-> IF v.pay = "SANDBOX_FUNDED" THEN "SANDBOX_EARNED" ELSE v.pay])

\* The change of a command.
To(v, available) == [inv |-> v, available |-> available]
Change(c, v, available) ==
  CASE c.act = "fund" -> To(Nil, available + c.amt)
    [] c.act = "quote" /\ v = Nil /\ now < ExpiresAt -> To(Quoted, available)
    [] c.act = "accept" /\ Accepts(v, available) -> To(Accepted(v), available - Cap)
    [] c.act \in {"start_attempt", "start_refund_attempt"} /\ Active(v) /\ Starts(v, c)
         -> To(Started(v, c), available)
    [] c.act \in {"mark_uncertain", "settle_attempt"} /\ Active(v) /\ Settles(v, c)
         -> To(Settled(v, c), available)
    [] c.act = "publish" /\ Active(v) /\ v.phase = "ACCEPTED_COMPILING" /\ v.pay = "SANDBOX_FUNDED"
         -> To(With(v, [phase |-> "PUBLISHED_SERVICING"]), available)
    [] c.act = "complete" /\ Active(v) /\ v.phase = "PUBLISHED_SERVICING" /\ ~Pending(v)
         -> To(With(v, [phase |-> "COMPLETED_REFUND_WINDOW"]), available)
    [] c.act = "request_refund" /\ Active(v) /\ v.pay = "SANDBOX_FUNDED"
         -> To(RefundAsked(v), available)
    [] c.act = "finish_refund" /\ Active(v) /\ v.pay = "REFUND_PENDING"
         -> To(Refunded(v), available)
    [] c.act = "release" /\ Active(v) /\ Releases(v) -> To(Released(v), available + v.assets)
    [] OTHER -> Nil

\* _invariant, and the bounds of every amount.
InBooks(v) ==
  /\ \A x \in {v.assets, v.principal, v.remaining, v.spent} : 0 <= x /\ x <= 2 * MaxCents
  /\ v.assets >= v.principal + v.remaining /\ SumHeld(v) <= v.remaining

Allowed(made) == made.available \in 0..MaxCents /\ (made.inv # Nil => InBooks(made.inv))

------------------------------------------------------------------------------
(***************************************************************************)
(* _mutate.                                                                *)
(***************************************************************************)
Made(c) == Key(c) \in DOMAIN audit
Goto(w, f) == caller' = [caller EXCEPT ![w] = f @@ @]
Done(w) == caller' = [caller EXCEPT ![w] = Idle]

Now(c) == IF c.inv = Nil THEN Nil ELSE invoice[c.inv]
\* A command is not a replay, and the pool is read ...  (One that would be
\* refused from the first changes nothing and is left out.)
ReadCapital(w) ==
  /\ caller[w].pc = "idle"
  /\ \E c \in Commands :
       /\ ~Made(c) /\ Change(c, Now(c), capital.available) # Nil
       /\ Goto(w, [pc |-> "invoice", do |-> c, cap |-> capital])
  /\ UNCHANGED <<now, books>>

\* ... then its invoice, which is there unless it is to be made.  What the
\* command makes of them is refused, or goes to the batch.
ReadInvoice(w) ==
  /\ caller[w].pc = "invoice"
  /\ LET c == caller[w].do  made == Change(c, Now(c), caller[w].cap.available)
     IN IF made # Nil /\ ~Made(c) /\ Allowed(made)
          THEN Goto(w, [pc |-> "commit", made |-> made])
          ELSE Done(w)
  /\ UNCHANGED <<now, books>>

\* A batch that is guarded by its invoice alone.
GuardedByInvoice(w) ==
  LET c == caller[w].do  v == caller[w].made.inv IN
  /\ ~Made(c)
  /\ IF c.act = "quote" THEN invoice[c.inv] = Nil
     ELSE v # Nil => invoice[c.inv].version = v.version
\* The batch: its guards are the versions read, and its key is new.
Guarded(w) ==
  LET c == caller[w].do  v == caller[w].made.inv IN
  /\ ~Made(c) /\ capital.version = caller[w].cap.version
  /\ IF c.act = "quote" THEN invoice[c.inv] = Nil
     ELSE v # Nil => invoice[c.inv].version = v.version
Commit(w) ==
  /\ caller[w].pc = "commit" /\ Done(w) /\ UNCHANGED now
  /\ LET c == caller[w].do  made == caller[w].made  at == c.inv IN
     IF Guarded(w)
       THEN /\ capital' = [available |-> made.available, version |-> capital.version + 1]
            /\ invoice' = IF made.inv = Nil THEN invoice
                          ELSE [invoice EXCEPT ![at] = [made.inv EXCEPT !.version =
                                                          IF c.act = "quote" THEN 0 ELSE @ + 1]]
            /\ audit' = audit @@ (Key(c) :> c)
            /\ paidIn' = paidIn + CASE c.act = "fund"   -> c.amt
                                    [] c.act = "accept" -> Price
                                    [] OTHER            -> 0
            /\ paidOut' = paidOut + CASE c.act = "settle_attempt" -> c.amt
                                      [] c.act = "finish_refund"  -> Price
                                      [] OTHER                    -> 0
       ELSE UNCHANGED books

Clock == now < MaxTime /\ now' = now + 1 /\ UNCHANGED <<books, caller>>

Next == Clock \/ \E w \in Callers : ReadCapital(w) \/ ReadInvoice(w) \/ Commit(w)

Spec == Init /\ [][Next]_vars

------------------------------------------------------------------------------
Open == {i \in Invoices : invoice[i] # Nil}

\* Every cent that came in is in the pool, in an invoice, or was paid out.
Accounted ==
  paidIn = capital.available + MapThenSumSet(LAMBDA i : invoice[i].assets, Open) + paidOut

\* An invoice owes no more than it holds, and its attempts reserve no more
\* than its envelope; a closed one has nothing outstanding.
Solvent ==
  \A i \in Open :
    /\ InBooks(invoice[i])
    /\ invoice[i].phase \in {"QUOTED", "CLOSED"} => ~Pending(invoice[i]) /\ invoice[i].assets = 0

\* The invariant the code checks before a batch refuses nothing by itself.
NeverBroke ==
  \A i \in Open : \A c \in {x \in Commands : x.inv = i} :
    LET made == Change(c, invoice[i], capital.available)
    IN made # Nil => InBooks(made.inv)

\* The principal leaves once: back to the payer or, past the window, to the pool.
PaidBackOnce ==
  \A i \in Open :
    /\ invoice[i].pay = "SANDBOX_EARNED" => now >= RefundUntil /\ <<"finish_refund", i, Nil>> \notin DOMAIN audit
    /\ <<"finish_refund", i, Nil>> \in DOMAIN audit => invoice[i].principal = 0
=============================================================================
