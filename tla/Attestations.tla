----------------------------- MODULE Attestations -----------------------------
(***************************************************************************)
(* A forecaster's receipt stamped on chain by the forecaster's own wallet: *)
(* apps/web-rs/src/attestation.rs with migration 0019, for one user and    *)
(* one forecast.                                                           *)
(*                                                                         *)
(* The Worker signs a memo as the fee payer and hands the transaction to   *)
(* the device, whose wallet signs and sends it; what the device then       *)
(* reports is recorded unseen.  Requests of the user's devices overlap,    *)
(* and the receipt and the wallet may change between a request's reads,    *)
(* which are all awaits.                                                   *)
(***************************************************************************)
EXTENDS Naturals, Sequences, FiniteSets

CONSTANTS
  Requests,     \* requests in flight at once
  Wallets,      \* addresses the user may sign in with
  Signatures,   \* what a device may report
  Limit,        \* stamps prepared in a day
  MaxReceipts,  \* bound on submissions
  MaxAsks,      \* bound on requests
  Absent        \* NULL

ASSUME AttestationsAssumption ==
  /\ IsFiniteSet(Requests)
  /\ {Limit, MaxReceipts, MaxAsks} \subseteq Nat
  /\ Absent \notin Wallets /\ Absent \notin Signatures /\ Absent \notin Nat

VARIABLES
  retained, \* the user's retained submission, counted; 0 before the first
  wallet,   \* wallet_identities: the active address, or Absent
  held,     \* history: the receipts that were retained while a wallet was active
  counted,  \* the day's count of attest:<user>
  rows,     \* forecast_attestations, by the order they were created in
  request,  \* what each request is at
  told,     \* history: [Requests -> the row its last answer showed, or Absent]
  asks      \* bound: requests made

stampvars == <<retained, wallet, held, counted, rows, request, told, asks>>

Resting == [at |-> "idle", receipt |-> Absent, wallet |-> Absent, row |-> Absent,
            seen |-> Absent, signature |-> Absent]
Ids == DOMAIN rows

StampInit ==
  /\ retained = 0 /\ wallet = Absent /\ held = [w \in Wallets |-> {}]
  /\ counted = 0 /\ rows = <<>> /\ asks = 0
  /\ request = [r \in Requests |-> Resting] /\ told = [r \in Requests |-> Absent]

Holding(w, n) == held' = IF w = Absent \/ n = 0 THEN held ELSE [held EXCEPT ![w] = @ \cup {n}]

\* The user submits, or submits again (eligible_user_forecasts has the last one).
SubmitReceipt ==
  /\ retained < MaxReceipts
  /\ retained' = retained + 1
  /\ Holding(wallet, retained')
  /\ UNCHANGED <<wallet, counted, rows, request, told, asks>>

\* The user links a wallet, or detaches it.
Link(w) ==
  /\ w # wallet /\ (wallet = Absent \/ w = Absent)
  /\ wallet' = w
  /\ Holding(w, retained)
  /\ UNCHANGED <<retained, counted, rows, request, told, asks>>

Become(r, change) == request' = [request EXCEPT ![r] = change]

\* rate_limit: counted before anything is read, whether or not a stamp comes of it.
Count == counted < Limit /\ counted' = counted + 1

\* prepare, its reads, of the receipt and then of the wallet.
Prepare(r) ==
  /\ request[r].at = "idle" /\ asks < MaxAsks
  /\ asks' = asks + 1
  /\ Count
  /\ Become(r, [Resting EXCEPT !.at = "receipt"])
  /\ UNCHANGED <<retained, wallet, held, rows, told>>

ReadReceipt(r) ==
  /\ request[r].at = "receipt"
  /\ Become(r, IF retained = 0 THEN Resting
               ELSE [request[r] EXCEPT !.at = "wallet", !.receipt = retained])
  /\ UNCHANGED <<retained, wallet, held, counted, rows, told, asks>>

ReadWallet(r) ==
  /\ request[r].at = "wallet"
  /\ Become(r, IF wallet = Absent THEN Resting
               ELSE [request[r] EXCEPT !.at = "stamp", !.wallet = wallet])
  /\ UNCHANGED <<retained, wallet, held, counted, rows, told, asks>>

\* prepare, its insert: the memo commits to the receipt that was read, the
\* message names the wallet that was read.
Stamp(r) ==
  /\ request[r].at = "stamp"
  /\ rows' = Append(rows, [receipt |-> request[r].receipt, wallet |-> request[r].wallet,
                           status |-> "prepared", signature |-> Absent])
  /\ Become(r, Resting)
  /\ UNCHANGED <<retained, wallet, held, counted, told, asks>>

\* confirm, its read of the row that the device names.
Confirm(r, i, s) ==
  /\ request[r].at = "idle" /\ asks < MaxAsks /\ i \in Ids
  /\ asks' = asks + 1
  /\ Become(r, [Resting EXCEPT !.at = "confirm", !.row = i, !.seen = rows[i], !.signature = s])
  /\ UNCHANGED <<retained, wallet, held, counted, rows, told>>

\* Mutant: the update does not look at the status.
Anyhow(i) == TRUE

\* UPDATE ... WHERE status='prepared', which may find no row by now.
Writable(i) == rows[i].status = "prepared"

\* A signature is recorded once among all stamps.
Taken(s, i) == \E j \in Ids \ {i} : rows[j].signature = s

\* confirm, on what it read: a prepared row is given the signature, a row that
\* has this signature is answered again, and any other is a conflict.
Record(r) ==
  /\ request[r].at = "confirm"
  /\ LET i == request[r].row
         s == request[r].signature
     IN CASE request[r].seen.status = "prepared" ->
               IF ~Writable(i) THEN Become(r, [request[r] EXCEPT !.at = "status"]) /\ UNCHANGED rows
               ELSE IF Taken(s, i) THEN Become(r, Resting) /\ UNCHANGED rows
               ELSE /\ rows' = [rows EXCEPT ![i].status = "submitted", ![i].signature = s]
                    /\ Become(r, [request[r] EXCEPT !.at = "status"])
          [] request[r].seen.status # "prepared" ->
               /\ Become(r, IF request[r].seen.signature = s
                            THEN [request[r] EXCEPT !.at = "status"] ELSE Resting)
               /\ UNCHANGED rows
  /\ UNCHANGED <<retained, wallet, held, counted, told, asks>>

\* status: the latest stamp that was reported, of those the user prepared.
Status(r) ==
  /\ request[r].at = "status"
  /\ LET reported == {i \in Ids : rows[i].status = "submitted"} IN
     told' = [told EXCEPT ![r] = IF reported = {} THEN Absent
                                 ELSE CHOOSE i \in reported : \A j \in reported : j <= i]
  /\ Become(r, Resting)
  /\ UNCHANGED <<retained, wallet, held, counted, rows, asks>>

StampNext ==
  \/ SubmitReceipt
  \/ \E w \in Wallets \cup {Absent} : Link(w)
  \/ \E r \in Requests :
       \/ Prepare(r) \/ ReadReceipt(r) \/ ReadWallet(r) \/ Stamp(r) \/ Record(r) \/ Status(r)
       \/ \E i \in Ids, s \in Signatures : Confirm(r, i, s)

StampSpec == StampInit /\ [][StampNext]_stampvars

-----------------------------------------------------------------------------
\* What is reported stays: a stamp never changes but from prepared to
\* submitted, and no later report takes the place of its signature.
StampsStay ==
  \A i \in Ids : /\ i \in DOMAIN rows'
                 /\ rows'[i] = rows[i] \/ rows[i].status = "prepared"
                 /\ rows'[i].receipt = rows[i].receipt /\ rows'[i].wallet = rows[i].wallet

\* One transaction stands behind one stamp, whoever reports it; its wallet was
\* the user's since the receipt was submitted; the day's stamps are within the
\* limit; who reported one is shown a reported one.
OneStampEach ==
  /\ \A i, j \in Ids : (i # j /\ rows[i].signature # Absent) => rows[i].signature # rows[j].signature
  /\ \A i \in Ids : \E n \in held[rows[i].wallet] : rows[i].receipt <= n
  /\ \A i \in Ids : (rows[i].signature = Absent) <=> (rows[i].status = "prepared")
  /\ Len(rows) <= Limit
  /\ \A r \in Requests : request[r].at = "status" => \E i \in Ids : rows[i].status = "submitted"
  /\ \A r \in Requests : told[r] # Absent => rows[told[r]].status = "submitted"

\* Overlapping prepares, confirmations and submissions leave every stamp what
\* it was prepared as, and none reported twice (prepare, confirm, status).
StampsKept == [][StampsStay]_stampvars /\ []OneStampEach
=============================================================================
