--------------------------------- MODULE Wire ---------------------------------
(***************************************************************************)
(* The bytes that pass between the Worker and the registry program.  The   *)
(* two are written apart: the program (programs/forecast_registry/src/     *)
(* lib.rs) writes its accounts and reads its instructions field after      *)
(* field; the Worker (solana.rs, dispute_wire.rs) reads the accounts at    *)
(* offsets kept by hand, encodes the instructions, and encodes an account  *)
(* again to name it by its hash.                                           *)
(*                                                                         *)
(* A byte string is where each field begins and how long it is: a reader   *)
(* that looks anywhere else reads a torn value.  A hash is a number, 0 the *)
(* zero hash; a 64-bit word above the signed range is -1.  A behaviour     *)
(* takes a record one side writes and alters up to MaxChanges of its       *)
(* fields, so that every rule on them is met and missed.  Lengths other    *)
(* than the writer's are refused by every reader and left out.             *)
(***************************************************************************)
EXTENDS Integers, Sequences

CONSTANTS
  Limit,        \* MAX, the largest number either side accepts: 2^53 - 1
  MaxBody,      \* the longest evidence body
  Chunk,        \* the longest chunk of one
  Disputes,     \* the cap of 256 on domain disputes
  MaxChanges    \* bound on the fields altered

VARIABLES
  shape,        \* which account or instruction the bytes are
  record,       \* its fields
  changes       \* fields altered so far

wire == <<shape, record, changes>>

WireAssumption ==
  /\ Limit \in Nat /\ MaxBody \in Nat /\ Chunk \in Nat /\ Disputes \in Nat
  /\ MaxChanges \in Nat

Torn == -2

-----------------------------------------------------------------------------
(***************************************************************************)
(* Fields and where they lie                                               *)
(***************************************************************************)
Words ==
  {"magic", "epoch", "revision", "proposal_revision", "opened", "deadline",
   "pending", "material", "accepted", "sealed_revision", "sealed_at",
   "sealed_slot", "accepted_at", "accepted_slot", "reviewed_at", "open_at",
   "close_at", "occurred_at", "challenge_until", "chain_not_before",
   "paused_at", "gate_revision", "previous_revision"}
SmallBytes ==
  {"tag", "mode", "phase", "status", "state", "outcome", "paused_from",
   "padding", "disposition"}

Width(n) == CASE n \in Words -> 8
              [] n \in SmallBytes -> 1
              [] n = "reserved" -> 7
              [] n \in {"body_length", "written", "offset"} -> 4
              [] n \in {"pending_disputes", "material_disputes", "size"} -> 2
              [] OTHER -> 32

\* Where each field of a layout begins: the layout written, or taken by a
\* Reader, from the first byte on.
Placed(layout) ==
  LET start[i \in 1..Len(layout) + 1] ==
        IF i = 1 THEN 0 ELSE start[i - 1] + Width(layout[i - 1])
  IN [n \in {layout[i] : i \in DOMAIN layout} |->
        start[CHOOSE i \in DOMAIN layout : layout[i] = n]]

SizeOf(layout) ==
  LET size[i \in 0..Len(layout)] ==
        IF i = 0 THEN 0 ELSE size[i - 1] + Width(layout[i])
  IN size[Len(layout)]

\* What a reader that looks at these places finds in r as it was written.
Found(places, written, r) ==
  [n \in DOMAIN places |->
     LET there == {m \in DOMAIN written :
                     written[m] = places[n] /\ Width(m) = Width(n)}
     IN IF there = {} THEN Torn ELSE r[CHOOSE m \in there : TRUE]]

Faithful(places, written, r) ==
  \A n \in DOMAIN places : Found(places, written, r)[n] = r[n]

-----------------------------------------------------------------------------
(***************************************************************************)
(* Accounts: the program's layouts, and the Worker's                       *)
(***************************************************************************)
ProgramConfig == <<"magic", "admin", "relayer", "pending_admin">>
WorkerConfigAt ==
  [magic |-> 0, admin |-> 8, relayer |-> 40, pending_admin |-> 72]

Registration ==
  <<"id", "creator", "specification", "open_at", "close_at", "revision",
    "occurred_at">>
ProgramForecast ==
  <<"magic">> \o Registration
  \o <<"state", "outcome", "paused_from", "padding", "event", "snapshot",
       "resolution", "disputes", "reputation", "trigger", "challenge_until",
       "chain_not_before", "paused_at", "pending_disputes",
       "material_disputes">>
WorkerForecastAt ==
  [magic |-> 0, id |-> 8, creator |-> 40, specification |-> 72,
   open_at |-> 104, close_at |-> 112, revision |-> 120, occurred_at |-> 128,
   state |-> 136, outcome |-> 137, paused_from |-> 138, padding |-> 139,
   event |-> 140, snapshot |-> 172, resolution |-> 204, disputes |-> 236,
   reputation |-> 268, trigger |-> 300, challenge_until |-> 332,
   chain_not_before |-> 340, paused_at |-> 348, pending_disputes |-> 356,
   material_disputes |-> 358]

ProgramReviewer == <<"magic", "key", "revision">>
WorkerReviewer  == <<"magic", "key", "revision">>
WorkerReviewerAt == [magic |-> 0, key |-> 8, revision |-> 40]

ProgramGate ==
  <<"magic", "forecast", "specification", "genesis", "epoch", "revision",
    "proposal_revision", "resolution", "proposal_event", "opened", "deadline",
    "pending", "material", "accepted", "head", "phase", "reserved",
    "sealed_revision", "sealed_event", "sealed_snapshot", "sealed_payload",
    "sealed_at", "sealed_slot">>
\* Mutant: the counters are written in another order.
WorkerGateSwapped ==
  <<"magic", "forecast", "specification", "genesis", "epoch", "revision",
    "proposal_revision", "resolution", "proposal_event", "opened", "deadline",
    "material", "pending", "accepted", "head", "phase", "reserved",
    "sealed_revision", "sealed_event", "sealed_snapshot", "sealed_payload",
    "sealed_at", "sealed_slot">>
WorkerGate ==
  <<"magic", "forecast", "specification", "genesis", "epoch", "revision",
    "proposal_revision", "resolution", "proposal_event", "opened", "deadline",
    "pending", "material", "accepted", "head", "phase", "reserved",
    "sealed_revision", "sealed_event", "sealed_snapshot", "sealed_payload",
    "sealed_at", "sealed_slot">>
WorkerGateAt ==
  [magic |-> 0, forecast |-> 8, specification |-> 40, genesis |-> 72,
   epoch |-> 104, revision |-> 112, proposal_revision |-> 120,
   resolution |-> 128, proposal_event |-> 160, opened |-> 192,
   deadline |-> 200, pending |-> 208, material |-> 216, accepted |-> 224,
   head |-> 232, phase |-> 264, reserved |-> 265, sealed_revision |-> 272,
   sealed_event |-> 280, sealed_snapshot |-> 312, sealed_payload |-> 344,
   sealed_at |-> 376, sealed_slot |-> 384]

\* A receipt's header; the body's bytes follow it.
ProgramReceipt ==
  <<"magic", "forecast", "specification", "genesis", "program", "epoch",
    "proposal_revision", "resolution", "proposal_event", "user", "nonce",
    "evidence", "body_length", "written", "status", "reserved", "accepted_at",
    "accepted_slot", "deadline", "review", "reviewer", "reviewed_at">>
WorkerReceipt ==
  <<"magic", "forecast", "specification", "genesis", "program", "epoch",
    "proposal_revision", "resolution", "proposal_event", "user", "nonce",
    "evidence", "body_length", "written", "status", "reserved", "accepted_at",
    "accepted_slot", "deadline", "review", "reviewer", "reviewed_at">>
WorkerReceiptAt ==
  [magic |-> 0, forecast |-> 8, specification |-> 40, genesis |-> 72,
   program |-> 104, epoch |-> 136, proposal_revision |-> 144,
   resolution |-> 152, proposal_event |-> 184, user |-> 216, nonce |-> 248,
   evidence |-> 280, body_length |-> 312, written |-> 316, status |-> 320,
   reserved |-> 321, accepted_at |-> 328, accepted_slot |-> 336,
   deadline |-> 344, review |-> 352, reviewer |-> 384, reviewed_at |-> 416]

Zeros(r, names)    == \A n \in names : r[n] = 0
NonZeros(r, names) == \A n \in names : r[n] # 0
Counts(r, names)   == \A n \in names : r[n] \in 0..Limit

\* The right discriminator; a scope, where there is one; zeros where nothing
\* is kept.
Scoped(r) ==
  /\ r.magic = 1
  /\ "genesis" \in DOMAIN r => r.genesis = 1
  /\ "reserved" \in DOMAIN r => r.reserved = 0
  /\ "padding" \in DOMAIN r => r.padding = 0

\* Config::decode, and the Worker's decode_config, which asks the same.
ProgramTakesConfig(r) ==
  /\ NonZeros(r, {"admin", "relayer"}) /\ r.admin # r.relayer
  /\ r.pending_admin = 0 \/ r.pending_admin \notin {r.admin, r.relayer}
WorkerTakesConfig(r) ==
  /\ NonZeros(r, {"admin", "relayer"}) /\ r.admin # r.relayer
  /\ ~(r.pending_admin # 0 /\ r.pending_admin \in {r.admin, r.relayer})

ProgramTakesReviewer(r) ==
  r.key # 0 /\ r.revision > 0 /\ Counts(r, {"revision"})
WorkerTakesReviewer(r) ==
  r.key # 0 /\ Counts(r, {"revision"}) /\ r.revision > 0

Judged(r) == IF r.state = 9 THEN r.paused_from ELSE r.state

\* Forecast::validate.
ProgramTakesForecast(r) ==
  LET e == Judged(r)
      disputed == r.pending_disputes + r.material_disputes
  IN /\ NonZeros(r, {"id", "creator", "specification", "event", "snapshot"})
     /\ Counts(r, {"open_at", "close_at", "occurred_at", "challenge_until",
                   "chain_not_before", "paused_at"})
     /\ r.open_at < r.close_at
     /\ r.revision \in 1..Limit /\ r.state \in 2..11
     /\ IF r.state = 9 THEN r.paused_from \in 4..8 /\ r.paused_at > 0
        ELSE Zeros(r, {"paused_from", "paused_at"})
     /\ IF e >= 5
        THEN r.resolution # 0 /\ r.outcome \in 1..3 /\ r.chain_not_before > 0
        ELSE Zeros(r, {"resolution", "outcome", "chain_not_before"})
     /\ IF e >= 6 THEN r.challenge_until > 0
        ELSE r.challenge_until = 0 /\ disputed = 0
     /\ disputed <= Disputes
     /\ r.chain_not_before >= r.challenge_until
     /\ (e \in {10, 11} => r.occurred_at >= r.challenge_until)
     /\ (e \in {6, 10, 11} => disputed = 0)
     /\ (e = 8 => r.pending_disputes = 0 /\ r.material_disputes > 0)
     /\ (disputed > 0 => r.disputes # 0)
     /\ IF e >= 10 THEN r.reputation # 0 ELSE r.reputation = 0
     /\ (r.state = 2 => r.trigger = 0 /\ r.occurred_at < r.close_at)
     /\ (r.state # 2 => r.occurred_at >= r.close_at \/ r.trigger # 0)
     /\ (r.occurred_at < r.close_at /\ e >= 5 => r.outcome = 1)

\* decode_forecast.  A finalized account without a reputation passes.
WorkerTakesForecast(r) ==
  LET e == Judged(r)
      none == r.pending_disputes = 0 /\ r.material_disputes = 0
  IN /\ NonZeros(r, {"id", "creator", "specification", "event", "snapshot"})
     /\ Counts(r, {"open_at", "close_at", "occurred_at", "challenge_until",
                   "chain_not_before", "paused_at"})
     /\ r.revision \in 1..Limit /\ r.state \in 2..11
     /\ r.open_at < r.close_at
     /\ \/ r.state = 9 /\ r.paused_from \in 4..8 /\ r.paused_at > 0
        \/ r.state # 9 /\ Zeros(r, {"paused_from", "paused_at"})
     /\ IF e >= 5
        THEN r.resolution # 0 /\ r.outcome \in 1..3 /\ r.chain_not_before > 0
        ELSE Zeros(r, {"resolution", "outcome", "chain_not_before"})
     /\ IF e >= 6 THEN r.challenge_until > 0 ELSE r.challenge_until = 0 /\ none
     /\ r.pending_disputes + r.material_disputes <= Disputes
     /\ r.chain_not_before >= r.challenge_until
     /\ (e \in {10, 11} => r.occurred_at >= r.challenge_until)
     /\ (e \in {6, 10, 11} => none)
     /\ ~(e = 8 /\ (r.pending_disputes # 0 \/ r.material_disputes = 0))
     /\ ~(~none /\ r.disputes = 0)
     /\ ~(e < 10 /\ r.reputation # 0)
     /\ ~(r.state = 2 /\ (r.trigger # 0 \/ r.occurred_at >= r.close_at))
     /\ ~(r.state # 2 /\ r.occurred_at < r.close_at /\ r.trigger = 0)
     /\ ~(r.occurred_at < r.close_at /\ e >= 5 /\ r.outcome # 1)

Sealing == {"sealed_revision", "sealed_event", "sealed_snapshot",
            "sealed_payload", "sealed_at", "sealed_slot"}

\* The phases, which both sides put alike: a dormant gate has no proposal, an
\* open one no seal, a sealed one no dispute left and a seal after the deadline.
Phased(r) ==
  /\ IF r.phase = 0
     THEN Zeros(r, {"epoch", "proposal_revision", "resolution",
                    "proposal_event", "opened", "deadline", "accepted"})
     ELSE /\ r.epoch > 0 /\ r.proposal_revision > 0
          /\ NonZeros(r, {"resolution", "proposal_event"})
          /\ r.opened < r.deadline
  /\ IF r.phase < 2 THEN Zeros(r, Sealing)
     ELSE /\ Zeros(r, {"pending", "material"})
          /\ r.sealed_revision > r.proposal_revision
          /\ NonZeros(r, {"sealed_event", "sealed_snapshot", "sealed_payload"})
          /\ r.sealed_at > r.deadline /\ r.sealed_slot > 0

\* Gate::validate, and Accumulator::decode, which asks less of the range.
ProgramTakesGate(r) ==
  /\ Counts(r, {"epoch", "revision", "proposal_revision", "pending",
                "material", "accepted", "sealed_revision", "sealed_slot",
                "opened", "deadline", "sealed_at"})
  /\ NonZeros(r, {"forecast", "specification", "head"})
  /\ r.revision > 0 /\ r.phase <= 3
  /\ r.pending + r.material <= r.accepted
  /\ Phased(r)
WorkerTakesGate(r) ==
  r.revision > 0 /\ r.pending + r.material <= r.accepted /\ Phased(r)

\* The evidence hash 5 is that of the whole body the record carries.
Whole(r) == r.written = r.body_length /\ r.evidence = 5

Reviewed(r) ==
  IF r.status < 2 THEN Zeros(r, {"review", "reviewer", "reviewed_at"})
  ELSE /\ NonZeros(r, {"review", "reviewer"})
       /\ r.reviewed_at >= r.accepted_at

\* Receipt::validate of either side.
ProgramTakesReceipt(r) ==
  /\ NonZeros(r, {"forecast", "specification", "program", "resolution",
                  "proposal_event", "user", "nonce", "evidence"})
  /\ Counts(r, {"epoch", "proposal_revision", "accepted_slot", "accepted_at",
                "deadline", "reviewed_at"})
  /\ r.epoch > 0 /\ r.proposal_revision > 0
  /\ r.body_length \in 1..MaxBody /\ r.written <= r.body_length
  /\ r.status <= 3
  /\ IF r.status = 0 THEN Zeros(r, {"accepted_at", "accepted_slot", "deadline"})
     ELSE Whole(r) /\ r.accepted_slot > 0 /\ r.accepted_at <= r.deadline
  /\ Reviewed(r)
WorkerTakesReceipt(r) ==
  /\ Counts(r, {"epoch", "proposal_revision", "accepted_at", "accepted_slot",
                "deadline", "reviewed_at"})
  /\ r.status \in 0..3
  /\ r.epoch > 0 /\ r.proposal_revision > 0
  /\ r.body_length \in 1..MaxBody /\ r.written <= r.body_length
  /\ IF r.status = 0 THEN Zeros(r, {"accepted_at", "accepted_slot", "deadline"})
     ELSE Whole(r) /\ r.accepted_slot > 0 /\ r.accepted_at <= r.deadline
  /\ Reviewed(r)

Accounts == {"config", "forecast", "reviewer", "gate", "receipt"}

ProgramWrites(s) ==
  CASE s = "config" -> ProgramConfig     [] s = "forecast" -> ProgramForecast
    [] s = "reviewer" -> ProgramReviewer [] s = "gate" -> ProgramGate
    [] s = "receipt" -> ProgramReceipt
WorkerLooks(s) ==
  CASE s = "config" -> WorkerConfigAt     [] s = "forecast" -> WorkerForecastAt
    [] s = "reviewer" -> WorkerReviewerAt [] s = "gate" -> WorkerGateAt
    [] s = "receipt" -> WorkerReceiptAt
\* The accounts the Worker encodes again, to name them by their hash.
NamedByHash == {"reviewer", "gate", "receipt"}
WorkerWrites(s) ==
  CASE s = "reviewer" -> WorkerReviewer [] s = "gate" -> WorkerGate
    [] s = "receipt" -> WorkerReceipt

ProgramTakes(s, r) ==
  /\ Scoped(r)
  /\ CASE s = "config" -> ProgramTakesConfig(r)
       [] s = "forecast" -> ProgramTakesForecast(r)
       [] s = "reviewer" -> ProgramTakesReviewer(r)
       [] s = "gate" -> ProgramTakesGate(r)
       [] s = "receipt" -> ProgramTakesReceipt(r)
WorkerTakes(s, r) ==
  /\ Scoped(r)
  /\ CASE s = "config" -> WorkerTakesConfig(r)
       [] s = "forecast" -> WorkerTakesForecast(r)
       [] s = "reviewer" -> WorkerTakesReviewer(r)
       [] s = "gate" -> WorkerTakesGate(r)
       [] s = "receipt" -> WorkerTakesReceipt(r)

-----------------------------------------------------------------------------
(***************************************************************************)
(* Instructions: the Worker's encoders and the program's readers           *)
(***************************************************************************)
Event ==
  <<"revision", "occurred_at", "previous", "event", "snapshot", "state",
    "outcome", "resolution", "disputes", "reputation", "trigger",
    "challenge_until", "pending_disputes", "material_disputes">>
ProgramEvent ==
  <<"revision", "occurred_at", "previous", "event", "snapshot", "state",
    "outcome", "resolution", "disputes", "reputation", "trigger",
    "challenge_until", "pending_disputes", "material_disputes">>

\* What the Worker sends; advance, replace and import are tag 7's modes.
WorkerSends ==
  [role     |-> <<"tag", "key">>,
   accept   |-> <<"tag">>,
   register |-> <<"tag">> \o Registration \o <<"event", "snapshot">>,
   activate |-> <<"tag", "revision", "event", "specification">>,
   advance  |-> <<"tag", "mode">> \o Event,
   replace  |-> <<"tag", "mode">> \o Event \o <<"artifact", "head">>,
   import   |-> <<"tag", "mode">> \o Event \o <<"artifact">>,
   draft    |-> <<"tag", "epoch", "proposal_revision", "specification",
                  "resolution", "proposal_event", "nonce", "evidence",
                  "body_length">>,
   append   |-> <<"tag", "offset", "size">>,
   submit   |-> <<"tag", "epoch", "nonce", "evidence">>,
   review   |-> <<"tag", "epoch", "commitment", "artifact", "disposition">>,
   seal     |-> <<"tag">> \o Event \o <<"gate_revision", "commitment">>,
   finalize |-> <<"tag">> \o Event \o <<"commitment">>,
   appoint  |-> <<"tag", "previous_revision", "commitment", "key">>]

\* What the program takes, in the order of its Reader.
ProgramReads ==
  [role     |-> <<"tag", "key">>,
   accept   |-> <<"tag">>,
   register |-> <<"tag", "id", "creator", "specification", "open_at",
                  "close_at", "revision", "occurred_at", "event", "snapshot">>,
   activate |-> <<"tag", "revision", "event", "specification">>,
   advance  |-> <<"tag", "mode">> \o ProgramEvent,
   replace  |-> <<"tag", "mode">> \o ProgramEvent \o <<"artifact", "head">>,
   import   |-> <<"tag", "mode">> \o ProgramEvent \o <<"artifact">>,
   draft    |-> <<"tag", "epoch", "proposal_revision", "specification",
                  "resolution", "proposal_event", "nonce", "evidence",
                  "body_length">>,
   append   |-> <<"tag", "offset", "size">>,
   submit   |-> <<"tag", "epoch", "nonce", "evidence">>,
   review   |-> <<"tag", "epoch", "commitment", "artifact", "disposition">>,
   seal     |-> <<"tag">> \o ProgramEvent \o <<"gate_revision", "commitment">>,
   finalize |-> <<"tag">> \o ProgramEvent \o <<"commitment">>,
   appoint  |-> <<"tag", "previous_revision", "commitment", "key">>]

Instructions == DOMAIN WorkerSends
Events == {"advance", "replace", "import", "seal", "finalize"}

\* The payload's length the program asks of each, without the tag.
ProgramLength(s, r) ==
  CASE s = "role" -> 32      [] s = "accept" -> 0    [] s = "register" -> 192
    [] s = "activate" -> 72  [] s = "advance" -> 255 [] s = "replace" -> 319
    [] s = "import" -> 287   [] s = "draft" -> 180
    [] s = "append" -> 6 + r.size
    [] s = "submit" -> 72    [] s = "review" -> 73   [] s = "seal" -> 294
    [] s = "finalize" -> 286 [] s = "appoint" -> 72

\* The whole length the Worker's decoder of intake instructions asks.
DecoderLength(s, r) ==
  CASE s = "activate" -> 73  [] s = "advance" -> 256 [] s = "replace" -> 320
    [] s = "import" -> 288   [] s = "draft" -> 181
    [] s = "append" -> 7 + r.size
    [] s = "submit" -> 73    [] s = "review" -> 74   [] s = "seal" -> 295
    [] s = "finalize" -> 287 [] s = "appoint" -> 73

\* Where that decoder looks for the event's fields.
DecoderAt(s) ==
  LET start == IF s \in {"seal", "finalize"} THEN 1 ELSE 2
      body == [revision |-> 0, occurred_at |-> 8, previous |-> 16,
               event |-> 48, snapshot |-> 80, state |-> 112, outcome |-> 113,
               resolution |-> 114, disputes |-> 146, reputation |-> 178,
               trigger |-> 210, challenge_until |-> 242,
               pending_disputes |-> 250, material_disputes |-> 252]
  IN [n \in DOMAIN body |-> start + body[n]]

\* encode_advance of solana.rs: an event any account could take.
Encodable(r) ==
  /\ r.revision \in 1..Limit /\ Counts(r, {"occurred_at", "challenge_until"})
  /\ r.state \in 2..11 /\ r.outcome \in 0..3
  /\ r.pending_disputes + r.material_disputes <= Disputes
  /\ NonZeros(r, {"previous", "event", "snapshot"}) /\ r.previous # r.event
  /\ r.pending_disputes + r.material_disputes > 0 => r.disputes # 0

\* encode_register: the publication precedes the close.
Publishable(r) ==
  /\ NonZeros(r, {"id", "creator", "specification", "event", "snapshot"})
  /\ Counts(r, {"open_at", "close_at", "occurred_at"})
  /\ r.revision \in 1..Limit
  /\ r.open_at < r.close_at /\ r.occurred_at < r.close_at

\* What an encoder asks of the fields before it writes them.  A draft is for
\* the open gate it was read from; a submit for a whole draft; a finalize for
\* the candidate the seal names.
WorkerEncodes(s, r) ==
  CASE s = "role" -> r.key # 0
    [] s = "accept" -> TRUE
    [] s = "register" -> Publishable(r)
    [] s = "activate" ->
         Counts(r, {"revision"}) /\ NonZeros(r, {"event", "specification"})
    [] s = "advance" -> Encodable(r) /\ r.state # 10
    [] s = "replace" ->
         Encodable(r) /\ r.state # 10 /\ NonZeros(r, {"artifact", "head"})
    [] s = "import" -> Encodable(r) /\ r.state # 10 /\ r.artifact # 0
    [] s = "draft" ->
         /\ r.epoch \in 1..Limit /\ r.proposal_revision \in 1..Limit
         /\ NonZeros(r, {"specification", "resolution", "proposal_event",
                         "nonce", "evidence"})
         /\ r.body_length \in 1..MaxBody
    [] s = "append" ->
         r.offset >= 0 /\ r.size \in 1..Chunk /\ r.offset + r.size <= MaxBody
    [] s = "submit" ->
         r.epoch \in 1..Limit /\ r.nonce # 0 /\ r.evidence = 5
    [] s = "review" ->
         /\ r.epoch \in 1..Limit /\ NonZeros(r, {"commitment", "artifact"})
         /\ r.disposition \in {2, 3}
    [] s = "seal" ->
         /\ Encodable(r) /\ r.state = 10
         /\ r.gate_revision \in 1..Limit /\ r.commitment # 0
    [] s = "finalize" -> Encodable(r) /\ r.state = 10 /\ r.commitment # 0
    [] s = "appoint" ->
         r.key # 0 /\ (r.previous_revision = 0 <=> r.commitment = 0)
         /\ Counts(r, {"previous_revision"})

\* decode_instruction, which the Worker runs before it signs or relays one.
Decodes(s, r) ==
  CASE s \in Events -> /\ Encodable(r)
                       /\ r.state = 10 <=> s \in {"seal", "finalize"}
                       /\ s = "seal" => Counts(r, {"gate_revision"})
    [] s = "append" -> WorkerEncodes("append", r)
    [] s = "draft" -> Counts(r, {"epoch", "proposal_revision"})
                      /\ r.body_length \in 1..MaxBody
    [] s = "review" -> Counts(r, {"epoch"}) /\ r.disposition \in {2, 3}
    [] s = "activate" -> Counts(r, {"revision"})
    [] s = "submit" -> Counts(r, {"epoch"})
    [] s = "appoint" -> Counts(r, {"previous_revision"})

\* What the program asks of the fields, before it compares them with its
\* accounts.
ProgramAccepts(s, r) ==
  CASE s = "role" -> r.key # 0
    [] s = "register" ->
         LET f == [n \in {ProgramForecast[i] : i \in DOMAIN ProgramForecast} |->
                     CASE n \in DOMAIN r -> r[n]
                       [] n = "state" -> 2
                       [] OTHER -> 0]
         IN ProgramTakesForecast(f) /\ r.occurred_at < r.close_at
    [] s = "draft" ->
         /\ r.epoch \in 1..Limit /\ r.proposal_revision \in 1..Limit
         /\ NonZeros(r, {"specification", "resolution", "proposal_event",
                         "nonce", "evidence"})
         /\ r.body_length \in 1..MaxBody
    [] s = "append" -> r.size \in 1..Chunk
    [] s = "review" -> r.disposition \in {2, 3} /\ r.artifact # 0
    [] s = "replace" -> r.state # 10 /\ r.artifact # 0
    [] s \in {"advance", "import"} -> r.state # 10
    [] s \in {"seal", "finalize"} -> r.state = 10
    [] s = "appoint" -> r.key # 0
    [] OTHER -> TRUE

\* The accounts an intake instruction names, in order, each with the
\* privileges instruction() declares: signer, writable.
No == {}
S  == {"signer"}
W  == {"writable"}
SW == S \cup W
WorkerMetas(s) ==
  CASE s = "appoint" -> <<<<"actor", SW>>, <<"config", No>>, <<"judge", W>>,
                          <<"system", No>>>>
    [] s = "activate" -> <<<<"actor", SW>>, <<"config", No>>,
                           <<"forecast", No>>, <<"gate", W>>, <<"system", No>>>>
    [] s \in {"advance", "replace", "import"} ->
         <<<<"actor", S>>, <<"config", No>>, <<"forecast", W>>, <<"gate", W>>>>
         \o CASE s = "replace" -> <<<<"adjudicator", S>>, <<"judge", No>>>>
              [] s = "import" -> <<<<"receipt", No>>>>
              [] OTHER -> <<>>
    [] s = "draft" -> <<<<"actor", SW>>, <<"forecast", No>>, <<"gate", No>>,
                        <<"receipt", W>>, <<"system", No>>>>
    [] s = "append" -> <<<<"actor", SW>>, <<"receipt", W>>, <<"system", No>>>>
    [] s = "submit" -> <<<<"actor", S>>, <<"forecast", No>>, <<"gate", W>>,
                         <<"receipt", W>>>>
    [] s = "review" -> <<<<"actor", S>>, <<"config", No>>, <<"judge", No>>,
                         <<"forecast", No>>, <<"gate", W>>, <<"receipt", W>>>>
    [] s \in {"seal", "finalize"} -> <<<<"actor", S>>, <<"config", No>>,
                                      <<"forecast", W>>, <<"gate", W>>>>

\* The accounts process() takes, in order, with the privileges it requires:
\* of a payer, of an account it stores or creates, of an authority.
ProgramMetas(s) ==
  CASE s = "appoint" -> <<<<"actor", SW>>, <<"config", No>>, <<"judge", W>>,
                          <<"system", No>>>>
    [] s = "activate" -> <<<<"actor", SW>>, <<"config", No>>,
                           <<"forecast", No>>, <<"gate", W>>, <<"system", No>>>>
    [] s = "advance" -> <<<<"actor", S>>, <<"config", No>>, <<"forecast", W>>,
                          <<"gate", W>>>>
    [] s = "replace" -> <<<<"actor", S>>, <<"config", No>>, <<"forecast", W>>,
                          <<"gate", W>>, <<"adjudicator", S>>, <<"judge", No>>>>
    [] s = "import" -> <<<<"actor", S>>, <<"config", No>>, <<"forecast", W>>,
                         <<"gate", W>>, <<"receipt", No>>>>
    [] s = "draft" -> <<<<"actor", SW>>, <<"forecast", No>>, <<"gate", No>>,
                        <<"receipt", W>>, <<"system", No>>>>
    [] s = "append" -> <<<<"actor", SW>>, <<"receipt", W>>, <<"system", No>>>>
    [] s = "submit" -> <<<<"actor", S>>, <<"forecast", No>>, <<"gate", W>>,
                         <<"receipt", W>>>>
    [] s = "review" -> <<<<"actor", S>>, <<"config", No>>, <<"judge", No>>,
                         <<"forecast", No>>, <<"gate", W>>, <<"receipt", W>>>>
    [] s \in {"seal", "finalize"} -> <<<<"actor", S>>, <<"config", No>>,
                                      <<"forecast", W>>, <<"gate", W>>>>

-----------------------------------------------------------------------------
(***************************************************************************)
(* Behaviours                                                              *)
(***************************************************************************)
\* A record of this layout: the values given, hashes the side always writes,
\* and zeros.
Always == {"admin", "relayer", "id", "creator", "specification", "event",
           "snapshot", "key", "forecast", "head", "program", "resolution",
           "proposal_event", "user", "nonce", "evidence", "artifact",
           "commitment", "disputes"}
Filled(layout, given) ==
  [n \in {layout[i] : i \in DOMAIN layout} |->
     CASE n \in DOMAIN given -> given[n]
       [] n \notin DOMAIN given /\ n \in {"magic", "genesis"} -> 1
       [] n \notin DOMAIN given /\ n \in {"relayer", "previous"} -> 6
       [] n \notin DOMAIN given /\ n \in Always \ {"relayer"} -> 5
       [] OTHER -> 0]

\* Records the program has written, one for each stage of an account.
Written(s) ==
  CASE s = "config" ->
         {Filled(ProgramConfig, [pending_admin |-> k]) : k \in {0, 7}}
    [] s = "reviewer" -> {Filled(ProgramReviewer, [revision |-> 1])}
    [] s = "gate" ->
         LET open == [epoch |-> 1, revision |-> 2, proposal_revision |-> 2,
                      opened |-> 1, deadline |-> 2, accepted |-> 1, phase |-> 1]
         IN {Filled(ProgramGate, [revision |-> 1, resolution |-> 0,
                                  proposal_event |-> 0, phase |-> 0]),
             Filled(ProgramGate, open),
             Filled(ProgramGate, [n \in DOMAIN open \cup {"pending"} |->
               IF n = "pending" THEN 1 ELSE open[n]])}
            \cup {Filled(ProgramGate, [n \in DOMAIN open \cup Sealing |->
                     CASE n = "phase" -> p
                       [] n \in {"sealed_revision", "sealed_at"} -> 3
                       [] n = "sealed_slot" -> 1
                       [] n \in Sealing /\ Width(n) = 32 -> 5
                       [] OTHER -> open[n]]) : p \in {2, 3}}
    [] s = "receipt" ->
         LET at(status, n) == IF status = 0 THEN 0 ELSE n
         IN {Filled(ProgramReceipt,
               [epoch |-> 1, proposal_revision |-> 2, body_length |-> MaxBody,
                written |-> at(status, MaxBody), status |-> status,
                accepted_at |-> at(status, 1), accepted_slot |-> at(status, 1),
                deadline |-> at(status, 2),
                review |-> IF status = 2 THEN 5 ELSE 0,
                reviewer |-> IF status = 2 THEN 5 ELSE 0,
                reviewed_at |-> IF status = 2 THEN 1 ELSE 0]) : status \in 0..2}
    [] s = "forecast" ->
         {Filled(ProgramForecast,
            [open_at |-> 1, close_at |-> 2, revision |-> 1, state |-> state,
             occurred_at |-> IF state = 2 THEN 1 ELSE 3,
             paused_from |-> IF state = 9 THEN 7 ELSE 0,
             paused_at |-> IF state = 9 THEN 3 ELSE 0,
             outcome |-> IF state >= 5 THEN 2 ELSE 0,
             resolution |-> IF state >= 5 THEN 5 ELSE 0,
             chain_not_before |-> IF state >= 5 THEN 3 ELSE 0,
             challenge_until |-> IF state >= 6 THEN 3 ELSE 0,
             material_disputes |-> IF state = 8 THEN 1 ELSE 0,
             reputation |-> IF state >= 10 THEN 5 ELSE 0,
             trigger |-> 0]) : state \in {2, 5, 8, 9, 10}}

\* An instruction the Worker sends.
Sent(s) ==
  Filled(WorkerSends[s],
    [tag |-> CASE s = "role" -> 3     [] s = "accept" -> 5
               [] s = "register" -> 1 [] s = "activate" -> 6
               [] s \in {"advance", "replace", "import"} -> 7
               [] s = "draft" -> 8    [] s = "append" -> 9
               [] s = "submit" -> 10  [] s = "review" -> 11
               [] s = "seal" -> 12    [] s = "finalize" -> 13
               [] s = "appoint" -> 14,
     mode |-> CASE s = "replace" -> 1 [] s = "import" -> 2 [] OTHER -> 0,
     open_at |-> 1, close_at |-> 2, occurred_at |-> 1, revision |-> 1,
     epoch |-> 1, proposal_revision |-> 1, gate_revision |-> 1,
     previous_revision |-> 1, outcome |-> 1, body_length |-> 1, size |-> 1,
     disposition |-> 2,
     state |-> IF s \in {"seal", "finalize"} THEN 10 ELSE 5])

\* What a field may be altered to; tag and mode name the shape.
Alternatives(n) ==
  CASE n \in {"tag", "mode"} -> {}
    [] n \in {"magic", "genesis"} -> {1, 2}
    [] n \in {"reserved", "padding"} -> {0, 1}
    [] n \in {"state", "paused_from"} -> 0..12
    [] n \in {"phase", "status", "outcome", "disposition"} -> 0..4
    [] n \in {"body_length", "written", "offset", "size"} -> 0..(MaxBody + 1)
    [] n \in {"pending_disputes", "material_disputes"} -> 0..(Disputes + 1)
    [] n \in Words \ {"magic"} -> {-1, 0, 1, 2, 3, Limit + 1}
    [] OTHER -> {0, 5, 6}

WireInit ==
  /\ shape \in Accounts \cup Instructions
  /\ record \in IF shape \in Accounts THEN Written(shape) ELSE {Sent(shape)}
  /\ changes = 0

Alter(n) ==
  /\ changes < MaxChanges
  /\ \E v \in Alternatives(n) \ {record[n]} : record' = [record EXCEPT ![n] = v]
  /\ changes' = changes + 1
  /\ UNCHANGED shape

WireNext == \E n \in DOMAIN record : Alter(n)

-----------------------------------------------------------------------------
(***************************************************************************)
(* Properties                                                              *)
(***************************************************************************)
\* The Worker reads what the program wrote: every account the program would
\* store passes the Worker's reader with the fields it was written with, and
\* the account the Worker encodes again is the account, byte for byte, so a
\* hash taken of it is the hash the program takes (dispute_wire.rs and
\* solana.rs, against lib.rs).
AccountsRead ==
  shape \in Accounts =>
    /\ Faithful(WorkerLooks(shape), Placed(ProgramWrites(shape)), record)
    /\ shape \in NamedByHash =>
         Faithful(Placed(WorkerWrites(shape)), Placed(ProgramWrites(shape)),
                  record)
    /\ ProgramTakes(shape, record) => WorkerTakes(shape, record)

\* The program reads what the Worker sent: an instruction the encoders let
\* through has the length, the fields and the accounts, in order and with the
\* privileges, that the program asks; the Worker's own decoder reads it, and
\* passes no event an encoder would have refused (decode_instruction and
\* instruction of dispute_wire.rs).
InstructionsRead ==
  shape \in Instructions =>
    LET written == Placed(WorkerSends[shape])
        length  == SizeOf(WorkerSends[shape])
                   + (IF shape = "append" THEN record.size ELSE 0)
        intake  == shape \notin {"role", "accept", "register"}
    IN /\ length = 1 + ProgramLength(shape, record)
       /\ Faithful(Placed(ProgramReads[shape]), written, record)
       /\ WorkerEncodes(shape, record) => ProgramAccepts(shape, record)
       /\ intake =>
            /\ length = DecoderLength(shape, record)
            /\ WorkerEncodes(shape, record) => Decodes(shape, record)
            /\ Len(WorkerMetas(shape)) = Len(ProgramMetas(shape))
            /\ \A i \in DOMAIN ProgramMetas(shape) :
                 /\ WorkerMetas(shape)[i][1] = ProgramMetas(shape)[i][1]
                 /\ ProgramMetas(shape)[i][2] \subseteq WorkerMetas(shape)[i][2]
       /\ shape \in Events =>
            /\ Faithful(DecoderAt(shape), written, record)
            /\ Decodes(shape, record) => Encodable(record)

ReadAsWritten == AccountsRead /\ InstructionsRead
===============================================================================
