----------------------------- MODULE AccountsProofs -----------------------------
(***************************************************************************)
(* What a profile earns and shows, in two parts.                           *)
(*                                                                         *)
(* The stamps of one user and one forecast, for any number of devices,     *)
(* receipts and reports: what a stamp was prepared as it stays, one        *)
(* transaction stands behind one stamp, its wallet was the user's since    *)
(* the receipt was submitted, and the day's stamps are within the limit.   *)
(*                                                                         *)
(* The cutoffs of any number of forecasts, with accept() under way any     *)
(* number of times: nothing is settled on a receipt its cutoff does not    *)
(* call eligible, and a forecast closes early only under a hold and the    *)
(* cutoff that was completed.                                              *)
(***************************************************************************)
EXTENDS Points, Attestations, FiniteSetTheorems, SequenceTheorems, NaturalsInduction,
        WellFoundedInduction, TLAPS

Optional(S) == S \cup {Absent}

Stamps ==
  [receipt : Nat, wallet : Wallets, status : {"prepared", "submitted"},
   signature : Optional(Signatures)]

Steps == {"idle", "receipt", "wallet", "stamp", "confirm", "status"}

Asking ==
  [at : Steps, receipt : Optional(Nat), wallet : Optional(Wallets), row : Optional(Nat),
   seen : Optional(Stamps), signature : Optional(Signatures)]

StampTypes ==
  /\ retained \in Nat /\ wallet \in Optional(Wallets) /\ held \in [Wallets -> SUBSET Nat]
  /\ counted \in Nat /\ asks \in Nat
  /\ rows \in Seq(Stamps)
  /\ request \in [Requests -> Asking]
  /\ told \in [Requests -> Optional(Nat)]

\* The receipt a linked user retains was retained under that wallet.
HeldNow == wallet # Absent /\ retained > 0 => retained \in held[wallet]

\* What a request has read may be behind what is stored by now, and is good
\* for what the request goes on to do.
Sound(q, kept, holdings, stamps) ==
  /\ q.at = "wallet" => q.receipt \in Nat /\ 1 <= q.receipt /\ q.receipt <= kept
  /\ q.at = "stamp" => /\ q.receipt \in Nat /\ q.wallet \in Wallets
                       /\ \E n \in holdings[q.wallet] : q.receipt <= n
  /\ q.at = "confirm" => /\ q.row \in DOMAIN stamps /\ q.signature \in Signatures
                         /\ q.seen \in Stamps
                         /\ q.seen.status = "prepared" \/ q.seen = stamps[q.row]
  /\ q.at = "status" => \E i \in DOMAIN stamps : stamps[i].status = "submitted"

AllSound == \A r \in Requests : Sound(request[r], retained, held, rows)

\* Every stamp, and every request that may still make one, has been counted.
Making == {"receipt", "wallet", "stamp"}
Preparing == {r \in Requests : request[r].at \in Making}
Budget == Len(rows) + Cardinality(Preparing) <= counted /\ counted <= Limit

Told == \A r \in Requests : told[r] # Absent => told[r] \in Ids /\ rows[told[r]].status = "submitted"

\* The parts of OneStampEach that are about the stamps alone.
StampsSound ==
  /\ \A i, j \in Ids : (i # j /\ rows[i].signature # Absent) => rows[i].signature # rows[j].signature
  /\ \A i \in Ids : \E n \in held[rows[i].wallet] : rows[i].receipt <= n
  /\ \A i \in Ids : (rows[i].signature = Absent) <=> (rows[i].status = "prepared")

StampInv ==
  /\ StampTypes /\ HeldNow /\ Budget /\ Told /\ StampsSound
  /\ AllSound

-----------------------------------------------------------------------------
(***************************************************************************)
(* Lemmas                                                                  *)
(***************************************************************************)
LEMMA Rows == StampInv => /\ Ids = 1..Len(rows) /\ Len(rows) \in Nat /\ Ids \subseteq Nat
                          /\ \A i \in Ids : rows[i] \in Stamps
BY DEF StampInv, StampTypes, Ids

LEMMA Preparers == IsFiniteSet(Preparing) /\ Cardinality(Preparing) \in Nat
<1>1. Preparing \in SUBSET Requests
  BY DEF Preparing
<1>2. IsFiniteSet(Preparing)
  BY <1>1, AttestationsAssumption, FS_Subset
<1> QED BY <1>2, FS_CardinalityType

\* The invariant says what the property says.
LEMMA InvSays == StampInv => OneStampEach
<1> SUFFICES ASSUME StampInv PROVE OneStampEach
  OBVIOUS
<1>1. Len(rows) <= Limit
  BY Rows, Preparers, AttestationsAssumption DEF StampInv, StampTypes, Budget
<1>2. \A r \in Requests : request[r].at = "status" => \E i \in Ids : rows[i].status = "submitted"
  BY DEF StampInv, AllSound, Sound, Ids
<1> QED BY <1>1, <1>2 DEF StampInv, OneStampEach, Told, StampsSound

\* What a request that moves does to the number that may still make a stamp.
LEMMA Counting ==
  ASSUME StampInv, NEW r \in Requests, NEW q \in Asking, request' = [request EXCEPT ![r] = q]
  PROVE  /\ q.at \in Making => Cardinality(Preparing') <= Cardinality(Preparing) + 1
         /\ (q.at \in Making /\ request[r].at \in Making) =>
              Cardinality(Preparing') = Cardinality(Preparing)
         /\ q.at \notin Making => Cardinality(Preparing') <= Cardinality(Preparing)
         /\ (q.at \notin Making /\ request[r].at \in Making) =>
              Cardinality(Preparing') = Cardinality(Preparing) - 1
<1>1. Preparing' = IF q.at \in Making THEN Preparing \cup {r} ELSE Preparing \ {r}
  BY DEF StampInv, StampTypes, Preparing
<1>2. r \in Preparing <=> request[r].at \in Making
  BY DEF Preparing
<1>3. /\ Cardinality(Preparing \cup {r}) = IF r \in Preparing THEN Cardinality(Preparing)
                                            ELSE Cardinality(Preparing) + 1
      /\ Cardinality(Preparing \ {r}) = IF r \in Preparing THEN Cardinality(Preparing) - 1
                                          ELSE Cardinality(Preparing)
  BY Preparers, FS_AddElement, FS_RemoveElement
<1>4. CASE q.at \in Making
  <2>1. Preparing' = Preparing \cup {r}
    BY <1>1, <1>4
  <2> QED BY <1>2, <1>3, <1>4, <2>1, Preparers
<1>5. CASE q.at \notin Making
  <2>1. Preparing' = Preparing \ {r}
    BY <1>1, <1>5
  <2> QED BY <1>2, <1>3, <1>5, <2>1, Preparers
<1> QED BY <1>4, <1>5

\* What was read stays good while receipts, holdings and stamps only grow.
LEMMA StaysSound ==
  ASSUME StampInv, retained' \in Nat, retained <= retained',
         \A w \in Wallets : held[w] \subseteq held'[w],
         StampsStay, NEW q \in Asking, Sound(q, retained, held, rows)
  PROVE  Sound(q, retained', held', rows')
<1>1. q.at = "wallet" => q.receipt <= retained'
  BY DEF Sound, StampInv, StampTypes
<1>2. q.at = "stamp" => \E n \in held'[q.wallet] : q.receipt <= n
  BY DEF Sound
<1>3. q.at = "confirm" => q.row \in DOMAIN rows' /\ (q.seen.status = "prepared" \/ q.seen = rows'[q.row])
  BY DEF Sound, StampsStay, Ids
<1>4. q.at = "status" => \E i \in DOMAIN rows' : rows'[i].status = "submitted"
  BY DEF Sound, StampsStay, Ids
<1> QED BY <1>1, <1>2, <1>3, <1>4 DEF Sound

\* A request moves, and nothing of what is stored.
LEMMA OnlyAsks ==
  ASSUME StampInv, NEW r \in Requests, NEW q \in Asking, Sound(q, retained, held, rows),
         request' = [request EXCEPT ![r] = q],
         UNCHANGED <<retained, wallet, held, rows>>,
         counted' \in Nat, counted' <= Limit, asks' \in Nat,
         Len(rows) + Cardinality(Preparing') <= counted',
         told' \in [Requests -> Optional(Nat)], Told'
  PROVE  StampInv' /\ StampsStay
<1>1. StampsStay
  BY DEF StampsStay, Ids
<1>2. StampTypes'
  BY DEF StampInv, StampTypes
<1>3. HeldNow' /\ Budget' /\ StampsSound'
  BY DEF StampInv, HeldNow, Budget, StampsSound, Ids
<1>4. AllSound'
  <2> SUFFICES ASSUME NEW p \in Requests PROVE Sound(request'[p], retained, held, rows)
    BY DEF AllSound
  <2>1. request'[p] = q \/ request'[p] = request[p]
    BY DEF StampInv, StampTypes
  <2>2. Sound(request[p], retained, held, rows)
    BY DEF StampInv, AllSound
  <2> QED BY <2>1, <2>2
<1> QED BY <1>1, <1>2, <1>3, <1>4 DEF StampInv

\* A request that makes no stamp goes on, or is over.
LEMMA MovesOn ==
  ASSUME StampInv, NEW r \in Requests, NEW q \in Asking, Sound(q, retained, held, rows),
         q.at \in Making => request[r].at \in Making,
         Become(r, q),
         UNCHANGED <<retained, wallet, held, rows, counted, told>>,
         asks' \in Nat
  PROVE  StampInv' /\ StampsStay
<1>1. Cardinality(Preparing') <= Cardinality(Preparing) /\ Cardinality(Preparing') \in Nat
  <2>1. IsFiniteSet(Preparing') /\ Cardinality(Preparing') \in Nat
    <3>1. Preparing' \in SUBSET Requests
      BY DEF Preparing
    <3>2. IsFiniteSet(Preparing')
      BY <3>1, AttestationsAssumption, FS_Subset
    <3> QED BY <3>2, FS_CardinalityType
  <2>2. \/ q.at \in Making /\ request[r].at \in Making
        \/ q.at \notin Making
    OBVIOUS
  <2>3. Cardinality(Preparing') <= Cardinality(Preparing)
    <3>1. request' = [request EXCEPT ![r] = q]
      BY DEF Become
    <3>2. CASE q.at \in Making /\ request[r].at \in Making
      <4>1. Cardinality(Preparing') = Cardinality(Preparing)
        BY <3>1, <3>2, Counting
      <4> QED BY <4>1, Preparers
    <3>3. CASE q.at \notin Making
      BY <3>1, <3>3, Counting
    <3> QED BY <2>2, <3>2, <3>3
  <2> QED BY <2>1, <2>3
<1>2. Len(rows) + Cardinality(Preparing') <= counted
  BY <1>1, Preparers, Rows DEF StampInv, StampTypes, Budget
<1>3. Told'
  BY DEF StampInv, Told, Ids
<1> QED BY <1>2, <1>3, OnlyAsks DEF StampInv, StampTypes, Budget, Become

LEMMA RestingFits == Resting \in Asking /\ Resting.at = "idle"
                     /\ \A kept, holdings, stamps : Sound(Resting, kept, holdings, stamps)
BY DEF Resting, Asking, Steps, Optional, Sound

\* The last of a set of stamps.
LEMMA LastOf ==
  ASSUME NEW n \in Nat, NEW S, S \subseteq 1..n, S # {}
  PROVE  \E i \in S : \A j \in S : j <= i
<1> DEFINE T == {m \in Nat : \E i \in S : m = n - i}
<1>1. \A i \in S : n - i \in T /\ i \in Nat
  OBVIOUS
<1>2. T \subseteq Nat /\ T # {}
  BY <1>1
<1>3. PICK m \in T : \A y \in T : ~ (<<y, m>> \in OpToRel(<, Nat))
  <2> HIDE DEF T
  <2> QED BY <1>2, NatLessThanWellFounded, WFMin
<1>4. \A y \in T : ~(y < m)
  BY <1>2, <1>3 DEF OpToRel
<1>5. PICK i \in S : m = n - i
  BY <1>3
<1>6. \A j \in S : ~(n - j < m)
  BY <1>1, <1>4
<1> HIDE DEF T
<1> QED BY <1>1, <1>5, <1>6

-----------------------------------------------------------------------------
(***************************************************************************)
(* The user                                                                *)
(***************************************************************************)
\* Receipts and holdings grow, and every wallet keeps what it held.
LEMMA UserMoves ==
  ASSUME StampInv, retained' \in Nat, retained <= retained',
         wallet' \in Optional(Wallets), Holding(wallet', retained'),
         UNCHANGED <<counted, rows, request, told, asks>>
  PROVE  StampInv' /\ StampsStay
<1>1. StampsStay
  BY DEF StampsStay, Ids
<1>2. /\ held' \in [Wallets -> SUBSET Nat]
      /\ \A w \in Wallets : held[w] \subseteq held'[w]
      /\ wallet' # Absent /\ retained' > 0 => retained' \in held'[wallet']
  <2>0. held \in [Wallets -> SUBSET Nat]
    BY DEF StampInv, StampTypes
  <2>1. CASE wallet' = Absent \/ retained' = 0
    BY <2>0, <2>1 DEF Holding
  <2>2. CASE ~(wallet' = Absent \/ retained' = 0)
    <3>1. wallet' \in Wallets
      BY <2>2 DEF Optional
    <3>2. held' = [held EXCEPT ![wallet'] = @ \cup {retained'}]
      BY <2>2 DEF Holding
    <3>3. \A w \in Wallets : held'[w] = IF w = wallet' THEN held[w] \cup {retained'} ELSE held[w]
      BY <2>0, <3>2
    <3> QED BY <2>0, <3>1, <3>2, <3>3
  <2> QED BY <2>1, <2>2
<1>3. StampTypes'
  BY <1>2 DEF StampInv, StampTypes
<1>4. HeldNow'
  BY <1>2 DEF HeldNow
<1>5. Budget'
  BY DEF StampInv, Budget, Preparing
<1>6. Told'
  BY DEF StampInv, Told, Ids
<1>7. StampsSound'
  <2>1. \A i \in Ids : rows[i].wallet \in Wallets
    BY Rows DEF Stamps
  <2> QED BY <1>2, <2>1 DEF StampInv, StampsSound, Ids
<1>8. AllSound'
  <2> SUFFICES ASSUME NEW p \in Requests PROVE Sound(request[p], retained', held', rows')
    BY DEF AllSound
  <2>1. request[p] \in Asking /\ Sound(request[p], retained, held, rows)
    BY DEF StampInv, StampTypes, AllSound
  <2> QED BY <1>1, <1>2, <2>1, StaysSound
<1> QED BY <1>1, <1>3, <1>4, <1>5, <1>6, <1>7, <1>8 DEF StampInv

LEMMA OnSubmitReceipt ==
  ASSUME StampInv, SubmitReceipt
  PROVE  StampInv' /\ StampsStay
<1>1. retained \in Nat /\ wallet \in Optional(Wallets)
  BY DEF StampInv, StampTypes
<1>2. retained' = retained + 1 /\ wallet' = wallet /\ Holding(wallet', retained')
  BY DEF SubmitReceipt, Holding
<1> QED BY <1>1, <1>2, UserMoves DEF SubmitReceipt

LEMMA OnLink ==
  ASSUME StampInv, NEW w \in Wallets \cup {Absent}, Link(w)
  PROVE  StampInv' /\ StampsStay
<1>1. retained \in Nat
  BY DEF StampInv, StampTypes
<1>2. retained' = retained /\ wallet' = w /\ Holding(wallet', retained')
  BY DEF Link, Holding
<1> QED BY <1>1, <1>2, UserMoves DEF Link, Optional

-----------------------------------------------------------------------------
(***************************************************************************)
(* prepare                                                                 *)
(***************************************************************************)
LEMMA AskTyped ==
  ASSUME StampInv, NEW r \in Requests
  PROVE  /\ request[r] \in Asking /\ Sound(request[r], retained, held, rows)
         /\ asks \in Nat /\ counted \in Nat /\ counted <= Limit
         /\ retained \in Nat /\ wallet \in Optional(Wallets)
         /\ told \in [Requests -> Optional(Nat)]
BY DEF StampInv, StampTypes, AllSound, Budget

LEMMA OnPrepare ==
  ASSUME StampInv, NEW r \in Requests, Prepare(r)
  PROVE  StampInv' /\ StampsStay
<1> DEFINE q == [Resting EXCEPT !.at = "receipt"]
<1>1. q \in Asking /\ q.at = "receipt"
  BY RestingFits DEF Asking, Steps
<1>2. Sound(q, retained, held, rows)
  BY <1>1 DEF Sound
<1>3. /\ request' = [request EXCEPT ![r] = q]
      /\ counted' = counted + 1 /\ counted < Limit /\ asks' = asks + 1
      /\ UNCHANGED <<retained, wallet, held, rows, told>>
  BY DEF Prepare, Count, Become
<1> HIDE DEF q
<1>4. Cardinality(Preparing') <= Cardinality(Preparing) + 1
  BY <1>1, <1>3, Counting DEF Making
<1>5. Cardinality(Preparing') \in Nat
  <2>1. Preparing' \in SUBSET Requests
    BY DEF Preparing
  <2> QED BY <2>1, AttestationsAssumption, FS_Subset, FS_CardinalityType
<1>6. Len(rows) + Cardinality(Preparing') <= counted'
  BY <1>3, <1>4, <1>5, Rows, Preparers, AskTyped DEF StampInv, Budget
<1>7. counted' \in Nat /\ counted' <= Limit /\ asks' \in Nat
  BY <1>3, AskTyped, AttestationsAssumption
<1>8. Told' /\ told' \in [Requests -> Optional(Nat)]
  BY <1>3, AskTyped DEF StampInv, Told, Ids
<1> QED BY <1>1, <1>2, <1>3, <1>6, <1>7, <1>8, OnlyAsks

LEMMA OnReadReceipt ==
  ASSUME StampInv, NEW r \in Requests, ReadReceipt(r)
  PROVE  StampInv' /\ StampsStay
<1>1. CASE retained = 0
  <2>1. Become(r, Resting)
    BY <1>1 DEF ReadReceipt
  <2> QED BY <2>1, RestingFits, AskTyped, MovesOn DEF ReadReceipt, Making
<1>2. CASE retained # 0
  <2> DEFINE q == [request[r] EXCEPT !.at = "wallet", !.receipt = retained]
  <2>1. Become(r, q)
    BY <1>2 DEF ReadReceipt
  <2>2. q \in Asking /\ q.at = "wallet" /\ q.receipt = retained
    BY AskTyped DEF Asking, Steps, Optional
  <2>3. Sound(q, retained, held, rows)
    BY <1>2, <2>2, AskTyped DEF Sound
  <2> HIDE DEF q
  <2> QED BY <2>1, <2>2, <2>3, AskTyped, MovesOn DEF ReadReceipt, Making
<1> QED BY <1>1, <1>2

LEMMA OnReadWallet ==
  ASSUME StampInv, NEW r \in Requests, ReadWallet(r)
  PROVE  StampInv' /\ StampsStay
<1>1. CASE wallet = Absent
  <2>1. Become(r, Resting)
    BY <1>1 DEF ReadWallet
  <2> QED BY <2>1, RestingFits, AskTyped, MovesOn DEF ReadWallet, Making
<1>2. CASE wallet # Absent
  <2> DEFINE q == [request[r] EXCEPT !.at = "stamp", !.wallet = wallet]
  <2>1. Become(r, q)
    BY <1>2 DEF ReadWallet
  <2>2. /\ q \in Asking /\ q.at = "stamp"
        /\ q.wallet = wallet /\ q.receipt = request[r].receipt
    BY AskTyped DEF Asking, Steps, Optional
  <2>3. /\ request[r].receipt \in Nat /\ 1 <= request[r].receipt
        /\ request[r].receipt <= retained /\ retained \in Nat
    BY AskTyped DEF Sound, ReadWallet
  <2>4. wallet \in Wallets /\ retained \in held[wallet]
    BY <1>2, <2>3, AskTyped DEF StampInv, HeldNow, Optional
  <2>5. Sound(q, retained, held, rows)
    BY <2>2, <2>3, <2>4 DEF Sound
  <2> HIDE DEF q
  <2> QED BY <2>1, <2>2, <2>5, AskTyped, MovesOn DEF ReadWallet, Making
<1> QED BY <1>1, <1>2

\* The insert takes the place of its request in the count.
LEMMA OnStamp ==
  ASSUME StampInv, NEW r \in Requests, Stamp(r)
  PROVE  StampInv' /\ StampsStay
<1> DEFINE new == [receipt |-> request[r].receipt, wallet |-> request[r].wallet,
                   status |-> "prepared", signature |-> Absent]
<1>1. /\ request[r].at = "stamp" /\ request' = [request EXCEPT ![r] = Resting]
      /\ rows' = Append(rows, new)
      /\ UNCHANGED <<retained, wallet, held, counted, told, asks>>
  BY DEF Stamp, Become
<1>2. /\ request[r].receipt \in Nat /\ request[r].wallet \in Wallets
      /\ \E n \in held[request[r].wallet] : request[r].receipt <= n
  BY <1>1, AskTyped DEF Sound
<1>3. /\ new \in Stamps /\ new.status = "prepared" /\ new.signature = Absent
      /\ \E n \in held[new.wallet] : new.receipt <= n
  BY <1>2 DEF Stamps, Optional
<1> HIDE DEF new
<1>4. /\ rows' \in Seq(Stamps) /\ Len(rows') = Len(rows) + 1
      /\ DOMAIN rows' = 1..(Len(rows) + 1) /\ Ids = 1..Len(rows) /\ Len(rows) \in Nat
      /\ rows'[Len(rows) + 1] = new
      /\ \A i \in Ids : i \in DOMAIN rows' /\ rows'[i] = rows[i]
  BY <1>1, <1>3 DEF StampInv, StampTypes, Ids
<1>5. StampsStay
  BY <1>4 DEF StampsStay
<1>6. StampTypes'
  BY <1>1, <1>4, RestingFits DEF StampInv, StampTypes
<1>7. HeldNow'
  BY <1>1 DEF StampInv, HeldNow
<1>8. Budget'
  <2>1. Cardinality(Preparing') = Cardinality(Preparing) - 1
    BY <1>1, RestingFits, Counting DEF Making
  <2> QED BY <1>1, <1>4, <2>1, Preparers DEF StampInv, Budget
<1>9. Told'
  BY <1>1, <1>4 DEF StampInv, Told, Ids
<1>10. StampsSound'
  <2>1. ASSUME NEW i \in DOMAIN rows' PROVE i = Len(rows) + 1 \/ i \in Ids
    BY <1>4
  <2>2. \A i, j \in DOMAIN rows' :
          (i # j /\ rows'[i].signature # Absent) => rows'[i].signature # rows'[j].signature
    BY <1>3, <1>4, <2>1 DEF StampInv, StampsSound
  <2>3. \A i \in DOMAIN rows' : \E n \in held[rows'[i].wallet] : rows'[i].receipt <= n
    BY <1>3, <1>4, <2>1 DEF StampInv, StampsSound
  <2>4. \A i \in DOMAIN rows' : (rows'[i].signature = Absent) <=> (rows'[i].status = "prepared")
    BY <1>3, <1>4, <2>1 DEF StampInv, StampsSound
  <2> QED BY <1>1, <2>2, <2>3, <2>4 DEF StampsSound, Ids
<1>11. AllSound'
  <2> SUFFICES ASSUME NEW p \in Requests PROVE Sound(request'[p], retained', held', rows')
    BY DEF AllSound
  <2>1. request'[p] = Resting \/ request'[p] = request[p]
    BY <1>1 DEF StampInv, StampTypes
  <2>2. Sound(request[p], retained', held', rows')
    BY <1>1, <1>5, AskTyped, StaysSound
  <2> QED BY <2>1, <2>2, RestingFits
<1> QED BY <1>5, <1>6, <1>7, <1>8, <1>9, <1>10, <1>11 DEF StampInv

-----------------------------------------------------------------------------
(***************************************************************************)
(* confirm                                                                 *)
(***************************************************************************)
LEMMA OnConfirm ==
  ASSUME StampInv, NEW r \in Requests, NEW i \in Ids, NEW s \in Signatures, Confirm(r, i, s)
  PROVE  StampInv' /\ StampsStay
<1> DEFINE q == [Resting EXCEPT !.at = "confirm", !.row = i, !.seen = rows[i], !.signature = s]
<1>1. i \in Nat /\ rows[i] \in Stamps
  BY Rows
<1>2. /\ q \in Asking /\ q.at = "confirm" /\ q.row = i /\ q.seen = rows[i] /\ q.signature = s
  BY <1>1, RestingFits DEF Asking, Steps, Optional
<1>3. Sound(q, retained, held, rows)
  BY <1>1, <1>2 DEF Sound, Ids
<1>4. Become(r, q) /\ asks' = asks + 1 /\ UNCHANGED <<retained, wallet, held, counted, rows, told>>
  BY DEF Confirm
<1>5. asks' \in Nat
  BY <1>4, AskTyped
<1> HIDE DEF q
<1> QED BY <1>2, <1>3, <1>4, <1>5, MovesOn DEF Making

\* The signature that no stamp has yet is given to a prepared one.
LEMMA Signing ==
  ASSUME StampInv, NEW r \in Requests, NEW q \in Asking, q.at = "status",
         NEW i \in Ids, NEW s \in Signatures, Writable(i), ~Taken(s, i),
         rows' = [rows EXCEPT ![i].status = "submitted", ![i].signature = s],
         Become(r, q),
         UNCHANGED <<retained, wallet, held, counted, told, asks>>
  PROVE  StampInv' /\ StampsStay
<1> DEFINE new == [[rows[i] EXCEPT !.status = "submitted"] EXCEPT !.signature = s]
<1>1. Ids = 1..Len(rows) /\ Len(rows) \in Nat /\ rows \in Seq(Stamps) /\ rows[i] \in Stamps
  BY Rows DEF StampInv, StampTypes
<1>2. /\ new \in Stamps /\ new.status = "submitted" /\ new.signature = s
      /\ new.receipt = rows[i].receipt /\ new.wallet = rows[i].wallet
  <2> DEFINE old == rows[i]
  <2>1. old \in Stamps /\ new = [[old EXCEPT !.status = "submitted"] EXCEPT !.signature = s]
    BY <1>1
  <2> HIDE DEF old, new
  <2>2. /\ new \in Stamps /\ new.status = "submitted" /\ new.signature = s
        /\ new.receipt = old.receipt /\ new.wallet = old.wallet
    BY <2>1 DEF Stamps, Optional
  <2> QED BY <2>2 DEF old
<1>3. rows' = [rows EXCEPT ![i] = new]
  BY <1>1 DEF Ids
<1> HIDE DEF new
<1>4. /\ rows' \in Seq(Stamps) /\ Len(rows') = Len(rows) /\ DOMAIN rows' = Ids
      /\ rows'[i] = new /\ \A j \in Ids : j # i => rows'[j] = rows[j]
  <2>1. i \in 1..Len(rows)
    BY <1>1
  <2>2. /\ rows' \in Seq(Stamps) /\ Len(rows') = Len(rows)
        /\ \A j \in 1..Len(rows) : rows'[j] = IF j = i THEN new ELSE rows[j]
    <3>1. rows \in Seq(Stamps) /\ new \in Stamps
      BY <1>1, <1>2
    <3>2. /\ [rows EXCEPT ![i] = new] \in Seq(Stamps)
          /\ Len([rows EXCEPT ![i] = new]) = Len(rows)
          /\ \A j \in 1..Len(rows) : [rows EXCEPT ![i] = new][j] = IF j = i THEN new ELSE rows[j]
      BY <2>1, <3>1, ExceptSeq
    <3> QED BY <1>3, <3>2, Zenon
  <2>3. DOMAIN rows' = Ids
    BY <1>3 DEF Ids
  <2> QED BY <1>1, <2>1, <2>2, <2>3
<1>5. StampsStay
  BY <1>2, <1>4 DEF StampsStay, Writable
<1>6. StampTypes'
  BY <1>4 DEF StampInv, StampTypes, Become
<1>7. HeldNow'
  BY DEF StampInv, HeldNow
<1>8. Budget'
  <2>1. request' = [request EXCEPT ![r] = q] /\ q.at \notin Making
    BY DEF Become, Making
  <2>2. Cardinality(Preparing') <= Cardinality(Preparing)
    BY <2>1, Counting
  <2>3. Cardinality(Preparing') \in Nat
    <3>1. Preparing' \in SUBSET Requests
      BY DEF Preparing
    <3> QED BY <3>1, AttestationsAssumption, FS_Subset, FS_CardinalityType
  <2> QED BY <1>1, <1>4, <2>2, <2>3, Preparers, AskTyped, AttestationsAssumption DEF StampInv, Budget
<1>9. Told'
  <2> SUFFICES ASSUME NEW p \in Requests, told[p] # Absent
               PROVE  told[p] \in DOMAIN rows' /\ rows'[told[p]].status = "submitted"
    BY DEF Told, Ids
  <2>1. told[p] \in Ids /\ rows[told[p]].status = "submitted"
    BY DEF StampInv, Told
  <2> QED BY <1>2, <1>4, <2>1
<1>10. StampsSound'
  <2>1. \A j \in Ids : j # i => rows[j].signature # s
    BY DEF Taken
  <2>2. s # Absent
    BY AttestationsAssumption
  <2>3. \A j, k \in Ids :
          (j # k /\ rows'[j].signature # Absent) => rows'[j].signature # rows'[k].signature
    BY <1>2, <1>4, <2>1, <2>2 DEF StampInv, StampsSound
  <2>4. \A j \in Ids : \E n \in held[rows'[j].wallet] : rows'[j].receipt <= n
    BY <1>2, <1>4 DEF StampInv, StampsSound
  <2>5. \A j \in Ids : (rows'[j].signature = Absent) <=> (rows'[j].status = "prepared")
    BY <1>2, <1>4, <2>2 DEF StampInv, StampsSound
  <2> QED BY <1>4, <2>3, <2>4, <2>5 DEF StampsSound, Ids
<1>11. AllSound'
  <2> SUFFICES ASSUME NEW p \in Requests PROVE Sound(request'[p], retained', held', rows')
    BY DEF AllSound
  <2>1. request'[p] = q \/ request'[p] = request[p]
    BY DEF StampInv, StampTypes, Become
  <2>2. Sound(q, retained', held', rows')
    BY <1>2, <1>4 DEF Sound
  <2>3. Sound(request[p], retained', held', rows')
    <3>1. retained' \in Nat /\ retained <= retained' /\ \A w \in Wallets : held[w] \subseteq held'[w]
      BY AskTyped
    <3> QED BY <1>5, <3>1, AskTyped, StaysSound
  <2> QED BY <2>1, <2>2, <2>3
<1> QED BY <1>5, <1>6, <1>7, <1>8, <1>9, <1>10, <1>11 DEF StampInv

\* A row that another request has signed in between stays as that left it, and
\* there is a reported stamp to show.
LEMMA OnRecord ==
  ASSUME StampInv, NEW r \in Requests, Record(r)
  PROVE  StampInv' /\ StampsStay
<1> DEFINE i == request[r].row
           s == request[r].signature
           seen == request[r].seen
           q == [request[r] EXCEPT !.at = "status"]
<1>1. /\ i \in Ids /\ s \in Signatures /\ seen \in Stamps
      /\ seen.status = "prepared" \/ seen = rows[i]
  BY AskTyped DEF Record, Sound, Ids
<1>2. q \in Asking /\ q.at = "status"
  BY AskTyped DEF Asking, Steps
<1>3. UNCHANGED <<retained, wallet, held, counted, told, asks>>
  BY DEF Record
<1>4. CASE Become(r, Resting) /\ UNCHANGED rows
  BY <1>3, <1>4, RestingFits, AskTyped, MovesOn DEF Making
<1>5. CASE Become(r, q) /\ UNCHANGED rows /\ rows[i].status = "submitted"
  <2>1. Sound(q, retained, held, rows)
    BY <1>1, <1>2, <1>5 DEF Sound, Ids
  <2> HIDE DEF q
  <2> QED BY <1>2, <1>3, <1>5, <2>1, AskTyped, MovesOn DEF Making
<1>6. CASE /\ Writable(i) /\ ~Taken(s, i) /\ Become(r, q)
           /\ rows' = [rows EXCEPT ![i].status = "submitted", ![i].signature = s]
  <2> HIDE DEF q, i, s
  <2> QED BY <1>1, <1>2, <1>3, <1>6, Signing
<1>7. \/ Become(r, Resting) /\ UNCHANGED rows
      \/ Become(r, q) /\ UNCHANGED rows /\ rows[i].status = "submitted"
      \/ /\ Writable(i) /\ ~Taken(s, i) /\ Become(r, q)
         /\ rows' = [rows EXCEPT ![i].status = "submitted", ![i].signature = s]
  <2>1. rows[i].status \in {"prepared", "submitted"}
    BY <1>1, Rows DEF Stamps
  <2>2. CASE seen.status = "prepared"
    <3>1. IF ~Writable(i) THEN Become(r, q) /\ UNCHANGED rows
          ELSE IF Taken(s, i) THEN Become(r, Resting) /\ UNCHANGED rows
          ELSE /\ rows' = [rows EXCEPT ![i].status = "submitted", ![i].signature = s]
               /\ Become(r, q)
      BY <2>2 DEF Record
    <3> QED BY <2>1, <3>1 DEF Writable
  <2>3. CASE seen.status # "prepared"
    <3>1. /\ Become(r, IF seen.signature = s THEN q ELSE Resting)
          /\ UNCHANGED rows
      BY <2>3 DEF Record
    <3>2. rows[i].status = "submitted"
      BY <1>1, <2>1, <2>3
    <3> QED BY <3>1, <3>2
  <2> QED BY <2>2, <2>3
<1> QED BY <1>4, <1>5, <1>6, <1>7

LEMMA OnStatus ==
  ASSUME StampInv, NEW r \in Requests, Status(r)
  PROVE  StampInv' /\ StampsStay
<1> DEFINE reported == {i \in Ids : rows[i].status = "submitted"}
           last == CHOOSE i \in reported : \A j \in reported : j <= i
<1>1. reported # {}
  BY AskTyped DEF Status, Sound, Ids
<1>2. last \in reported
  <2>1. Len(rows) \in Nat /\ reported \subseteq 1..Len(rows)
    BY Rows
  <2>2. \E i \in reported : \A j \in reported : j <= i
    <3> HIDE DEF reported
    <3> QED BY <1>1, <2>1, LastOf
  <2> QED BY <2>2
<1>3. told' = [told EXCEPT ![r] = last] /\ request' = [request EXCEPT ![r] = Resting]
      /\ UNCHANGED <<retained, wallet, held, counted, rows, asks>>
  BY <1>1 DEF Status, Become
<1>4. last \in Ids /\ rows[last].status = "submitted" /\ last \in Nat
  BY <1>2, Rows
<1> HIDE DEF last, reported
<1>5. told' \in [Requests -> Optional(Nat)] /\ Told'
  BY <1>3, <1>4, AskTyped DEF StampInv, Told, Optional, Ids
<1>6. Len(rows) + Cardinality(Preparing') <= counted
  <2>1. Cardinality(Preparing') <= Cardinality(Preparing)
    BY <1>3, RestingFits, Counting DEF Making
  <2>2. Cardinality(Preparing') \in Nat
    <3>1. Preparing' \in SUBSET Requests
      BY DEF Preparing
    <3> QED BY <3>1, AttestationsAssumption, FS_Subset, FS_CardinalityType
  <2> QED BY <2>1, <2>2, Rows, Preparers, AskTyped DEF StampInv, Budget
<1> QED BY <1>3, <1>5, <1>6, RestingFits, AskTyped, OnlyAsks

-----------------------------------------------------------------------------
(***************************************************************************)
(* The invariant                                                           *)
(***************************************************************************)
LEMMA StampInitially == StampInit => StampInv
<1> SUFFICES ASSUME StampInit PROVE StampInv
  OBVIOUS
<1>1. StampTypes
  BY RestingFits DEF StampInit, StampTypes, Optional
<1>2. HeldNow /\ Told /\ StampsSound
  BY DEF StampInit, HeldNow, Told, StampsSound, Ids
<1>3. Budget
  <2>1. Preparing = {}
    BY DEF StampInit, Preparing, Resting, Making
  <2> QED BY <2>1, FS_EmptySet, AttestationsAssumption DEF StampInit, Budget
<1>4. AllSound
  BY RestingFits DEF StampInit, AllSound
<1> QED BY <1>1, <1>2, <1>3, <1>4 DEF StampInv

LEMMA StampStep == StampInv /\ [StampNext]_stampvars => StampInv' /\ [StampsStay]_stampvars
<1> SUFFICES ASSUME StampInv, [StampNext]_stampvars PROVE StampInv' /\ [StampsStay]_stampvars
  OBVIOUS
<1>1. CASE UNCHANGED stampvars
  BY <1>1 DEF stampvars, StampInv, StampTypes, HeldNow, Budget, Preparing, Told, StampsSound,
              AllSound, Ids
<1>2. CASE StampNext
  BY <1>2, OnSubmitReceipt, OnLink, OnPrepare, OnReadReceipt, OnReadWallet, OnStamp, OnConfirm,
     OnRecord, OnStatus DEF StampNext
<1> QED BY <1>1, <1>2

\* What the requests have read and what the day counts, throughout.
THEOREM StampsInvariant == StampSpec => []StampInv
BY StampInitially, StampStep, PTL DEF StampSpec

\* Overlapping prepares, confirmations and submissions leave every stamp what
\* it was prepared as, and none is reported twice (prepare, confirm, status).
THEOREM StampsAreKept == StampSpec => StampsKept
BY StampInitially, StampStep, InvSays, PTL DEF StampSpec, StampsKept

-----------------------------------------------------------------------------
(***************************************************************************)
(* Cutoffs                                                                 *)
(***************************************************************************)
\* accept() carries a trigger of a forecast, and past its decision it is the
\* one that was decided.
Shaped(p) == p = [pc |-> p.pc, f |-> p.f, trigger |-> p.trigger, left |-> p.left, report |-> p.report]
Guided(p, decided) ==
  /\ Shaped(p)
  /\ p.pc # "idle" => p.f \in Forecasts /\ p.trigger \in Trigger
  /\ p.pc \in {"classify", "finish", "lock"} => decided[p.f] = p.trigger

CutoffTypes ==
  /\ fc \in [Forecasts -> [state : {"OPEN", "LOCKED", "FINALIZED"},
                           outcome : Outcomes \cup {"INVALID", Nil}, trigger : Trigger \cup {Nil}]]
  /\ decision \in [Forecasts -> Trigger \cup {Nil}] /\ complete \in [Forecasts -> BOOLEAN]
  /\ receipt = [f \in Forecasts |-> receipt[f]] /\ class = [f \in Forecasts |-> class[f]]
  /\ job = [j \in Jobs |-> job[j]]

\* Receipts of a forecast are numbered as they come.
Numbered(S) ==
  /\ IsFiniteSet(S)
  /\ \A r \in S : r.rev \in Nat /\ r.rev <= Cardinality(S)
  /\ \A r, s \in S : r.rev = s.rev => r = s

\* What is classified is a receipt, and as the cutoff that was decided says.
Classed(classes, receipts, trigger) ==
  \A c \in classes :
    /\ trigger # Nil
    /\ \E r \in receipts : r.rev = c.rev /\ c.status = ReceiptStatus(r.at, trigger)

CutoffInv ==
  /\ CutoffTypes
  /\ \A f \in Forecasts : Numbered(receipt[f]) /\ Classed(class[f], receipt[f], decision[f])
  /\ \A f \in Forecasts : complete[f] => decision[f] # Nil
  /\ \A l \in ledger : l.forecast \in Forecasts
  /\ \A j \in Jobs : Guided(job[j], decision)
  /\ CutoffHonoured

\* Nothing that a cutoff is about changes but the account of a job.
LEMMA JobMoves ==
  ASSUME CutoffInv, NEW j, NEW p, Guided(p, decision), job' = [job EXCEPT ![j] = p],
         UNCHANGED <<fc, receipt, ledger, decision, class, complete>>
  PROVE  CutoffInv' /\ LockGuarded
<1>1. job' = [k \in Jobs |-> IF k = j THEN p ELSE job[k]]
  BY DEF CutoffInv, CutoffTypes
<1>2. ASSUME NEW k \in Jobs PROVE Guided(job'[k], decision)
  BY <1>1 DEF CutoffInv
<1>3. ASSUME NEW k \in Jobs PROVE Guided(job[k], decision)'
  <2> DEFINE q == job'[k]
  <2>1. Guided(q, decision)
    BY <1>2
  <2> HIDE DEF q
  <2>2. Guided(q, decision')
    BY <2>1 DEF Guided
  <2> QED BY <2>2 DEF q
<1>4. job' = [k \in Jobs |-> job'[k]]
  BY <1>1
<1>5. CutoffTypes'
  BY <1>4 DEF CutoffInv, CutoffTypes
<1>6. CutoffHonoured'
  BY DEF CutoffInv, CutoffHonoured, Unclassified
<1> QED BY <1>3, <1>5, <1>6 DEF CutoffInv, LockGuarded

LEMMA NothingMoves ==
  ASSUME CutoffInv, UNCHANGED <<fc, receipt, ledger, decision, class, complete, job>>
  PROVE  CutoffInv' /\ LockGuarded
<1>1. CutoffTypes'
  BY DEF CutoffInv, CutoffTypes
<1>2. CutoffHonoured'
  BY DEF CutoffInv, CutoffHonoured, Unclassified
<1> QED BY <1>1, <1>2 DEF CutoffInv, LockGuarded

\* A forecast changes its state, and its trigger only as a lock may.
LEMMA StateMoves ==
  ASSUME CutoffInv, NEW f \in Forecasts, NEW state, NEW outcome, NEW trigger,
         state \in {"OPEN", "LOCKED", "FINALIZED"}, outcome \in Outcomes \cup {"INVALID", Nil},
         trigger \in Trigger \cup {Nil},
         fc' = [fc EXCEPT ![f] = [state |-> state, outcome |-> outcome, trigger |-> trigger]],
         trigger # fc[f].trigger => hold[f] # Nil /\ complete[f] /\ decision[f] = trigger,
         UNCHANGED <<receipt, ledger, decision, class, complete, job>>
  PROVE  CutoffInv' /\ LockGuarded
<1>1. CutoffTypes'
  BY DEF CutoffInv, CutoffTypes
<1>2. CutoffHonoured'
  BY DEF CutoffInv, CutoffHonoured, Unclassified
<1>3. LockGuarded
  BY DEF CutoffInv, CutoffTypes, LockGuarded
<1> QED BY <1>1, <1>2, <1>3 DEF CutoffInv

\* One more receipt, numbered after the others.
LEMMA Numbering ==
  ASSUME NEW S, NEW r, Numbered(S), r.rev = Cardinality(S) + 1
  PROVE  Numbered(S \cup {r}) /\ r \notin S
<1>1. /\ IsFiniteSet(S) /\ Cardinality(S) \in Nat
      /\ \A s \in S : s.rev \in Nat /\ s.rev <= Cardinality(S)
      /\ \A s, t \in S : s.rev = t.rev => s = t
  BY FS_CardinalityType DEF Numbered
<1>2. r \notin S
  BY <1>1
<1>3. IsFiniteSet(S \cup {r}) /\ Cardinality(S \cup {r}) = Cardinality(S) + 1
  BY <1>1, <1>2, FS_AddElement
<1>4. \A s \in S \cup {r} : s.rev \in Nat /\ s.rev <= Cardinality(S) + 1
  BY <1>1
<1>5. \A s, t \in S \cup {r} : s.rev = t.rev => s = t
  BY <1>1
<1> QED BY <1>2, <1>3, <1>4, <1>5 DEF Numbered

LEMMA SubmitStep ==
  ASSUME CutoffInv, NEW f \in Forecasts, NEW u, NEW o, NEW s, Submit(f, u, o, s)
  PROVE  CutoffInv' /\ LockGuarded
<1> DEFINE rev == Cardinality(receipt[f]) + 1
           r == [user |-> u, rev |-> rev, at |-> now, outcome |-> o, stake |-> s]
<1>1. /\ receipt' = [receipt EXCEPT ![f] = receipt[f] \cup {r}] /\ decision[f] = Nil
      /\ UNCHANGED <<fc, ledger, decision, class, complete, job>>
  BY DEF Submit, Reserve, review
<1>2. r.rev = Cardinality(receipt[f]) + 1
  OBVIOUS
<1> HIDE DEF r, rev
<1>3. /\ receipt' = [g \in Forecasts |-> IF g = f THEN receipt[f] \cup {r} ELSE receipt[g]]
  BY <1>1 DEF CutoffInv, CutoffTypes
<1>4. \A g \in Forecasts : Numbered(receipt'[g])
  BY <1>2, <1>3, Numbering DEF CutoffInv
<1>5. class[f] = {} /\ complete[f] = FALSE
  BY <1>1 DEF CutoffInv, CutoffTypes, Classed
<1>6. \A g \in Forecasts : Classed(class[g], receipt'[g], decision[g])
  <2> SUFFICES ASSUME NEW g \in Forecasts PROVE Classed(class[g], receipt'[g], decision[g])
    OBVIOUS
  <2>1. CASE g = f
    BY <1>5, <2>1 DEF Classed
  <2>2. CASE g # f
    BY <1>3, <2>2 DEF CutoffInv
  <2> QED BY <2>1, <2>2
<1>7. CutoffTypes'
  BY <1>1, <1>3 DEF CutoffInv, CutoffTypes
<1>8. CutoffHonoured'
  <2>1. ASSUME NEW g \in Forecasts, complete[g] PROVE Unclassified(g)' = {}
    BY <1>1, <1>3, <1>5, <2>1 DEF CutoffInv, CutoffHonoured, Unclassified
  <2>2. ASSUME NEW l \in ledger, NEW x \in receipt'[l.forecast], x.rev = l.rev, decision[l.forecast] # Nil
        PROVE  ReceiptStatus(x.at, decision[l.forecast]) = "eligible"
    <3>1. l.forecast \in Forecasts /\ l.forecast # f
      BY <1>1, <2>2 DEF CutoffInv
    <3>2. x \in receipt[l.forecast]
      BY <1>3, <2>2, <3>1
    <3> QED BY <2>2, <3>2 DEF CutoffInv, CutoffHonoured
  <2> QED BY <1>1, <2>1, <2>2 DEF CutoffHonoured
<1>9. LockGuarded
  BY <1>1 DEF LockGuarded
<1> QED BY <1>1, <1>4, <1>6, <1>7, <1>8, <1>9 DEF CutoffInv

\* A settlement under a cutoff stands on what was classified as eligible.
LEMMA SettleStep ==
  ASSUME CutoffInv, NEW f \in Forecasts, Settle(f)
  PROVE  CutoffInv' /\ LockGuarded
<1>1. /\ \A u \in Unsettled(f) : Effective(f, u)
      /\ ledger' = ledger \cup {[user |-> u, forecast |-> f, rev |-> position[f][u].rev,
            stake |-> position[f][u].amount, returned |-> Returned(f, position[f][u])] : u \in Unsettled(f)}
      /\ UNCHANGED <<fc, receipt, decision, class, complete, job>>
  BY DEF Settle, review
<1>2. ASSUME NEW l \in ledger' PROVE
        \/ l \in ledger
        \/ l.forecast = f /\ \E u \in Unsettled(f) : l.rev = position[f][u].rev
  BY <1>1
<1>3. \A l \in ledger' : l.forecast \in Forecasts
  BY <1>2 DEF CutoffInv
<1>4. ASSUME NEW u \in Unsettled(f), NEW r \in receipt[f], r.rev = position[f][u].rev, decision[f] # Nil
      PROVE  ReceiptStatus(r.at, decision[f]) = "eligible"
  <2>1. PICK c \in class[f] : c.status = "eligible" /\ c.rev = position[f][u].rev
    BY <1>1, <1>4 DEF Effective
  <2>2. PICK x \in receipt[f] : x.rev = c.rev /\ c.status = ReceiptStatus(x.at, decision[f])
    BY <2>1 DEF CutoffInv, Classed
  <2>3. x = r
    BY <1>4, <2>1, <2>2 DEF CutoffInv, Numbered
  <2> QED BY <2>1, <2>2, <2>3
<1>5. CutoffHonoured'
  <2>1. \A g \in Forecasts : complete[g] => Unclassified(g)' = {}
    BY <1>1 DEF CutoffInv, CutoffHonoured, Unclassified
  <2>2. ASSUME NEW l \in ledger', NEW r \in receipt[l.forecast], r.rev = l.rev, decision[l.forecast] # Nil
        PROVE  ReceiptStatus(r.at, decision[l.forecast]) = "eligible"
    <3>1. CASE l \in ledger
      BY <2>2, <3>1 DEF CutoffInv, CutoffHonoured
    <3>2. CASE l.forecast = f /\ \E u \in Unsettled(f) : l.rev = position[f][u].rev
      BY <1>4, <2>2, <3>2
    <3> QED BY <1>2, <3>1, <3>2
  <2> QED BY <1>1, <2>1, <2>2 DEF CutoffHonoured
<1>6. CutoffTypes'
  BY <1>1 DEF CutoffInv, CutoffTypes
<1>7. LockGuarded
  BY <1>1 DEF LockGuarded
<1> QED BY <1>1, <1>3, <1>5, <1>6, <1>7 DEF CutoffInv

\* A job is what its fields are.
LEMMA JobOf ==
  ASSUME CutoffInv, NEW j \in Jobs
  PROVE  /\ Shaped(job[j]) /\ Guided(job[j], decision)
         /\ job[j].pc # "idle" => job[j].f \in Forecasts /\ job[j].trigger \in Trigger
BY DEF CutoffInv, Guided

LEMMA GuidedIdle ==
  ASSUME NEW decided PROVE Guided(Idle, decided)
BY DEF Guided, Shaped, Idle

\* Two fields of a job change at once.
LEMMA Reshaped ==
  ASSUME NEW q, Shaped(q), NEW x, NEW y
  PROVE  [q EXCEPT !.pc = x, !.left = y] =
         [pc |-> x, f |-> q.f, trigger |-> q.trigger, left |-> y, report |-> q.report]
<1> DEFINE a == q.pc  b == q.f  c == q.trigger  d == q.left  e == q.report
           r == [q EXCEPT !.pc = x]
<1>1. q = [pc |-> a, f |-> b, trigger |-> c, left |-> d, report |-> e]
  BY DEF Shaped
<1>2. [q EXCEPT !.pc = x, !.left = y] = [r EXCEPT !.left = y]
  OBVIOUS
<1>3. r = [q EXCEPT !.pc = x]
  OBVIOUS
<1> HIDE DEF a, b, c, d, e, r
<1>4. r = [pc |-> x, f |-> b, trigger |-> c, left |-> d, report |-> e]
  BY <1>1, <1>3
<1>5. [r EXCEPT !.left = y] = [pc |-> x, f |-> b, trigger |-> c, left |-> y, report |-> e]
  BY <1>4
<1> QED BY <1>2, <1>5 DEF b, c, e

TookUp(q, x, y, z) == [q EXCEPT !.pc = x, !.f = y, !.trigger = z]
LEMMA TakenUp ==
  ASSUME NEW q, Shaped(q), NEW x, NEW y, NEW z
  PROVE  TookUp(q, x, y, z) =
         [pc |-> x, f |-> y, trigger |-> z, left |-> q.left, report |-> q.report]
<1> DEFINE a == q.pc  b == q.f  c == q.trigger  d == q.left  e == q.report
           r == [q EXCEPT !.pc = x]
           s == [r EXCEPT !.f = y]
<1>1. q = [pc |-> a, f |-> b, trigger |-> c, left |-> d, report |-> e]
  BY DEF Shaped
<1>2. TookUp(q, x, y, z) = [s EXCEPT !.trigger = z]
  BY DEF TookUp
<1>3. r = [q EXCEPT !.pc = x]
  OBVIOUS
<1>4. s = [r EXCEPT !.f = y]
  OBVIOUS
<1> HIDE DEF a, b, c, d, e, r, s
<1>5. r = [pc |-> x, f |-> b, trigger |-> c, left |-> d, report |-> e]
  BY <1>1, <1>3
<1>6. s = [pc |-> x, f |-> y, trigger |-> c, left |-> d, report |-> e]
  BY <1>4, <1>5
<1>7. [s EXCEPT !.trigger = z] = [pc |-> x, f |-> y, trigger |-> z, left |-> d, report |-> e]
  BY <1>6
<1> QED BY <1>2, <1>7 DEF d, e

\* A job goes on with the same forecast and trigger.
LEMMA Goes ==
  ASSUME CutoffInv, NEW j \in Jobs, NEW pc, NEW left, NEW r, NEW p,
         job[j].pc # "idle", pc # "idle",
         pc \in {"classify", "finish", "lock"} => decision[job[j].f] = job[j].trigger,
         p = [pc |-> pc, f |-> job[j].f, trigger |-> job[j].trigger, left |-> left, report |-> r]
  PROVE  Guided(p, decision)
<1> DEFINE f == job[j].f  t == job[j].trigger
<1>1. f \in Forecasts /\ t \in Trigger
  BY JobOf
<1> HIDE DEF f, t
<1>2. p = [pc |-> pc, f |-> f, trigger |-> t, left |-> left, report |-> r]
  BY DEF f, t
<1>3. /\ p.pc = pc /\ p.f = f /\ p.trigger = t /\ p.left = left /\ p.report = r
  BY <1>2
<1> QED BY <1>1, <1>2, <1>3 DEF Guided, Shaped, f, t

LEMMA GoesTo ==
  ASSUME CutoffInv, NEW j \in Jobs, NEW pc, job[j].pc # "idle", pc # "idle",
         pc \in {"classify", "finish", "lock"} => decision[job[j].f] = job[j].trigger,
         Goto(j, pc), UNCHANGED <<fc, receipt, ledger, decision, class, complete>>
  PROVE  CutoffInv' /\ LockGuarded
<1> DEFINE q == job[j]
           p == [pc |-> pc, f |-> q.f, trigger |-> q.trigger, left |-> q.left, report |-> q.report]
<1>1. Guided(p, decision)
  BY Goes
<1>2. q = [pc |-> q.pc, f |-> q.f, trigger |-> q.trigger, left |-> q.left, report |-> q.report]
  BY JobOf DEF Shaped
<1>3. [q EXCEPT !.pc = pc] = p
  <2> DEFINE a == q.pc  b == q.f  c == q.trigger  d == q.left  e == q.report
  <2>1. q = [pc |-> a, f |-> b, trigger |-> c, left |-> d, report |-> e]
    BY <1>2
  <2>2. p = [pc |-> pc, f |-> b, trigger |-> c, left |-> d, report |-> e]
    OBVIOUS
  <2> HIDE DEF a, b, c, d, e, q, p
  <2> QED BY <2>1, <2>2
<1>4. job' = [job EXCEPT ![j] = p]
  BY <1>3 DEF Goto
<1> HIDE DEF p
<1> QED BY <1>1, <1>4, JobMoves

LEMMA StopStep ==
  ASSUME CutoffInv, NEW j \in Jobs, Stop(j),
         UNCHANGED <<fc, receipt, ledger, decision, class, complete>>
  PROVE  CutoffInv' /\ LockGuarded
BY GuidedIdle, JobMoves DEF Stop

LEMMA BeginStep ==
  ASSUME CutoffInv, NEW j \in Jobs, NEW f \in Forecasts, NEW t \in Trigger, Begin(j, f, t)
  PROVE  CutoffInv' /\ LockGuarded
<1>1. UNCHANGED <<fc, receipt, ledger, decision, class, complete>>
  BY DEF Begin, Keep
<1>2. ASSUME NEW pc, pc \in {"again", "decide"}
      PROVE  Guided([Idle EXCEPT !.pc = pc, !.f = f, !.trigger = t], decision)
  <2> DEFINE p == [Idle EXCEPT !.pc = pc, !.f = f, !.trigger = t]
  <2>1. p = [pc |-> pc, f |-> f, trigger |-> t, left |-> Idle.left, report |-> Idle.report]
    <3>1. Shaped(Idle)
      BY GuidedIdle DEF Guided
    <3>2. p = TookUp(Idle, pc, f, t)
      BY DEF TookUp
    <3> HIDE DEF p
    <3> QED BY <3>1, <3>2, TakenUp
  <2> HIDE DEF p
  <2>2. Guided(p, decision)
    BY <1>2, <2>1 DEF Guided, Shaped
  <2> QED BY <2>2 DEF p
<1>3. PICK pc \in {"again", "decide"} :
        job' = [job EXCEPT ![j] = [Idle EXCEPT !.pc = pc, !.f = f, !.trigger = t]]
  BY DEF Begin
<1> DEFINE p == [Idle EXCEPT !.pc = pc, !.f = f, !.trigger = t]
<1>4. Guided(p, decision) /\ job' = [job EXCEPT ![j] = p]
  BY <1>2, <1>3
<1> HIDE DEF p
<1> QED BY <1>1, <1>4, JobMoves

\* The cutoff is written once, before anything is settled or classified.
LEMMA DecideStep ==
  ASSUME CutoffInv, NEW j \in Jobs, Decide(j) PROVE CutoffInv' /\ LockGuarded
<1> DEFINE f == job[j].f
           t == job[j].trigger
           pc == IF complete[f] THEN "finish" ELSE "classify"
           p == [pc |-> pc, f |-> f, trigger |-> t, left |-> Page, report |-> job[j].report]
<1>1. /\ job[j].pc = "decide" /\ f \in Forecasts /\ t \in Trigger /\ t # Nil
      /\ UNCHANGED <<fc, receipt, ledger, class, complete>>
  BY JobOf, TriggerAssumption DEF Decide, Keep
<1>2. CASE Stop(j) /\ UNCHANGED decision
  BY <1>1, <1>2, StopStep
<1>3. CASE /\ decision[f] = t \/ (decision[f] = Nil /\ MayDecide(f))
           /\ decision' = [decision EXCEPT ![f] = t]
           /\ job' = [job EXCEPT ![j].pc = pc, ![j].left = Page]
  <2>1. /\ decision' = [g \in Forecasts |-> IF g = f THEN t ELSE decision[g]]
        /\ \A g \in Forecasts : decision[g] # Nil => decision'[g] = decision[g]
    BY <1>1, <1>3 DEF CutoffInv, CutoffTypes
  <2>2. job' = [job EXCEPT ![j] = p]
    <3> DEFINE q == job[j]
    <3>1. job' = [job EXCEPT ![j] = [q EXCEPT !.pc = pc, !.left = Page]]
      BY <1>3
    <3>3. [q EXCEPT !.pc = pc, !.left = Page] = p
      <4> HIDE DEF pc
      <4> QED BY JobOf, Reshaped
    <3> QED BY <3>1, <3>3
  <2>3. job' = [k \in Jobs |-> IF k = j THEN p ELSE job[k]]
    <3> HIDE DEF p
    <3> QED BY <2>2 DEF CutoffInv, CutoffTypes
  <2>4. Guided(p, decision')
    <3>1. pc \in {"finish", "classify"} /\ decision'[f] = t
      BY <1>1, <2>1
    <3> HIDE DEF f, t, pc
    <3> QED BY <1>1, <3>1 DEF Guided, Shaped
  <2>5. ASSUME NEW k \in Jobs PROVE Guided(job[k], decision)'
    <3> DEFINE q == job'[k]
    <3>1. CASE k = j
      <4>1. q = p
        BY <2>3, <3>1
      <4> HIDE DEF p, q
      <4>2. Guided(q, decision')
        BY <2>4, <4>1
      <4> QED BY <4>2 DEF q
    <3>2. CASE k # j
      <4>1. q = job[k] /\ Guided(job[k], decision)
        BY <2>3, <3>2 DEF CutoffInv
      <4> HIDE DEF q
      <4>2. Guided(q, decision)
        BY <4>1
      <4>3. Guided(q, decision')
        BY <2>1, <4>2, TriggerAssumption DEF Guided
      <4> QED BY <4>3 DEF q
    <3> QED BY <3>1, <3>2
  <2> HIDE DEF p
  <2>6. CutoffTypes'
    <3>1. job' = [k \in Jobs |-> job'[k]]
      BY <2>3
    <3> QED BY <1>1, <2>1, <3>1 DEF CutoffInv, CutoffTypes
  <2>7. ASSUME NEW g \in Forecasts PROVE Classed(class[g], receipt[g], decision'[g])
    <3>1. CASE decision[g] # Nil
      BY <2>1, <3>1 DEF CutoffInv
    <3>2. CASE decision[g] = Nil
      BY <3>2 DEF CutoffInv, Classed
    <3> QED BY <3>1, <3>2
  <2>8. \A g \in Forecasts : complete[g] => decision'[g] # Nil
    BY <2>1 DEF CutoffInv
  <2>9. CutoffHonoured'
    <3>1. \A g \in Forecasts : complete[g] => Unclassified(g)' = {}
      BY <1>1 DEF CutoffInv, CutoffHonoured, Unclassified
    <3>2. ASSUME NEW l \in ledger, NEW r \in receipt[l.forecast], r.rev = l.rev,
                 decision'[l.forecast] # Nil
          PROVE  ReceiptStatus(r.at, decision'[l.forecast]) = "eligible"
      <4>1. l.forecast \in Forecasts
        BY DEF CutoffInv
      <4>2. decision[l.forecast] # Nil
        BY <1>3, <2>1, <3>2, <4>1 DEF MayDecide
      <4> QED BY <2>1, <3>2, <4>1, <4>2 DEF CutoffInv, CutoffHonoured
    <3> QED BY <1>1, <3>1, <3>2 DEF CutoffHonoured
  <2>10. \A g \in Forecasts : Numbered(receipt'[g]) /\ Classed(class'[g], receipt'[g], decision'[g])
    BY <1>1, <2>7 DEF CutoffInv
  <2>11. LockGuarded
    BY <1>1 DEF LockGuarded
  <2>12. \A l \in ledger' : l.forecast \in Forecasts
    BY <1>1 DEF CutoffInv
  <2> QED BY <1>1, <2>5, <2>6, <2>8, <2>9, <2>10, <2>11, <2>12 DEF CutoffInv
<1> QED BY <1>2, <1>3 DEF Decide

\* Of some receipts, one was the first.
LEMMA FirstOf ==
  ASSUME NEW S, S # {}, \A o \in S : o.rev \in Nat
  PROVE  \E x \in S : \A o \in S : x.rev <= o.rev
<1> DEFINE T == {o.rev : o \in S}
<1>1. T \subseteq Nat /\ T # {}
  OBVIOUS
<1>2. PICK m \in T : \A y \in T : ~ (<<y, m>> \in OpToRel(<, Nat))
  <2> HIDE DEF T
  <2> QED BY <1>1, NatLessThanWellFounded, WFMin
<1>3. \A y \in T : ~(y < m)
  <2> HIDE DEF T
  <2> QED BY <1>1, <1>2 DEF OpToRel
<1>4. PICK x \in S : m = x.rev
  OBVIOUS
<1>5. \A o \in S : ~(o.rev < m)
  BY <1>3
<1> HIDE DEF T
<1> QED BY <1>4, <1>5

\* A page of receipts is classified row by row, each as the cutoff says.
LEMMA ClassifyStep ==
  ASSUME CutoffInv, NEW j \in Jobs, Classify(j) PROVE CutoffInv' /\ LockGuarded
<1> DEFINE f == job[j].f
           t == job[j].trigger
           open == Unclassified(f)
<1>1. /\ job[j].pc = "classify" /\ f \in Forecasts /\ t \in Trigger /\ decision[f] = t /\ t # Nil
      /\ UNCHANGED <<fc, receipt, ledger, decision, complete>>
  BY JobOf, TriggerAssumption DEF Classify, Keep, Guided
<1>2. CASE open = {} \/ job[j].left = 0
  <2>1. Goto(j, "finish") /\ UNCHANGED class
    BY <1>2 DEF Classify
  <2> QED BY <1>1, <2>1, GoesTo
<1>3. CASE ~(open = {} \/ job[j].left = 0)
  <2> DEFINE r == CHOOSE r \in open : \A o \in open : r.rev <= o.rev
             c == [user |-> r.user, rev |-> r.rev, status |-> ReceiptStatus(r.at, t)]
  <2>1. r \in open
    <3>1. \E x \in open : \A o \in open : x.rev <= o.rev
      <4>1. open # {} /\ \A o \in open : o.rev \in Nat
        BY <1>1, <1>3 DEF CutoffInv, Numbered, Unclassified
      <4> HIDE DEF open
      <4> QED BY <4>1, FirstOf
    <3> QED BY <3>1
  <2>2. /\ class' = [class EXCEPT ![f] = class[f] \cup {c}]
        /\ job' = [job EXCEPT ![j].left = @ - 1]
    BY <1>3 DEF Classify
  <2>3. c.rev = r.rev /\ c.status = ReceiptStatus(r.at, t)
    OBVIOUS
  <2> HIDE DEF r, c
  <2>4. r \in receipt[f]
    BY <2>1 DEF Unclassified
  <2>5. class' = [g \in Forecasts |-> IF g = f THEN class[f] \cup {c} ELSE class[g]]
    BY <2>2 DEF CutoffInv, CutoffTypes
  <2>6. ASSUME NEW g \in Forecasts PROVE Classed(class'[g], receipt[g], decision[g])
    <3>1. CASE g = f
      BY <1>1, <2>3, <2>4, <2>5, <3>1 DEF CutoffInv, Classed
    <3>2. CASE g # f
      BY <2>5, <3>2 DEF CutoffInv
    <3> QED BY <3>1, <3>2
  <2>7. CutoffHonoured'
    <3>1. ASSUME NEW g \in Forecasts, complete[g] PROVE Unclassified(g)' = {}
      <4>1. Unclassified(g) = {}
        BY <3>1 DEF CutoffInv, CutoffHonoured
      <4>2. class[g] \subseteq class'[g]
        BY <2>5
      <4> QED BY <1>1, <4>1, <4>2 DEF Unclassified
    <3> QED BY <1>1, <3>1 DEF CutoffInv, CutoffHonoured
  <2> DEFINE left == job[j].left - 1
             p == [job[j] EXCEPT !.left = left]
  <2>8. job' = [k \in Jobs |-> IF k = j THEN p ELSE job[k]]
    BY <2>2 DEF CutoffInv, CutoffTypes
  <2>9. Guided(p, decision)
    <3> HIDE DEF left
    <3> DEFINE q == job[j]
    <3>1. p = [q EXCEPT !.left = left]
      OBVIOUS
    <3>2. Shaped(q) /\ q.pc = "classify" /\ q.f \in Forecasts /\ q.trigger \in Trigger
          /\ decision[q.f] = q.trigger
      BY <1>1, JobOf
    <3> DEFINE a == q.pc  b == q.f  x == q.trigger  d == q.left  e == q.report
    <3>3. q = [pc |-> a, f |-> b, trigger |-> x, left |-> d, report |-> e]
      BY <3>2 DEF Shaped
    <3>4. a = "classify" /\ b \in Forecasts /\ x \in Trigger /\ decision[b] = x
      BY <3>2
    <3> HIDE DEF a, b, x, d, e, q, p
    <3>5. p = [pc |-> a, f |-> b, trigger |-> x, left |-> left, report |-> e]
      BY <3>1, <3>3
    <3> QED BY <3>4, <3>5 DEF Guided, Shaped
  <2> HIDE DEF p
  <2>10. ASSUME NEW k \in Jobs PROVE Guided(job[k], decision)'
    <3> DEFINE q == job'[k]
    <3>1. Guided(q, decision)
      BY <2>8, <2>9 DEF CutoffInv
    <3> HIDE DEF q
    <3>2. Guided(q, decision')
      BY <1>1, <3>1
    <3> QED BY <3>2 DEF q
  <2>11. CutoffTypes'
    <3>1. job' = [k \in Jobs |-> job'[k]] /\ class' = [g \in Forecasts |-> class'[g]]
      BY <2>5, <2>8
    <3> QED BY <1>1, <3>1 DEF CutoffInv, CutoffTypes
  <2>12. LockGuarded
    BY <1>1 DEF LockGuarded
  <2> QED BY <1>1, <2>6, <2>7, <2>10, <2>11, <2>12 DEF CutoffInv
<1> QED BY <1>2, <1>3

\* A cutoff is complete once every receipt is classified.
LEMMA FinishStep ==
  ASSUME CutoffInv, NEW j \in Jobs, Finish(j) PROVE CutoffInv' /\ LockGuarded
<1> DEFINE f == job[j].f
<1>1. /\ job[j].pc = "finish" /\ f \in Forecasts /\ decision[f] = job[j].trigger /\ decision[f] # Nil
      /\ UNCHANGED <<fc, receipt, ledger, decision, class>>
  BY JobOf, TriggerAssumption DEF Finish, Keep, Guided
<1>2. CASE UNCHANGED complete /\ Stop(j)
  BY <1>1, <1>2, StopStep
<1>3. CASE /\ complete[f] \/ Completable(f)
           /\ complete' = [complete EXCEPT ![f] = TRUE] /\ Goto(j, "lock")
  <2> DEFINE q == job[j]
             p == [pc |-> "lock", f |-> q.f, trigger |-> q.trigger, left |-> q.left, report |-> q.report]
  <2>1. complete' = [g \in Forecasts |-> IF g = f THEN TRUE ELSE complete[g]]
    BY <1>3 DEF CutoffInv, CutoffTypes
  <2>2. Guided(p, decision)
    BY <1>1, Goes
  <2>3. job' = [k \in Jobs |-> IF k = j THEN [q EXCEPT !.pc = "lock"] ELSE job[k]]
    BY <1>3 DEF CutoffInv, CutoffTypes, Goto
  <2>4. [q EXCEPT !.pc = "lock"] = p
    <3>1. Shaped(q)
      BY JobOf
    <3> DEFINE a == q.pc  b == q.f  c == q.trigger  d == q.left  e == q.report
    <3>2. q = [pc |-> a, f |-> b, trigger |-> c, left |-> d, report |-> e]
      BY <3>1 DEF Shaped
    <3>3. p = [pc |-> "lock", f |-> b, trigger |-> c, left |-> d, report |-> e]
      OBVIOUS
    <3> HIDE DEF a, b, c, d, e, q, p
    <3> QED BY <3>2, <3>3
  <2> HIDE DEF p, q
  <2>5. ASSUME NEW k \in Jobs PROVE Guided(job[k], decision)'
    <3> DEFINE y == job'[k]
    <3>1. Guided(y, decision)
      BY <2>2, <2>3, <2>4 DEF CutoffInv
    <3> HIDE DEF y
    <3>2. Guided(y, decision')
      BY <1>1, <3>1
    <3> QED BY <3>2 DEF y
  <2>6. CutoffTypes'
    <3>1. job' = [k \in Jobs |-> job'[k]]
      BY <2>3
    <3> QED BY <1>1, <2>1, <3>1 DEF CutoffInv, CutoffTypes
  <2>7. CutoffHonoured'
    <3>1. Unclassified(f) = {}
      BY <1>1, <1>3 DEF CutoffInv, CutoffHonoured, Completable
    <3>2. \A g \in Forecasts : complete'[g] => Unclassified(g) = {}
      BY <2>1, <3>1 DEF CutoffInv, CutoffHonoured
    <3>3. \A g \in Forecasts : Unclassified(g)' = Unclassified(g)
      BY <1>1 DEF Unclassified
    <3> QED BY <1>1, <3>2, <3>3 DEF CutoffInv, CutoffHonoured
  <2>8. \A g \in Forecasts : complete'[g] => decision[g] # Nil
    BY <1>1, <2>1 DEF CutoffInv
  <2>9. LockGuarded
    BY <1>1 DEF LockGuarded
  <2> QED BY <1>1, <2>5, <2>6, <2>7, <2>8, <2>9 DEF CutoffInv
<1> QED BY <1>2, <1>3 DEF Finish

\* The lock asks again for the hold and the completion, and closes early under
\* the cutoff that was decided.
LEMMA LockStep ==
  ASSUME CutoffInv, NEW j \in Jobs, Lock(j) PROVE CutoffInv' /\ LockGuarded
<1> DEFINE f == job[j].f
           t == job[j].trigger
           x == fc[f]
<1>1. /\ job[j].pc = "lock" /\ f \in Forecasts /\ t \in Trigger /\ decision[f] = t
      /\ UNCHANGED <<receipt, ledger, decision, class, complete>>
  BY JobOf DEF Lock, Guided, money, review
<1>2. /\ x = [state |-> x.state, outcome |-> x.outcome, trigger |-> x.trigger]
      /\ x.outcome \in Outcomes \cup {"INVALID", Nil} /\ x.trigger \in Trigger \cup {Nil}
  BY <1>1 DEF CutoffInv, CutoffTypes
<1>3. CASE Stop(j) /\ UNCHANGED fc
  BY <1>1, <1>3, StopStep
<1>4. ASSUME NEW p, Guided(p, decision), job' = [job EXCEPT ![j] = p],
             MayLock(f),
             NEW to \in {t, x.trigger},
             fc' = [fc EXCEPT ![f] = [state |-> "LOCKED", outcome |-> x.outcome, trigger |-> to]]
      PROVE  CutoffInv' /\ LockGuarded
  <2> HIDE DEF x, f, t
  <2>1. /\ to \in Trigger \cup {Nil}
        /\ to # x.trigger => hold[f] # Nil /\ complete[f] /\ decision[f] = to
    BY <1>1, <1>2, <1>4 DEF MayLock
  <2>2. fc' \in [Forecasts -> [state : {"OPEN", "LOCKED", "FINALIZED"},
                               outcome : Outcomes \cup {"INVALID", Nil}, trigger : Trigger \cup {Nil}]]
        /\ \A g \in Forecasts : fc'[g].trigger # fc[g].trigger => g = f /\ fc'[g].trigger = to
    BY <1>1, <1>2, <1>4, <2>1 DEF CutoffInv, CutoffTypes
  <2>3. LockGuarded
    BY <1>1, <2>1, <2>2 DEF LockGuarded, x
  <2>4. job' = [k \in Jobs |-> IF k = j THEN p ELSE job[k]]
    BY <1>4 DEF CutoffInv, CutoffTypes
  <2>5. ASSUME NEW k \in Jobs PROVE Guided(job[k], decision)'
    <3> DEFINE y == job'[k]
    <3>1. Guided(y, decision)
      BY <1>4, <2>4 DEF CutoffInv
    <3> HIDE DEF y
    <3>2. Guided(y, decision')
      BY <1>1, <3>1
    <3> QED BY <3>2 DEF y
  <2>6. CutoffTypes'
    <3>1. job' = [k \in Jobs |-> job'[k]]
      BY <2>4
    <3> QED BY <1>1, <2>2, <3>1 DEF CutoffInv, CutoffTypes
  <2>7. CutoffHonoured'
    BY <1>1 DEF CutoffInv, CutoffHonoured, Unclassified
  <2> QED BY <1>1, <2>3, <2>5, <2>6, <2>7 DEF CutoffInv
<1>5. CASE /\ MayLock(f) /\ fc' = [fc EXCEPT ![f].state = "LOCKED", ![f].trigger = t]
           /\ Goto(j, "reward")
  <2> DEFINE q == job[j]
             p == [pc |-> "reward", f |-> q.f, trigger |-> q.trigger, left |-> q.left, report |-> q.report]
  <2>1. Guided(p, decision)
    BY <1>1, Goes
  <2>2. [q EXCEPT !.pc = "reward"] = p
    <3>1. Shaped(q)
      BY JobOf
    <3> DEFINE a == q.pc  b == q.f  c == q.trigger  d == q.left  e == q.report
    <3>2. q = [pc |-> a, f |-> b, trigger |-> c, left |-> d, report |-> e]
      BY <3>1 DEF Shaped
    <3>3. p = [pc |-> "reward", f |-> b, trigger |-> c, left |-> d, report |-> e]
      OBVIOUS
    <3> HIDE DEF a, b, c, d, e, q, p
    <3> QED BY <3>2, <3>3
  <2>3. job' = [job EXCEPT ![j] = p]
    BY <1>5, <2>2 DEF Goto
  <2>4. fc' = [fc EXCEPT ![f] = [state |-> "LOCKED", outcome |-> x.outcome, trigger |-> t]]
    <3> DEFINE y == [x EXCEPT !.state = "LOCKED"]
               z == [y EXCEPT !.trigger = t]
               s == x.state  o == x.outcome  r == x.trigger
    <3>1. fc' = [fc EXCEPT ![f] = z]
      BY <1>5
    <3>2. x = [state |-> s, outcome |-> o, trigger |-> r]
      BY <1>2
    <3>3. y = [x EXCEPT !.state = "LOCKED"]
      OBVIOUS
    <3>4. z = [y EXCEPT !.trigger = t]
      OBVIOUS
    <3> HIDE DEF x, y, z, s, o, r, t, f
    <3>5. y = [state |-> "LOCKED", outcome |-> o, trigger |-> r]
      BY <3>2, <3>3
    <3>6. z = [state |-> "LOCKED", outcome |-> o, trigger |-> t]
      BY <3>4, <3>5
    <3> QED BY <3>1, <3>6 DEF o
  <2> HIDE DEF p, x, f, t
  <2> QED BY <1>4, <1>5, <2>1, <2>3, <2>4
<1>6. CASE MayLock(f) /\ fc' = [fc EXCEPT ![f].state = "LOCKED"] /\ Stop(j)
  <2>1. Guided(Idle, decision) /\ job' = [job EXCEPT ![j] = Idle]
    BY <1>6, GuidedIdle DEF Stop
  <2>2. fc' = [fc EXCEPT ![f] = [state |-> "LOCKED", outcome |-> x.outcome, trigger |-> x.trigger]]
    <3> DEFINE y == [x EXCEPT !.state = "LOCKED"]
               s == x.state  o == x.outcome  r == x.trigger
    <3>1. fc' = [fc EXCEPT ![f] = y]
      BY <1>6
    <3>2. x = [state |-> s, outcome |-> o, trigger |-> r] /\ y = [x EXCEPT !.state = "LOCKED"]
      BY <1>2
    <3> HIDE DEF x, y, s, o, r, f
    <3>3. y = [state |-> "LOCKED", outcome |-> o, trigger |-> r]
      BY <3>2
    <3> QED BY <3>1, <3>3 DEF o, r
  <2> HIDE DEF x, f, t
  <2> QED BY <1>4, <1>6, <2>1, <2>2
<1> QED BY <1>3, <1>5, <1>6 DEF Lock

LEMMA RewardStep ==
  ASSUME CutoffInv, NEW j \in Jobs, PickReport(j) \/ PayReport(j) \/ Answered(j) \/ Crash(j)
  PROVE  CutoffInv' /\ LockGuarded
<1>1. UNCHANGED <<fc, receipt, ledger, decision, class, complete>>
  BY DEF PickReport, PayReport, Answered, Crash, Keep, review
<1>2. CASE Stop(j)
  BY <1>1, <1>2, StopStep
<1>3. CASE /\ job[j].pc = "reward"
           /\ \E r \in Earliest(Citing(job[j].f, job[j].trigger)) :
                job' = [job EXCEPT ![j].pc = "pay", ![j].report = r]
  <2>1. PICK r : job' = [job EXCEPT ![j].pc = "pay", ![j].report = r]
    BY <1>3
  <2> DEFINE q == job[j]
             y == [q EXCEPT !.pc = "pay"]
             p == [y EXCEPT !.report = r]
             a == q.pc  b == q.f  c == q.trigger  d == q.left  e == q.report
  <2>2. job' = [job EXCEPT ![j] = p]
    BY <2>1
  <2>3. b \in Forecasts /\ c \in Trigger /\ Shaped(q)
    BY <1>3, JobOf
  <2>4. q = [pc |-> a, f |-> b, trigger |-> c, left |-> d, report |-> e]
    BY <2>3 DEF Shaped
  <2>5. y = [q EXCEPT !.pc = "pay"]
    OBVIOUS
  <2>6. p = [y EXCEPT !.report = r]
    OBVIOUS
  <2> HIDE DEF a, b, c, d, e, q, y, p
  <2>7. y = [pc |-> "pay", f |-> b, trigger |-> c, left |-> d, report |-> e]
    BY <2>4, <2>5
  <2>8. p = [pc |-> "pay", f |-> b, trigger |-> c, left |-> d, report |-> r]
    BY <2>6, <2>7
  <2>9. Guided(p, decision)
    BY <2>3, <2>8 DEF Guided, Shaped
  <2> QED BY <1>1, <2>2, <2>9, JobMoves
<1> QED BY <1>2, <1>3 DEF PickReport, PayReport, Answered, Crash

LEMMA PassStep ==
  ASSUME CutoffInv, NEW f \in Forecasts, ExpiryLock(f) \/ \E o \in Outcomes \cup {"INVALID"} : Finalize(f, o)
  PROVE  CutoffInv' /\ LockGuarded
<1> DEFINE x == fc[f]
           s == x.state  o == x.outcome  r == x.trigger
<1>1. UNCHANGED <<receipt, ledger, decision, class, complete, job>>
  BY DEF ExpiryLock, Finalize, money, review
<1>2. /\ x = [state |-> s, outcome |-> o, trigger |-> r]
      /\ o \in Outcomes \cup {"INVALID", Nil} /\ r \in Trigger \cup {Nil}
  BY DEF CutoffInv, CutoffTypes
<1>3. ASSUME ExpiryLock(f)
      PROVE  fc' = [fc EXCEPT ![f] = [state |-> "LOCKED", outcome |-> o, trigger |-> r]]
  <2> DEFINE y == [x EXCEPT !.state = "LOCKED"]
  <2>1. fc' = [fc EXCEPT ![f] = y]
    BY <1>3 DEF ExpiryLock
  <2>2. y = [x EXCEPT !.state = "LOCKED"]
    OBVIOUS
  <2> HIDE DEF x, y, s, o, r
  <2>3. y = [state |-> "LOCKED", outcome |-> o, trigger |-> r]
    BY <1>2, <2>2
  <2> QED BY <2>1, <2>3
<1>4. ASSUME NEW u \in Outcomes \cup {"INVALID"}, Finalize(f, u)
      PROVE  fc' = [fc EXCEPT ![f] = [state |-> "FINALIZED", outcome |-> u, trigger |-> r]]
  <2> DEFINE y == [x EXCEPT !.state = "FINALIZED"]
             z == [y EXCEPT !.outcome = u]
  <2>1. fc' = [fc EXCEPT ![f] = z]
    BY <1>4 DEF Finalize
  <2>2. y = [x EXCEPT !.state = "FINALIZED"]
    OBVIOUS
  <2>3. z = [y EXCEPT !.outcome = u]
    OBVIOUS
  <2> HIDE DEF x, y, z, s, o, r
  <2>4. y = [state |-> "FINALIZED", outcome |-> o, trigger |-> r]
    BY <1>2, <2>2
  <2>5. z = [state |-> "FINALIZED", outcome |-> u, trigger |-> r]
    BY <2>3, <2>4
  <2> QED BY <2>1, <2>5
<1>5. CASE ExpiryLock(f)
  <2> HIDE DEF s, o
  <2> QED BY <1>1, <1>2, <1>3, <1>5, StateMoves
<1>6. CASE \E u \in Outcomes \cup {"INVALID"} : Finalize(f, u)
  <2> HIDE DEF s, o
  <2> QED BY <1>1, <1>2, <1>4, <1>6, StateMoves
<1> QED BY <1>5, <1>6

LEMMA CutoffsInitially == Init => CutoffInv
<1> SUFFICES ASSUME Init PROVE CutoffInv
  OBVIOUS
<1>1. fc = [f \in Forecasts |-> [state |-> "OPEN", outcome |-> Nil, trigger |-> Nil]]
      /\ decision = [f \in Forecasts |-> Nil] /\ complete = [f \in Forecasts |-> FALSE]
      /\ receipt = [f \in Forecasts |-> {}] /\ class = [f \in Forecasts |-> {}]
      /\ ledger = {} /\ job = [j \in Jobs |-> Idle]
  BY DEF Init
<1>2. CutoffTypes
  BY <1>1 DEF CutoffTypes
<1>3. Numbered({})
  BY FS_EmptySet DEF Numbered
<1>4. CutoffHonoured
  BY <1>1 DEF CutoffHonoured
<1>5. \A j \in Jobs : Guided(job[j], decision)
  BY <1>1, GuidedIdle
<1> QED BY <1>1, <1>2, <1>3, <1>4, <1>5 DEF CutoffInv, Classed

LEMMA CutoffStep == CutoffInv /\ [Next]_vars => CutoffInv' /\ [LockGuarded]_vars
<1> SUFFICES ASSUME CutoffInv, [Next]_vars PROVE CutoffInv' /\ (LockGuarded \/ UNCHANGED vars)
  OBVIOUS
<1>1. CASE \/ Tick \/ \E u \in Users : UnlinkWallet(u) \/ \E a \in Addresses : LinkWallet(u, a)
           \/ \E f \in Forecasts : \/ \E url \in Urls : Hold(f, url)
                                   \/ \E u \in Users, url \in Urls : Report(f, u, url)
                                   \/ Release(f)
           \/ UNCHANGED vars
  <2>1. UNCHANGED <<fc, receipt, ledger, decision, class, complete, job>>
    BY <1>1 DEF Tick, UnlinkWallet, LinkWallet, Hold, Report, Release, vars, money, review
  <2> QED BY <2>1, NothingMoves
<1>2. CASE \E f \in Forecasts : \E u \in Users, o \in Outcomes, s \in Stakes : Submit(f, u, o, s)
  BY <1>2, SubmitStep
<1>3. CASE \E f \in Forecasts : ExpiryLock(f) \/ \E o \in Outcomes \cup {"INVALID"} : Finalize(f, o)
  BY <1>3, PassStep
<1>4. CASE \E f \in Forecasts : Settle(f)
  BY <1>4, SettleStep
<1>5. CASE \E j \in Jobs : Accept(j) \/ Crash(j)
  BY <1>5, DecideStep, ClassifyStep, FinishStep, LockStep, RewardStep DEF Accept
<1>6. CASE \E j \in Jobs, f \in Forecasts : Resume(j, f) \/ \E t \in Trigger : Begin(j, f, t)
  <2>1. ASSUME NEW j \in Jobs, NEW f \in Forecasts, Resume(j, f) PROVE \E t \in Trigger : Begin(j, f, t)
    BY <2>1 DEF Resume, CutoffInv, CutoffTypes
  <2> QED BY <1>6, <2>1, BeginStep
<1> QED BY <1>1, <1>2, <1>3, <1>4, <1>5, <1>6 DEF Next

\* The inductive invariant: receipts are numbered, what is classified is as the
\* cutoff decided says, and accept() carries that cutoff past its decision.
THEOREM CutoffsInvariant == Spec => []CutoffInv
<1> QED BY CutoffsInitially, CutoffStep, PTL DEF Spec

\* A cutoff is decided before its forecast settles, nothing is settled on a
\* receipt it does not call eligible, and an early lock is made under a hold and
\* the cutoff that was completed (decide(), the lock batch of accept(), 0013).
THEOREM CutoffsAreGuarded == Spec => CutoffsGuarded
<1>1. CutoffInv => CutoffHonoured
  BY DEF CutoffInv
<1> QED BY <1>1, CutoffsInitially, CutoffStep, PTL DEF Spec, CutoffsGuarded, EarlyLockGuarded
===============================================================================
