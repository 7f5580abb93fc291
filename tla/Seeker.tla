-------------------------------- MODULE Seeker --------------------------------
(***************************************************************************)
(* Seeker verification (seeker.rs, migrations 0020 and 0021): a request    *)
(* reads the profile's wallet and its stored evidence, asks the chain what *)
(* the wallet holds, and writes the evidence, or its invalidation, under   *)
(* the revision it read.  Requests of one profile may overlap; devices and *)
(* wallets change hands between any two steps.                             *)
(*                                                                         *)
(* The chain's history is `moves`, the number of transfers so far; a       *)
(* lookup is of one moment of it (the two token queries of a lookup read a *)
(* holding and a mint's immutable group membership).  `seen` is a history  *)
(* field: the moment a row's evidence is of.                               *)
(***************************************************************************)
EXTENDS Integers

CONSTANTS
  Profiles, Owners, Mints, Refreshes,
  Balances,       \* SKR balances, in atomic units
  MaxMoves, MaxRelinks, MaxRevision,   \* bounds
  None

\* Rows of seeker_verifications.
EvidenceRows ==
  [address : Owners, mint : Mints, skr : [kind : {"text"}, value : Balances], valid : BOOLEAN,
   seen : Nat, revision : Nat]
SeekerAssumption == None \notin Owners \cup Mints \cup EvidenceRows

VARIABLES
  holder,         \* the wallet each Genesis Token is in
  skr,            \* each wallet's SKR
  moves,
  current,        \* CURRENT_ADDRESS: the profile's sign-in wallet, or its linked one, or None
  relinks,
  row,            \* seeker_verifications by user: None or a record
  refresh         \* the requests in flight

seekervars == <<holder, skr, moves, current, relinks, row, refresh>>
world == <<holder, skr, moves, current, relinks>>

NoRefresh == [pc |-> "idle"]

SeekerInit ==
  /\ holder \in [Mints -> Owners] /\ skr \in [Owners -> Balances]
  /\ moves = 0 /\ relinks = 0
  /\ current \in [Profiles -> Owners \cup {None}]
  /\ \A u, v \in Profiles : u # v /\ current[u] = current[v] => current[u] = None
  /\ row = [u \in Profiles |-> None] /\ refresh = [r \in Refreshes |-> NoRefresh]

Transfer(m, a) ==
  /\ moves < MaxMoves /\ a # holder[m] /\ moves' = moves + 1
  /\ holder' = [holder EXCEPT ![m] = a] /\ UNCHANGED <<skr, current, relinks, row, refresh>>

\* A profile links another wallet, or none; a wallet has one profile.
Relink(u, a) ==
  /\ relinks < MaxRelinks /\ a # current[u] /\ relinks' = relinks + 1
  /\ a # None => \A v \in Profiles : current[v] # a
  /\ current' = [current EXCEPT ![u] = a] /\ UNCHANGED <<holder, skr, moves, row, refresh>>

\* verify, as far as its two reads.
Ask(r, u) ==
  /\ refresh[r].pc = "idle" /\ current[u] # None
  /\ refresh' = [refresh EXCEPT ![r] =
       [pc |-> "asked", user |-> u, address |-> current[u], previous |-> row[u]]]
  /\ UNCHANGED <<world, row>>

\* The chain answers: the Genesis Token in the wallet, if any, and its balance.
Lookup(r) ==
  LET q == refresh[r]
      held == {m \in Mints : holder[m] = q.address}
  IN
  /\ q.pc = "asked"
  /\ \E m \in IF held = {} THEN {None} ELSE held :
       refresh' = [refresh EXCEPT ![r] =
         [pc |-> "answered", user |-> q.user, address |-> q.address, previous |-> q.previous,
          mint |-> m, skr |-> skr[q.address], seen |-> moves]]
  /\ UNCHANGED <<world, row>>

\* An incomplete reply, a refusal or the end of the request.
GiveUp(r) == refresh[r].pc # "idle" /\ refresh' = [refresh EXCEPT ![r] = NoRefresh] /\ UNCHANGED <<world, row>>

Revision(x) == IF x = None THEN -1 ELSE x.revision

\* The invalidation's conditions: the wallet the evidence was of, still the
\* profile's, and the row as it was read.
MayInvalidate(q) ==
  /\ q.previous # None /\ q.previous.address = q.address
  /\ row[q.user] # None /\ row[q.user].address = q.address
  /\ row[q.user].revision = Revision(q.previous) /\ current[q.user] = q.address
Invalidated(x, seen) ==
  [address |-> x.address, mint |-> x.mint, skr |-> x.skr, valid |-> FALSE, seen |-> seen,
   revision |-> x.revision + 1]
Invalidate(r) ==
  LET q == refresh[r] IN
  /\ q.pc = "answered" /\ q.mint = None /\ MayInvalidate(q) /\ Revision(q.previous) < MaxRevision
  /\ row' = [row EXCEPT ![q.user] = Invalidated(row[q.user], q.seen)]
  /\ refresh' = [refresh EXCEPT ![r] = NoRefresh] /\ UNCHANGED world

\* Nobody else claimed the device, then or when the row is written.
Unclaimed(q) == \A v \in Profiles : v # q.user /\ row[v] # None => row[v].mint # q.mint
Claim(r) ==
  /\ refresh[r].pc = "answered" /\ refresh[r].mint # None /\ Unclaimed(refresh[r])
  /\ refresh' = [refresh EXCEPT ![r] = [refresh[r] EXCEPT !.pc = "claim"]] /\ UNCHANGED <<world, row>>

MayWriteAnyRevision(q) == current[q.user] = q.address /\ Unclaimed(q)
MayWrite(q) == /\ current[q.user] = q.address /\ Unclaimed(q)
               /\ row[q.user] # None => row[q.user].revision = Revision(q.previous)
\* skr_atomic is a TEXT column, and the write binds atomic.to_string().
AsText(n) == [kind |-> "text", value |-> n]
Write(r) ==
  LET q == refresh[r] IN
  /\ q.pc = "claim" /\ MayWrite(q) /\ Revision(q.previous) < MaxRevision
  /\ row' = [row EXCEPT ![q.user] =
       [address |-> q.address, mint |-> q.mint, skr |-> AsText(q.skr), valid |-> TRUE, seen |-> q.seen,
        revision |-> Revision(row[q.user]) + 1]]
  /\ refresh' = [refresh EXCEPT ![r] = NoRefresh] /\ UNCHANGED world

SeekerNext ==
  \/ \E m \in Mints, a \in Owners : Transfer(m, a)
  \/ \E u \in Profiles, a \in Owners \cup {None} : Relink(u, a)
  \/ \E r \in Refreshes : \/ Lookup(r) \/ GiveUp(r) \/ Invalidate(r) \/ Claim(r) \/ Write(r)
                          \/ \E u \in Profiles : Ask(r, u)

SeekerSpec == SeekerInit /\ [][SeekerNext]_seekervars

------------------------------------------------------------------------------
(***************************************************************************)
(* Properties.                                                             *)
(***************************************************************************)

\* A stored row never goes back to older evidence: of two overlapping
\* refreshes the one that looked earlier cannot badge what the later one
\* found gone, nor withdraw what it found.
NoOlder ==
  \A u \in Profiles : row[u] # None /\ row'[u] # row[u] =>
    row'[u].seen >= row[u].seen /\ row'[u].revision = row[u].revision + 1
EvidenceNeverOlder == [][NoOlder]_seekervars

==============================================================================
