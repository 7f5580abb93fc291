-------------------------------- MODULE SignIn --------------------------------
(***************************************************************************)
(* Sign-in: browser contexts, sessions, recovery codes, wallet challenges  *)
(* and the identity a wallet converts (auth.rs, wallet_login.rs,           *)
(* wallets.rs and migrations 0003 and 0016).                               *)
(*                                                                         *)
(* A request reads, awaits and writes in one guarded batch; the actions    *)
(* XBegin ... XCommit of request r are those parts, and requests           *)
(* interleave between them.  A request's clock is the time it started      *)
(* (auth_routes.rs: now = || context.now_ms).  Tokens, codes and           *)
(* challenge ids are positions in sequences that only grow; signatures,    *)
(* rate limits and display names are left out: a failed signature or a     *)
(* refused request is Refused.                                             *)
(***************************************************************************)
EXTENDS Naturals, Sequences, FiniteSets

CONSTANTS
  ProfileIds,     \* profile ids; those absent at first are the ids a sign-up may draw
  Pubkeys,        \* wallets
  Contexts,       \* browser contexts
  Calls,          \* requests in flight
  ChallengeLife,  \* CHALLENGE_LIFETIME_MS
  SessionLife,    \* SESSION_LIFETIME_MS
  Switches,       \* the deployments looked at: values of WALLET_LOGIN_REQUIRED
  Befores,        \* what 0016 may have found of a wallet: "linked", "retired", "none" (a
                  \* guest's session only), "new" (nobody yet), or, since, "attached"
  MaxClock, MaxChallenges, MaxSessions,   \* bounds
  Null

VARIABLES
  clock,
  required,       \* WALLET_LOGIN_REQUIRED
  users,          \* users: "absent", or its recovery hash: "code" or "disabled"
  identity,       \* wallet_identities: [user, active, converted] or Null
  links,          \* wallet_links: [address, generation] or Null, by user
  audited,        \* addresses of wallet_audit
  contexts,       \* wallet_login_contexts: [epoch, latest, active, expires, revoked]
  challenges,     \* wallet_login_challenges and wallet_challenges
  sessions,       \* sessions; a deleted row has live = FALSE
  call            \* the requests in flight

signinvars == <<clock, required, users, identity, links, audited, contexts, challenges, sessions, call>>
book == <<clock, required, users, identity, links, audited, contexts, challenges, sessions>>

NoCall == [pc |-> "idle"]

\* What the store may hold when the switch is read: a guest with a recovery
\* code and a session, its wallet linked before 0016 or an old one retired.
SignInInit ==
  /\ clock = 0 /\ required \in Switches
  /\ \E g \in ProfileIds, a \in Pubkeys, before \in Befores :
       /\ users = [u \in ProfileIds |-> IF u = g /\ before # "new" THEN "code" ELSE "absent"]
       /\ identity = [x \in Pubkeys |-> IF x = a /\ before \in {"linked", "retired"}
            THEN [user |-> g, active |-> before = "linked", converted |-> FALSE] ELSE Null]
       /\ links = [u \in ProfileIds |-> IF u = g /\ before \in {"linked", "attached"}
            THEN [address |-> a, generation |-> 0] ELSE Null]
       /\ audited = IF before \in {"none", "new"} THEN {} ELSE {a}
       /\ sessions = IF before = "new" THEN <<>>
                      ELSE <<[user |-> g, ctx |-> Null, epoch |-> 0, expires |-> SessionLife,
                              live |-> TRUE, proof |-> 0]>>
  /\ contexts = [c \in Contexts |-> Null]
  /\ challenges = <<>>
  /\ call = [r \in Calls |-> NoCall]

ClockTick == /\ clock < MaxClock /\ clock' = clock + 1
             /\ UNCHANGED <<required, users, identity, links, audited, contexts, challenges, sessions, call>>

------------------------------------------------------------------------------
\* What the statements ask of the store.

Converted(u) == \E a \in Pubkeys : identity[a] # Null /\ identity[a].user = u /\ identity[a].converted
ActiveOf(u) == {a \in Pubkeys : identity[a] # Null /\ identity[a].user = u /\ identity[a].active}
LinkedTo(a) == {u \in ProfileIds : links[u] # Null /\ links[u].address = a}
Live(c, t) == contexts[c] # Null /\ ~contexts[c].revoked /\ contexts[c].expires > t

\* authenticate: the session, or one bound to this context and still its active one.
Authenticates(s, c, t) ==
  /\ s # 0 /\ sessions[s].live /\ sessions[s].expires > t
  /\ \/ sessions[s].ctx = Null /\ ~Converted(sessions[s].user)
     \/ /\ c # Null /\ sessions[s].ctx = c /\ Live(c, t)
        /\ contexts[c].epoch = sessions[s].epoch /\ contexts[c].active = s

\* _owner: an active identity, else a link, else nobody; Retired is refused.
Retired(a) == IF identity[a] # Null THEN ~identity[a].active
              ELSE LinkedTo(a) = {} /\ a \in audited
OwnersOf(a) == IF identity[a] # Null THEN {identity[a].user} ELSE LinkedTo(a)

\* _challenge, as both requests to verify and the batch read it.
Usable(i, c, t) ==
  /\ Live(c, t)
  /\ challenges[i].ctx = c /\ challenges[i].epoch = contexts[c].epoch
  /\ contexts[c].latest = i
  /\ ~challenges[i].used /\ ~challenges[i].revoked /\ challenges[i].expires > t

Revoke(which(_)) == [i \in DOMAIN challenges |->
  IF which(challenges[i]) /\ ~challenges[i].used THEN [challenges[i] EXCEPT !.revoked = TRUE] ELSE challenges[i]]
Delete(which(_)) == [s \in DOMAIN sessions |->
  IF which(sessions[s]) THEN [sessions[s] EXCEPT !.live = FALSE] ELSE sessions[s]]
NewSession(u, c, t, proof) ==
  [user |-> u, ctx |-> c, epoch |-> IF c = Null THEN 0 ELSE contexts[c].epoch,
   expires |-> t + SessionLife, live |-> TRUE, proof |-> proof]

Enter(r, x) == call[r].pc = "idle" /\ call' = [call EXCEPT ![r] = x] /\ UNCHANGED book
Proceed(r, x) == call' = [call EXCEPT ![r] = x] /\ UNCHANGED book
Done(r) == call' = [call EXCEPT ![r] = NoCall]

\* A refusal, a bad signature, an outage or a cancelled request: nothing is written.
Refused(r) == call[r].pc # "idle" /\ Done(r) /\ UNCHANGED book

------------------------------------------------------------------------------
\* Contexts, the recovery-code account and logout.

NewContext(c) ==
  /\ contexts[c] = Null
  /\ contexts' = [contexts EXCEPT ![c] = [epoch |-> 1, latest |-> 0, active |-> 0,
                    expires |-> clock + SessionLife, revoked |-> FALSE]]
  /\ UNCHANGED <<clock, required, users, identity, links, audited, challenges, sessions, call>>

Register(u) ==
  /\ ~required /\ users[u] = "absent" /\ Len(sessions) < MaxSessions
  /\ users' = [users EXCEPT ![u] = "code"]
  /\ sessions' = Append(sessions, NewSession(u, Null, clock, 0))
  /\ UNCHANGED <<clock, required, identity, links, audited, contexts, challenges, call>>

RecoverBegin(r, c, u) ==
  /\ Live(c, clock) /\ users[u] = "code" /\ ~Converted(u)
  /\ Enter(r, [pc |-> "recover", at |-> clock, ctx |-> c, row |-> contexts[c], user |-> u])

RecoverGuardStale(q) == contexts[q.ctx] = q.row /\ Live(q.ctx, q.at)
\* The code is still this user's, and the context is as it was read.
RecoverGuard(q) ==
  /\ users[q.user] = "code" /\ ~Converted(q.user)
  /\ contexts[q.ctx] = q.row /\ Live(q.ctx, q.at)
RecoverCommit(r) ==
  LET q == call[r] IN
  /\ q.pc = "recover" /\ RecoverGuard(q) /\ Len(sessions) < MaxSessions
  /\ challenges' = Revoke(LAMBDA x : x.ctx = q.ctx)
  /\ sessions' = Append(Delete(LAMBDA s : s.ctx = q.ctx), NewSession(q.user, q.ctx, q.at, 0))
  /\ contexts' = [contexts EXCEPT ![q.ctx].latest = 0, ![q.ctx].active = Len(sessions')]
  /\ Done(r) /\ UNCHANGED <<clock, required, users, identity, links, audited>>

\* logout, and cancel (no session): both cookies' contexts go.
LogoutBegin(r, s, c) ==
  Enter(r, [pc |-> "logout", at |-> clock, session |-> s,
            both |-> ({c} \cup IF s = 0 \/ ~sessions[s].live THEN {} ELSE {sessions[s].ctx}) \ {Null}])
LoggedOut(s, q) == s = q.session \/ sessions[s].ctx \in q.both
LogoutCommit(r) ==
  LET q == call[r] IN
  /\ q.pc = "logout"
  /\ contexts' = [c \in Contexts |-> IF c \in q.both /\ contexts[c] # Null
       THEN [contexts[c] EXCEPT !.revoked = TRUE, !.epoch = 2, !.active = 0] ELSE contexts[c]]
  /\ challenges' = Revoke(LAMBDA x : x.ctx \in q.both)
  /\ sessions' = [s \in DOMAIN sessions |-> IF LoggedOut(s, q)
                    THEN [sessions[s] EXCEPT !.live = FALSE] ELSE sessions[s]]
  /\ Done(r) /\ UNCHANGED <<clock, required, users, identity, links, audited>>

------------------------------------------------------------------------------
\* Wallet sign-in.

ChallengeBegin(r, c, s, a, mode) ==
  /\ Live(c, clock) /\ Len(challenges) < MaxChallenges
  /\ Enter(r, [pc |-> "challenge", at |-> clock, ctx |-> c, row |-> contexts[c], session |-> s,
               address |-> a, mode |-> mode])

\* The profile the message commits to: the signed-in guest that migrates, the
\* wallet's owner, or a new id nobody has.
Target(q, u) ==
  IF q.mode = "migrate"
  THEN /\ Authenticates(q.session, q.ctx, q.at) /\ u = sessions[q.session].user
       /\ OwnersOf(q.address) \subseteq {u}
       /\ links[u] # Null => links[u].address = q.address
       /\ ActiveOf(u) \subseteq {q.address}
  ELSE /\ IF OwnersOf(q.address) = {} THEN users[u] = "absent" ELSE u \in OwnersOf(q.address)
       /\ Authenticates(q.session, q.ctx, q.at) => sessions[q.session].user = u
ChallengeRead(r, u) ==
  /\ call[r].pc = "challenge" /\ ~Retired(call[r].address) /\ Target(call[r], u)
  /\ LET q == call[r] IN
     Proceed(r, [pc |-> "issue", at |-> q.at, ctx |-> q.ctx, row |-> q.row, session |-> q.session,
              address |-> q.address, mode |-> q.mode, target |-> u])

ChallengeCommit(r) ==
  LET q == call[r] IN
  /\ q.pc = "issue" /\ Len(challenges) < MaxChallenges
  /\ contexts[q.ctx] = q.row /\ Live(q.ctx, q.at)
  /\ challenges' = Append(Revoke(LAMBDA x : x.ctx = q.ctx),
       [ctx |-> q.ctx, epoch |-> q.row.epoch, address |-> q.address, user |-> q.target, mode |-> q.mode,
        source |-> IF q.mode = "migrate" THEN q.session ELSE 0,
        expires |-> q.at + ChallengeLife, used |-> FALSE, revoked |-> FALSE])
  /\ contexts' = [contexts EXCEPT ![q.ctx].latest = Len(challenges')]
  /\ Done(r) /\ UNCHANGED <<clock, required, users, identity, links, audited, sessions>>

VerifyBegin(r, c, i, s) ==
  /\ Usable(i, c, clock)
  /\ challenges[i].mode = "migrate" => s = challenges[i].source
  /\ Enter(r, [pc |-> "signed", at |-> clock, id |-> i])

\* After the signature: the challenge, the owner and the profile are read again.
VerifyAgain(r) ==
  LET q == call[r]
      n == challenges[q.id]
      exists == users[n.user] # "absent"
  IN
  /\ q.pc = "signed" /\ Usable(q.id, n.ctx, q.at)
  /\ ~Retired(n.address) /\ OwnersOf(n.address) \subseteq {n.user}
  /\ n.mode = "login" /\ exists => OwnersOf(n.address) = {n.user}
  /\ Proceed(r, [pc |-> IF n.mode = "login" /\ ~exists THEN "create" ELSE "convert",
              at |-> q.at, id |-> q.id, exists |-> exists])
\* The sign-up limiter answered, and the challenge is read a third time.
VerifyCreated(r) ==
  /\ call[r].pc = "create" /\ Usable(call[r].id, challenges[call[r].id].ctx, call[r].at)
  /\ Proceed(r, [pc |-> "convert", at |-> call[r].at, id |-> call[r].id, exists |-> call[r].exists])

\* The batch's first guard: the proof, and whose wallet this is.
ProofGuard(q) ==
  LET n == challenges[q.id] IN
  /\ Usable(q.id, n.ctx, q.at)
  /\ identity[n.address] # Null => identity[n.address].user = n.user /\ identity[n.address].active
  /\ ActiveOf(n.user) \subseteq {n.address} /\ LinkedTo(n.address) \subseteq {n.user}
  /\ links[n.user] # Null => links[n.user].address = n.address
  /\ identity[n.address] # Null \/ links[n.user] # Null \/ n.address \notin audited
\* Its second: the session that migrates, an id still free, or the owner.
ModeGuard(q) ==
  LET n == challenges[q.id] IN
  IF n.mode = "migrate"
  THEN /\ sessions[n.source].live /\ sessions[n.source].user = n.user /\ sessions[n.source].expires > q.at
       /\ sessions[n.source].ctx # Null =>
            /\ sessions[n.source].ctx = n.ctx /\ sessions[n.source].epoch = contexts[n.ctx].epoch
            /\ contexts[n.ctx].active = n.source
  ELSE IF ~q.exists
  THEN users[n.user] = "absent" /\ identity[n.address] = Null /\ n.address \notin audited
  ELSE n.user \in LinkedTo(n.address) \/ n.address \in ActiveOf(n.user)

\* The rows a conversion takes away: the profile's sessions, once, and the context's.
Superseded(s, n) ==
  \/ s.user = n.user /\ (identity[n.address] # Null => ~identity[n.address].converted)
  \/ s.ctx = n.ctx
VerifyCommit(r) ==
  LET q == call[r]
      n == challenges[q.id]
  IN
  /\ q.pc = "convert" /\ ProofGuard(q) /\ ModeGuard(q) /\ Len(sessions) < MaxSessions
  /\ challenges' = [challenges EXCEPT ![q.id].used = TRUE]
  /\ identity' = [identity EXCEPT ![n.address] = [user |-> n.user, active |-> TRUE, converted |-> TRUE]]
  /\ links' = [links EXCEPT ![n.user] = [address |-> n.address, generation |-> q.id]]
  /\ users' = [users EXCEPT ![n.user] = "disabled"]
  /\ sessions' = Append(Delete(LAMBDA s : Superseded(s, n)), NewSession(n.user, n.ctx, q.at, q.id))
  /\ contexts' = [contexts EXCEPT ![n.ctx].active = Len(sessions')]
  /\ Done(r) /\ UNCHANGED <<clock, required, audited>>

------------------------------------------------------------------------------
\* Linking a wallet to a signed-in profile, where wallet sign-in is not required.

LinkChallenge(u, a) ==
  /\ ~required /\ users[u] # "absent" /\ ActiveOf(u) \subseteq {a} /\ Len(challenges) < MaxChallenges
  /\ challenges' = Append(challenges,
       [ctx |-> Null, epoch |-> 0, address |-> a, user |-> u, mode |-> "link", source |-> 0,
        expires |-> clock + ChallengeLife, used |-> FALSE, revoked |-> FALSE])
  /\ UNCHANGED <<clock, required, users, identity, links, audited, contexts, sessions, call>>

\* check_challenge
Linkable(i, t) == challenges[i].mode = "link" /\ ~challenges[i].used /\ ~challenges[i].revoked
                  /\ challenges[i].expires > t
LinkBegin(r, i) == Linkable(i, clock) /\ Enter(r, [pc |-> "link", at |-> clock, id |-> i])
LinkAgain(r) ==
  LET n == challenges[call[r].id] IN
  /\ call[r].pc = "link" /\ ActiveOf(n.user) \subseteq {n.address}
  /\ LinkedTo(n.address) \subseteq {n.user}
  /\ Proceed(r, [pc |-> "attach", at |-> call[r].at, id |-> call[r].id])

\* The triggers on wallet_links: a sign-in wallet is neither replaced nor taken.
LinkKept(u, a) == links[u] # Null /\ links[u].address # a => links[u].address \notin ActiveOf(u)
LinkFree(u, a) == identity[a] # Null => identity[a].user = u /\ identity[a].active
LinkCommit(r) ==
  LET q == call[r]
      n == challenges[q.id]
  IN
  /\ q.pc = "attach" /\ Linkable(q.id, q.at) /\ LinkedTo(n.address) \subseteq {n.user}
  /\ LinkKept(n.user, n.address) /\ LinkFree(n.user, n.address)
  /\ challenges' = [challenges EXCEPT ![q.id].used = TRUE]
  /\ links' = [links EXCEPT ![n.user] = [address |-> n.address, generation |-> q.id]]
  /\ audited' = audited \cup {n.address}
  /\ Done(r) /\ UNCHANGED <<clock, required, users, identity, contexts, sessions>>

UnlinkBegin(r, u) ==
  /\ ~required /\ users[u] # "absent" /\ ActiveOf(u) = {}
  /\ Enter(r, [pc |-> "unlink", at |-> clock, user |-> u])
UnlinkRead(r) ==
  /\ call[r].pc = "unlink"
  /\ Proceed(r, [pc |-> "detach", at |-> call[r].at, user |-> call[r].user, row |-> links[call[r].user]])
\* The row is as it was read; the trigger keeps a wallet that became a sign-in one.
DetachGuard(q) == links[q.user] = q.row /\ (q.row # Null => q.row.address \notin ActiveOf(q.user))
UnlinkCommit(r) ==
  LET q == call[r] IN
  /\ q.pc = "detach" /\ DetachGuard(q)
  /\ links' = [links EXCEPT ![q.user] = Null]
  /\ challenges' = Revoke(LAMBDA x : x.mode = "link" /\ x.user = q.user)
  /\ audited' = IF q.row = Null THEN audited ELSE audited \cup {q.row.address}
  /\ Done(r) /\ UNCHANGED <<clock, required, users, identity, contexts, sessions>>

------------------------------------------------------------------------------
Cookies == {0} \cup {s \in DOMAIN sessions : sessions[s].live}

SignInNext ==
  \/ ClockTick
  \/ \E c \in Contexts : NewContext(c)
  \/ \E u \in ProfileIds : Register(u) \/ \E a \in Pubkeys : LinkChallenge(u, a)
  \/ \E r \in Calls :
       \/ Refused(r) \/ RecoverCommit(r) \/ LogoutCommit(r) \/ ChallengeCommit(r)
       \/ VerifyAgain(r) \/ VerifyCreated(r) \/ VerifyCommit(r)
       \/ LinkAgain(r) \/ LinkCommit(r) \/ UnlinkRead(r) \/ UnlinkCommit(r)
       \/ \E u \in ProfileIds : \/ ChallengeRead(r, u) \/ UnlinkBegin(r, u)
                                \/ \E c \in Contexts : RecoverBegin(r, c, u)
       \/ \E c \in Contexts, s \in Cookies :
            \/ LogoutBegin(r, s, c)
            \/ \E a \in Pubkeys, mode \in {"login", "migrate"} : ChallengeBegin(r, c, s, a, mode)
            \/ \E i \in DOMAIN challenges : VerifyBegin(r, c, i, s)
       \/ \E i \in DOMAIN challenges : LinkBegin(r, i)

SignInSpec == SignInInit /\ [][SignInNext]_signinvars

------------------------------------------------------------------------------
(***************************************************************************)
(* Properties.                                                             *)
(***************************************************************************)

\* Rows of the tables.
ContextRows == [epoch : Nat, latest : Nat, active : Nat, expires : Nat, revoked : BOOLEAN]
IdentityRows == [user : ProfileIds, active : BOOLEAN, converted : BOOLEAN]
LinkRows == [address : Pubkeys, generation : Nat]

SignInAssumption ==
  /\ {ChallengeLife, SessionLife, MaxClock, MaxChallenges, MaxSessions} \subseteq Nat
  /\ Switches \subseteq BOOLEAN /\ MaxSessions > 0
  /\ Null \notin Contexts \cup ContextRows \cup IdentityRows \cup LinkRows

\* The tables hold what their declarations allow.
SignInTypeOK ==
  /\ clock \in 0 .. MaxClock /\ required \in BOOLEAN
  /\ users \in [ProfileIds -> {"absent", "code", "disabled"}]
  /\ \A a \in Pubkeys : identity[a] # Null => identity[a].user \in ProfileIds
  /\ \A u, v \in ProfileIds : links[u] # Null /\ links[v] # Null /\ links[u].address = links[v].address => u = v
  /\ \A u \in ProfileIds : Cardinality(ActiveOf(u)) <= 1
  /\ Len(challenges) <= MaxChallenges /\ Len(sessions) <= MaxSessions

\* Once a wallet converted a profile, the wallet is the only way in: no session
\* that a recovery code or a registration opened authenticates, and no code is
\* left, whatever was in flight when the conversion committed.
ConvertedOnlyByWallet ==
  \A u \in ProfileIds : Converted(u) =>
    /\ users[u] = "disabled"
    /\ \A s \in DOMAIN sessions : \A c \in Contexts \cup {Null} :
         sessions[s].user = u /\ Authenticates(s, c, clock) => sessions[s].proof # 0

\* A signed challenge opens one session at most, of the profile it committed
\* to, and every profile a wallet's proofs opened is the same one: a sign-up
\* that lost a race strands nobody.
OneProfilePerWallet ==
  /\ \A s, t \in DOMAIN sessions :
       /\ sessions[s].proof # 0 /\ sessions[s].proof = sessions[t].proof => s = t
       /\ /\ sessions[s].proof # 0 /\ sessions[t].proof # 0
          /\ challenges[sessions[s].proof].address = challenges[sessions[t].proof].address
          => sessions[s].user = sessions[t].user
  /\ \A a \in Pubkeys : identity[a] # Null /\ identity[a].active =>
       links[identity[a].user] # Null /\ links[identity[a].user].address = a

\* A cancelled context stays out: no session row is bound to it, not even one
\* that a verification under way at the cancellation would have written.
CancelledStaysOut ==
  \A s \in DOMAIN sessions :
    sessions[s].live /\ sessions[s].ctx # Null =>
      /\ ~contexts[sessions[s].ctx].revoked
      /\ contexts[sessions[s].ctx].active = s

\* All three together.
SignInHolds == ConvertedOnlyByWallet /\ OneProfilePerWallet /\ CancelledStaysOut
==============================================================================
