----------------------------- MODULE SignInProofs -----------------------------
(***************************************************************************)
(* Sign-in, for any number of profiles, wallets, browser contexts and      *)
(* requests in flight and however they interleave: the tables keep their   *)
(* types, a converted profile is entered by its wallet only, a wallet is   *)
(* one profile, and a cancelled context stays out.                         *)
(*                                                                         *)
(* The argument reads each batch's guards against the store they run on,   *)
(* never against what the request read before: a proof that opened a       *)
(* session is used and its wallet belongs to that session's profile        *)
(* (Proven), a converted profile has no other live row (Closed), and a row *)
(* bound to a context is that context's active one (Held).                 *)
(* The badge comes last: a refresh that finds the revision it read writes  *)
(* over the row it read, with evidence looked up since.                    *)
(***************************************************************************)
EXTENDS SignIn, Seeker, FiniteSetTheorems, SequenceTheorems, TLAPS

ChallengeRows ==
  [ctx : Contexts \cup {Null}, epoch : Nat, address : Pubkeys, user : ProfileIds,
   mode : {"login", "migrate", "link"}, source : Nat, expires : Nat, used : BOOLEAN, revoked : BOOLEAN]
SessionRows ==
  [user : ProfileIds, ctx : Contexts \cup {Null}, epoch : Nat, expires : Nat, live : BOOLEAN, proof : Nat]

\* What a request in flight has in hand: names of rows that are there, and a
\* challenge to verify is one of a context.
InHand(p) ==
  /\ p.pc # "idle" => p.at \in Nat
  /\ p.pc \in {"recover", "challenge", "issue"} => p.ctx \in Contexts
  /\ p.pc \in {"recover", "unlink", "detach"} => p.user \in ProfileIds
  /\ p.pc \in {"challenge", "issue"} =>
       p.session \in Nat /\ p.address \in Pubkeys /\ p.mode \in {"login", "migrate"}
  /\ p.pc = "issue" => p.target \in ProfileIds
  /\ p.pc \in {"signed", "create", "convert"} =>
       p.id \in DOMAIN challenges /\ challenges[p.id].ctx \in Contexts
  /\ p.pc \in {"link", "attach"} => p.id \in DOMAIN challenges

Tables ==
  /\ clock \in 0 .. MaxClock /\ required \in BOOLEAN
  /\ users \in [ProfileIds -> {"absent", "code", "disabled"}]
  /\ identity \in [Pubkeys -> IdentityRows \cup {Null}]
  /\ links \in [ProfileIds -> LinkRows \cup {Null}]
  /\ audited \subseteq Pubkeys
  /\ contexts \in [Contexts -> ContextRows \cup {Null}]
  /\ challenges \in Seq(ChallengeRows) /\ Len(challenges) <= MaxChallenges
  /\ sessions \in Seq(SessionRows) /\ Len(sessions) <= MaxSessions
InFlight == call = [r \in Calls |-> call[r]] /\ \A r \in Calls : InHand(call[r])

\* A wallet is linked by one profile at most, and an active one by its own.
Linked ==
  /\ \A u, v \in ProfileIds : links[u] # Null /\ links[v] # Null /\ links[u].address = links[v].address => u = v
  /\ \A a \in Pubkeys : identity[a] # Null /\ identity[a].active =>
       links[identity[a].user] # Null /\ links[identity[a].user].address = a

\* The proof that opened a session is used, once, and its wallet is the profile's.
Proven ==
  \A s \in DOMAIN sessions : sessions[s].proof # 0 =>
    /\ sessions[s].proof \in DOMAIN challenges /\ challenges[sessions[s].proof].used
    /\ identity[challenges[sessions[s].proof].address] # Null
    /\ identity[challenges[sessions[s].proof].address].user = sessions[s].user
    /\ \A t \in DOMAIN sessions : sessions[t].proof = sessions[s].proof => s = t

\* A converted profile has no code, and no row that a proof did not open.
Closed ==
  \A u \in ProfileIds : Converted(u) =>
    /\ users[u] = "disabled"
    /\ \A s \in DOMAIN sessions : sessions[s].user = u /\ sessions[s].live => sessions[s].proof # 0

\* A row bound to a context is the one that context calls active.
Held ==
  \A s \in DOMAIN sessions : sessions[s].live /\ sessions[s].ctx # Null =>
    /\ contexts[sessions[s].ctx] # Null /\ ~contexts[sessions[s].ctx].revoked
    /\ contexts[sessions[s].ctx].active = s

SignInInv == Tables /\ InFlight /\ Linked /\ Proven /\ Closed /\ Held

------------------------------------------------------------------------------
\* Lists of rows.

\* A challenge is never taken back: whose it is stays, and a used one stays used.
ChallengesKept(new) ==
  /\ Len(challenges) <= Len(new)
  /\ \A i \in DOMAIN challenges :
       /\ i \in DOMAIN new /\ new[i].ctx = challenges[i].ctx
       /\ new[i].address = challenges[i].address
       /\ challenges[i].used => new[i].used

\* Rows are ended where `which` holds of them, and nothing else changes.
SessionsEnded(new, which) ==
  /\ new \in Seq(SessionRows) /\ Len(new) = Len(sessions)
  /\ \A s \in DOMAIN sessions :
       /\ s \in DOMAIN new /\ new[s].user = sessions[s].user /\ new[s].ctx = sessions[s].ctx
       /\ new[s].proof = sessions[s].proof
       /\ new[s].live => sessions[s].live /\ s \notin which

\* The same, and then x is opened.
SessionOpened(new, which, x) ==
  /\ new \in Seq(SessionRows) /\ Len(new) = Len(sessions) + 1 /\ new[Len(sessions) + 1] = x
  /\ \A s \in DOMAIN sessions :
       /\ s \in DOMAIN new /\ new[s].user = sessions[s].user /\ new[s].ctx = sessions[s].ctx
       /\ new[s].proof = sessions[s].proof
       /\ new[s].live => sessions[s].live /\ s \notin which

LEMMA SessionRow ==
  ASSUME sessions \in Seq(SessionRows), NEW s \in DOMAIN sessions
  PROVE  /\ sessions[s] \in SessionRows /\ sessions[s].user \in ProfileIds /\ sessions[s].proof \in Nat
         /\ sessions[s].ctx # Null => sessions[s].ctx \in Contexts
<1>1. sessions[s] \in SessionRows
  OBVIOUS
<1> QED
  BY <1>1 DEF SessionRows

LEMMA ChallengeRow ==
  ASSUME challenges \in Seq(ChallengeRows), NEW i \in DOMAIN challenges
  PROVE  challenges[i] \in ChallengeRows /\ challenges[i].user \in ProfileIds /\ challenges[i].address \in Pubkeys
<1>1. challenges[i] \in ChallengeRows
  OBVIOUS
<1> QED
  BY <1>1 DEF ChallengeRows

\* Revoking keeps the challenges' types and what has to be kept of them.
LEMMA Revoked ==
  ASSUME NEW new, NEW which, challenges \in Seq(ChallengeRows),
         new = [i \in DOMAIN challenges |-> IF i \in which /\ ~challenges[i].used
                  THEN [challenges[i] EXCEPT !.revoked = TRUE] ELSE challenges[i]]
  PROVE  new \in Seq(ChallengeRows) /\ Len(new) = Len(challenges) /\ ChallengesKept(new)
<1>1. Len(challenges) \in Nat /\ DOMAIN challenges = 1..Len(challenges)
  OBVIOUS
<1>2. \A i \in DOMAIN challenges : challenges[i] \in ChallengeRows
  BY <1>1
<1>3. \A i \in DOMAIN challenges :
        new[i] \in ChallengeRows /\ new[i].ctx = challenges[i].ctx /\ new[i].address = challenges[i].address
        /\ (challenges[i].used => new[i].used)
  BY <1>2 DEF ChallengeRows
<1>4. new \in [1..Len(challenges) -> ChallengeRows]
  BY <1>1, <1>3
<1>5. new \in Seq(ChallengeRows) /\ Len(new) = Len(challenges)
  BY <1>1, <1>4, SeqDef
<1> QED
  BY <1>1, <1>3, <1>5 DEF ChallengesKept

\* Issuing one keeps them too.
LEMMA Issued ==
  ASSUME NEW old, NEW x, x \in ChallengeRows, old \in Seq(ChallengeRows), Len(old) = Len(challenges),
         challenges \in Seq(ChallengeRows), ChallengesKept(old)
  PROVE  /\ Append(old, x) \in Seq(ChallengeRows) /\ Len(Append(old, x)) = Len(challenges) + 1
         /\ ChallengesKept(Append(old, x))
<1>1. Len(challenges) \in Nat /\ DOMAIN challenges = 1..Len(challenges) /\ DOMAIN old = 1..Len(challenges)
  OBVIOUS
<1>2. \A i \in DOMAIN challenges : Append(old, x)[i] = old[i] /\ i \in DOMAIN Append(old, x)
  BY <1>1
<1>3. Append(old, x) \in Seq(ChallengeRows) /\ Len(Append(old, x)) = Len(challenges) + 1
  BY <1>1
<1> QED
  BY <1>1, <1>2, <1>3 DEF ChallengesKept

\* Using one up.
LEMMA UsedUp ==
  ASSUME NEW new, NEW i \in DOMAIN challenges, challenges \in Seq(ChallengeRows),
         new = [challenges EXCEPT ![i].used = TRUE]
  PROVE  /\ new \in Seq(ChallengeRows) /\ Len(new) = Len(challenges) /\ ChallengesKept(new)
         /\ new[i].used
<1>1. Len(challenges) \in Nat /\ DOMAIN challenges = 1..Len(challenges)
  OBVIOUS
<1>2. \A j \in DOMAIN challenges : challenges[j] \in ChallengeRows
  BY <1>1
<1>3. \A j \in DOMAIN challenges :
        new[j] \in ChallengeRows /\ new[j].ctx = challenges[j].ctx /\ new[j].address = challenges[j].address
        /\ (challenges[j].used => new[j].used)
  BY <1>2 DEF ChallengeRows
<1>4. new \in [1..Len(challenges) -> ChallengeRows]
  BY <1>1, <1>3
<1>5. new \in Seq(ChallengeRows) /\ Len(new) = Len(challenges)
  BY <1>1, <1>4, SeqDef
<1>6. new[i].used
  BY <1>2 DEF ChallengeRows
<1> QED
  BY <1>1, <1>3, <1>5, <1>6 DEF ChallengesKept

LEMMA Ended ==
  ASSUME NEW new, NEW which, sessions \in Seq(SessionRows),
         new = [s \in DOMAIN sessions |-> IF s \in which
                  THEN [sessions[s] EXCEPT !.live = FALSE] ELSE sessions[s]]
  PROVE  SessionsEnded(new, which)
<1>1. Len(sessions) \in Nat /\ DOMAIN sessions = 1..Len(sessions)
  OBVIOUS
<1>2. \A s \in DOMAIN sessions : sessions[s] \in SessionRows
  BY <1>1
<1>3. \A s \in DOMAIN sessions :
        /\ new[s] \in SessionRows /\ new[s].user = sessions[s].user /\ new[s].ctx = sessions[s].ctx
        /\ new[s].proof = sessions[s].proof
        /\ new[s].live => sessions[s].live /\ s \notin which
  BY <1>2 DEF SessionRows
<1>4. new \in [1..Len(sessions) -> SessionRows]
  BY <1>1, <1>3
<1>5. new \in Seq(SessionRows) /\ Len(new) = Len(sessions)
  BY <1>1, <1>4, SeqDef
<1> QED
  BY <1>1, <1>3, <1>5 DEF SessionsEnded

LEMMA Opened ==
  ASSUME NEW old, NEW which, NEW x \in SessionRows, sessions \in Seq(SessionRows),
         SessionsEnded(old, which)
  PROVE  SessionOpened(Append(old, x), which, x) /\ Len(Append(old, x)) = Len(sessions) + 1
<1>1. Len(sessions) \in Nat /\ DOMAIN sessions = 1..Len(sessions) /\ old \in Seq(SessionRows)
      /\ DOMAIN old = 1..Len(sessions) /\ Len(old) = Len(sessions)
  BY DEF SessionsEnded
<1>2. \A s \in DOMAIN sessions : Append(old, x)[s] = old[s] /\ s \in DOMAIN Append(old, x)
  BY <1>1
<1>3. /\ Append(old, x) \in Seq(SessionRows) /\ Len(Append(old, x)) = Len(sessions) + 1
      /\ Append(old, x)[Len(sessions) + 1] = x
  BY <1>1
<1> QED
  BY <1>1, <1>2, <1>3 DEF SessionOpened, SessionsEnded

------------------------------------------------------------------------------
\* Requests.

LEMMA IdleHand == InHand(NoCall) /\ InHand(NoCall)'
BY DEF InHand, NoCall

LEMMA InHandKept ==
  ASSUME NEW p, InHand(p), ChallengesKept(challenges')
  PROVE  InHand(p)'
BY DEF InHand, ChallengesKept

\* One request goes on and the challenges are kept.
LEMMA OneGoesOn ==
  ASSUME InFlight, ChallengesKept(challenges'), NEW r \in Calls, NEW p, InHand(p),
         call' = [call EXCEPT ![r] = p]
  PROVE  InFlight'
<1>1. call' = [x \in Calls |-> call'[x]]
  BY DEF InFlight
<1>2. \A x \in Calls : call'[x] = p \/ call'[x] = call[x]
  BY DEF InFlight
<1>3. ASSUME NEW x \in Calls PROVE InHand(call[x])'
  <2>1. PICK q : q = call'[x]
    OBVIOUS
  <2>2. InHand(q)
    BY <1>2, <2>1 DEF InFlight
  <2>3. InHand(q)'
    BY <2>2, InHandKept
  <2> QED
    BY <2>1, <2>3 DEF InHand
<1> QED
  BY <1>1, <1>3 DEF InFlight

LEMMA OneEnds ==
  ASSUME InFlight, ChallengesKept(challenges'), NEW r \in Calls, Done(r)
  PROVE  InFlight'
BY IdleHand, OneGoesOn DEF Done

LEMMA NoneGoesOn ==
  ASSUME InFlight, ChallengesKept(challenges'), UNCHANGED call
  PROVE  InFlight'
<1>1. ASSUME NEW x \in Calls PROVE InHand(call[x])'
  <2>1. PICK q : q = call'[x]
    OBVIOUS
  <2>2. InHand(q)
    BY <2>1 DEF InFlight
  <2>3. InHand(q)'
    BY <2>2, InHandKept
  <2> QED
    BY <2>1, <2>3 DEF InHand
<1> QED
  BY <1>1 DEF InFlight

LEMMA SameChallenges ==
  ASSUME challenges \in Seq(ChallengeRows), UNCHANGED challenges
  PROVE  ChallengesKept(challenges')
BY DEF ChallengesKept

\* What a request reads leaves the books alone.
LEMMA OnlyRequests ==
  ASSUME SignInInv, NEW r \in Calls, NEW p, InHand(p), call' = [call EXCEPT ![r] = p], UNCHANGED book
  PROVE  SignInInv'
<1>1. InFlight'
  BY OneGoesOn, SameChallenges DEF SignInInv, Tables, book
<1>2. Tables'
  BY DEF SignInInv, Tables, book
<1>3. Linked' /\ Proven' /\ Closed' /\ Held'
  BY DEF SignInInv, Linked, Proven, Closed, Converted, Held, book
<1> QED
  BY <1>1, <1>2, <1>3 DEF SignInInv

\* The requests that read.
LEMMA ReadSteps ==
  ASSUME SignInAssumption, SignInInv, NEW r \in Calls
  PROVE  /\ Refused(r) => SignInInv'
         /\ \A c \in Contexts, u \in ProfileIds : RecoverBegin(r, c, u) => SignInInv'
         /\ \A c \in Contexts, s \in Cookies : LogoutBegin(r, s, c) => SignInInv'
         /\ \A c \in Contexts, s \in Cookies, a \in Pubkeys, mode \in {"login", "migrate"} :
              ChallengeBegin(r, c, s, a, mode) => SignInInv'
         /\ \A u \in ProfileIds : ChallengeRead(r, u) => SignInInv'
         /\ \A c \in Contexts, s \in Cookies, i \in DOMAIN challenges : VerifyBegin(r, c, i, s) => SignInInv'
         /\ VerifyAgain(r) => SignInInv'
         /\ VerifyCreated(r) => SignInInv'
         /\ \A i \in DOMAIN challenges : LinkBegin(r, i) => SignInInv'
         /\ LinkAgain(r) => SignInInv'
         /\ \A u \in ProfileIds : UnlinkBegin(r, u) => SignInInv'
         /\ UnlinkRead(r) => SignInInv'
<1>1. clock \in Nat
  BY DEF SignInInv, Tables, SignInAssumption
<1>2. InHand(call[r])
  BY DEF SignInInv, InFlight
<1>3. Cookies \subseteq Nat
  BY DEF SignInInv, Tables, Cookies
<1>4. ASSUME Refused(r) PROVE SignInInv'
  BY <1>4, IdleHand, OnlyRequests DEF Refused, Done
<1>5. ASSUME NEW c \in Contexts, NEW u \in ProfileIds, RecoverBegin(r, c, u) PROVE SignInInv'
  <2>1. InHand([pc |-> "recover", at |-> clock, ctx |-> c, row |-> contexts[c], user |-> u])
    BY <1>1 DEF InHand
  <2> QED
    BY <1>5, <2>1, OnlyRequests DEF RecoverBegin, Enter
<1>6. ASSUME NEW c \in Contexts, NEW s \in Cookies, LogoutBegin(r, s, c) PROVE SignInInv'
  <2> DEFINE both == ({c} \cup IF s = 0 \/ ~sessions[s].live THEN {} ELSE {sessions[s].ctx}) \ {Null}
  <2> HIDE DEF both
  <2>1. InHand([pc |-> "logout", at |-> clock, session |-> s, both |-> both])
    BY <1>1 DEF InHand
  <2>2. Enter(r, [pc |-> "logout", at |-> clock, session |-> s, both |-> both])
    BY <1>6 DEF LogoutBegin, both
  <2> QED
    BY <2>1, <2>2, OnlyRequests DEF Enter
<1>7. ASSUME NEW c \in Contexts, NEW s \in Cookies, NEW a \in Pubkeys, NEW mode \in {"login", "migrate"},
             ChallengeBegin(r, c, s, a, mode)
      PROVE  SignInInv'
  <2>1. InHand([pc |-> "challenge", at |-> clock, ctx |-> c, row |-> contexts[c], session |-> s,
                address |-> a, mode |-> mode])
    BY <1>1, <1>3 DEF InHand
  <2> QED
    BY <1>7, <2>1, OnlyRequests DEF ChallengeBegin, Enter
<1>8. ASSUME NEW u \in ProfileIds, ChallengeRead(r, u) PROVE SignInInv'
  <2> DEFINE q == call[r]
             p == [pc |-> "issue", at |-> q.at, ctx |-> q.ctx, row |-> q.row, session |-> q.session,
                   address |-> q.address, mode |-> q.mode, target |-> u]
  <2>1. InHand(p)
    BY <1>2, <1>8 DEF InHand, ChallengeRead
  <2>2. Proceed(r, p)
    BY <1>8 DEF ChallengeRead
  <2> QED
    BY <2>1, <2>2, OnlyRequests DEF Proceed
<1>9. ASSUME NEW c \in Contexts, NEW s \in Cookies, NEW i \in DOMAIN challenges, VerifyBegin(r, c, i, s)
      PROVE  SignInInv'
  <2>1. InHand([pc |-> "signed", at |-> clock, id |-> i])
    BY <1>1, <1>9 DEF InHand, VerifyBegin, Usable
  <2> QED
    BY <1>9, <2>1, OnlyRequests DEF VerifyBegin, Enter
<1>10. ASSUME VerifyAgain(r) PROVE SignInInv'
  <2> DEFINE exists == users[challenges[call[r].id].user] # "absent"
             next == IF challenges[call[r].id].mode = "login" /\ ~exists THEN "create" ELSE "convert"
             p == [pc |-> next, at |-> call[r].at, id |-> call[r].id, exists |-> exists]
  <2>1. call[r].pc = "signed" /\ Proceed(r, p)
    BY <1>10 DEF VerifyAgain
  <2>2. next \in {"create", "convert"}
    OBVIOUS
  <2> HIDE DEF next, exists
  <2>3. InHand(p)
    BY <1>2, <2>1, <2>2 DEF InHand
  <2> QED
    BY <2>1, <2>3, OnlyRequests DEF Proceed
<1>11. ASSUME VerifyCreated(r) PROVE SignInInv'
  <2>1. InHand([pc |-> "convert", at |-> call[r].at, id |-> call[r].id, exists |-> call[r].exists])
    BY <1>2, <1>11 DEF InHand, VerifyCreated
  <2> QED
    BY <1>11, <2>1, OnlyRequests DEF VerifyCreated, Proceed
<1>12. ASSUME NEW i \in DOMAIN challenges, LinkBegin(r, i) PROVE SignInInv'
  <2>1. InHand([pc |-> "link", at |-> clock, id |-> i])
    BY <1>1 DEF InHand
  <2> QED
    BY <1>12, <2>1, OnlyRequests DEF LinkBegin, Enter
<1>13. ASSUME LinkAgain(r) PROVE SignInInv'
  <2>1. InHand([pc |-> "attach", at |-> call[r].at, id |-> call[r].id])
    BY <1>2, <1>13 DEF InHand, LinkAgain
  <2> QED
    BY <1>13, <2>1, OnlyRequests DEF LinkAgain, Proceed
<1>14. ASSUME NEW u \in ProfileIds, UnlinkBegin(r, u) PROVE SignInInv'
  <2>1. InHand([pc |-> "unlink", at |-> clock, user |-> u])
    BY <1>1 DEF InHand
  <2> QED
    BY <1>14, <2>1, OnlyRequests DEF UnlinkBegin, Enter
<1>15. ASSUME UnlinkRead(r) PROVE SignInInv'
  <2>1. InHand([pc |-> "detach", at |-> call[r].at, user |-> call[r].user, row |-> links[call[r].user]])
    BY <1>2, <1>15 DEF InHand, UnlinkRead
  <2> QED
    BY <1>15, <2>1, OnlyRequests DEF UnlinkRead, Proceed
<1> QED
  BY <1>4, <1>5, <1>6, <1>7, <1>8, <1>9, <1>10, <1>11, <1>12, <1>13, <1>14, <1>15

------------------------------------------------------------------------------
\* What a step does to the other parts of the invariant.

\* The clock, a challenge, or a link's challenge: nobody's rows are touched.
LEMMA RowsKept ==
  ASSUME SignInInv, UNCHANGED <<users, identity, links, sessions>>, ChallengesKept(challenges')
  PROVE  Linked' /\ Proven' /\ Closed'
<1>1. Linked' /\ Closed'
  BY DEF SignInInv, Linked, Closed, Converted
<1>2. Proven'
  BY DEF SignInInv, Proven, ChallengesKept
<1> QED
  BY <1>1, <1>2

LEMMA HeldKept ==
  ASSUME Held, UNCHANGED sessions,
         \A c \in Contexts : contexts[c] # Null =>
           contexts'[c] # Null /\ contexts'[c].revoked = contexts[c].revoked
           /\ contexts'[c].active = contexts[c].active,
         sessions \in Seq(SessionRows)
  PROVE  Held'
<1>1. \A s \in DOMAIN sessions : sessions[s].ctx # Null => sessions[s].ctx \in Contexts
  BY SessionRow
<1> QED
  BY <1>1 DEF Held

\* Rows that end take nothing from what is proven, closed or held.
LEMMA ProvenEnded ==
  ASSUME Proven, UNCHANGED identity, ChallengesKept(challenges'), NEW which,
         SessionsEnded(sessions', which), sessions \in Seq(SessionRows)
  PROVE  Proven'
<1>1. DOMAIN sessions' = DOMAIN sessions
  BY DEF SessionsEnded
<1> QED
  BY <1>1 DEF Proven, ChallengesKept, SessionsEnded

\* A row that no proof opened changes nothing of what is proven.
LEMMA ProvenOpened ==
  ASSUME Proven, UNCHANGED identity, ChallengesKept(challenges'), NEW which, NEW x, x.proof = 0,
         SessionOpened(sessions', which, x), sessions \in Seq(SessionRows)
  PROVE  Proven'
<1>1. Len(sessions) \in Nat /\ DOMAIN sessions = 1..Len(sessions)
      /\ DOMAIN sessions' = 1..(Len(sessions) + 1)
  BY DEF SessionOpened
<1>2. \A s \in DOMAIN sessions' : s \in DOMAIN sessions \/ s = Len(sessions) + 1
  BY <1>1
<1>3. sessions'[Len(sessions) + 1].proof = 0
  BY DEF SessionOpened
<1>4. \A s \in DOMAIN sessions' : sessions'[s].proof # 0 =>
        s \in DOMAIN sessions /\ sessions'[s].proof = sessions[s].proof
        /\ sessions'[s].user = sessions[s].user
  BY <1>2, <1>3 DEF SessionOpened
<1> QED
  BY <1>4 DEF Proven, ChallengesKept

\* A row that no proof opened, of a profile nobody converted.
LEMMA ClosedOpened ==
  ASSUME Closed, UNCHANGED identity, NEW which, NEW x,
         SessionOpened(sessions', which, x), sessions \in Seq(SessionRows),
         \A u \in ProfileIds : Converted(u) => users'[u] = users[u], ~Converted(x.user)
  PROVE  Closed'
<1>1. Len(sessions) \in Nat /\ DOMAIN sessions = 1..Len(sessions)
      /\ DOMAIN sessions' = 1..(Len(sessions) + 1)
  BY DEF SessionOpened
<1>2. \A s \in DOMAIN sessions' : s \in DOMAIN sessions \/ s = Len(sessions) + 1
  BY <1>1
<1>3. ASSUME NEW s \in DOMAIN sessions', NEW u \in ProfileIds, Converted(u), sessions'[s].user = u, sessions'[s].live
      PROVE  sessions'[s].proof # 0
  BY <1>2, <1>3 DEF SessionOpened, Closed
<1>4. \A u \in ProfileIds : Converted(u)' => Converted(u)
  BY DEF Converted
<1> QED
  BY <1>3, <1>4 DEF Closed

\* The row opened last in a context is the one it calls active.
LEMMA HeldOpened ==
  ASSUME Held, sessions \in Seq(SessionRows), NEW which, NEW x, NEW c \in Contexts, x.ctx = c,
         SessionOpened(sessions', which, x), contexts \in [Contexts -> ContextRows \cup {Null}],
         Null \notin ContextRows, contexts[c] # Null, ~contexts[c].revoked,
         \A s \in DOMAIN sessions : sessions[s].ctx = c => s \in which,
         \A d \in Contexts : d # c => contexts'[d] = contexts[d],
         contexts'[c] \in ContextRows, ~contexts'[c].revoked, contexts'[c].active = Len(sessions) + 1
  PROVE  Held'
<1>1. Len(sessions) \in Nat /\ DOMAIN sessions = 1..Len(sessions)
      /\ DOMAIN sessions' = 1..(Len(sessions) + 1)
  BY DEF SessionOpened
<1>2. \A s \in DOMAIN sessions' : s \in DOMAIN sessions \/ s = Len(sessions) + 1
  BY <1>1
<1>3. ASSUME NEW s \in DOMAIN sessions', sessions'[s].live, sessions'[s].ctx # Null
      PROVE  /\ contexts'[sessions'[s].ctx] # Null /\ ~contexts'[sessions'[s].ctx].revoked
             /\ contexts'[sessions'[s].ctx].active = s
  <2>1. CASE s = Len(sessions) + 1
    <3>1. sessions'[s].ctx = c
      BY <2>1 DEF SessionOpened
    <3> QED
      BY <2>1, <3>1
  <2>2. CASE s \in DOMAIN sessions
    <3>1. sessions[s].live /\ s \notin which /\ sessions'[s].ctx = sessions[s].ctx
      BY <1>3, <2>2 DEF SessionOpened
    <3>2. sessions[s].ctx \in Contexts /\ sessions[s].ctx # c
      BY <1>3, <2>2, <3>1, SessionRow
    <3> QED
      BY <1>3, <2>2, <3>1, <3>2 DEF Held
  <2> QED
    BY <1>2, <2>1, <2>2
<1> QED
  BY <1>3 DEF Held

------------------------------------------------------------------------------
\* The steps.

LEMMA TickStep == ASSUME SignInAssumption, SignInInv, ClockTick PROVE SignInInv'
<1>1. ChallengesKept(challenges')
  BY SameChallenges DEF SignInInv, Tables, ClockTick
<1>2. InFlight'
  BY <1>1, NoneGoesOn DEF SignInInv, ClockTick
<1>3. Tables'
  BY DEF SignInInv, Tables, ClockTick, SignInAssumption
<1>4. Linked' /\ Proven' /\ Closed' /\ Held'
  BY DEF SignInInv, Linked, Proven, Closed, Converted, Held, ClockTick
<1> QED
  BY <1>2, <1>3, <1>4 DEF SignInInv

LEMMA NewContextStep ==
  ASSUME SignInAssumption, SignInInv, NEW c \in Contexts, NewContext(c)
  PROVE  SignInInv'
<1>1. ChallengesKept(challenges')
  BY SameChallenges DEF SignInInv, Tables, NewContext
<1>2. InFlight'
  BY <1>1, NoneGoesOn DEF SignInInv, NewContext
<1>3. clock + SessionLife \in Nat
  BY DEF SignInInv, Tables, SignInAssumption
<1>4. [epoch |-> 1, latest |-> 0, active |-> 0, expires |-> clock + SessionLife, revoked |-> FALSE] \in ContextRows
  BY <1>3 DEF ContextRows
<1>5. contexts' \in [Contexts -> ContextRows \cup {Null}]
  BY <1>4 DEF SignInInv, Tables, NewContext
<1>6. Tables'
  BY <1>5 DEF SignInInv, Tables, NewContext
<1>7. Linked' /\ Proven' /\ Closed'
  BY <1>1, RowsKept DEF NewContext
<1>8. \A d \in Contexts : contexts[d] # Null => contexts'[d] = contexts[d]
  BY DEF NewContext, SignInInv, Tables
<1>9. Held'
  BY <1>8, HeldKept DEF SignInInv, Tables, NewContext
<1> QED
  BY <1>2, <1>6, <1>7, <1>9 DEF SignInInv

LEMMA SessionTyped ==
  ASSUME SignInAssumption, Tables, NEW u \in ProfileIds, NEW c \in Contexts \cup {Null}, NEW t \in Nat,
         NEW proof \in Nat, c # Null => contexts[c] # Null
  PROVE  /\ NewSession(u, c, t, proof) \in SessionRows
         /\ NewSession(u, c, t, proof).user = u /\ NewSession(u, c, t, proof).ctx = c
         /\ NewSession(u, c, t, proof).proof = proof
<1> DEFINE e == IF c = Null THEN 0 ELSE contexts[c].epoch
<1>1. t + SessionLife \in Nat
  BY DEF SignInAssumption
<1>2. e \in Nat
  <2>1. CASE c = Null
    BY <2>1
  <2>2. CASE c # Null
    <3>1. contexts[c] \in ContextRows
      BY <2>2 DEF Tables
    <3> QED
      BY <2>2, <3>1 DEF ContextRows
  <2> QED
    BY <2>1, <2>2
<1>3. NewSession(u, c, t, proof)
        = [user |-> u, ctx |-> c, epoch |-> e, expires |-> t + SessionLife, live |-> TRUE, proof |-> proof]
  BY DEF NewSession
<1> HIDE DEF e
<1> QED
  BY <1>1, <1>2, <1>3 DEF SessionRows

LEMMA RegisterStep ==
  ASSUME SignInAssumption, SignInInv, NEW u \in ProfileIds, Register(u)
  PROVE  SignInInv'
<1> DEFINE x == NewSession(u, Null, clock, 0)
<1>1. ChallengesKept(challenges')
  BY SameChallenges DEF SignInInv, Tables, Register
<1>2. InFlight'
  BY <1>1, NoneGoesOn DEF SignInInv, Register
<1>3. clock \in Nat /\ sessions \in Seq(SessionRows)
  BY DEF SignInInv, Tables, SignInAssumption
<1>4. x \in SessionRows /\ x.user = u /\ x.ctx = Null /\ x.proof = 0
  <2>1. clock + SessionLife \in Nat
    BY <1>3 DEF SignInAssumption
  <2>2. x = [user |-> u, ctx |-> Null, epoch |-> 0, expires |-> clock + SessionLife,
             live |-> TRUE, proof |-> 0]
    BY DEF NewSession
  <2> HIDE DEF x
  <2> QED
    BY <2>1, <2>2 DEF SessionRows
<1> HIDE DEF x
<1>5. SessionsEnded(sessions, {})
  BY <1>3 DEF SessionsEnded
<1>6. SessionOpened(sessions', {}, x) /\ Len(sessions') = Len(sessions) + 1
  BY <1>3, <1>4, <1>5, Opened DEF Register, x
<1>7. users[u] = "absent" /\ ~Converted(u)
  BY DEF Register, SignInInv, Closed
<1>8. Tables'
  BY <1>6 DEF SignInInv, Tables, Register, SessionOpened, SignInAssumption
<1>9. Linked'
  BY DEF SignInInv, Linked, Register
<1>10. Proven'
  BY <1>1, <1>3, <1>4, <1>6, ProvenOpened DEF SignInInv, Register
<1>11. \A v \in ProfileIds : Converted(v) => users'[v] = users[v]
  BY <1>7 DEF SignInInv, Tables, Register
<1>12. Closed'
  BY <1>3, <1>4, <1>6, <1>7, <1>11, ClosedOpened DEF SignInInv, Register
<1>13. Held'
  <2>1. Len(sessions) \in Nat /\ DOMAIN sessions = 1..Len(sessions)
        /\ DOMAIN sessions' = 1..(Len(sessions) + 1)
    BY <1>3, <1>6 DEF SessionOpened
  <2>2. \A s \in DOMAIN sessions' : sessions'[s].ctx # Null => s \in DOMAIN sessions
    BY <1>4, <1>6, <2>1 DEF SessionOpened
  <2> QED
    BY <1>6, <2>2 DEF SignInInv, Held, Register, SessionOpened
<1> QED
  BY <1>2, <1>8, <1>9, <1>10, <1>12, <1>13 DEF SignInInv

\* A context whose active session is n, its latest challenge l.
Activated(y, l, n) == [y EXCEPT !.latest = l, !.active = n]

LEMMA ContextTyped ==
  ASSUME NEW y \in ContextRows, NEW l \in Nat, NEW n \in Nat
  PROVE  /\ Activated(y, l, n) \in ContextRows /\ Activated(y, l, n).revoked = y.revoked
         /\ Activated(y, l, n).active = n
<1>1. [y EXCEPT !.latest = l] \in ContextRows /\ [y EXCEPT !.latest = l].revoked = y.revoked
  BY DEF ContextRows
<1>2. PICK x : x = [y EXCEPT !.latest = l]
  OBVIOUS
<1>3. x \in ContextRows /\ x.revoked = y.revoked
  BY <1>1, <1>2
<1>4. Activated(y, l, n) = [x EXCEPT !.active = n]
  BY <1>2 DEF Activated
<1> QED
  BY <1>3, <1>4 DEF ContextRows

LEMMA RecoverCommitStep ==
  ASSUME SignInAssumption, SignInInv, NEW r \in Calls, RecoverCommit(r)
  PROVE  SignInInv'
<1> DEFINE q == call[r]
           x == NewSession(q.user, q.ctx, q.at, 0)
           ended == Delete(LAMBDA s : s.ctx = q.ctx)
           which == {s \in DOMAIN sessions : sessions[s].ctx = q.ctx}
           revoking == {i \in DOMAIN challenges : challenges[i].ctx = q.ctx}
<1>1. q.ctx \in Contexts /\ q.user \in ProfileIds /\ q.at \in Nat
  BY DEF RecoverCommit, SignInInv, InFlight, InHand
<1>2. RecoverGuard(q) /\ Len(sessions) < MaxSessions /\ Done(r) /\ sessions' = Append(ended, x)
      /\ UNCHANGED <<clock, required, users, identity, links, audited>>
      /\ contexts' = [contexts EXCEPT ![q.ctx].latest = 0, ![q.ctx].active = Len(sessions')]
  BY DEF RecoverCommit
<1>3. sessions \in Seq(SessionRows) /\ challenges \in Seq(ChallengeRows) /\ Null \notin Contexts
      /\ contexts \in [Contexts -> ContextRows \cup {Null}] /\ Null \notin ContextRows
  BY DEF SignInInv, Tables, SignInAssumption
<1>4. challenges' = [i \in DOMAIN challenges |-> IF i \in revoking /\ ~challenges[i].used
                       THEN [challenges[i] EXCEPT !.revoked = TRUE] ELSE challenges[i]]
  BY DEF RecoverCommit, Revoke
<1>5. ended = [s \in DOMAIN sessions |-> IF s \in which
                 THEN [sessions[s] EXCEPT !.live = FALSE] ELSE sessions[s]]
  BY DEF Delete
<1> HIDE DEF revoking, ended
<1>6. challenges' \in Seq(ChallengeRows) /\ Len(challenges') = Len(challenges) /\ ChallengesKept(challenges')
  BY <1>3, <1>4, Revoked
<1>7. contexts[q.ctx] # Null /\ ~contexts[q.ctx].revoked /\ ~Converted(q.user)
  BY <1>2 DEF RecoverGuard, Live
<1>8. x \in SessionRows /\ x.user = q.user /\ x.ctx = q.ctx /\ x.proof = 0
  BY <1>1, <1>7, SessionTyped DEF SignInInv
<1> HIDE DEF x
<1>9. SessionsEnded(ended, which)
  BY <1>3, <1>5, Ended
<1>10. SessionOpened(sessions', which, x) /\ Len(sessions') = Len(sessions) + 1
  BY <1>2, <1>3, <1>8, <1>9, Opened
<1>11. InFlight'
  BY <1>2, <1>6, OneEnds DEF SignInInv
<1>12. /\ contexts' \in [Contexts -> ContextRows \cup {Null}]
       /\ \A d \in Contexts : d # q.ctx => contexts'[d] = contexts[d]
       /\ contexts'[q.ctx] \in ContextRows /\ ~contexts'[q.ctx].revoked
       /\ contexts'[q.ctx].active = Len(sessions) + 1
  <2>1. contexts[q.ctx] \in ContextRows
    BY <1>1, <1>3, <1>7
  <2>2. Len(sessions') \in Nat
    BY <1>3, <1>10
  <2>3. PICK n \in Nat : n = Len(sessions')
    BY <2>2
  <2>4. PICK y \in ContextRows, l \in Nat : y = contexts[q.ctx] /\ l = 0
    BY <2>1
  <2>5. contexts'[q.ctx] = Activated(y, l, n)
    BY <1>1, <1>2, <1>3, <2>3, <2>4 DEF Activated
  <2>6. /\ contexts'[q.ctx] \in ContextRows /\ contexts'[q.ctx].revoked = contexts[q.ctx].revoked
        /\ contexts'[q.ctx].active = n
    <3>1. Activated(y, l, n) \in ContextRows /\ Activated(y, l, n).revoked = y.revoked
          /\ Activated(y, l, n).active = n
      BY ContextTyped
    <3> QED
      BY <2>4, <2>5, <3>1
  <2>7. \A d \in Contexts : d # q.ctx => contexts'[d] = contexts[d]
    BY <1>2, <1>3
  <2>8. contexts' = [d \in Contexts |-> contexts'[d]]
    BY <1>2, <1>3
  <2>9. \A d \in Contexts : contexts'[d] \in ContextRows \cup {Null}
    BY <1>3, <2>6, <2>7
  <2> QED
    BY <1>7, <1>10, <2>3, <2>6, <2>7, <2>8, <2>9
<1>13. Tables'
  <2>1. sessions' \in Seq(SessionRows)
    BY <1>10 DEF SessionOpened
  <2>2. Len(sessions') <= MaxSessions
    BY <1>2, <1>3, <1>10 DEF SignInAssumption
  <2> QED
    BY <1>2, <1>6, <1>12, <2>1, <2>2 DEF SignInInv, Tables
<1>14. Linked'
  BY <1>2 DEF SignInInv, Linked
<1>15. Proven'
  BY <1>2, <1>3, <1>6, <1>8, <1>10, ProvenOpened DEF SignInInv
<1>16. Closed'
  BY <1>2, <1>3, <1>7, <1>8, <1>10, ClosedOpened DEF SignInInv
<1>17. Held'
  BY <1>1, <1>3, <1>7, <1>8, <1>10, <1>12, HeldOpened DEF SignInInv
<1> QED
  BY <1>11, <1>13, <1>14, <1>15, <1>16, <1>17 DEF SignInInv

\* A cancelled context.
Cancelled(y) == [y EXCEPT !.revoked = TRUE, !.epoch = 2, !.active = 0]

LEMMA CancelledTyped == ASSUME NEW y \in ContextRows PROVE Cancelled(y) \in ContextRows
<1>1. [y EXCEPT !.revoked = TRUE] \in ContextRows
  BY DEF ContextRows
<1>2. PICK x \in ContextRows : x = [y EXCEPT !.revoked = TRUE]
  BY <1>1
<1>3. [x EXCEPT !.epoch = 2] \in ContextRows
  BY DEF ContextRows
<1>4. PICK z \in ContextRows : z = [x EXCEPT !.epoch = 2]
  BY <1>3
<1>5. [z EXCEPT !.active = 0] \in ContextRows
  BY DEF ContextRows
<1>6. Cancelled(y) = [z EXCEPT !.active = 0]
  BY <1>2, <1>4 DEF Cancelled
<1> QED
  BY <1>5, <1>6

LEMMA LogoutCommitStep ==
  ASSUME SignInAssumption, SignInInv, NEW r \in Calls, LogoutCommit(r)
  PROVE  SignInInv'
<1> DEFINE q == call[r]
           which == {s \in DOMAIN sessions : LoggedOut(s, q)}
           revoking == {i \in DOMAIN challenges : challenges[i].ctx \in q.both}
<1>1. sessions \in Seq(SessionRows) /\ challenges \in Seq(ChallengeRows)
      /\ contexts \in [Contexts -> ContextRows \cup {Null}]
  BY DEF SignInInv, Tables
<1>2. challenges' = [i \in DOMAIN challenges |-> IF i \in revoking /\ ~challenges[i].used
                       THEN [challenges[i] EXCEPT !.revoked = TRUE] ELSE challenges[i]]
  BY DEF LogoutCommit, Revoke
<1>3. sessions' = [s \in DOMAIN sessions |-> IF s \in which
                     THEN [sessions[s] EXCEPT !.live = FALSE] ELSE sessions[s]]
  BY DEF LogoutCommit
<1>4. \A c \in Contexts : contexts'[c] = IF c \in q.both /\ contexts[c] # Null
        THEN Cancelled(contexts[c]) ELSE contexts[c]
  BY DEF LogoutCommit, Cancelled
<1>5. /\ UNCHANGED <<clock, required, users, identity, links, audited>> /\ Done(r)
      /\ contexts' = [c \in Contexts |-> contexts'[c]]
  BY DEF LogoutCommit
<1>6. \A s \in DOMAIN sessions : sessions[s].ctx \in q.both => s \in which
  BY DEF LoggedOut
<1> HIDE DEF revoking, which, q
<1>7. challenges' \in Seq(ChallengeRows) /\ Len(challenges') = Len(challenges) /\ ChallengesKept(challenges')
  BY <1>1, <1>2, Revoked
<1>8. SessionsEnded(sessions', which)
  BY <1>1, <1>3, Ended
<1>9. InFlight'
  BY <1>5, <1>7, OneEnds DEF SignInInv
<1>10. contexts' \in [Contexts -> ContextRows \cup {Null}]
  <2>1. \A c \in Contexts : contexts'[c] \in ContextRows \cup {Null}
    BY <1>1, <1>4, CancelledTyped
  <2> QED
    BY <1>5, <2>1
<1>11. Tables'
  <2>1. sessions' \in Seq(SessionRows) /\ Len(sessions') = Len(sessions)
    BY <1>8 DEF SessionsEnded
  <2> QED
    BY <1>5, <1>7, <1>10, <2>1 DEF SignInInv, Tables
<1>12. Linked'
  BY <1>5 DEF SignInInv, Linked
<1>13. Proven'
  BY <1>1, <1>5, <1>7, <1>8, ProvenEnded DEF SignInInv
<1>14. DOMAIN sessions' = DOMAIN sessions
  BY <1>1, <1>8 DEF SessionsEnded
<1>15. Closed'
  BY <1>5, <1>8, <1>14 DEF SignInInv, Closed, Converted, SessionsEnded
<1>16. ASSUME NEW s \in DOMAIN sessions', sessions'[s].live, sessions'[s].ctx # Null
       PROVE  /\ contexts'[sessions'[s].ctx] # Null /\ ~contexts'[sessions'[s].ctx].revoked
              /\ contexts'[sessions'[s].ctx].active = s
  <2>1. s \in DOMAIN sessions /\ sessions[s].live /\ s \notin which /\ sessions'[s].ctx = sessions[s].ctx
    BY <1>8, <1>14, <1>16 DEF SessionsEnded
  <2>2. sessions[s].ctx \in Contexts /\ sessions[s].ctx \notin q.both
    BY <1>1, <1>6, <1>16, <2>1, SessionRow
  <2>3. contexts'[sessions[s].ctx] = contexts[sessions[s].ctx]
    BY <1>4, <2>2
  <2> QED
    BY <1>16, <2>1, <2>3 DEF SignInInv, Held
<1>17. Held'
  BY <1>16 DEF Held
<1> QED
  BY <1>9, <1>11, <1>12, <1>13, <1>15, <1>17 DEF SignInInv

LEMMA ChallengeCommitStep ==
  ASSUME SignInAssumption, SignInInv, NEW r \in Calls, ChallengeCommit(r)
  PROVE  SignInInv'
<1> DEFINE q == call[r]
           old == Revoke(LAMBDA x : x.ctx = q.ctx)
           revoking == {i \in DOMAIN challenges : challenges[i].ctx = q.ctx}
           source == IF q.mode = "migrate" THEN q.session ELSE 0
           x == [ctx |-> q.ctx, epoch |-> q.row.epoch, address |-> q.address, user |-> q.target,
                 mode |-> q.mode, source |-> source, expires |-> q.at + ChallengeLife,
                 used |-> FALSE, revoked |-> FALSE]
<1>1. sessions \in Seq(SessionRows) /\ challenges \in Seq(ChallengeRows)
      /\ contexts \in [Contexts -> ContextRows \cup {Null}] /\ Null \notin ContextRows
      /\ ChallengeLife \in Nat
  BY DEF SignInInv, Tables, SignInAssumption
<1>2. q.ctx \in Contexts /\ q.session \in Nat /\ q.at \in Nat /\ q.address \in Pubkeys
      /\ q.mode \in {"login", "migrate"} /\ q.target \in ProfileIds
  BY DEF ChallengeCommit, SignInInv, InFlight, InHand
<1>3. contexts[q.ctx] = q.row /\ contexts[q.ctx] # Null
  BY DEF ChallengeCommit, Live
<1>4. contexts[q.ctx] \in ContextRows /\ q.row.epoch \in Nat
  <2>1. contexts[q.ctx] \in ContextRows
    BY <1>1, <1>2, <1>3
  <2> QED
    BY <1>3, <2>1 DEF ContextRows
<1>5. old = [i \in DOMAIN challenges |-> IF i \in revoking /\ ~challenges[i].used
               THEN [challenges[i] EXCEPT !.revoked = TRUE] ELSE challenges[i]]
  BY DEF Revoke
<1>6. /\ Done(r) /\ UNCHANGED <<clock, required, users, identity, links, audited, sessions>>
      /\ challenges' = Append(old, x) /\ Len(challenges) < MaxChallenges
      /\ contexts' = [contexts EXCEPT ![q.ctx].latest = Len(challenges')]
  BY DEF ChallengeCommit
<1>7. source \in Nat /\ q.at + ChallengeLife \in Nat
  BY <1>1, <1>2
<1> HIDE DEF source, old, revoking
<1>8. x \in ChallengeRows
  BY <1>2, <1>4, <1>7 DEF ChallengeRows
<1> HIDE DEF x, q
<1>9. old \in Seq(ChallengeRows) /\ Len(old) = Len(challenges) /\ ChallengesKept(old)
  BY <1>1, <1>5, Revoked
<1>10. challenges' \in Seq(ChallengeRows) /\ Len(challenges') = Len(challenges) + 1
       /\ ChallengesKept(challenges')
  BY <1>1, <1>6, <1>8, <1>9, Issued
<1>11. InFlight'
  BY <1>6, <1>10, OneEnds DEF SignInInv
<1>12. PICK n \in Nat : n = Len(challenges')
  BY <1>10
<1>13. \A c \in Contexts : contexts[c] # Null =>
         contexts'[c] # Null /\ contexts'[c] \in ContextRows
         /\ contexts'[c].revoked = contexts[c].revoked /\ contexts'[c].active = contexts[c].active
  <2>1. ASSUME NEW y \in ContextRows
        PROVE  /\ [y EXCEPT !.latest = n] \in ContextRows /\ [y EXCEPT !.latest = n].revoked = y.revoked
               /\ [y EXCEPT !.latest = n].active = y.active
    BY DEF ContextRows
  <2>2. contexts'[q.ctx] = [contexts[q.ctx] EXCEPT !.latest = n]
    BY <1>1, <1>2, <1>6, <1>12
  <2>3. \A c \in Contexts : c # q.ctx => contexts'[c] = contexts[c]
    BY <1>1, <1>6
  <2> QED
    BY <1>1, <1>4, <2>1, <2>2, <2>3
<1>14. contexts' \in [Contexts -> ContextRows \cup {Null}]
  <2>1. contexts' = [c \in Contexts |-> contexts'[c]]
    BY <1>1, <1>6
  <2>2. \A c \in Contexts : c # q.ctx => contexts'[c] = contexts[c]
    BY <1>1, <1>6
  <2>3. \A c \in Contexts : contexts'[c] \in ContextRows \cup {Null}
    BY <1>1, <1>3, <1>13, <2>2
  <2> QED
    BY <2>1, <2>3
<1>15. Tables'
  <2>1. Len(challenges') <= MaxChallenges
    BY <1>1, <1>6, <1>10 DEF SignInAssumption
  <2> QED
    BY <1>6, <1>10, <1>14, <2>1 DEF SignInInv, Tables
<1>16. Linked' /\ Proven' /\ Closed'
  BY <1>6, <1>10, RowsKept
<1>17. Held'
  BY <1>1, <1>6, <1>13, HeldKept DEF SignInInv
<1> QED
  BY <1>11, <1>15, <1>16, <1>17 DEF SignInInv

LEMMA LinkChallengeStep ==
  ASSUME SignInAssumption, SignInInv, NEW u \in ProfileIds, NEW a \in Pubkeys, LinkChallenge(u, a)
  PROVE  SignInInv'
<1> DEFINE x == [ctx |-> Null, epoch |-> 0, address |-> a, user |-> u, mode |-> "link", source |-> 0,
                 expires |-> clock + ChallengeLife, used |-> FALSE, revoked |-> FALSE]
<1>1. challenges \in Seq(ChallengeRows) /\ sessions \in Seq(SessionRows) /\ clock + ChallengeLife \in Nat
  BY DEF SignInInv, Tables, SignInAssumption
<1>2. x \in ChallengeRows
  BY <1>1 DEF ChallengeRows
<1>3. /\ UNCHANGED <<clock, required, users, identity, links, audited, contexts, sessions, call>>
      /\ challenges' = Append(challenges, x) /\ Len(challenges) < MaxChallenges
  BY DEF LinkChallenge
<1> HIDE DEF x
<1>4. ChallengesKept(challenges)
  BY <1>1 DEF ChallengesKept
<1>5. challenges' \in Seq(ChallengeRows) /\ Len(challenges') = Len(challenges) + 1
      /\ ChallengesKept(challenges')
  BY <1>1, <1>2, <1>3, <1>4, Issued
<1>6. InFlight'
  BY <1>3, <1>5, NoneGoesOn DEF SignInInv
<1>7. Len(challenges') <= MaxChallenges
  BY <1>1, <1>3, <1>5 DEF SignInAssumption
<1>8. Tables'
  BY <1>3, <1>5, <1>7 DEF SignInInv, Tables
<1>9. Linked' /\ Proven' /\ Closed'
  BY <1>3, <1>5, RowsKept
<1>10. Held'
  BY <1>3 DEF SignInInv, Held
<1> QED
  BY <1>6, <1>8, <1>9, <1>10 DEF SignInInv

\* Links change, and the sign-in tables do not.
LEMMA LinksOnly ==
  ASSUME SignInInv, UNCHANGED <<users, identity, contexts, sessions>>, ChallengesKept(challenges')
  PROVE  Proven' /\ Closed' /\ Held'
<1>1. Proven'
  BY DEF SignInInv, Proven, ChallengesKept
<1>2. Closed' /\ Held'
  BY DEF SignInInv, Closed, Converted, Held
<1> QED
  BY <1>1, <1>2

\* A link of u to a that nobody else has, and that takes no active wallet of u.
LEMMA LinkMade ==
  ASSUME SignInAssumption, Tables, Linked, NEW u \in ProfileIds, NEW a \in Pubkeys, NEW g \in Nat,
         LinkedTo(a) \subseteq {u},
         links' = [links EXCEPT ![u] = [address |-> a, generation |-> g]]
  PROVE  /\ links' \in [ProfileIds -> LinkRows \cup {Null}]
         /\ links'[u] # Null /\ links'[u].address = a
         /\ \A v \in ProfileIds : v # u => links'[v] = links[v]
         /\ \A v, w \in ProfileIds : links'[v] # Null /\ links'[w] # Null /\ links'[v].address = links'[w].address
              => v = w
<1> DEFINE l == [address |-> a, generation |-> g]
<1>1. l \in LinkRows /\ l # Null /\ l.address = a
  BY DEF LinkRows, SignInAssumption
<1>2. links \in [ProfileIds -> LinkRows \cup {Null}]
  BY DEF Tables
<1> HIDE DEF l
<1>3. links' = [links EXCEPT ![u] = l]
  BY DEF l
<1>4. links' \in [ProfileIds -> LinkRows \cup {Null}] /\ links'[u] = l
      /\ \A v \in ProfileIds : v # u => links'[v] = links[v]
  BY <1>1, <1>2, <1>3
<1>5. \A v \in ProfileIds : v # u /\ links[v] # Null => links[v].address # a
  BY DEF LinkedTo
<1> QED
  BY <1>1, <1>4, <1>5 DEF Linked

LEMMA LinkCommitStep ==
  ASSUME SignInAssumption, SignInInv, NEW r \in Calls, LinkCommit(r)
  PROVE  SignInInv'
<1> DEFINE q == call[r]
           n == challenges[q.id]
<1>1. challenges \in Seq(ChallengeRows) /\ identity \in [Pubkeys -> IdentityRows \cup {Null}]
      /\ links \in [ProfileIds -> LinkRows \cup {Null}] /\ Null \notin IdentityRows
  BY DEF SignInInv, Tables, SignInAssumption
<1>2. q.id \in DOMAIN challenges
  BY DEF LinkCommit, SignInInv, InFlight, InHand
<1>3. n \in ChallengeRows /\ n.user \in ProfileIds /\ n.address \in Pubkeys /\ q.id \in Nat
  BY <1>1, <1>2, ChallengeRow
<1>4. /\ LinkedTo(n.address) \subseteq {n.user} /\ LinkKept(n.user, n.address)
      /\ challenges' = [challenges EXCEPT ![q.id].used = TRUE]
      /\ links' = [links EXCEPT ![n.user] = [address |-> n.address, generation |-> q.id]]
      /\ audited' = audited \cup {n.address}
      /\ Done(r) /\ UNCHANGED <<clock, required, users, identity, contexts, sessions>>
  BY DEF LinkCommit
<1>5. challenges' \in Seq(ChallengeRows) /\ Len(challenges') = Len(challenges) /\ ChallengesKept(challenges')
  BY <1>1, <1>2, <1>4, UsedUp
<1>6. PICK u \in ProfileIds, a \in Pubkeys, g \in Nat : u = n.user /\ a = n.address /\ g = q.id
  BY <1>3
<1> HIDE DEF n, q
<1>7. /\ links' \in [ProfileIds -> LinkRows \cup {Null}]
      /\ links'[u] # Null /\ links'[u].address = a
      /\ \A v \in ProfileIds : v # u => links'[v] = links[v]
      /\ \A v, w \in ProfileIds : links'[v] # Null /\ links'[w] # Null /\ links'[v].address = links'[w].address
           => v = w
  <2>1. LinkedTo(a) \subseteq {u} /\ links' = [links EXCEPT ![u] = [address |-> a, generation |-> g]]
    BY <1>4, <1>6
  <2> QED
    BY <2>1, LinkMade DEF SignInInv
<1>8. InFlight'
  BY <1>4, <1>5, OneEnds DEF SignInInv
<1>9. Tables'
  BY <1>3, <1>4, <1>5, <1>7 DEF SignInInv, Tables
<1>10. ASSUME NEW b \in Pubkeys, identity[b] # Null, identity[b].active
       PROVE  links'[identity[b].user] # Null /\ links'[identity[b].user].address = b
  <2>1. identity[b].user \in ProfileIds
    BY <1>1, <1>10 DEF IdentityRows
  <2>2. links[identity[b].user] # Null /\ links[identity[b].user].address = b
    BY <1>10 DEF SignInInv, Linked
  <2>3. CASE identity[b].user # u
    BY <1>7, <2>1, <2>2, <2>3
  <2>4. CASE identity[b].user = u
    <3>1. b \in ActiveOf(u)
      BY <1>10, <2>4 DEF ActiveOf
    <3>2. links[u] # Null /\ links[u].address = b
      BY <2>2, <2>4
    <3>3. a = b
      BY <1>4, <1>6, <3>1, <3>2 DEF LinkKept
    <3> QED
      BY <1>7, <2>4, <3>3
  <2> QED
    BY <2>3, <2>4
<1>11. Linked'
  BY <1>4, <1>7, <1>10 DEF Linked
<1>12. Proven' /\ Closed' /\ Held'
  BY <1>4, <1>5, LinksOnly
<1> QED
  BY <1>8, <1>9, <1>11, <1>12 DEF SignInInv

LEMMA UnlinkCommitStep ==
  ASSUME SignInAssumption, SignInInv, NEW r \in Calls, UnlinkCommit(r)
  PROVE  SignInInv'
<1> DEFINE q == call[r]
           revoking == {i \in DOMAIN challenges : challenges[i].mode = "link" /\ challenges[i].user = q.user}
<1>1. challenges \in Seq(ChallengeRows) /\ identity \in [Pubkeys -> IdentityRows \cup {Null}]
      /\ links \in [ProfileIds -> LinkRows \cup {Null}] /\ Null \notin IdentityRows
  BY DEF SignInInv, Tables, SignInAssumption
<1>2. q.user \in ProfileIds
  BY DEF UnlinkCommit, SignInInv, InFlight, InHand
<1>3. /\ links[q.user] = q.row /\ (q.row # Null => q.row.address \notin ActiveOf(q.user))
      /\ links' = [links EXCEPT ![q.user] = Null]
      /\ audited' = IF q.row = Null THEN audited ELSE audited \cup {q.row.address}
      /\ Done(r) /\ UNCHANGED <<clock, required, users, identity, contexts, sessions>>
  BY DEF UnlinkCommit, DetachGuard
<1>4. challenges' = [i \in DOMAIN challenges |-> IF i \in revoking /\ ~challenges[i].used
                       THEN [challenges[i] EXCEPT !.revoked = TRUE] ELSE challenges[i]]
  BY DEF UnlinkCommit, Revoke
<1> HIDE DEF revoking, q
<1>5. challenges' \in Seq(ChallengeRows) /\ Len(challenges') = Len(challenges) /\ ChallengesKept(challenges')
  BY <1>1, <1>4, Revoked
<1>6. InFlight'
  BY <1>3, <1>5, OneEnds DEF SignInInv
<1>7. audited' \subseteq Pubkeys
  <2>1. CASE q.row = Null
    BY <1>3, <2>1 DEF SignInInv, Tables
  <2>2. CASE q.row # Null
    <3>1. q.row \in LinkRows
      BY <1>1, <1>2, <1>3, <2>2
    <3> QED
      BY <1>3, <2>2, <3>1 DEF SignInInv, Tables, LinkRows
  <2> QED
    BY <2>1, <2>2
<1>8. links' \in [ProfileIds -> LinkRows \cup {Null}]
      /\ links'[q.user] = Null /\ \A v \in ProfileIds : v # q.user => links'[v] = links[v]
  BY <1>1, <1>2, <1>3
<1>9. Tables'
  BY <1>3, <1>5, <1>7, <1>8 DEF SignInInv, Tables
<1>10. ASSUME NEW b \in Pubkeys, identity[b] # Null, identity[b].active
       PROVE  links'[identity[b].user] # Null /\ links'[identity[b].user].address = b
  <2>1. identity[b].user \in ProfileIds
    BY <1>1, <1>10 DEF IdentityRows
  <2>2. links[identity[b].user] # Null /\ links[identity[b].user].address = b
    BY <1>10 DEF SignInInv, Linked
  <2>3. identity[b].user # q.user
    BY <1>3, <1>10, <2>2 DEF ActiveOf
  <2> QED
    BY <1>8, <2>1, <2>2, <2>3
<1>11. Linked'
  BY <1>3, <1>8, <1>10 DEF SignInInv, Linked
<1>12. Proven' /\ Closed' /\ Held'
  BY <1>3, <1>5, LinksOnly
<1> QED
  BY <1>6, <1>9, <1>11, <1>12 DEF SignInInv

\* A wallet converts a profile: its row of the identity table.
LEMMA ConvertedRow ==
  ASSUME SignInAssumption, Tables, NEW u \in ProfileIds, NEW a \in Pubkeys,
         identity' = [identity EXCEPT ![a] = [user |-> u, active |-> TRUE, converted |-> TRUE]]
  PROVE  /\ identity' \in [Pubkeys -> IdentityRows \cup {Null}]
         /\ identity'[a] # Null /\ identity'[a].user = u /\ identity'[a].active
         /\ \A b \in Pubkeys : b # a => identity'[b] = identity[b]
<1> DEFINE x == [user |-> u, active |-> TRUE, converted |-> TRUE]
<1>1. x \in IdentityRows /\ x # Null /\ x.user = u /\ x.active
  <2>1. x \in IdentityRows
    BY DEF IdentityRows
  <2>2. Null \notin IdentityRows
    BY DEF SignInAssumption
  <2>3. x.user = u /\ x.active
    OBVIOUS
  <2> QED
    BY <2>1, <2>2, <2>3
<1> HIDE DEF x
<1>2. identity' = [identity EXCEPT ![a] = x] /\ identity \in [Pubkeys -> IdentityRows \cup {Null}]
  BY DEF x, Tables
<1> QED
  BY <1>1, <1>2

\* What the conversion of u by a writes, with a challenge i of context c.
VerifyWrites(i, c, u, a, which, x) ==
  /\ i \in DOMAIN challenges /\ ~challenges[i].used /\ challenges[i].address = a
  /\ c \in Contexts /\ u \in ProfileIds /\ a \in Pubkeys
  /\ contexts[c] # Null /\ ~contexts[c].revoked
  /\ contexts' = [contexts EXCEPT ![c].active = Len(sessions')]
  /\ identity[a] # Null => identity[a].user = u /\ identity[a].active
  /\ ActiveOf(u) \subseteq {a} /\ LinkedTo(a) \subseteq {u}
  /\ links[u] # Null => links[u].address = a
  /\ challenges' \in Seq(ChallengeRows) /\ Len(challenges') = Len(challenges)
  /\ ChallengesKept(challenges') /\ challenges'[i].used
  /\ identity' \in [Pubkeys -> IdentityRows \cup {Null}]
  /\ identity'[a] # Null /\ identity'[a].user = u /\ identity'[a].active
  /\ \A b \in Pubkeys : b # a => identity'[b] = identity[b]
  /\ links' \in [ProfileIds -> LinkRows \cup {Null}]
  /\ links'[u] # Null /\ links'[u].address = a
  /\ \A v \in ProfileIds : v # u => links'[v] = links[v]
  /\ users' \in [ProfileIds -> {"absent", "code", "disabled"}]
  /\ users'[u] = "disabled" /\ \A v \in ProfileIds : v # u => users'[v] = users[v]
  /\ x.user = u /\ x.ctx = c /\ x.proof = i
  /\ SessionOpened(sessions', which, x)
  /\ \A s \in DOMAIN sessions : sessions[s].ctx = c => s \in which
  /\ \A s \in DOMAIN sessions : sessions[s].user = u => s \in which \/ Converted(u)

LEMMA ProvenConverted ==
  ASSUME Tables, Proven, SignInAssumption, NEW i, NEW c, NEW u, NEW a, NEW which, NEW x,
         VerifyWrites(i, c, u, a, which, x)
  PROVE  Proven'
<1>1. sessions \in Seq(SessionRows) /\ challenges \in Seq(ChallengeRows)
  BY DEF Tables
<1>2. Len(sessions) \in Nat /\ DOMAIN sessions = 1..Len(sessions)
      /\ DOMAIN sessions' = 1..(Len(sessions) + 1) /\ i # 0
  BY <1>1 DEF SessionOpened, VerifyWrites
<1>3. \A s \in DOMAIN sessions' : s \in DOMAIN sessions \/ s = Len(sessions) + 1
  BY <1>2
<1>4. sessions'[Len(sessions) + 1] = x /\ Len(sessions) + 1 \in DOMAIN sessions'
  BY <1>2 DEF SessionOpened, VerifyWrites
<1>5. \A s \in DOMAIN sessions : sessions'[s].proof = sessions[s].proof /\ sessions'[s].user = sessions[s].user
  BY DEF SessionOpened, VerifyWrites
<1>6. \A s \in DOMAIN sessions : sessions[s].proof # i
  BY <1>2 DEF Proven, VerifyWrites
<1>7. ASSUME NEW s \in DOMAIN sessions, sessions[s].proof # 0
      PROVE  LET p == sessions[s].proof IN
             /\ p \in DOMAIN challenges' /\ challenges'[p].used
             /\ identity'[challenges'[p].address] # Null
             /\ identity'[challenges'[p].address].user = sessions[s].user
  <2> DEFINE p == sessions[s].proof
  <2>1. /\ p \in DOMAIN challenges /\ challenges[p].used
        /\ identity[challenges[p].address] # Null
        /\ identity[challenges[p].address].user = sessions[s].user
    BY <1>7 DEF Proven
  <2>2. p \in DOMAIN challenges' /\ challenges'[p].used /\ challenges'[p].address = challenges[p].address
    BY <2>1 DEF ChallengesKept, VerifyWrites
  <2>3. challenges[p].address \in Pubkeys
    BY <1>1, <2>1, ChallengeRow
  <2>4. identity'[challenges[p].address] # Null
        /\ identity'[challenges[p].address].user = identity[challenges[p].address].user
    BY <2>1, <2>3 DEF VerifyWrites
  <2> QED
    BY <2>1, <2>2, <2>4
<1>8. /\ i \in DOMAIN challenges' /\ challenges'[i].used
      /\ identity'[challenges'[i].address] # Null
      /\ identity'[challenges'[i].address].user = x.user /\ x.proof = i
  BY DEF ChallengesKept, VerifyWrites
<1>9. ASSUME NEW s \in DOMAIN sessions', sessions'[s].proof # 0
      PROVE  /\ sessions'[s].proof \in DOMAIN challenges' /\ challenges'[sessions'[s].proof].used
             /\ identity'[challenges'[sessions'[s].proof].address] # Null
             /\ identity'[challenges'[sessions'[s].proof].address].user = sessions'[s].user
  <2>1. CASE s \in DOMAIN sessions
    BY <1>5, <1>7, <1>9, <2>1
  <2>2. CASE s = Len(sessions) + 1
    BY <1>4, <1>8, <2>2
  <2> QED
    BY <1>3, <2>1, <2>2
<1>10. ASSUME NEW s \in DOMAIN sessions', NEW t \in DOMAIN sessions', sessions'[s].proof # 0,
              sessions'[t].proof = sessions'[s].proof
       PROVE  s = t
  <2>1. CASE s \in DOMAIN sessions /\ t \in DOMAIN sessions
    BY <1>5, <1>10, <2>1 DEF Proven
  <2>2. CASE s = Len(sessions) + 1 \/ t = Len(sessions) + 1
    <3>1. sessions'[Len(sessions) + 1].proof = i
      BY <1>4, <1>8
    <3> QED
      BY <1>3, <1>5, <1>6, <1>10, <2>2, <3>1
  <2> QED
    BY <1>3, <2>1, <2>2
<1> QED
  BY <1>9, <1>10 DEF Proven

LEMMA ClosedConverted ==
  ASSUME Tables, Closed, SignInAssumption, NEW i, NEW c, NEW u, NEW a, NEW which, NEW x,
         VerifyWrites(i, c, u, a, which, x)
  PROVE  Closed'
<1>1. sessions \in Seq(SessionRows) /\ challenges \in Seq(ChallengeRows)
  BY DEF Tables
<1>2. Len(sessions) \in Nat /\ DOMAIN sessions = 1..Len(sessions)
      /\ DOMAIN sessions' = 1..(Len(sessions) + 1) /\ i # 0
  BY <1>1 DEF SessionOpened, VerifyWrites
<1>3. \A s \in DOMAIN sessions' : s \in DOMAIN sessions \/ s = Len(sessions) + 1
  BY <1>2
<1>4. \A v \in ProfileIds : Converted(v)' => v = u \/ Converted(v)
  BY DEF Converted, VerifyWrites
<1>5. \A v \in ProfileIds : Converted(v)' => users'[v] = "disabled"
  BY <1>4 DEF Closed, VerifyWrites
<1>6. sessions'[Len(sessions) + 1].proof # 0
  BY <1>2 DEF SessionOpened, VerifyWrites
<1>7. ASSUME NEW v \in ProfileIds, Converted(v)', NEW s \in DOMAIN sessions', sessions'[s].user = v,
             sessions'[s].live
      PROVE  sessions'[s].proof # 0
  <2>1. CASE s = Len(sessions) + 1
    BY <1>6, <2>1
  <2>2. CASE s \in DOMAIN sessions
    <3>1. /\ sessions[s].user = v /\ sessions[s].live /\ s \notin which
          /\ sessions'[s].proof = sessions[s].proof
      BY <1>7, <2>2 DEF SessionOpened, VerifyWrites
    <3>2. Converted(v)
      BY <1>4, <1>7, <2>2, <3>1 DEF VerifyWrites
    <3> QED
      BY <2>2, <3>1, <3>2 DEF Closed
  <2> QED
    BY <1>3, <2>1, <2>2
<1> QED
  BY <1>5, <1>7 DEF Closed

LEMMA LinkedConverted ==
  ASSUME Tables, Linked, SignInAssumption, NEW i, NEW c, NEW u, NEW a, NEW which, NEW x,
         VerifyWrites(i, c, u, a, which, x)
  PROVE  Linked'
<1>1. \A v \in ProfileIds : v # u /\ links[v] # Null => links[v].address # a
  BY DEF LinkedTo, VerifyWrites
<1>2. \A v, w \in ProfileIds : links'[v] # Null /\ links'[w] # Null /\ links'[v].address = links'[w].address
        => v = w
  BY <1>1 DEF Linked, VerifyWrites
<1>3. ASSUME NEW b \in Pubkeys, identity'[b] # Null, identity'[b].active
      PROVE  links'[identity'[b].user] # Null /\ links'[identity'[b].user].address = b
  <2>1. CASE b = a
    BY <2>1 DEF VerifyWrites
  <2>2. CASE b # a
    <3>1. identity'[b] = identity[b]
      BY <2>2 DEF VerifyWrites
    <3>2. identity[b].user \in ProfileIds
      BY <1>3, <3>1 DEF Tables, IdentityRows
    <3>3. identity[b].user # u
      BY <1>3, <2>2, <3>1 DEF ActiveOf, VerifyWrites
    <3> QED
      BY <1>3, <3>1, <3>2, <3>3 DEF Linked, VerifyWrites
  <2> QED
    BY <2>1, <2>2
<1> QED
  BY <1>2, <1>3 DEF Linked

LEMMA VerifyCommitWrites ==
  ASSUME SignInAssumption, SignInInv, NEW r \in Calls, VerifyCommit(r)
  PROVE  \E i, c, u, a, which, x : VerifyWrites(i, c, u, a, which, x)
<1> DEFINE q == call[r]
           n == challenges[q.id]
           ended == Delete(LAMBDA s : Superseded(s, n))
           which == {s \in DOMAIN sessions : Superseded(sessions[s], n)}
           x == NewSession(n.user, n.ctx, q.at, q.id)
<1>1. challenges \in Seq(ChallengeRows) /\ sessions \in Seq(SessionRows) /\ Tables
      /\ users \in [ProfileIds -> {"absent", "code", "disabled"}]
  BY DEF SignInInv, Tables
<1>2. q.id \in DOMAIN challenges /\ n.ctx \in Contexts /\ q.at \in Nat
  BY DEF VerifyCommit, SignInInv, InFlight, InHand
<1>3. n.user \in ProfileIds /\ n.address \in Pubkeys /\ q.id \in Nat
  BY <1>1, <1>2, ChallengeRow
<1>4. /\ ProofGuard(q) /\ sessions' = Append(ended, x)
      /\ challenges' = [challenges EXCEPT ![q.id].used = TRUE]
      /\ identity' = [identity EXCEPT ![n.address] = [user |-> n.user, active |-> TRUE, converted |-> TRUE]]
      /\ links' = [links EXCEPT ![n.user] = [address |-> n.address, generation |-> q.id]]
      /\ users' = [users EXCEPT ![n.user] = "disabled"]
      /\ contexts' = [contexts EXCEPT ![n.ctx].active = Len(sessions')]
  BY DEF VerifyCommit
<1>5. /\ contexts[n.ctx] # Null /\ ~contexts[n.ctx].revoked /\ ~n.used
      /\ identity[n.address] # Null => identity[n.address].user = n.user /\ identity[n.address].active
      /\ ActiveOf(n.user) \subseteq {n.address} /\ LinkedTo(n.address) \subseteq {n.user}
      /\ links[n.user] # Null => links[n.user].address = n.address
  BY <1>4 DEF ProofGuard, Usable, Live
<1>6. ended = [s \in DOMAIN sessions |-> IF s \in which
                 THEN [sessions[s] EXCEPT !.live = FALSE] ELSE sessions[s]]
  BY DEF Delete
<1>7. \A s \in DOMAIN sessions : sessions[s].ctx = n.ctx => s \in which
  BY DEF Superseded
<1>8. \A s \in DOMAIN sessions : sessions[s].user = n.user => s \in which \/ Converted(n.user)
  BY <1>3, <1>5 DEF Superseded, Converted
<1>9. x \in SessionRows /\ x.user = n.user /\ x.ctx = n.ctx /\ x.proof = q.id
  BY <1>1, <1>2, <1>3, <1>5, SessionTyped
<1> HIDE DEF ended, which, x, n, q
<1>10. SessionsEnded(ended, which)
  BY <1>1, <1>6, Ended
<1>11. SessionOpened(sessions', which, x)
  BY <1>1, <1>4, <1>9, <1>10, Opened
<1>12. challenges' \in Seq(ChallengeRows) /\ Len(challenges') = Len(challenges)
       /\ ChallengesKept(challenges') /\ challenges'[q.id].used
  BY <1>1, <1>2, <1>4, UsedUp
<1>13. PICK u \in ProfileIds, a \in Pubkeys, i \in Nat, c \in Contexts, z \in SessionRows,
            w \in SUBSET DOMAIN sessions :
         u = n.user /\ a = n.address /\ i = q.id /\ c = n.ctx /\ z = x /\ w = which
  BY <1>2, <1>3, <1>9 DEF which
<1>14. /\ identity' \in [Pubkeys -> IdentityRows \cup {Null}]
       /\ identity'[a] # Null /\ identity'[a].user = u /\ identity'[a].active
       /\ \A b \in Pubkeys : b # a => identity'[b] = identity[b]
  <2>1. identity' = [identity EXCEPT ![a] = [user |-> u, active |-> TRUE, converted |-> TRUE]]
    BY <1>4, <1>13
  <2> QED
    BY <1>1, <2>1, ConvertedRow
<1>15. /\ links' \in [ProfileIds -> LinkRows \cup {Null}]
       /\ links'[u] # Null /\ links'[u].address = a
       /\ \A v \in ProfileIds : v # u => links'[v] = links[v]
  <2>1. LinkedTo(a) \subseteq {u} /\ links' = [links EXCEPT ![u] = [address |-> a, generation |-> i]]
    BY <1>4, <1>5, <1>13
  <2> QED
    BY <1>1, <2>1, LinkMade DEF SignInInv
<1>16. /\ users' \in [ProfileIds -> {"absent", "code", "disabled"}]
       /\ users'[u] = "disabled" /\ \A v \in ProfileIds : v # u => users'[v] = users[v]
  BY <1>1, <1>4, <1>13
<1>17. i \in DOMAIN challenges /\ ~challenges[i].used /\ challenges[i].address = a
  BY <1>2, <1>5, <1>13 DEF n
<1>18. z.user = u /\ z.ctx = c /\ z.proof = i /\ SessionOpened(sessions', w, z)
  BY <1>9, <1>11, <1>13
<1>19. /\ challenges' \in Seq(ChallengeRows) /\ Len(challenges') = Len(challenges)
       /\ ChallengesKept(challenges') /\ challenges'[i].used
  BY <1>12, <1>13
<1>20. /\ contexts[c] # Null /\ ~contexts[c].revoked
       /\ contexts' = [contexts EXCEPT ![c].active = Len(sessions')]
       /\ identity[a] # Null => identity[a].user = u /\ identity[a].active
       /\ ActiveOf(u) \subseteq {a} /\ LinkedTo(a) \subseteq {u}
       /\ links[u] # Null => links[u].address = a
  BY <1>4, <1>5, <1>13
<1>21. /\ \A s \in DOMAIN sessions : sessions[s].ctx = c => s \in w
       /\ \A s \in DOMAIN sessions : sessions[s].user = u => s \in w \/ Converted(u)
  BY <1>7, <1>8, <1>13
<1>22. VerifyWrites(i, c, u, a, w, z)
  BY <1>14, <1>15, <1>16, <1>17, <1>18, <1>19, <1>20, <1>21 DEF VerifyWrites
<1> QED
  BY <1>22

LEMMA VerifyCommitStep ==
  ASSUME SignInAssumption, SignInInv, NEW r \in Calls, VerifyCommit(r)
  PROVE  SignInInv'
<1>1. PICK i, c, u, a, which, x : VerifyWrites(i, c, u, a, which, x)
  BY VerifyCommitWrites
<1>2. Done(r) /\ UNCHANGED <<clock, required, audited>> /\ Len(sessions) < MaxSessions
  BY DEF VerifyCommit
<1>3. /\ sessions \in Seq(SessionRows) /\ contexts \in [Contexts -> ContextRows \cup {Null}]
      /\ Null \notin ContextRows
  BY DEF SignInInv, Tables, SignInAssumption
<1>4. InFlight'
  BY <1>1, <1>2, OneEnds DEF SignInInv, VerifyWrites
<1>5. Linked' /\ Proven' /\ Closed'
  BY <1>1, LinkedConverted, ProvenConverted, ClosedConverted DEF SignInInv
<1>6. Len(sessions') = Len(sessions) + 1 /\ sessions' \in Seq(SessionRows) /\ Len(sessions) \in Nat
  BY <1>1, <1>3 DEF VerifyWrites, SessionOpened
<1>7. c \in Contexts /\ contexts[c] # Null /\ ~contexts[c].revoked
  BY <1>1 DEF VerifyWrites
<1>8. PICK n \in Nat : n = Len(sessions')
  BY <1>6
<1>9. \A d \in Contexts : d # c => contexts'[d] = contexts[d]
  BY <1>1, <1>3 DEF VerifyWrites
<1>10. contexts'[c] \in ContextRows /\ ~contexts'[c].revoked /\ contexts'[c].active = Len(sessions) + 1
  <2>1. ASSUME NEW y \in ContextRows
        PROVE  /\ [y EXCEPT !.active = n] \in ContextRows /\ [y EXCEPT !.active = n].revoked = y.revoked
               /\ [y EXCEPT !.active = n].active = n
    BY DEF ContextRows
  <2>2. contexts'[c] = [contexts[c] EXCEPT !.active = n]
    BY <1>1, <1>3, <1>8 DEF VerifyWrites
  <2>3. contexts[c] \in ContextRows
    BY <1>3, <1>7
  <2> QED
    BY <1>6, <1>7, <1>8, <2>1, <2>2, <2>3
<1>11. contexts' \in [Contexts -> ContextRows \cup {Null}]
  <2>1. contexts' = [d \in Contexts |-> contexts'[d]]
    BY <1>1, <1>3 DEF VerifyWrites
  <2>2. \A d \in Contexts : contexts'[d] \in ContextRows \cup {Null}
    BY <1>3, <1>9, <1>10
  <2> QED
    BY <2>1, <2>2
<1>12. Tables'
  <2>1. Len(sessions') <= MaxSessions
    BY <1>2, <1>6 DEF SignInAssumption
  <2> QED
    BY <1>1, <1>2, <1>6, <1>11, <2>1 DEF SignInInv, Tables, VerifyWrites
<1>13. Held'
  <2>1. x.ctx = c /\ SessionOpened(sessions', which, x)
        /\ \A s \in DOMAIN sessions : sessions[s].ctx = c => s \in which
    BY <1>1 DEF VerifyWrites
  <2> QED
    BY <1>3, <1>7, <1>9, <1>10, <2>1, HeldOpened DEF SignInInv
<1> QED
  BY <1>4, <1>5, <1>12, <1>13 DEF SignInInv

------------------------------------------------------------------------------
\* The invariant.

LEMMA SignInInitially == SignInAssumption /\ SignInInit => SignInInv
<1> SUFFICES ASSUME SignInAssumption, SignInInit PROVE SignInInv
  OBVIOUS
<1>1. PICK g \in ProfileIds, a \in Pubkeys, before \in Befores :
       /\ users = [u \in ProfileIds |-> IF u = g /\ before # "new" THEN "code" ELSE "absent"]
       /\ identity = [x \in Pubkeys |-> IF x = a /\ before \in {"linked", "retired"}
            THEN [user |-> g, active |-> before = "linked", converted |-> FALSE] ELSE Null]
       /\ links = [u \in ProfileIds |-> IF u = g /\ before \in {"linked", "attached"}
            THEN [address |-> a, generation |-> 0] ELSE Null]
       /\ audited = IF before \in {"none", "new"} THEN {} ELSE {a}
       /\ sessions = IF before = "new" THEN <<>>
                      ELSE <<[user |-> g, ctx |-> Null, epoch |-> 0, expires |-> SessionLife,
                              live |-> TRUE, proof |-> 0]>>
  BY DEF SignInInit
<1>2. /\ clock = 0 /\ required \in Switches /\ contexts = [c \in Contexts |-> Null]
      /\ challenges = <<>> /\ call = [r \in Calls |-> NoCall]
  BY DEF SignInInit
<1> DEFINE e == [user |-> g, active |-> before = "linked", converted |-> FALSE]
           l == [address |-> a, generation |-> 0]
           s1 == [user |-> g, ctx |-> Null, epoch |-> 0, expires |-> SessionLife, live |-> TRUE, proof |-> 0]
<1>3. e \in IdentityRows /\ e.user = g /\ (e.active <=> before = "linked") /\ ~e.converted
  BY DEF IdentityRows
<1>4. l \in LinkRows /\ l.address = a
  BY DEF LinkRows
<1>5. s1 \in SessionRows /\ s1.ctx = Null /\ s1.proof = 0
  BY DEF SessionRows, SignInAssumption
<1> HIDE DEF e, l, s1
<1>6. /\ identity = [x \in Pubkeys |-> IF x = a /\ before \in {"linked", "retired"} THEN e ELSE Null]
      /\ links = [u \in ProfileIds |-> IF u = g /\ before \in {"linked", "attached"} THEN l ELSE Null]
      /\ sessions = IF before = "new" THEN <<>> ELSE <<s1>>
  BY <1>1 DEF e, l, s1
<1>7. sessions \in Seq(SessionRows) /\ Len(sessions) <= MaxSessions
      /\ \A s \in DOMAIN sessions : sessions[s] = s1
  BY <1>5, <1>6 DEF SignInAssumption
<1>8. challenges \in Seq(ChallengeRows) /\ Len(challenges) <= MaxChallenges
  BY <1>2 DEF SignInAssumption
<1>9. Tables
  <2>1. clock \in 0..MaxClock /\ required \in BOOLEAN
    BY <1>2 DEF SignInAssumption
  <2>2. users \in [ProfileIds -> {"absent", "code", "disabled"}] /\ audited \subseteq Pubkeys
    BY <1>1
  <2>3. identity \in [Pubkeys -> IdentityRows \cup {Null}]
    BY <1>3, <1>6
  <2>4. links \in [ProfileIds -> LinkRows \cup {Null}]
    BY <1>4, <1>6
  <2>5. contexts \in [Contexts -> ContextRows \cup {Null}]
    BY <1>2
  <2> QED
    BY <1>7, <1>8, <2>1, <2>2, <2>3, <2>4, <2>5 DEF Tables
<1>10. InFlight
  BY <1>2, IdleHand DEF InFlight
<1>11. Linked
  BY <1>3, <1>4, <1>6 DEF Linked, SignInAssumption
<1>12. Proven /\ Held
  BY <1>5, <1>7 DEF Proven, Held
<1>13. Closed
  BY <1>3, <1>6 DEF Closed, Converted
<1> QED
  BY <1>9, <1>10, <1>11, <1>12, <1>13 DEF SignInInv

LEMMA SignInStep == SignInAssumption /\ SignInInv /\ [SignInNext]_signinvars => SignInInv'
<1> SUFFICES ASSUME SignInAssumption, SignInInv, [SignInNext]_signinvars PROVE SignInInv'
  OBVIOUS
<1>1. CASE UNCHANGED signinvars
  <2>1. InFlight'
    BY <1>1, SameChallenges, NoneGoesOn DEF SignInInv, Tables, signinvars
  <2>2. Tables' /\ Linked' /\ Proven' /\ Closed' /\ Held'
    BY <1>1 DEF SignInInv, Tables, Linked, Proven, Closed, Converted, Held, signinvars
  <2> QED
    BY <2>1, <2>2 DEF SignInInv
<1>2. CASE ClockTick
  BY <1>2, TickStep
<1>3. CASE \E c \in Contexts : NewContext(c)
  BY <1>3, NewContextStep
<1>4. CASE \E u \in ProfileIds : Register(u) \/ \E a \in Pubkeys : LinkChallenge(u, a)
  BY <1>4, RegisterStep, LinkChallengeStep
<1>5. ASSUME NEW r \in Calls,
             \/ RecoverCommit(r) \/ LogoutCommit(r) \/ ChallengeCommit(r) \/ VerifyCommit(r)
             \/ LinkCommit(r) \/ UnlinkCommit(r)
      PROVE  SignInInv'
  BY <1>5, RecoverCommitStep, LogoutCommitStep, ChallengeCommitStep, VerifyCommitStep, LinkCommitStep,
     UnlinkCommitStep
<1>6. ASSUME NEW r \in Calls,
             \/ Refused(r) \/ VerifyAgain(r) \/ VerifyCreated(r) \/ LinkAgain(r) \/ UnlinkRead(r)
             \/ \E u \in ProfileIds : \/ ChallengeRead(r, u) \/ UnlinkBegin(r, u)
                                      \/ \E c \in Contexts : RecoverBegin(r, c, u)
             \/ \E c \in Contexts, s \in Cookies :
                  \/ LogoutBegin(r, s, c)
                  \/ \E a \in Pubkeys, mode \in {"login", "migrate"} : ChallengeBegin(r, c, s, a, mode)
                  \/ \E i \in DOMAIN challenges : VerifyBegin(r, c, i, s)
             \/ \E i \in DOMAIN challenges : LinkBegin(r, i)
      PROVE  SignInInv'
  BY <1>6, ReadSteps
<1> QED
  BY <1>1, <1>2, <1>3, <1>4, <1>5, <1>6 DEF SignInNext

\* SignInInv is an invariant, whatever requests interleave (every batch of
\* auth.rs, wallet_login.rs and wallets.rs keeps it).
THEOREM WaysInInvariant == SignInAssumption /\ SignInSpec => []SignInInv
<1> SUFFICES ASSUME SignInAssumption PROVE SignInSpec => []SignInInv
  OBVIOUS
<1>1. SignInInit => SignInInv
  BY SignInInitially
<1>2. SignInInv /\ [SignInNext]_signinvars => SignInInv'
  BY SignInStep
<1> QED
  BY <1>1, <1>2, PTL DEF SignInSpec

LEMMA TypesFollow == SignInAssumption /\ SignInInv => SignInTypeOK
<1> SUFFICES ASSUME SignInAssumption, SignInInv PROVE SignInTypeOK
  OBVIOUS
<1>1. \A u \in ProfileIds : Cardinality(ActiveOf(u)) <= 1
  <2>1. ASSUME NEW u \in ProfileIds PROVE Cardinality(ActiveOf(u)) <= 1
    <3>1. \A a \in ActiveOf(u) : a = links[u].address
      BY DEF ActiveOf, SignInInv, Linked
    <3>2. ActiveOf(u) = {} \/ ActiveOf(u) = {links[u].address}
      BY <3>1
    <3>3. Cardinality({}) = 0 /\ Cardinality({links[u].address}) = 1
      BY FS_EmptySet, FS_Singleton
    <3>4. CASE ActiveOf(u) = {}
      BY <3>3, <3>4
    <3>5. CASE ActiveOf(u) = {links[u].address}
      BY <3>3, <3>5
    <3> QED
      BY <3>2, <3>4, <3>5
  <2> QED
    BY <2>1
<1>2. \A a \in Pubkeys : identity[a] # Null => identity[a].user \in ProfileIds
  BY DEF SignInInv, Tables, IdentityRows
<1> QED
  BY <1>1, <1>2 DEF SignInInv, Tables, Linked, SignInTypeOK

\* Once a wallet converted a profile it is the only way in: no recovery code is
\* left, and no session that a code or a registration opened authenticates,
\* whatever recovery, sign-up or link was under way at the conversion
\* (finish_batch in wallet_login.rs against auth.rs's recover and register).
THEOREM OnlyByWallet == SignInAssumption /\ SignInSpec => []ConvertedOnlyByWallet
<1> SUFFICES ASSUME SignInAssumption PROVE SignInSpec => []ConvertedOnlyByWallet
  OBVIOUS
<1>1. SignInInv => ConvertedOnlyByWallet
  BY DEF SignInInv, Closed, ConvertedOnlyByWallet, Authenticates
<1> QED
  BY <1>1, WaysInInvariant, PTL

\* One signed challenge opens one session, every session a wallet's proofs
\* opened is of one profile, its active identity is that profile's link, and a
\* cancelled context stays out; the tables keep their types besides.
THEOREM OneProfileEach == SignInAssumption /\ SignInSpec => [](SignInTypeOK /\ SignInHolds)
<1> SUFFICES ASSUME SignInAssumption PROVE SignInSpec => [](SignInTypeOK /\ SignInHolds)
  OBVIOUS
<1>1. SignInInv => ConvertedOnlyByWallet
  BY DEF SignInInv, Closed, ConvertedOnlyByWallet, Authenticates
<1>2. SignInInv => OneProfilePerWallet
  BY DEF SignInInv, Proven, Linked, OneProfilePerWallet
<1>3. SignInInv => CancelledStaysOut
  BY DEF SignInInv, Held, CancelledStaysOut
<1>4. SignInInv => SignInTypeOK /\ SignInHolds
  BY <1>1, <1>2, <1>3, TypesFollow DEF SignInHolds
<1> QED
  BY <1>4, WaysInInvariant, PTL

------------------------------------------------------------------------------
(***************************************************************************)
(* The Seeker badge.  A row's revision counts its writes, so a refresh     *)
(* that finds the revision it read finds the row it read, which is of      *)
(* evidence no younger than its own lookup, made later.                    *)
(***************************************************************************)
SeekerTypes ==
  /\ holder \in [Mints -> Owners] /\ skr \in [Owners -> Balances] /\ moves \in Nat
  /\ current \in [Profiles -> Owners \cup {None}]
  /\ row \in [Profiles -> EvidenceRows \cup {None}]

\* Evidence is of what has happened.
Past == \A u \in Profiles : row[u] # None => row[u].seen <= moves

\* A request has the row as it read it, or one that was overwritten since.
AsRead(q) ==
  q.previous # None =>
    /\ q.previous \in EvidenceRows /\ q.previous.seen <= moves /\ row[q.user] # None
    /\ q.previous.revision <= row[q.user].revision
    /\ q.previous.revision = row[q.user].revision => q.previous = row[q.user]

\* The lookup came after that read.
LookedUp(q) ==
  /\ q.seen \in Nat /\ q.seen <= moves /\ q.skr \in Balances /\ q.mint \in Mints \cup {None}
  /\ q.previous # None => q.previous.seen <= q.seen

Refreshing(q) ==
  q.pc # "idle" =>
    /\ q.user \in Profiles /\ q.address \in Owners /\ AsRead(q)
    /\ q.pc \in {"answered", "claim"} => LookedUp(q)
    /\ q.pc = "claim" => q.mint \in Mints

Badges ==
  /\ SeekerTypes /\ Past
  /\ refresh = [r \in Refreshes |-> refresh[r]] /\ \A r \in Refreshes : Refreshing(refresh[r])

\* One request goes on with q, the others as they were.
LEMMA RefreshMoves ==
  ASSUME Badges, NEW r \in Refreshes, NEW q, refresh' = [refresh EXCEPT ![r] = q],
         Refreshing(q), UNCHANGED <<world, row>>
  PROVE  Badges' /\ NoOlder
<1>1. refresh' = [x \in Refreshes |-> refresh'[x]]
  BY DEF Badges
<1>2. ASSUME NEW x \in Refreshes PROVE Refreshing(refresh[x])'
  <2>1. refresh'[x] = q \/ (refresh'[x] = refresh[x] /\ Refreshing(refresh[x]))
    BY DEF Badges
  <2> QED
    BY <2>1 DEF Refreshing, AsRead, LookedUp, world
<1>3. SeekerTypes' /\ Past'
  BY DEF Badges, SeekerTypes, Past, world
<1>4. NoOlder
  BY DEF NoOlder
<1> QED
  BY <1>1, <1>2, <1>3, <1>4 DEF Badges

\* The world moves, the rows and the requests stay.
LEMMA WorldMoves ==
  ASSUME Badges, UNCHANGED <<row, refresh>>, moves' \in Nat, moves <= moves',
         holder' \in [Mints -> Owners], current' \in [Profiles -> Owners \cup {None}], skr' = skr
  PROVE  Badges' /\ NoOlder
<1>1. SeekerTypes'
  BY DEF Badges, SeekerTypes
<1>2. moves \in Nat /\ \A x \in EvidenceRows : x.seen \in Nat
  BY DEF Badges, SeekerTypes, EvidenceRows
<1>3. Past'
  BY <1>2 DEF Badges, SeekerTypes, Past
<1>4. ASSUME NEW x \in Refreshes PROVE Refreshing(refresh[x])'
  <2>1. Refreshing(refresh[x])
    BY DEF Badges
  <2>2. AsRead(refresh[x]) => AsRead(refresh[x])'
    BY <1>2 DEF AsRead
  <2>3. LookedUp(refresh[x]) => LookedUp(refresh[x])'
    BY <1>2 DEF LookedUp
  <2> QED
    BY <2>1, <2>2, <2>3 DEF Refreshing
<1>5. NoOlder
  BY DEF NoOlder
<1> QED
  BY <1>1, <1>3, <1>4, <1>5 DEF Badges

\* A write under the revision that was read, of evidence no older than it.
LEMMA RowWritten ==
  ASSUME SeekerAssumption, Badges, NEW r \in Refreshes, refresh[r].pc # "idle",
         LookedUp(refresh[r]), NEW x \in EvidenceRows,
         x.seen = refresh[r].seen,
         x.revision = Revision(row[refresh[r].user]) + 1,
         row[refresh[r].user] # None =>
           row[refresh[r].user].revision = Revision(refresh[r].previous),
         row' = [row EXCEPT ![refresh[r].user] = x],
         refresh' = [refresh EXCEPT ![r] = NoRefresh], UNCHANGED world
  PROVE  Badges' /\ NoOlder
<1> DEFINE q == refresh[r]
<1>1. Refreshing(q) /\ q.user \in Profiles /\ AsRead(q)
  BY DEF Badges, Refreshing
<1>2. /\ row \in [Profiles -> EvidenceRows \cup {None}] /\ moves' = moves /\ moves \in Nat
      /\ \A y \in EvidenceRows : y.seen \in Nat /\ y.revision \in Nat
      /\ None \notin EvidenceRows
  BY DEF Badges, SeekerTypes, world, SeekerAssumption, EvidenceRows
<1>3. \A u \in Profiles : row'[u] = IF u = q.user THEN x ELSE row[u]
  BY <1>1, <1>2
<1>4. row[q.user] # None => row[q.user] \in EvidenceRows /\ row[q.user] = q.previous
  <2> SUFFICES ASSUME row[q.user] # None
               PROVE  row[q.user] \in EvidenceRows /\ row[q.user] = q.previous
    OBVIOUS
  <2>1. row[q.user] \in EvidenceRows /\ row[q.user].revision \in Nat
    BY <1>1, <1>2
  <2>2. row[q.user].revision = Revision(q.previous)
    OBVIOUS
  <2>3. q.previous # None
    BY <2>1, <2>2 DEF Revision
  <2>4. q.previous.revision = row[q.user].revision
    BY <2>2, <2>3 DEF Revision
  <2> QED
    BY <1>1, <2>1, <2>3, <2>4 DEF AsRead
<1>5. /\ row[q.user] # None => x.seen >= row[q.user].seen /\ x.revision = row[q.user].revision + 1
      /\ x.revision > Revision(row[q.user])
  <2>1. CASE row[q.user] = None
    BY <2>1 DEF Revision
  <2>2. CASE row[q.user] # None
    <3>1. q.previous # None /\ q.previous.seen <= q.seen /\ row[q.user] = q.previous
      BY <1>4, <2>2 DEF LookedUp
    <3>2. x.revision = row[q.user].revision + 1
      BY <2>2 DEF Revision
    <3>3. row[q.user].revision \in Nat /\ row[q.user].seen \in Nat /\ x.seen \in Nat
      BY <1>2, <1>4, <2>2
    <3> QED
      BY <2>2, <3>1, <3>2, <3>3 DEF Revision
  <2> QED
    BY <2>1, <2>2
<1>6. NoOlder
  BY <1>3, <1>5 DEF NoOlder
<1>7. SeekerTypes' /\ Past'
  BY <1>1, <1>2, <1>3 DEF Badges, SeekerTypes, Past, world, LookedUp
<1>8. \A y \in Refreshes : refresh'[y] = IF y = r THEN NoRefresh ELSE refresh[y]
  BY DEF Badges
<1>9. ASSUME NEW y \in Refreshes PROVE Refreshing(refresh[y])'
  <2>1. CASE y = r
    BY <1>8, <2>1 DEF Refreshing, NoRefresh
  <2>2. CASE y # r
    <3>1. refresh'[y] = refresh[y] /\ Refreshing(refresh[y])
      BY <1>8, <2>2 DEF Badges
    <3>2. ASSUME AsRead(refresh[y]), refresh[y].user \in Profiles PROVE AsRead(refresh[y])'
      <4>1. CASE refresh[y].user # q.user \/ refresh[y].previous = None
        BY <1>2, <1>3, <3>1, <3>2, <4>1 DEF AsRead
      <4>2. CASE refresh[y].user = q.user /\ refresh[y].previous # None
        <5>1. row[q.user] # None /\ refresh[y].previous.revision <= row[q.user].revision
              /\ refresh[y].previous \in EvidenceRows /\ refresh[y].previous.seen <= moves
          BY <3>2, <4>2 DEF AsRead
        <5>2. x.revision = row[q.user].revision + 1 /\ row[q.user].revision \in Nat
              /\ refresh[y].previous.revision \in Nat
          BY <1>2, <1>4, <1>5, <5>1
        <5>3. row'[refresh[y].user] = x /\ x # None
          BY <1>2, <1>3, <3>2, <4>2
        <5> QED
          BY <1>2, <3>1, <5>1, <5>2, <5>3 DEF AsRead
      <4> QED
        BY <4>1, <4>2
    <3>3. LookedUp(refresh[y]) => LookedUp(refresh[y])'
      BY <1>2, <3>1 DEF LookedUp
    <3> QED
      BY <3>1, <3>2, <3>3 DEF Refreshing
  <2> QED
    BY <2>1, <2>2
<1>10. refresh' = [y \in Refreshes |-> refresh'[y]]
  BY DEF Badges
<1> QED
  BY <1>6, <1>7, <1>9, <1>10 DEF Badges

LEMMA LookupStep ==
  ASSUME Badges, NEW r \in Refreshes, Lookup(r)
  PROVE  Badges' /\ NoOlder
<1> DEFINE q == refresh[r]
<1>1. PICK m \in Mints \cup {None} : refresh' = [refresh EXCEPT ![r] =
         [pc |-> "answered", user |-> q.user, address |-> q.address, previous |-> q.previous,
          mint |-> m, skr |-> skr[q.address], seen |-> moves]]
  BY DEF Lookup
<1> DEFINE p == [pc |-> "answered", user |-> q.user, address |-> q.address,
                 previous |-> q.previous, mint |-> m, skr |-> skr[q.address], seen |-> moves]
<1>2. q.pc = "asked" /\ Refreshing(q) /\ UNCHANGED <<world, row>>
  BY DEF Lookup, Badges
<1>3. AsRead(q) /\ q.user \in Profiles /\ q.address \in Owners
  BY <1>2 DEF Refreshing
<1>4. AsRead(p)
  BY <1>3 DEF AsRead
<1>5. LookedUp(p)
  BY <1>3 DEF LookedUp, Badges, SeekerTypes, AsRead
<1>6. Refreshing(p)
  BY <1>3, <1>4, <1>5 DEF Refreshing
<1> QED
  BY <1>1, <1>2, <1>6, RefreshMoves

LEMMA InvalidatedRow ==
  ASSUME NEW x \in EvidenceRows, NEW n \in Nat
  PROVE  /\ Invalidated(x, n) \in EvidenceRows /\ Invalidated(x, n).seen = n
         /\ Invalidated(x, n).revision = x.revision + 1
BY DEF Invalidated, EvidenceRows

LEMMA InvalidateStep ==
  ASSUME SeekerAssumption, Badges, NEW r \in Refreshes, Invalidate(r)
  PROVE  Badges' /\ NoOlder
<1> DEFINE q == refresh[r]
           x == Invalidated(row[q.user], q.seen)
<1>1. /\ q.pc = "answered" /\ MayInvalidate(q) /\ refresh' = [refresh EXCEPT ![r] = NoRefresh]
      /\ row' = [row EXCEPT ![q.user] = x] /\ UNCHANGED world
  BY DEF Invalidate
<1>2. LookedUp(q) /\ q.user \in Profiles
  BY <1>1 DEF Badges, Refreshing
<1>3. /\ row[q.user] # None /\ row[q.user] \in EvidenceRows
      /\ row[q.user].revision = Revision(q.previous)
  BY <1>1, <1>2 DEF MayInvalidate, Badges, SeekerTypes
<1>4. x \in EvidenceRows /\ x.seen = q.seen /\ x.revision = Revision(row[q.user]) + 1
  BY <1>2, <1>3, InvalidatedRow DEF Revision, LookedUp
<1>5. q.pc # "idle"
  BY <1>1
<1> QED
  BY <1>1, <1>2, <1>3, <1>4, <1>5, RowWritten

LEMMA WriteStep ==
  ASSUME SeekerAssumption, Badges, NEW r \in Refreshes, Write(r)
  PROVE  Badges' /\ NoOlder
<1> DEFINE q == refresh[r]
           x == [address |-> q.address, mint |-> q.mint, skr |-> AsText(q.skr), valid |-> TRUE,
                 seen |-> q.seen, revision |-> Revision(row[q.user]) + 1]
<1>1. /\ q.pc = "claim" /\ MayWrite(q) /\ row' = [row EXCEPT ![q.user] = x]
      /\ refresh' = [refresh EXCEPT ![r] = NoRefresh] /\ UNCHANGED world
  BY DEF Write
<1>2. LookedUp(q) /\ q.user \in Profiles /\ q.address \in Owners /\ q.mint \in Mints
  BY <1>1 DEF Badges, Refreshing
<1>3. row[q.user] \in EvidenceRows \cup {None}
  BY <1>2 DEF Badges, SeekerTypes
<1>4. Revision(row[q.user]) + 1 \in Nat
  BY <1>3 DEF Revision, EvidenceRows
<1>5. AsText(q.skr) \in [kind : {"text"}, value : Balances]
  BY <1>2 DEF AsText, LookedUp
<1>6. x \in EvidenceRows /\ x.seen = q.seen /\ x.revision = Revision(row[q.user]) + 1
  BY <1>2, <1>4, <1>5 DEF EvidenceRows, LookedUp
<1>7. row[q.user] # None => row[q.user].revision = Revision(q.previous)
  BY <1>1 DEF MayWrite
<1>8. q.pc # "idle"
  BY <1>1
<1> QED
  BY <1>1, <1>2, <1>6, <1>7, <1>8, RowWritten

LEMMA BadgesInitially == SeekerInit => Badges
<1> SUFFICES ASSUME SeekerInit PROVE Badges
  OBVIOUS
<1>1. SeekerTypes /\ Past
  BY DEF SeekerInit, SeekerTypes, Past
<1>2. \A r \in Refreshes : Refreshing(refresh[r])
  BY DEF SeekerInit, Refreshing, NoRefresh
<1>3. refresh = [r \in Refreshes |-> refresh[r]]
  BY DEF SeekerInit
<1> QED
  BY <1>1, <1>2, <1>3 DEF Badges

LEMMA BadgesStep ==
  SeekerAssumption /\ Badges /\ [SeekerNext]_seekervars => Badges' /\ [NoOlder]_seekervars
<1> SUFFICES ASSUME SeekerAssumption, Badges, [SeekerNext]_seekervars
             PROVE  Badges' /\ [NoOlder]_seekervars
  OBVIOUS
<1>1. CASE UNCHANGED seekervars
  BY <1>1 DEF seekervars, Badges, SeekerTypes, Past, Refreshing, AsRead, LookedUp
<1>2. ASSUME NEW m \in Mints, NEW a \in Owners, Transfer(m, a) PROVE Badges' /\ NoOlder
  <2>1. holder' \in [Mints -> Owners] /\ moves' \in Nat /\ moves <= moves'
        /\ UNCHANGED <<skr, current, row, refresh>>
    BY <1>2 DEF Transfer, Badges, SeekerTypes
  <2>2. current' \in [Profiles -> Owners \cup {None}]
    BY <2>1 DEF Badges, SeekerTypes
  <2> QED
    BY <2>1, <2>2, WorldMoves
<1>3. ASSUME NEW u \in Profiles, NEW a \in Owners \cup {None}, Relink(u, a)
      PROVE  Badges' /\ NoOlder
  <2>1. current' \in [Profiles -> Owners \cup {None}] /\ UNCHANGED <<holder, skr, moves, row, refresh>>
    BY <1>3 DEF Relink, Badges, SeekerTypes
  <2>2. holder' \in [Mints -> Owners] /\ moves' \in Nat /\ moves <= moves'
    BY <2>1 DEF Badges, SeekerTypes
  <2> QED
    BY <2>1, <2>2, WorldMoves
<1>4. ASSUME NEW r \in Refreshes, NEW u \in Profiles, Ask(r, u) PROVE Badges' /\ NoOlder
  <2> DEFINE p == [pc |-> "asked", user |-> u, address |-> current[u], previous |-> row[u]]
  <2>1. current[u] \in Owners /\ row[u] \in EvidenceRows \cup {None}
    BY <1>4 DEF Ask, Badges, SeekerTypes
  <2>2. AsRead(p)
    BY <2>1 DEF AsRead, Badges, Past, EvidenceRows
  <2>3. Refreshing(p)
    BY <2>1, <2>2 DEF Refreshing
  <2> QED
    BY <1>4, <2>3, RefreshMoves DEF Ask
<1>5. ASSUME NEW r \in Refreshes, GiveUp(r) PROVE Badges' /\ NoOlder
  <2>1. Refreshing(NoRefresh)
    BY DEF Refreshing, NoRefresh
  <2> QED
    BY <1>5, <2>1, RefreshMoves DEF GiveUp
<1>6. ASSUME NEW r \in Refreshes, Claim(r) PROVE Badges' /\ NoOlder
  <2> DEFINE q == refresh[r]  p == [q EXCEPT !.pc = "claim"]
  <2>1. Refreshing(q) /\ q.pc = "answered" /\ q.mint # None
    BY <1>6 DEF Claim, Badges
  <2>2. AsRead(q) /\ LookedUp(q) /\ q.user \in Profiles /\ q.address \in Owners
    BY <2>1 DEF Refreshing
  <2>3. /\ p.user = q.user /\ p.address = q.address /\ p.previous = q.previous
        /\ p.seen = q.seen /\ p.skr = q.skr /\ p.mint = q.mint
    OBVIOUS
  <2>4. AsRead(p) /\ LookedUp(p)
    BY <2>2, <2>3 DEF AsRead, LookedUp
  <2>5. Refreshing(p)
    BY <2>1, <2>2, <2>3, <2>4 DEF Refreshing, LookedUp
  <2> QED
    BY <1>6, <2>5, RefreshMoves DEF Claim
<1>7. CASE SeekerNext
  BY <1>2, <1>3, <1>4, <1>5, <1>6, <1>7, LookupStep, InvalidateStep, WriteStep DEF SeekerNext
<1> QED
  BY <1>1, <1>7

\* What a refresh has read is still the row, or has been written over under a
\* higher revision, whoever else refreshes, links or transfers meanwhile.
THEOREM BadgesInvariant == SeekerAssumption /\ SeekerSpec => []Badges
<1> SUFFICES ASSUME SeekerAssumption PROVE SeekerSpec => []Badges
  OBVIOUS
<1>1. Badges /\ [SeekerNext]_seekervars => Badges'
  BY BadgesStep
<1> QED
  BY <1>1, BadgesInitially, PTL DEF SeekerSpec

\* A stored row goes on to evidence that is no older, one revision at a time,
\* for any number of overlapping refreshes of any number of profiles (verify's
\* conditional insert and invalidation in seeker.rs).
THEOREM NeverOlderEvidence == SeekerAssumption /\ SeekerSpec => EvidenceNeverOlder
<1> SUFFICES ASSUME SeekerAssumption PROVE SeekerSpec => EvidenceNeverOlder
  OBVIOUS
<1>1. Badges /\ [SeekerNext]_seekervars => [NoOlder]_seekervars
  BY BadgesStep
<1> QED
  BY <1>1, BadgesInvariant, PTL DEF SeekerSpec, EvidenceNeverOlder
==============================================================================
