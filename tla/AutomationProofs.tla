-------------------------- MODULE AutomationProofs ---------------------------
(***************************************************************************)
(* What the source watch has found stays held until it is dismissed, for   *)
(* any number of passes, articles and contents, whatever overlaps, crashes *)
(* or is tried again, and however long a pass outlives its lease.          *)
(*                                                                         *)
(* Nothing is asked of leases: a pass that was overtaken may do all it     *)
(* likes.  A content is armed only under a hold, or again by the request   *)
(* that armed it before (KeysArmed), its row is queued before that and     *)
(* never removed (Preserved), and a release looks at every row once more.  *)
(*                                                                         *)
(* The workflows that judge what a watch finds follow: who is asked is     *)
(* settled when a call is made, and what a result may rest on when it ends.*)
(* The risk feed comes last: what a tick signs, and what it may overwrite. *)
(***************************************************************************)
EXTENDS SourceWatch, Judging, RiskFeed, FiniteSetTheorems, WellFoundedInduction, TLAPS

Stages == {"hold", "take", "ask", "store", "owned", "accept", "dismiss", "release", "complete"}
Asked == {"ask", "store", "owned", "accept", "dismiss", "release", "complete"}

Passes ==
  [pc : {"idle", "known", "fetch", "polled", "queue", "claim"} \cup Stages, s : Sources \cup {Nil},
   a : Articles \cup {Nil}, c : Contents \cup {Nil}, report : BOOLEAN, rev : Nat, tries : Nat,
   result : Rulings \cup {Nil}]

\* What a pass has in hand exists, and was observed.
Carried(p) ==
  /\ p.pc = "idle" => p = NoPass
  /\ p.pc \in {"fetch", "polled", "queue"} => p.s # Nil
  /\ p.s # Nil => source[p.s] # Nil
  /\ p.report => p.s \in Articles
  /\ p.pc \in {"queue", "claim", "hold", "take"} \/ (p.pc = "polled" /\ p.report) =>
       <<p.a, p.c>> \in seen
  /\ p.pc \in {"claim"} \cup Stages => p.c \in Contents /\ review[p.c] # Nil
  /\ p.pc \in {"claim"} \cup Asked => p.s = Nil

\* A pass reviews under its lease: s is Nil, and the row bears its token.
Holds(w) == watcher[w].pc \in Stages /\ watcher[w].s = Nil /\ Owns(w)

\* Whose row it is, that pass's attempt is counted.
Counted(w) == Holds(w) => review[watcher[w].c].attempts >= 1

Types ==
  /\ forecast \in {"OPEN", "LOCKED", "FINAL"} /\ page \in [Articles -> Contents] /\ links \subseteq Articles
  /\ source \in [Sources -> SourceRows \cup {Nil}]
  /\ review \in [Contents -> ReviewRows \cup {Nil}]
  /\ watcher \in [Watchers -> Passes]
  /\ bound \in BOOLEAN /\ hold \in [rev : Nat, by : {Nil, "watch", "operator"}]
  /\ seen \subseteq Observations /\ budget \in 0..Budget
  /\ armed \subseteq Contents /\ cleared \subseteq Contents

Noticed == \A c \in Contents : review[c] # Nil => <<review[c].a, c>> \in seen
Preserved == \A c \in armed : review[c] # Nil

\* What a hold was taken for is armed.
KeysArmed == \A k \in keys : k[1][1] = "source-watch" => k[1][3] \in armed

WatchInv ==
  /\ Types /\ Noticed /\ Preserved /\ KeysArmed
  /\ \A w \in Watchers : Carried(watcher[w]) /\ Counted(w)
  /\ FoundStaysHeld

-----------------------------------------------------------------------------
(***************************************************************************)
(* Lemmas                                                                  *)
(***************************************************************************)
\* The idle pass, and what Nil is not.
LEMMA IdlePass ==
  /\ NoPass.pc = "idle" /\ NoPass.s = Nil /\ NoPass.a = Nil /\ NoPass.c = Nil
  /\ NoPass.report = FALSE /\ NoPass.rev = 0 /\ NoPass.tries = 0 /\ NoPass.result = Nil
  /\ NoPass \in Passes /\ Carried(NoPass)
BY DEF NoPass, Passes, Carried, Stages, Asked

\* What the invariant says of one pass.
LEMMA AtWork ==
  ASSUME WatchInv, NEW w \in Watchers
  PROVE  /\ watcher[w] \in Passes /\ Carried(watcher[w]) /\ Counted(w)
         /\ watcher \in [Watchers -> Passes]
BY DEF WatchInv, Types

\* A step of another gives no pass a row, and counts none of its attempts off.
LeaseKept(v) ==
  LET old == review[watcher[v].c]
      new == review'[watcher[v].c]
  IN  new.token = v => old.token = v /\ new.attempts = old.attempts

LEMMA OtherPasses ==
  ASSUME WatchInv, NEW v \in Watchers, watcher'[v] = watcher[v],
         \A s \in Sources : source[s] # Nil => source'[s] # Nil,
         \A c \in Contents : review[c] # Nil => review'[c] # Nil,
         seen \subseteq seen',
         watcher[v].pc \in Stages => LeaseKept(v)
  PROVE  Carried(watcher[v])' /\ Counted(v)'
<1>1. watcher[v] \in Passes /\ Carried(watcher[v]) /\ Counted(v)
  BY AtWork
<1>2. Carried(watcher[v])'
  BY <1>1 DEF Carried, Passes
<1>3. Counted(v)'
  BY <1>1 DEF Counted, Holds, Owns, LeaseKept
<1> QED BY <1>2, <1>3

\* A pass moves on while the rows rest: only the pass itself is to be looked at.
LEMMA PassMoves ==
  ASSUME WatchInv, NEW w \in Watchers, NEW p \in Passes,
         watcher' = [watcher EXCEPT ![w] = p],
         UNCHANGED <<page, links, source, review, hold, seen, armed, cleared, keys, overridden>>,
         forecast' \in {forecast, "LOCKED"}, bound' \in BOOLEAN, budget' \in 0..Budget,
         Carried(p), Counted(w)'
  PROVE  WatchInv'
<1>1. Types'
  BY DEF WatchInv, Types
<1>2. Noticed' /\ Preserved' /\ KeysArmed' /\ FoundStaysHeld'
  BY DEF WatchInv, Noticed, Preserved, KeysArmed, FoundStaysHeld
<1>3. ASSUME NEW v \in Watchers PROVE Carried(watcher[v])' /\ Counted(v)'
  <2>1. CASE v = w
    BY <2>1 DEF WatchInv, Types, Carried
  <2>2. CASE v # w
    <3>1. watcher'[v] = watcher[v]
      BY <2>2 DEF WatchInv, Types
    <3> QED BY <3>1, OtherPasses DEF LeaseKept
  <2> QED BY <2>1, <2>2
<1> QED BY <1>1, <1>2, <1>3 DEF WatchInv

\* A pass that ends, or polls, reviews nothing.
LEMMA NotReviewing ==
  ASSUME WatchInv, NEW w \in Watchers, NEW p \in Passes,
         watcher' = [watcher EXCEPT ![w] = p],
         p.pc \in {"idle", "known", "fetch", "polled", "queue"} \/ (p.pc \in Stages /\ p.s # Nil)
  PROVE  Counted(w)'
<1>1. watcher'[w] = p
  BY DEF WatchInv, Types
<1> QED BY <1>1 DEF Counted, Holds, Stages

-----------------------------------------------------------------------------
(***************************************************************************)
(* Steps that leave the rows of the watch alone                            *)
(***************************************************************************)
LEMMA EndsStep ==
  ASSUME WatchInv, NEW w \in Watchers, Stop(w),
         UNCHANGED <<page, links, source, review, hold, seen, armed, cleared, keys, overridden, forecast, bound, budget>>
  PROVE  WatchInv'
<1>1. watcher' = [watcher EXCEPT ![w] = NoPass]
  BY DEF Stop
<1>2. Counted(w)'
  BY <1>1, IdlePass, NotReviewing
<1> QED BY <1>1, <1>2, IdlePass, PassMoves DEF WatchInv, Types

LEMMA BootstrapStep ==
  ASSUME WatchInv, NEW w \in Watchers, Bootstrap(w) PROVE WatchInv'
<1> DEFINE p == [watcher[w] EXCEPT !.pc = "known"]
<1>1. watcher[w] = NoPass
  BY AtWork DEF Bootstrap, At, Carried
<1>2. p \in Passes /\ p.pc = "known" /\ p.s = Nil /\ p.report = FALSE
  BY <1>1, IdlePass DEF Passes
<1>3. watcher' = [watcher EXCEPT ![w] = p]
  BY AtWork DEF Bootstrap
<1>4. Carried(p)
  BY <1>2 DEF Carried, Stages, Asked
<1> HIDE DEF p
<1>5. Counted(w)'
  BY <1>2, <1>3, NotReviewing
<1> QED BY <1>2, <1>3, <1>4, <1>5, PassMoves DEF Bootstrap, WatchInv, Types, world, history

LEMMA SelectReviewStep ==
  ASSUME WatchInv, NEW w \in Watchers, NEW c \in Contents, SelectReview(w, c) PROVE WatchInv'
<1> DEFINE p == [watcher[w] EXCEPT !.pc = "claim", !.c = c, !.a = review[c].a,
                   !.tries = review[c].attempts, !.result = review[c].result]
<1>1. watcher[w] = NoPass
  BY AtWork DEF SelectReview, At, Carried
<1>2. review[c] # Nil /\ review[c] \in ReviewRows
  BY DEF SelectReview, OpenReview, WatchInv, Types
<1>3. /\ p \in Passes /\ p.pc = "claim" /\ p.s = Nil /\ p.report = FALSE
      /\ p.c = c /\ p.a = review[c].a /\ p.result = review[c].result
  BY <1>1, <1>2, IdlePass DEF Passes, ReviewRows
<1>4. watcher' = [watcher EXCEPT ![w] = p]
  BY AtWork DEF SelectReview
<1>5. Carried(p)
  BY <1>2, <1>3 DEF Carried, Stages, Asked, WatchInv, Noticed
<1> HIDE DEF p
<1>6. watcher'[w] = p /\ review' = review
  BY <1>4, AtWork DEF SelectReview
<1>7. Counted(w)'
  BY <1>3, <1>6 DEF Counted, Holds, Stages
<1> QED BY <1>3, <1>4, <1>5, <1>7, PassMoves DEF SelectReview, WatchInv, Types, world, history

\* A review goes on to its next stage.
LEMMA StageMoves ==
  ASSUME WatchInv, NEW w \in Watchers, NEW p \in Passes,
         watcher' = [watcher EXCEPT ![w] = p], UNCHANGED <<source, review, seen>>,
         watcher[w].pc \in Stages, p.pc \in Asked,
         watcher[w].s = Nil, p.s = Nil, p.c = watcher[w].c, p.report = watcher[w].report
  PROVE  Carried(p) /\ Counted(w)'
<1>1. Carried(watcher[w]) /\ Counted(w)
  BY AtWork
<1>2. watcher'[w] = p
  BY AtWork
<1>3. Carried(p)
  BY <1>1 DEF Carried, Stages, Asked
<1>4. Counted(w)'
  BY <1>1, <1>2 DEF Counted, Holds, Owns, Stages, Asked
<1> QED BY <1>3, <1>4

LEMMA AskStep ==
  ASSUME SourceWatchAssumption, WatchInv, NEW w \in Watchers, Ask(w) PROVE WatchInv'
<1>1. PICK v \in Rulings \cup {Nil} :
        /\ watcher' = [watcher EXCEPT ![w].pc = "store", ![w].result = v]
        /\ budget' \in 0..Budget
  <2>1. watcher[w].result \in Rulings \cup {Nil} /\ budget \in 0..Budget
    BY AtWork DEF Passes, WatchInv, Types
  <2>2. CASE watcher[w].result # Nil /\ Goto(w, "store") /\ UNCHANGED budget
    <3>1. watcher' = [watcher EXCEPT ![w].pc = "store", ![w].result = watcher[w].result]
      BY <2>2, AtWork DEF Goto, Passes
    <3> QED BY <2>1, <2>2, <3>1
  <2>3. CASE ~(watcher[w].result # Nil /\ Goto(w, "store") /\ UNCHANGED budget)
    BY <2>1, <2>3 DEF Ask, SourceWatchAssumption
  <2> QED BY <2>2, <2>3
<1> DEFINE p == [watcher[w] EXCEPT !.pc = "store", !.result = v]
<1>2. watcher[w].pc = "ask" /\ watcher[w].s = Nil
  BY AtWork DEF Ask, At, Carried, Asked
<1>3. /\ p \in Passes /\ p.pc = "store" /\ p.s = Nil /\ p.c = watcher[w].c
      /\ p.report = watcher[w].report /\ p.result = v
  <2> DEFINE old == watcher[w]
  <2>1. old \in Passes /\ old.s = Nil /\ "store" \in Stages
    BY <1>2, AtWork DEF Stages
  <2>2. p = [old EXCEPT !.pc = "store", !.result = v]
    OBVIOUS
  <2> HIDE DEF old, p
  <2>3. /\ p \in Passes /\ p.pc = "store" /\ p.s = Nil /\ p.c = old.c
        /\ p.report = old.report /\ p.result = v
    BY <2>1, <2>2 DEF Passes
  <2> QED BY <2>3 DEF old
<1>4. watcher' = [watcher EXCEPT ![w] = p]
  BY <1>1, AtWork DEF Passes
<1> HIDE DEF p
<1>5. UNCHANGED <<page, links, source, review, hold, seen, armed, cleared, keys, overridden, forecast, bound>>
  BY DEF Ask, world, history
<1>6. Carried(p) /\ Counted(w)'
  BY <1>1, <1>2, <1>3, <1>4, <1>5, StageMoves DEF Stages, Asked
<1>7. forecast' \in {forecast, "LOCKED"} /\ bound' \in BOOLEAN
  BY <1>5 DEF WatchInv, Types
<1> QED BY <1>1, <1>3, <1>4, <1>5, <1>6, <1>7, PassMoves

\* The later stages: nothing but the stage changes, or the forecast is locked.
LEMMA StageStep ==
  ASSUME WatchInv, NEW w \in Watchers, NEW p \in Passes,
         watcher' = [watcher EXCEPT ![w] = p],
         watcher[w].pc \in Asked, p.pc \in Asked,
         p.s = watcher[w].s, p.c = watcher[w].c, p.report = watcher[w].report,
         UNCHANGED <<page, links, source, review, hold, seen, armed, cleared, keys, overridden, bound, budget>>,
         forecast' \in {forecast, "LOCKED"}
  PROVE  WatchInv'
<1>1. watcher[w].s = Nil /\ watcher[w].pc \in Stages
  BY AtWork DEF Carried, Stages, Asked
<1>2. Carried(p) /\ Counted(w)'
  BY <1>1, StageMoves
<1> QED BY <1>2, PassMoves DEF WatchInv, Types

LEMMA OwnedStep ==
  ASSUME WatchInv, NEW w \in Watchers, Owned(w) PROVE WatchInv'
<1> DEFINE stage == CASE watcher[w].result = "accept" -> "accept"
                      [] watcher[w].result = "dismiss" -> "dismiss"
                      [] OTHER -> "complete"
           p == [watcher[w] EXCEPT !.pc = stage]
<1>1. stage \in {"accept", "dismiss", "complete"}
  OBVIOUS
<1>2. watcher' = [watcher EXCEPT ![w] = p]
  BY AtWork DEF Owned, Goto, Passes
<1> HIDE DEF stage
<1>3. /\ p \in Passes /\ p.pc = stage /\ p.s = watcher[w].s /\ p.c = watcher[w].c
      /\ p.report = watcher[w].report
  BY <1>1, AtWork DEF Passes, Stages
<1> HIDE DEF p
<1>4. UNCHANGED <<page, links, source, review, hold, seen, armed, cleared, keys, overridden, bound, budget, forecast>>
  BY DEF Owned, world, history
<1> QED BY <1>1, <1>2, <1>3, <1>4, StageStep DEF Owned, At, Asked

LEMMA AcceptStep ==
  ASSUME WatchInv, NEW w \in Watchers, Accept(w) PROVE WatchInv'
<1> DEFINE p == [watcher[w] EXCEPT !.pc = "complete"]
<1>1. watcher' = [watcher EXCEPT ![w] = p]
  BY AtWork DEF Accept, Goto, Passes
<1>2. /\ p \in Passes /\ p.pc = "complete" /\ p.s = watcher[w].s /\ p.c = watcher[w].c
      /\ p.report = watcher[w].report
  BY AtWork DEF Passes, Stages
<1> HIDE DEF p
<1>3. /\ UNCHANGED <<page, links, source, review, hold, seen, armed, cleared, keys, overridden, bound, budget>>
      /\ forecast' \in {forecast, "LOCKED"}
  BY DEF Accept, world, history
<1> QED BY <1>1, <1>2, <1>3, StageStep DEF Accept, At, Asked

LEMMA DismissReadStep ==
  ASSUME WatchInv, NEW w \in Watchers, DismissRead(w) PROVE WatchInv'
<1>1. PICK p \in Passes : /\ watcher' = [watcher EXCEPT ![w] = p]
                          /\ p.pc \in {"release", "complete"} /\ p.s = watcher[w].s
                          /\ p.c = watcher[w].c /\ p.report = watcher[w].report
  <2>1. CASE Goto(w, "complete")
    <3> DEFINE p == [watcher[w] EXCEPT !.pc = "complete"]
    <3>1. /\ p \in Passes /\ p.pc = "complete" /\ p.s = watcher[w].s /\ p.c = watcher[w].c
          /\ p.report = watcher[w].report
      BY AtWork DEF Passes, Stages
    <3>2. watcher' = [watcher EXCEPT ![w] = p]
      BY <2>1, AtWork DEF Goto, Passes
    <3> QED BY <3>1, <3>2
  <2>2. CASE ~Goto(w, "complete")
    <3> DEFINE p == [watcher[w] EXCEPT !.pc = "release", !.rev = hold.rev]
    <3>1. /\ p \in Passes /\ p.pc = "release" /\ p.s = watcher[w].s /\ p.c = watcher[w].c
          /\ p.report = watcher[w].report
      BY AtWork DEF Passes, Stages, WatchInv, Types
    <3>2. watcher' = [watcher EXCEPT ![w] = p]
      BY <2>2, AtWork DEF DismissRead, Passes
    <3> QED BY <3>1, <3>2
  <2> QED BY <2>1, <2>2
<1>2. UNCHANGED <<page, links, source, review, hold, seen, armed, cleared, keys, overridden, bound, budget, forecast>>
  BY DEF DismissRead, world, history
<1> QED BY <1>1, <1>2, StageStep DEF DismissRead, At, Asked
-----------------------------------------------------------------------------
(***************************************************************************)
(* Steps that change the row of a review                                   *)
(***************************************************************************)
\* Whoever changes a row has it or gives it back.
LEMMA RowMoves ==
  ASSUME SourceWatchAssumption, WatchInv, NEW w \in Watchers, NEW p \in Passes, NEW c \in Contents,
         NEW row \in ReviewRows, review[c] # Nil,
         watcher' = [watcher EXCEPT ![w] = p], review' = [review EXCEPT ![c] = row],
         row.token \in {w, Nil}, row.a = review[c].a,
         UNCHANGED <<page, links, source, hold, seen, armed, cleared, keys, overridden, forecast, bound, budget>>,
         Carried(p), Counted(w)'
  PROVE  WatchInv'
<1> USE DEF SourceWatchAssumption
<1>1. /\ review'[c] = row /\ row # Nil
      /\ \A d \in Contents \ {c} : review'[d] = review[d]
  BY DEF WatchInv, Types
<1>2. \A d \in Contents : review[d] # Nil <=> review'[d] # Nil
  BY <1>1
<1>3. Types'
  <2>1. review' \in [Contents -> ReviewRows \cup {Nil}] /\ watcher' \in [Watchers -> Passes]
    BY DEF WatchInv, Types
  <2> QED BY <2>1 DEF WatchInv, Types
<1>4. Noticed' /\ Preserved' /\ KeysArmed'
  <2>1. Noticed'
    BY <1>1 DEF WatchInv, Noticed
  <2>2. Preserved'
    BY <1>2 DEF WatchInv, Types, Preserved
  <2> QED BY <2>1, <2>2 DEF WatchInv, KeysArmed
<1>5. FoundStaysHeld'
  BY DEF WatchInv, FoundStaysHeld
<1>6. ASSUME NEW v \in Watchers PROVE Carried(watcher[v])' /\ Counted(v)'
  <2>1. CASE v = w
    <3>1. watcher'[w] = p
      BY AtWork
    <3>2. Carried(watcher[w])'
      BY <1>2, <3>1 DEF Carried, Passes
    <3> QED BY <2>1, <3>2
  <2>2. CASE v # w
    <3>1. watcher'[v] = watcher[v]
      BY <2>2 DEF WatchInv, Types
    <3>2. watcher[v].pc \in {"claim"} \cup Stages => watcher[v].c \in Contents
      BY AtWork DEF Carried
    <3>3. watcher[v].pc \in Stages => LeaseKept(v)
      BY <1>1, <2>2, <3>2 DEF LeaseKept
    <3> QED BY <1>2, <3>1, <3>3, OtherPasses
  <2> QED BY <2>1, <2>2
<1> QED BY <1>3, <1>4, <1>5, <1>6 DEF WatchInv
\* A row that is claimed, and one whose attempt is given back.
LEMMA ClaimedRow ==
  ASSUME NEW r \in ReviewRows, NEW w \in Watchers
  PROVE  LET row == [r EXCEPT !.token = w, !.live = TRUE, !.attempts = @ + 1]
         IN  /\ row \in ReviewRows /\ row.token = w /\ row.live = TRUE /\ row.attempts >= 1
             /\ row.a = r.a /\ row.result = r.result
<1> DEFINE n == r.attempts + 1
<1>1. n \in Nat /\ n >= 1
  BY DEF ReviewRows
<1> HIDE DEF n
<1>2. [r EXCEPT !.token = w, !.live = TRUE, !.attempts = n] \in ReviewRows
  BY <1>1 DEF ReviewRows
<1> QED BY <1>1, <1>2 DEF ReviewRows, n
LEMMA ReturnedRow ==
  ASSUME NEW r \in ReviewRows, r.attempts >= 1
  PROVE  LET row == [r EXCEPT !.attempts = @ - 1, !.due = FALSE]
         IN  /\ row \in ReviewRows /\ row.due = FALSE /\ row.token = r.token
             /\ row.a = r.a /\ row.result = r.result
<1> DEFINE n == r.attempts - 1
<1>1. n \in Nat
  BY DEF ReviewRows
<1> HIDE DEF n
<1>2. [r EXCEPT !.attempts = n, !.due = FALSE] \in ReviewRows
  BY <1>1 DEF ReviewRows
<1> QED BY <1>1, <1>2 DEF ReviewRows, n

LEMMA ClaimReviewStep ==
  ASSUME SourceWatchAssumption, WatchInv, NEW w \in Watchers, ClaimReview(w) PROVE WatchInv'
<1> DEFINE c == watcher[w].c
<1>1. /\ watcher[w] \in Passes /\ watcher[w].pc = "claim" /\ watcher[w].s = Nil
      /\ c \in Contents /\ review[c] # Nil /\ review[c] \in ReviewRows
      /\ Carried(watcher[w])
  BY AtWork DEF ClaimReview, At, Carried, WatchInv, Types
<1>2. UNCHANGED <<page, links, source, hold, seen, armed, cleared, keys, overridden, forecast, bound, budget>>
  BY DEF ClaimReview, world, history
<1>3. CASE ~OpenReview(review[c])
  BY <1>2, <1>3, EndsStep DEF ClaimReview
<1>4. CASE OpenReview(review[c])
  <2> DEFINE p == [watcher[w] EXCEPT !.pc = "hold"]
             row == [review[c] EXCEPT !.token = w, !.live = TRUE, !.attempts = @ + 1]
  <2>1. /\ p \in Passes /\ p.pc = "hold" /\ p.s = Nil /\ p.a = watcher[w].a /\ p.c = c
        /\ p.report = watcher[w].report /\ p.result = watcher[w].result
    BY <1>1 DEF Passes, Stages
  <2>2. /\ row \in ReviewRows /\ row.token = w /\ row.live = TRUE /\ row.attempts >= 1
        /\ row.a = review[c].a /\ row.result = review[c].result
    BY <1>1, ClaimedRow
  <2>3. watcher' = [watcher EXCEPT ![w] = p]
    BY <1>4, AtWork DEF ClaimReview, Goto, Passes
  <2>4. review' = [review EXCEPT ![c] = row]
    BY <1>1, <1>4 DEF ClaimReview, WatchInv, Types, ReviewRows
  <2>5. Carried(p)
    BY <1>1, <2>1 DEF Carried, Stages, Asked
  <2> HIDE DEF p, row
  <2>6. watcher'[w] = p /\ review'[c] = row
    BY <1>1, <2>3, <2>4, AtWork DEF WatchInv, Types
  <2>7. Counted(w)'
    BY <2>1, <2>2, <2>6 DEF Counted
  <2> QED BY <1>1, <1>2, <2>1, <2>2, <2>3, <2>4, <2>5, <2>7, RowMoves
<1> QED BY <1>3, <1>4

LEMMA StoreResultStep ==
  ASSUME SourceWatchAssumption, WatchInv, NEW w \in Watchers, StoreResult(w) PROVE WatchInv'
<1> DEFINE c == watcher[w].c
           p == [watcher[w] EXCEPT !.pc = "owned"]
<1>1. /\ watcher[w] \in Passes /\ watcher[w].pc = "store" /\ watcher[w].s = Nil
      /\ c \in Contents /\ review[c] # Nil /\ review[c] \in ReviewRows
      /\ Carried(watcher[w]) /\ Counted(w)
  BY AtWork DEF StoreResult, At, Carried, Stages, Asked, WatchInv, Types
<1>2. UNCHANGED <<page, links, source, hold, seen, armed, cleared, keys, overridden, forecast, bound, budget>>
  BY DEF StoreResult, world, history
<1>3. /\ p \in Passes /\ p.pc = "owned" /\ p.s = Nil /\ p.c = c /\ p.report = watcher[w].report
  BY <1>1 DEF Passes, Stages
<1>4. watcher' = [watcher EXCEPT ![w] = p]
  BY AtWork DEF StoreResult, Goto, Passes
<1>5. Carried(p)
  BY <1>1, <1>3 DEF Carried, Stages, Asked
<1>6. CASE ~Owns(w)
  <2>1. review' = review
    BY <1>6 DEF StoreResult
  <2> HIDE DEF p
  <2> QED BY <1>1, <1>2, <1>3, <1>4, <2>1, StageStep DEF Asked
<1>7. CASE Owns(w)
  <2> DEFINE row == [review[c] EXCEPT !.state = "reviewed", !.result = watcher[w].result]
  <2>1. /\ row \in ReviewRows /\ row.token = w /\ row.live = review[c].live
        /\ row.attempts = review[c].attempts
        /\ row.a = review[c].a /\ row.result = watcher[w].result
    BY <1>1, <1>7 DEF ReviewRows, Passes, Owns
  <2>2. review[c].attempts >= 1
    BY <1>1, <1>7 DEF Counted, Holds, Stages
  <2>3. review' = [review EXCEPT ![c] = row]
    BY <1>1, <1>7 DEF StoreResult, WatchInv, Types, ReviewRows
  <2> HIDE DEF p, row
  <2>4. watcher'[w] = p /\ review'[c] = row
    BY <1>1, <1>4, <2>3, AtWork DEF WatchInv, Types
  <2>5. Counted(w)'
    BY <1>3, <2>1, <2>2, <2>4 DEF Counted
  <2> QED BY <1>1, <1>2, <1>3, <1>4, <1>5, <2>1, <2>3, <2>5, RowMoves
<1> QED BY <1>6, <1>7

\* The end of a pass gives its row back.
LEMMA GivesBack ==
  ASSUME SourceWatchAssumption, WatchInv, NEW w \in Watchers, NEW c \in Contents, review[c] # Nil,
         Stop(w),
         review' = review \/
           \E row \in ReviewRows : /\ review' = [review EXCEPT ![c] = row]
                                   /\ row.token = Nil /\ row.a = review[c].a,
         UNCHANGED <<page, links, source, hold, seen, armed, cleared, keys, overridden, forecast, bound, budget>>
  PROVE  WatchInv'
<1>1. CASE review' = review
  BY <1>1, EndsStep
<1>2. ASSUME NEW row \in ReviewRows, review' = [review EXCEPT ![c] = row],
             row.token = Nil, row.a = review[c].a
      PROVE  WatchInv'
  <2>1. watcher' = [watcher EXCEPT ![w] = NoPass]
    BY DEF Stop
  <2>2. Counted(w)'
    BY <2>1, IdlePass, NotReviewing
  <2> QED BY <1>2, <2>1, <2>2, IdlePass, RowMoves
<1> QED BY <1>1, <1>2

LEMMA CompleteStep ==
  ASSUME SourceWatchAssumption, WatchInv, NEW w \in Watchers, Complete(w) PROVE WatchInv'
<1> DEFINE c == watcher[w].c
           row == [review[c] EXCEPT !.state = "complete", !.token = Nil, !.live = FALSE]
<1>1. c \in Contents /\ review[c] # Nil /\ review[c] \in ReviewRows
  BY AtWork DEF Complete, At, Carried, Stages, WatchInv, Types
<1>2. UNCHANGED <<page, links, source, hold, seen, armed, cleared, keys, overridden, forecast, bound, budget>>
  BY DEF Complete, world, history
<1>3. CASE ~Owns(w)
  <2>1. review' = review
    BY <1>1, <1>3 DEF Complete, Freed, Owns, WatchInv, Types
  <2> QED BY <1>1, <1>2, <2>1, GivesBack DEF Complete
<1>4. CASE Owns(w)
  <2>1. review' = [review EXCEPT ![c] = row]
    BY <1>1, <1>4 DEF Complete, Freed, Owns, ReviewRows
  <2>2. row \in ReviewRows /\ row.token = Nil /\ row.a = review[c].a
    BY <1>1 DEF ReviewRows
  <2> HIDE DEF row
  <2> QED BY <1>1, <1>2, <2>1, <2>2, GivesBack DEF Complete
<1> QED BY <1>3, <1>4

LEMMA ReviewFailsStep ==
  ASSUME SourceWatchAssumption, WatchInv, NEW w \in Watchers, ReviewFails(w) PROVE WatchInv'
<1> DEFINE c == watcher[w].c
<1>1. /\ c \in Contents /\ review[c] # Nil /\ review[c] \in ReviewRows /\ Counted(w)
      /\ watcher[w].pc \in Stages /\ watcher[w].s = Nil
  BY AtWork DEF ReviewFails, At, Carried, Stages, WatchInv, Types
<1>2. UNCHANGED <<page, links, source, hold, seen, armed, cleared, keys, overridden, forecast, bound, budget>>
  BY DEF ReviewFails, world, history
<1>3. CASE ~Owns(w)
  <2>1. review' = review
    BY <1>1, <1>3 DEF ReviewFails, WatchInv, Types
  <2> QED BY <1>1, <1>2, <2>1, GivesBack DEF ReviewFails
<1>4. CASE Owns(w)
  <2>1. review[c].attempts >= 1
    BY <1>1, <1>4 DEF Counted, Holds
  <2>2. PICK row \in ReviewRows :
          review' = [review EXCEPT ![c] = row] /\ row.token = Nil /\ row.a = review[c].a
    <3> DEFINE spent == At(w, "ask") /\ watcher[w].result = Nil /\ budget = Budget
               failed == IF spent THEN [review[c] EXCEPT !.attempts = @ - 1, !.due = FALSE]
                         ELSE [review[c] EXCEPT !.state = IF Exhausted(w) THEN "exhausted" ELSE "pending", !.due = FALSE]
    <3>1. failed \in ReviewRows /\ failed.token = w /\ failed.a = review[c].a
      <4>1. CASE spent
        BY <1>1, <1>4, <2>1, <4>1, ReturnedRow DEF Owns
      <4>2. CASE ~spent
        <5>1. (IF Exhausted(w) THEN "exhausted" ELSE "pending") \in {"exhausted", "pending"}
          OBVIOUS
        <5> QED BY <1>1, <1>4, <4>2, <5>1 DEF ReviewRows, Owns
      <4> QED BY <4>1, <4>2
    <3>2. review' = [review EXCEPT ![c] = Freed(failed, w)]
      BY <1>4 DEF ReviewFails
    <3> HIDE DEF failed
    <3> DEFINE row == [failed EXCEPT !.token = Nil, !.live = FALSE]
    <3>3. row \in ReviewRows /\ row.token = Nil /\ row.a = review[c].a
      BY <3>1 DEF ReviewRows
    <3>4. Freed(failed, w) = row
      BY <3>1 DEF Freed
    <3> QED BY <3>2, <3>3, <3>4
  <2> QED BY <1>1, <1>2, <2>2, GivesBack DEF ReviewFails
<1> QED BY <1>3, <1>4
-----------------------------------------------------------------------------
(***************************************************************************)
(* Steps of a polling pass, and of queueing                                *)
(***************************************************************************)
\* Rows are only added, of what was observed, and no source is lost.
Added ==
  /\ source' \in [Sources -> SourceRows \cup {Nil}]
  /\ review' \in [Contents -> ReviewRows \cup {Nil}]
  /\ \A s \in Sources : source[s] # Nil => source'[s] # Nil
  /\ seen \subseteq seen' /\ seen' \subseteq Observations
  /\ \A c \in Contents : review'[c] = review[c] \/
       (review[c] = Nil /\ review'[c] # Nil /\ <<review'[c].a, c>> \in seen')

LEMMA PollMoves ==
  ASSUME WatchInv, NEW w \in Watchers, NEW p \in Passes,
         watcher' = [watcher EXCEPT ![w] = p],
         p.pc \in {"idle", "known", "fetch", "polled", "queue"} \/ (p.pc \in Stages /\ p.s # Nil),
         Added, UNCHANGED <<page, links, hold, armed, cleared, keys, overridden, forecast, bound, budget>>,
         Carried(watcher[w])'
  PROVE  WatchInv'
<1> USE DEF Added
<1>1. Types'
  BY DEF WatchInv, Types
<1>2. Noticed' /\ Preserved' /\ KeysArmed'
  BY DEF WatchInv, Types, Noticed, Preserved, KeysArmed
<1>3. FoundStaysHeld'
  BY DEF WatchInv, FoundStaysHeld
<1>4. ASSUME NEW v \in Watchers PROVE Carried(watcher[v])' /\ Counted(v)'
  <2>1. CASE v = w
    BY <2>1, NotReviewing
  <2>2. CASE v # w
    <3>1. watcher'[v] = watcher[v]
      BY <2>2 DEF WatchInv, Types
    <3>2. watcher[v].pc \in {"claim"} \cup Stages =>
            watcher[v].c \in Contents /\ review[watcher[v].c] # Nil
      BY AtWork DEF Carried
    <3>3. watcher[v].pc \in Stages => LeaseKept(v)
      BY <3>2 DEF LeaseKept
    <3> QED BY <3>1, <3>3, OtherPasses
  <2> QED BY <2>1, <2>2
<1> QED BY <1>1, <1>2, <1>3, <1>4 DEF WatchInv

\* The pass itself stays a pass of the sources: the facts that may still count.
LEMMA PollCarried ==
  ASSUME NEW w \in Watchers, NEW p \in Passes, watcher'[w] = p,
         p.pc = "idle" => p = NoPass,
         p.pc \in {"idle", "known", "fetch", "polled", "queue"},
         p.pc \in {"fetch", "polled", "queue"} => p.s # Nil,
         p.s # Nil => source'[p.s] # Nil,
         p.report => p.s \in Articles,
         p.pc = "queue" \/ (p.pc = "polled" /\ p.report) => <<p.a, p.c>> \in seen'
  PROVE  Carried(watcher[w])'
BY DEF Carried, Stages, Asked

\* A row of a source, registered, freed or never there.
LEMMA SourceRow ==
  ASSUME SourceWatchAssumption
  PROVE  /\ \A p \in BOOLEAN : Row(p) \in SourceRows
         /\ \A r \in SourceRows \cup {Nil}, p \in BOOLEAN :
              Registered(r, p) \in SourceRows /\ Registered(r, p) # Nil
         /\ \A r \in SourceRows, w \in Watchers : Freed(r, w) \in SourceRows /\ Freed(r, w) # Nil
<1> USE DEF SourceWatchAssumption
<1>1. \A r \in SourceRows : r # Nil
  OBVIOUS
<1>2. \A p \in BOOLEAN : Row(p) \in SourceRows
  BY DEF Row, SourceRows
<1>3. ASSUME NEW r \in SourceRows \cup {Nil}, NEW p \in BOOLEAN
      PROVE  Registered(r, p) \in SourceRows
  <2>1. CASE r = Nil
    BY <1>2, <2>1 DEF Registered
  <2>2. CASE r # Nil
    BY <2>2 DEF Registered, SourceRows
  <2> QED BY <2>1, <2>2
<1>4. ASSUME NEW r \in SourceRows, NEW w \in Watchers PROVE Freed(r, w) \in SourceRows
  BY DEF Freed, SourceRows
<1> QED BY <1>1, <1>2, <1>3, <1>4

LEMMA QueuedRow ==
  ASSUME SourceWatchAssumption, WatchInv, NEW a \in Articles, NEW c \in Contents, <<a, c>> \in seen
  PROVE  /\ Enqueued(a, c) \in ReviewRows /\ Enqueued(a, c) # Nil
         /\ Enqueued(a, c) = review[c] \/ (review[c] = Nil /\ Enqueued(a, c).a = a)
<1>1. CASE review[c] # Nil
  BY <1>1 DEF Enqueued, WatchInv, Types, SourceWatchAssumption
<1>2. CASE review[c] = Nil
  <2> DEFINE row == [a |-> a, state |-> "pending", attempts |-> 0, result |-> Nil, due |-> TRUE,
                     token |-> Nil, live |-> FALSE]
  <2>1. row \in ReviewRows /\ row.a = a
    BY DEF ReviewRows
  <2>2. Enqueued(a, c) = row
    BY <1>2 DEF Enqueued
  <2> HIDE DEF row
  <2> QED BY <1>2, <2>1, <2>2 DEF SourceWatchAssumption
<1> QED BY <1>1, <1>2

LEMMA PollArticleStep ==
  ASSUME WatchInv, NEW w \in Watchers, PollArticle(w) PROVE WatchInv'
<1> DEFINE a == watcher[w].s
           p == [watcher[w] EXCEPT !.a = a, !.c = page[a], !.pc = IF bound THEN "queue" ELSE "polled"]
<1>1. watcher[w] \in Passes /\ Carried(watcher[w]) /\ watcher[w].pc = "fetch"
  BY AtWork DEF PollArticle, At
<1>2. a # Nil /\ a # Feed /\ a \in Articles /\ page[a] \in Contents /\ source[a] # Nil
  BY <1>1 DEF PollArticle, Carried, Passes, Sources, WatchInv, Types
<1>3. (IF bound THEN "queue" ELSE "polled") \in {"queue", "polled"}
  OBVIOUS
<1>4. /\ p \in Passes /\ p.pc \in {"queue", "polled"} /\ p.s = a /\ p.a = a /\ p.c = page[a]
      /\ p.report = watcher[w].report
  BY <1>1, <1>2, <1>3 DEF Passes
<1>5. watcher' = [watcher EXCEPT ![w] = p]
  BY AtWork DEF PollArticle, Passes
<1> HIDE DEF p
<1>6. watcher'[w] = p /\ seen' = seen \cup {<<a, page[a]>>}
  BY <1>5, AtWork DEF PollArticle
<1>7. UNCHANGED <<page, links, source, review, hold, armed, cleared, keys, overridden, forecast, bound, budget>>
  BY DEF PollArticle, world, history
<1>8. Carried(watcher[w])'
  BY <1>2, <1>4, <1>6, <1>7, PollCarried
<1>9. Added
  BY <1>2, <1>6, <1>7 DEF Added, Observations, WatchInv, Types
<1> QED BY <1>4, <1>5, <1>7, <1>8, <1>9, PollMoves

LEMMA EnqueueStep ==
  ASSUME SourceWatchAssumption, WatchInv, NEW w \in Watchers, Enqueue(w) PROVE WatchInv'
<1> DEFINE c == watcher[w].c
           moot == forecast = "FINAL" \/ (review[c] # Nil /\ review[c].state = "complete")
           p == [watcher[w] EXCEPT !.pc = IF moot THEN "polled" ELSE "hold"]
<1>1. /\ watcher[w] \in Passes /\ Carried(watcher[w]) /\ watcher[w].pc = "queue"
      /\ watcher[w].s # Nil /\ <<watcher[w].a, c>> \in seen
  BY AtWork DEF Enqueue, At, Carried
<1>2. watcher[w].a \in Articles /\ c \in Contents
  BY <1>1 DEF WatchInv, Types, Observations
<1>3. (IF moot THEN "polled" ELSE "hold") \in {"polled", "hold"}
  OBVIOUS
<1>4. /\ p \in Passes /\ p.pc = IF moot THEN "polled" ELSE "hold"
      /\ p.s = watcher[w].s /\ p.a = watcher[w].a /\ p.c = c /\ p.report = watcher[w].report
  BY <1>1, <1>3 DEF Passes, Stages
<1>5. watcher' = [watcher EXCEPT ![w] = p]
  BY AtWork DEF Enqueue, Goto, Passes
<1>6. UNCHANGED <<page, links, source, seen, hold, armed, cleared, keys, overridden, forecast, bound, budget>>
  BY DEF Enqueue, world, history
<1>7. review' = IF moot THEN review ELSE [review EXCEPT ![c] = Enqueued(watcher[w].a, c)]
  BY DEF Enqueue
<1> HIDE DEF p, moot
<1>8. watcher'[w] = p
  BY <1>5, AtWork
<1>9. Added /\ (~moot => review'[c] # Nil)
  BY <1>1, <1>2, <1>6, <1>7, QueuedRow DEF Added, WatchInv, Types
<1>10. Carried(watcher[w])'
  BY <1>1, <1>2, <1>4, <1>6, <1>8, <1>9 DEF Carried, Stages, Asked
<1> QED BY <1>1, <1>4, <1>5, <1>6, <1>9, <1>10, PollMoves DEF Stages

LEMMA QueueKnownStep ==
  ASSUME SourceWatchAssumption, WatchInv, NEW w \in Watchers, QueueKnown(w) PROVE WatchInv'
<1> DEFINE of(c) == {a \in Articles : <<a, c>> \in seen}
           known(c) == CHOOSE a \in of(c) : TRUE
<1>1. watcher' = [watcher EXCEPT ![w] = NoPass] /\ watcher'[w] = NoPass
  BY AtWork DEF QueueKnown, Stop
<1>2. UNCHANGED <<page, links, source, seen, hold, armed, cleared, keys, overridden, forecast, bound, budget>>
  BY DEF QueueKnown, world, history
<1>3. CASE forecast = "FINAL"
  BY <1>2, <1>3, EndsStep DEF QueueKnown
<1>4. CASE forecast # "FINAL"
  <2>1. review' = [c \in Contents |-> IF of(c) = {} THEN review[c] ELSE Enqueued(known(c), c)]
    BY <1>4 DEF QueueKnown
  <2>2. \A c \in Contents : of(c) # {} => known(c) \in Articles /\ <<known(c), c>> \in seen
    OBVIOUS
  <2> HIDE DEF of, known
  <2>3. ASSUME NEW c \in Contents
        PROVE  /\ review'[c] \in ReviewRows \cup {Nil}
               /\ review'[c] = review[c] \/
                    (review[c] = Nil /\ review'[c] # Nil /\ <<review'[c].a, c>> \in seen)
    <3>1. CASE of(c) = {}
      BY <2>1, <3>1 DEF WatchInv, Types
    <3>2. CASE of(c) # {}
      BY <2>1, <2>2, <3>2, QueuedRow
    <3> QED BY <3>1, <3>2
  <2>4. Added
    BY <1>2, <2>1, <2>3 DEF Added, WatchInv, Types
  <2>5. Carried(watcher[w])'
    BY <1>1, IdlePass, PollCarried
  <2> QED BY <1>1, <1>2, <2>4, <2>5, IdlePass, PollMoves
<1> QED BY <1>3, <1>4
\* Only one source's row changes, and stays a row.
LEMMA SourceMoves ==
  ASSUME SourceWatchAssumption, WatchInv, NEW w \in Watchers, NEW p \in Passes,
         watcher' = [watcher EXCEPT ![w] = p],
         NEW s \in Sources, NEW row \in SourceRows, source' = [source EXCEPT ![s] = row],
         p.pc \in {"idle", "known", "fetch", "polled", "queue"},
         p.pc = "idle" => p = NoPass,
         p.pc \in {"fetch", "polled", "queue"} => p.s # Nil,
         p.s # Nil => p.s = s, p.report => p.s \in Articles,
         p.pc = "queue" \/ (p.pc = "polled" /\ p.report) => <<p.a, p.c>> \in seen,
         UNCHANGED <<page, links, review, seen, hold, armed, cleared, keys, overridden, forecast, bound, budget>>
  PROVE  WatchInv'
<1>1. row # Nil
  BY DEF SourceWatchAssumption
<1>2. source'[s] = row /\ Added
  BY <1>1 DEF Added, WatchInv, Types
<1>3. watcher'[w] = p
  BY AtWork
<1>4. Carried(watcher[w])'
  BY <1>1, <1>2, <1>3, PollCarried
<1> QED BY <1>2, <1>4, PollMoves

LEMMA PinStep ==
  ASSUME SourceWatchAssumption, WatchInv, NEW w \in Watchers, NEW a \in Articles, Pin(w, a)
  PROVE  WatchInv'
<1>1. watcher' = [watcher EXCEPT ![w] = NoPass]
  BY AtWork DEF Pin, At, Carried
<1>2. a \in Sources /\ Registered(source[a], TRUE) \in SourceRows
  BY SourceRow DEF WatchInv, Types, Sources
<1>3. source' = [source EXCEPT ![a] = Registered(source[a], TRUE)]
  BY DEF Pin
<1>4. UNCHANGED <<page, links, review, seen, hold, armed, cleared, keys, overridden, forecast, bound, budget>>
  BY DEF Pin, world, history
<1> QED BY <1>1, <1>2, <1>3, <1>4, IdlePass, SourceMoves

LEMMA ClaimSourceStep ==
  ASSUME SourceWatchAssumption, WatchInv, NEW w \in Watchers, NEW s \in Sources, ClaimSource(w, s)
  PROVE  WatchInv'
<1> DEFINE p == [watcher[w] EXCEPT !.pc = "fetch", !.s = s]
           row == [source[s] EXCEPT !.token = w, !.live = TRUE]
<1>1. watcher[w] = NoPass
  BY AtWork DEF ClaimSource, At, Carried
<1>2. p \in Passes /\ p.pc = "fetch" /\ p.s = s /\ p.report = FALSE
  BY <1>1, IdlePass DEF Passes
<1>3. watcher' = [watcher EXCEPT ![w] = p]
  BY AtWork DEF ClaimSource, Passes
<1>4. row \in SourceRows /\ source' = [source EXCEPT ![s] = row]
  <2>1. source[s] \in SourceRows
    BY DEF ClaimSource, WatchInv, Types
  <2> QED BY <2>1 DEF ClaimSource, SourceRows
<1>5. UNCHANGED <<page, links, review, seen, hold, armed, cleared, keys, overridden, forecast, bound, budget>>
  BY DEF ClaimSource, world, history
<1>6. s # Nil
  BY DEF SourceWatchAssumption
<1> HIDE DEF p, row
<1> QED BY <1>2, <1>3, <1>4, <1>5, <1>6, SourceMoves

LEMMA ReportStep ==
  ASSUME SourceWatchAssumption, WatchInv, NEW w \in Watchers, NEW a \in Articles, Report(w, a)
  PROVE  WatchInv'
<1> DEFINE p == [watcher[w] EXCEPT !.pc = "fetch", !.s = a, !.report = TRUE]
           row == [Registered(source[a], TRUE) EXCEPT !.token = w, !.live = TRUE]
<1>1. watcher[w] = NoPass /\ a \in Sources
  BY AtWork DEF Report, At, Carried, Sources
<1>2. p \in Passes /\ p.pc = "fetch" /\ p.s = a
  BY <1>1, IdlePass DEF Passes
<1>3. watcher' = [watcher EXCEPT ![w] = p]
  BY AtWork DEF Report, Passes
<1>4. row \in SourceRows /\ source' = [source EXCEPT ![a] = row]
  <2>1. Registered(source[a], TRUE) \in SourceRows
    BY <1>1, SourceRow DEF WatchInv, Types
  <2> QED BY <2>1 DEF Report, SourceRows
<1>5. UNCHANGED <<page, links, review, seen, hold, armed, cleared, keys, overridden, forecast, bound, budget>>
  BY DEF Report, world, history
<1>6. a # Nil
  BY <1>1 DEF SourceWatchAssumption
<1> HIDE DEF p, row
<1> QED BY <1>1, <1>2, <1>3, <1>4, <1>5, <1>6, SourceMoves

LEMMA PollIndexStep ==
  ASSUME SourceWatchAssumption, WatchInv, NEW w \in Watchers, PollIndex(w) PROVE WatchInv'
<1> DEFINE p == [watcher[w] EXCEPT !.pc = "polled"]
<1>1. watcher[w] \in Passes /\ Carried(watcher[w]) /\ watcher[w].s = Feed /\ Feed \in Sources
  BY AtWork DEF PollIndex, Sources
<1>2. /\ p \in Passes /\ p.pc = "polled" /\ p.s = Feed /\ p.report = FALSE
  BY <1>1 DEF Passes, Carried, SourceWatchAssumption
<1>3. watcher' = [watcher EXCEPT ![w] = p]
  BY AtWork DEF PollIndex, Goto, Passes
<1> HIDE DEF p
<1>4. ASSUME NEW s \in Sources
      PROVE  source'[s] \in SourceRows \cup {Nil} /\ (source[s] # Nil => source'[s] # Nil)
  <2>1. source[s] \in SourceRows \cup {Nil} /\ Nil \notin SourceRows
    BY DEF WatchInv, Types, SourceWatchAssumption
  <2>2. CASE s \in links
    <3> DEFINE row == Registered(source[s], FALSE)
    <3>1. row \in SourceRows
      BY <2>1, SourceRow
    <3>2. source'[s] = IF row.enabled THEN row ELSE [row EXCEPT !.enabled = TRUE, !.due = TRUE]
      BY <2>2 DEF PollIndex
    <3> HIDE DEF row
    <3>3. [row EXCEPT !.enabled = TRUE, !.due = TRUE] \in SourceRows
      BY <3>1 DEF SourceRows
    <3> QED BY <2>1, <3>1, <3>2, <3>3
  <2>3. CASE s \notin links /\ s # Feed /\ source[s] # Nil /\ ~source[s].pinned
    <3>1. source'[s] = [source[s] EXCEPT !.enabled = FALSE]
      BY <2>3 DEF PollIndex
    <3>2. source'[s] \in SourceRows
      BY <2>1, <2>3, <3>1 DEF SourceRows
    <3> QED BY <2>1, <3>2
  <2>4. CASE s \notin links /\ ~(s # Feed /\ source[s] # Nil /\ ~source[s].pinned)
    BY <2>1, <2>4 DEF PollIndex
  <2> QED BY <2>2, <2>3, <2>4
<1>5. UNCHANGED <<page, links, review, seen, hold, armed, cleared, keys, overridden, forecast, bound, budget>>
  BY DEF PollIndex, world, history
<1>6. source' \in [Sources -> SourceRows \cup {Nil}]
  <2>1. DOMAIN source' = Sources /\ source' = [s \in Sources |-> source'[s]]
    BY DEF PollIndex
  <2> QED BY <1>4, <2>1
<1>7. Added
  BY <1>4, <1>5, <1>6 DEF Added, WatchInv, Types
<1>8. watcher'[w] = p
  BY <1>3, AtWork
<1>9. Feed # Nil /\ source'[Feed] # Nil
  BY <1>1, <1>4 DEF SourceWatchAssumption, Carried
<1>10. Carried(watcher[w])'
  BY <1>2, <1>8, <1>9, PollCarried
<1> QED BY <1>2, <1>3, <1>5, <1>7, <1>10, PollMoves

LEMMA PollDoneStep ==
  ASSUME SourceWatchAssumption, WatchInv, NEW w \in Watchers, PollDone(w) PROVE WatchInv'
<1> DEFINE s == watcher[w].s
           kept == IF source[s].token = w THEN [source[s] EXCEPT !.due = FALSE] ELSE source[s]
<1>1. /\ watcher[w] \in Passes /\ Carried(watcher[w]) /\ watcher[w].pc = "polled"
      /\ s \in Sources /\ s # Nil /\ source[s] \in SourceRows
  BY AtWork DEF PollDone, At, Carried, Passes, WatchInv, Types
<1>2. Freed(kept, w) \in SourceRows
  <2>1. kept \in SourceRows
    BY <1>1 DEF SourceRows
  <2> HIDE DEF kept
  <2> QED BY <2>1, SourceRow
<1>3. source' = [source EXCEPT ![s] = Freed(kept, w)]
  BY DEF PollDone
<1>4. UNCHANGED <<page, links, review, seen, hold, armed, cleared, keys, overridden, forecast, bound, budget>>
  BY DEF PollDone, world, history
<1> HIDE DEF kept
<1>5. CASE Stop(w)
  BY <1>1, <1>2, <1>3, <1>4, <1>5, IdlePass, SourceMoves DEF Stop
<1>6. CASE ~Stop(w)
  <2> DEFINE p == [watcher[w] EXCEPT !.pc = "queue", !.report = FALSE]
  <2>1. /\ p \in Passes /\ p.pc = "queue" /\ p.s = s /\ p.a = watcher[w].a /\ p.c = watcher[w].c
        /\ p.report = FALSE
    BY <1>1 DEF Passes
  <2>2. watcher[w].report /\ watcher' = [watcher EXCEPT ![w] = p]
    BY <1>6, AtWork DEF PollDone, Passes
  <2>3. <<p.a, p.c>> \in seen
    BY <1>1, <2>1, <2>2 DEF Carried
  <2> HIDE DEF p
  <2> QED BY <1>1, <1>2, <1>3, <1>4, <2>1, <2>2, <2>3, SourceMoves
<1> QED BY <1>5, <1>6

LEMMA PollFailsStep ==
  ASSUME SourceWatchAssumption, WatchInv, NEW w \in Watchers, PollFails(w) PROVE WatchInv'
<1> DEFINE s == watcher[w].s
           kept == IF source[s].token = w /\ ~watcher[w].report
                   THEN [source[s] EXCEPT !.due = FALSE] ELSE source[s]
           retained == {c \in Contents : <<s, c>> \in seen}
<1>1. /\ watcher[w] \in Passes /\ Carried(watcher[w])
      /\ s \in Sources /\ s # Nil /\ source[s] \in SourceRows
  BY AtWork DEF PollFails, Carried, Passes, WatchInv, Types
<1>2. Freed(kept, w) \in SourceRows
  <2>1. kept \in SourceRows
    BY <1>1 DEF SourceRows
  <2> HIDE DEF kept
  <2> QED BY <2>1, SourceRow
<1>3. source' = [source EXCEPT ![s] = Freed(kept, w)]
  BY DEF PollFails
<1>4. UNCHANGED <<page, links, review, seen, hold, armed, cleared, keys, overridden, forecast, bound, budget>>
  BY DEF PollFails, world, history
<1> HIDE DEF kept
<1>5. CASE Stop(w)
  BY <1>1, <1>2, <1>3, <1>4, <1>5, IdlePass, SourceMoves DEF Stop
<1>6. CASE ~Stop(w)
  <2>1. PICK c \in retained : /\ watcher[w].report
          /\ watcher' = [watcher EXCEPT ![w].pc = "queue", ![w].a = s, ![w].c = c, ![w].report = FALSE]
    BY <1>6 DEF PollFails
  <2> DEFINE p == [watcher[w] EXCEPT !.pc = "queue", !.a = s, !.c = c, !.report = FALSE]
  <2>2. s \in Articles
    BY <1>1, <2>1 DEF Carried
  <2>3. p \in Passes /\ p.pc = "queue" /\ p.s = s /\ p.a = s /\ p.c = c /\ p.report = FALSE
    BY <1>1, <2>2 DEF Passes
  <2>4. watcher' = [watcher EXCEPT ![w] = p]
    BY <2>1, AtWork DEF Passes
  <2> HIDE DEF p
  <2> QED BY <1>1, <1>2, <1>3, <1>4, <2>3, <2>4, SourceMoves
<1> QED BY <1>5, <1>6
-----------------------------------------------------------------------------
(***************************************************************************)
(* Steps that concern the hold                                             *)
(***************************************************************************)
\* A hold that is in force or not needed arms the content it was looked at for.
LEMMA Arms ==
  ASSUME SourceWatchAssumption, WatchInv, NEW w \in Watchers,
         watcher[w].pc \in {"hold", "take"}, AfterHold(w),
         hold' \in [rev : Nat, by : {Nil, "watch", "operator"}],
         forecast # "OPEN" \/ hold'.by # Nil \/ (hold' = hold /\ watcher[w].c \in armed),
         keys' = keys \/ keys' = keys \cup {<<<<"source-watch", watcher[w].a, watcher[w].c>>, hold.rev>>},
         UNCHANGED <<page, links, source, review, seen, cleared, overridden, forecast, bound, budget>>
  PROVE  WatchInv'
<1> DEFINE s == watcher[w].s
           c == watcher[w].c
           p == [watcher[w] EXCEPT !.pc = IF s = Nil THEN "ask" ELSE "polled"]
<1>1. /\ watcher[w] \in Passes /\ Carried(watcher[w])
      /\ c \in Contents /\ review[c] # Nil /\ <<watcher[w].a, c>> \in seen
  BY AtWork DEF Carried, Stages
<1>2. (IF s = Nil THEN "ask" ELSE "polled") \in {"ask", "polled"}
  OBVIOUS
<1>3. /\ p \in Passes /\ p.pc = IF s = Nil THEN "ask" ELSE "polled"
      /\ p.s = s /\ p.a = watcher[w].a /\ p.c = c /\ p.report = watcher[w].report
      /\ p.result = watcher[w].result
  BY <1>1, <1>2 DEF Passes, Stages
<1>4. watcher' = [watcher EXCEPT ![w] = p] /\ armed' = armed \cup {c}
  BY AtWork DEF AfterHold, Goto, Passes
<1> HIDE DEF p
<1>5. watcher'[w] = p
  BY <1>4, AtWork
<1>6. Carried(watcher[w])' /\ Counted(w)'
  <2>1. CASE s = Nil
    <3>1. Carried(p) /\ Counted(w)'
      BY <1>3, <1>4, <2>1, StageMoves DEF Stages, Asked
    <3> QED BY <1>5, <3>1 DEF Carried
  <2>2. CASE s # Nil
    <3>1. Counted(w)'
      BY <1>3, <1>4, <2>2, NotReviewing
    <3>2. Carried(watcher[w])'
      BY <1>1, <1>3, <1>5, <2>2 DEF Carried, Stages, Asked
    <3> QED BY <3>1, <3>2
  <2> QED BY <2>1, <2>2
<1>7. Types'
  BY <1>1, <1>3, <1>4 DEF WatchInv, Types
<1>8. Noticed' /\ Preserved' /\ KeysArmed'
  <2>1. Noticed' /\ Preserved'
    BY <1>1, <1>4 DEF WatchInv, Noticed, Preserved
  <2>2. \A k \in keys' \ keys : k[1][3] = c
    OBVIOUS
  <2>3. KeysArmed'
    BY <1>4, <2>2 DEF WatchInv, KeysArmed
  <2> QED BY <2>1, <2>3
<1>9. FoundStaysHeld'
  <2>1. CASE hold'.by # Nil
    BY <2>1 DEF FoundStaysHeld
  <2>2. CASE forecast # "OPEN"
    BY <2>2 DEF FoundStaysHeld
  <2>3. CASE hold' = hold /\ c \in armed
    BY <1>4, <2>3 DEF WatchInv, FoundStaysHeld
  <2> QED BY <2>1, <2>2, <2>3
<1>10. ASSUME NEW v \in Watchers PROVE Carried(watcher[v])' /\ Counted(v)'
  <2>1. CASE v = w
    BY <1>6, <2>1
  <2>2. CASE v # w
    <3>1. watcher'[v] = watcher[v]
      BY <1>4, <2>2, AtWork
    <3> QED BY <3>1, OtherPasses DEF LeaseKept
  <2> QED BY <2>1, <2>2
<1> QED BY <1>7, <1>8, <1>9, <1>10 DEF WatchInv

LEMMA HoldReadStep ==
  ASSUME SourceWatchAssumption, WatchInv, NEW w \in Watchers, HoldRead(w) PROVE WatchInv'
<1>1. UNCHANGED <<page, links, source, review, seen, hold, cleared, keys, overridden, forecast, bound, budget>>
  BY DEF HoldRead, world
<1>2. hold \in [rev : Nat, by : {Nil, "watch", "operator"}]
  BY DEF WatchInv, Types
<1>3. CASE forecast # "OPEN" \/ hold.by # Nil
  BY <1>1, <1>2, <1>3, Arms DEF HoldRead, At
<1>4. CASE ~(forecast # "OPEN" \/ hold.by # Nil)
  <2> DEFINE p == [watcher[w] EXCEPT !.pc = "take", !.rev = hold.rev]
  <2>1. watcher[w] \in Passes /\ Carried(watcher[w]) /\ Counted(w) /\ watcher[w].pc = "hold"
    BY AtWork DEF HoldRead, At
  <2>2. /\ p \in Passes /\ p.pc = "take" /\ p.s = watcher[w].s /\ p.a = watcher[w].a
        /\ p.c = watcher[w].c /\ p.report = watcher[w].report /\ p.result = watcher[w].result
    BY <1>2, <2>1 DEF Passes, Stages
  <2>3. watcher' = [watcher EXCEPT ![w] = p] /\ armed' = armed
    BY <1>4, AtWork DEF HoldRead, Passes
  <2> HIDE DEF p
  <2>4. watcher'[w] = p
    BY <2>3, AtWork
  <2>5. Carried(p)
    BY <2>1, <2>2 DEF Carried, Stages, Asked
  <2>6. Counted(w)'
    BY <1>1, <2>1, <2>2, <2>4 DEF Counted, Holds, Owns, Stages
  <2> QED BY <1>1, <2>2, <2>3, <2>5, <2>6, PassMoves DEF WatchInv, Types
<1> QED BY <1>3, <1>4

LEMMA HoldTakeStep ==
  ASSUME SourceWatchAssumption, WatchInv, NEW w \in Watchers, HoldTake(w) PROVE WatchInv'
<1>1. UNCHANGED <<page, links, source, review, seen, cleared, overridden, forecast, bound, budget>>
  BY DEF HoldTake, world
<1>2. hold \in [rev : Nat, by : {Nil, "watch", "operator"}] /\ hold.rev + 1 \in Nat
  BY DEF WatchInv, Types
<1> DEFINE c == watcher[w].c
           key == <<"source-watch", watcher[w].a, c>>
<1>3. CASE KeyUnused(key) /\ MayTake(w)
  <2>1. hold' = [rev |-> hold.rev + 1, by |-> "watch"] /\ keys' = keys \cup {<<key, hold.rev>>}
    BY <1>3 DEF HoldTake
  <2>2. hold' \in [rev : Nat, by : {Nil, "watch", "operator"}] /\ hold'.by # Nil
    BY <1>2, <2>1 DEF SourceWatchAssumption
  <2> QED BY <1>1, <2>1, <2>2, Arms DEF HoldTake, At
<1>4. CASE ~(KeyUnused(key) /\ MayTake(w))
  <2>1. hold' = hold /\ keys' = keys /\ (Replays(w, key) \/ hold.by # Nil)
    BY <1>4 DEF HoldTake
  <2>2. Replays(w, key) => c \in armed
    <3>1. <<key, watcher[w].rev>>[1][1] = "source-watch" /\ <<key, watcher[w].rev>>[1][3] = c
      OBVIOUS
    <3> QED BY <3>1 DEF Replays, WatchInv, KeysArmed
  <2> QED BY <1>1, <1>2, <2>1, <2>2, Arms DEF HoldTake, At
<1> QED BY <1>3, <1>4

\* A release finds every review of the forecast dismissed.
LEMMA ReleaseStep ==
  ASSUME SourceWatchAssumption, WatchInv, NEW w \in Watchers, Release(w) PROVE WatchInv'
<1> DEFINE p == [watcher[w] EXCEPT !.pc = "complete"]
           key == <<"source-dismiss", watcher[w].c>>
<1>1. /\ watcher[w] \in Passes /\ Carried(watcher[w]) /\ watcher[w].pc = "release"
      /\ watcher[w].s = Nil
  BY AtWork DEF Release, At, Carried, Asked
<1>2. /\ p \in Passes /\ p.pc = "complete" /\ p.s = Nil /\ p.c = watcher[w].c
      /\ p.report = watcher[w].report
  BY <1>1 DEF Passes, Stages
<1>3. watcher' = [watcher EXCEPT ![w] = p]
  BY AtWork DEF Release, Goto, Passes
<1> HIDE DEF p
<1>4. UNCHANGED <<page, links, source, review, seen, armed, overridden, forecast, bound, budget>>
  BY DEF Release, world, history
<1>5. Carried(p) /\ Counted(w)'
  BY <1>1, <1>2, <1>3, <1>4, StageMoves DEF Stages, Asked
<1>6. CASE Replays(w, key) /\ UNCHANGED <<hold, keys, cleared>>
  BY <1>2, <1>3, <1>4, <1>5, <1>6, PassMoves DEF WatchInv, Types
<1>7. CASE ~(Replays(w, key) /\ UNCHANGED <<hold, keys, cleared>>)
  <2>1. /\ MayRelease(w) /\ hold' = [rev |-> hold.rev + 1, by |-> Nil]
        /\ keys' = keys \cup {<<key, hold.rev>>}
        /\ cleared' = cleared \cup {d \in Contents : review[d] # Nil /\ Dismissible(review[d])}
    BY <1>7 DEF Release
  <2>2. Types'
    <3>1. hold' \in [rev : Nat, by : {Nil, "watch", "operator"}]
      <4>1. hold.rev + 1 \in Nat
        BY DEF WatchInv, Types
      <4> QED BY <2>1, <4>1
    <3>2. cleared' \subseteq Contents
      BY <2>1 DEF WatchInv, Types
    <3> QED BY <1>2, <1>3, <1>4, <3>1, <3>2 DEF WatchInv, Types
  <2>3. Noticed' /\ Preserved' /\ KeysArmed'
    <3>1. Noticed' /\ Preserved'
      BY <1>4 DEF WatchInv, Noticed, Preserved
    <3>2. \A k \in keys' \ keys : k[1][1] = "source-dismiss"
      BY <2>1
    <3>3. KeysArmed'
      BY <1>4, <3>2 DEF WatchInv, KeysArmed
    <3> QED BY <3>1, <3>3
  <2>4. FoundStaysHeld'
    <3>1. \A c \in Contents : review[c] # Nil => Dismissible(review[c])
      BY <2>1 DEF MayRelease, Unresolved
    <3>2. armed \subseteq cleared'
      BY <2>1, <3>1 DEF WatchInv, Types, Preserved
    <3> QED BY <1>4, <3>2 DEF FoundStaysHeld
  <2>5. ASSUME NEW v \in Watchers PROVE Carried(watcher[v])' /\ Counted(v)'
    <3>1. CASE v = w
      <4>1. watcher'[w] = p
        BY <1>3, AtWork
      <4> QED BY <1>4, <1>5, <3>1, <4>1 DEF Carried
    <3>2. CASE v # w
      <4>1. watcher'[v] = watcher[v]
        BY <1>3, <3>2, AtWork
      <4> QED BY <1>4, <4>1, OtherPasses DEF LeaseKept
    <3> QED BY <3>1, <3>2
  <2> QED BY <2>2, <2>3, <2>4, <2>5 DEF WatchInv
<1> QED BY <1>6, <1>7

-----------------------------------------------------------------------------
(***************************************************************************)
(* Steps of everybody else                                                 *)
(***************************************************************************)
\* No pass moves and no row of a review changes.
LEMMA AroundPasses ==
  ASSUME SourceWatchAssumption, WatchInv, Types', UNCHANGED <<review, seen, watcher, armed, keys>>,
         \A s \in Sources : source[s] # Nil => source'[s] # Nil,
         FoundStaysHeld'
  PROVE  WatchInv'
<1>1. Noticed' /\ Preserved' /\ KeysArmed'
  BY DEF WatchInv, Noticed, Preserved, KeysArmed
<1>2. ASSUME NEW v \in Watchers PROVE Carried(watcher[v])' /\ Counted(v)'
  BY OtherPasses DEF LeaseKept
<1> QED BY <1>1, <1>2 DEF WatchInv

LEMMA OperatorStep ==
  ASSUME SourceWatchAssumption, WatchInv, OperatorHold \/ OperatorRelease PROVE WatchInv'
<1>1. UNCHANGED <<page, links, source, review, seen, armed, cleared, keys, forecast, bound, budget, watcher>>
  BY DEF OperatorHold, OperatorRelease, world, history
<1>2. hold' \in [rev : Nat, by : {Nil, "watch", "operator"}]
  <2>1. hold.rev + 1 \in Nat
    BY DEF WatchInv, Types
  <2> QED BY <2>1 DEF OperatorHold, OperatorRelease
<1>3. Types'
  BY <1>1, <1>2 DEF WatchInv, Types
<1>4. FoundStaysHeld'
  <2>1. CASE OperatorHold
    BY <2>1 DEF OperatorHold, FoundStaysHeld, SourceWatchAssumption
  <2>2. CASE OperatorRelease
    BY <2>2 DEF OperatorRelease, FoundStaysHeld
  <2> QED BY <2>1, <2>2
<1> QED BY <1>1, <1>3, <1>4, AroundPasses

LEMMA AdvanceStep ==
  ASSUME SourceWatchAssumption, WatchInv, Advance PROVE WatchInv'
<1>1. UNCHANGED <<page, links, source, review, seen, armed, cleared, keys, hold, overridden, bound, budget, watcher>>
  BY DEF Advance, world, history
<1>2. forecast' \in {"LOCKED", "FINAL"}
  BY DEF Advance
<1>3. Types'
  BY <1>1, <1>2 DEF WatchInv, Types
<1>4. FoundStaysHeld'
  BY <1>2 DEF FoundStaysHeld
<1> QED BY <1>1, <1>3, <1>4, AroundPasses

LEMMA PublishStep ==
  ASSUME SourceWatchAssumption, WatchInv, Publish PROVE WatchInv'
<1>1. UNCHANGED <<source, review, seen, armed, cleared, keys, hold, overridden, bound, budget, watcher, forecast>>
  BY DEF Publish, history
<1>2. Types'
  BY <1>1 DEF WatchInv, Types, Publish
<1>3. FoundStaysHeld'
  BY <1>1 DEF FoundStaysHeld, WatchInv
<1> QED BY <1>1, <1>2, <1>3, AroundPasses

\* A flag of a source's row changes.
LEMMA SourceAround ==
  ASSUME SourceWatchAssumption, WatchInv, NEW s \in Sources, source[s] # Nil,
         NEW row \in SourceRows, source' = [source EXCEPT ![s] = row],
         UNCHANGED <<page, links, review, seen, armed, cleared, keys, hold, overridden, bound, budget, watcher, forecast>>
  PROVE  WatchInv'
<1>1. Types' /\ \A r \in Sources : source[r] # Nil => source'[r] # Nil
  BY DEF WatchInv, Types, SourceWatchAssumption
<1>2. FoundStaysHeld'
  BY DEF FoundStaysHeld, WatchInv
<1> QED BY <1>1, <1>2, AroundPasses

LEMMA DueStep ==
  ASSUME SourceWatchAssumption, WatchInv, FallDue PROVE WatchInv'
<1>1. PICK s \in Sources : source[s] # Nil /\ source' = [source EXCEPT ![s].due = TRUE]
  BY DEF FallDue
<1> DEFINE row == [source[s] EXCEPT !.due = TRUE]
<1>2. row \in SourceRows /\ source' = [source EXCEPT ![s] = row]
  BY <1>1 DEF WatchInv, Types, SourceRows
<1> HIDE DEF row
<1> QED BY <1>1, <1>2, SourceAround DEF FallDue, world, history

\* A flag of a review's row changes, whoever is at work on it.
LEMMA ReviewAround ==
  ASSUME SourceWatchAssumption, WatchInv, NEW c \in Contents, review[c] # Nil,
         NEW row \in ReviewRows, review' = [review EXCEPT ![c] = row],
         row.a = review[c].a, row.token = review[c].token,
         row.attempts = review[c].attempts,
         budget' \in 0..Budget,
         UNCHANGED <<page, links, source, seen, armed, cleared, keys, hold, overridden, bound, watcher, forecast>>
  PROVE  WatchInv'
<1>1. /\ review'[c] = row /\ row # Nil
      /\ \A d \in Contents \ {c} : review'[d] = review[d]
  BY DEF WatchInv, Types, SourceWatchAssumption
<1>2. Types'
  <2>1. review' \in [Contents -> ReviewRows \cup {Nil}]
    BY DEF WatchInv, Types
  <2> QED BY <2>1 DEF WatchInv, Types
<1>3. \A d \in Contents : review[d] # Nil <=> review'[d] # Nil
  BY <1>1
<1>4. Noticed' /\ Preserved' /\ KeysArmed'
  BY <1>1, <1>3 DEF WatchInv, Types, Noticed, Preserved, KeysArmed
<1>5. FoundStaysHeld'
  BY DEF FoundStaysHeld, WatchInv
<1>6. ASSUME NEW v \in Watchers PROVE Carried(watcher[v])' /\ Counted(v)'
  <2>1. watcher[v].pc \in {"claim"} \cup Stages => watcher[v].c \in Contents
    BY AtWork DEF Carried
  <2>2. watcher[v].pc \in Stages => LeaseKept(v)
    BY <1>1, <2>1 DEF LeaseKept
  <2> QED BY <1>3, <2>2, OtherPasses
<1> QED BY <1>2, <1>4, <1>5, <1>6 DEF WatchInv

LEMMA AgainStep ==
  ASSUME SourceWatchAssumption, WatchInv, NEW c \in Contents, Again(c) PROVE WatchInv'
<1> DEFINE row == [review[c] EXCEPT !.due = TRUE]
<1>1. review[c] # Nil /\ review[c] \in ReviewRows
  BY DEF Again, WatchInv, Types
<1>2. /\ row \in ReviewRows /\ row.a = review[c].a /\ row.token = review[c].token
      /\ row.attempts = review[c].attempts
  BY <1>1 DEF ReviewRows
<1>3. review' = [review EXCEPT ![c] = row] /\ budget' = 0
  BY <1>1 DEF Again, ReviewRows
<1> HIDE DEF row
<1>4. UNCHANGED <<page, links, source, seen, armed, cleared, keys, hold, overridden, bound, watcher, forecast>>
  BY DEF Again, world, history
<1>5. budget' \in 0..Budget
  BY <1>3 DEF SourceWatchAssumption
<1> QED BY <1>1, <1>2, <1>3, <1>4, <1>5, ReviewAround

LEMMA ExpireStep ==
  ASSUME SourceWatchAssumption, WatchInv, Expire PROVE WatchInv'
<1>1. UNCHANGED <<page, links, seen, armed, cleared, keys, hold, overridden, bound, watcher, forecast, budget>>
  BY DEF Expire, world, history
<1>2. ASSUME NEW s \in Sources, source[s] # Nil, source' = [source EXCEPT ![s].live = FALSE],
             UNCHANGED review
      PROVE  WatchInv'
  <2> DEFINE row == [source[s] EXCEPT !.live = FALSE]
  <2>1. row \in SourceRows /\ source' = [source EXCEPT ![s] = row]
    BY <1>2 DEF WatchInv, Types, SourceRows
  <2> HIDE DEF row
  <2> QED BY <1>1, <1>2, <2>1, SourceAround
<1>3. ASSUME NEW c \in Contents, review[c] # Nil, review' = [review EXCEPT ![c].live = FALSE],
             UNCHANGED source
      PROVE  WatchInv'
  <2> DEFINE row == [review[c] EXCEPT !.live = FALSE]
  <2>1. review[c] \in ReviewRows
    BY <1>3 DEF WatchInv, Types
  <2>2. /\ row \in ReviewRows /\ row.a = review[c].a /\ row.token = review[c].token
        /\ row.attempts = review[c].attempts
    BY <2>1 DEF ReviewRows
  <2>3. review' = [review EXCEPT ![c] = row]
    BY <1>3, <2>1 DEF ReviewRows
  <2> HIDE DEF row
  <2>4. budget' \in 0..Budget
    BY <1>1 DEF WatchInv, Types
  <2> QED BY <1>1, <1>3, <2>2, <2>3, <2>4, ReviewAround
<1> QED BY <1>2, <1>3 DEF Expire
-----------------------------------------------------------------------------
(***************************************************************************)
(* The invariant                                                           *)
(***************************************************************************)
LEMMA WatchInitially == SourceWatchAssumption /\ WatchInit => WatchInv
<1> SUFFICES ASSUME SourceWatchAssumption, WatchInit PROVE WatchInv
  OBVIOUS
<1>1. Types
  <2>1. source \in [Sources -> SourceRows \cup {Nil}]
    BY SourceRow DEF WatchInit
  <2>2. watcher \in [Watchers -> Passes] /\ 0 \in 0..Budget
    BY IdlePass DEF WatchInit, SourceWatchAssumption
  <2> QED BY <2>1, <2>2 DEF WatchInit, Types, Observations
<1>2. Noticed /\ Preserved /\ KeysArmed /\ FoundStaysHeld
  BY DEF WatchInit, Noticed, Preserved, KeysArmed, FoundStaysHeld
<1>3. ASSUME NEW w \in Watchers PROVE Carried(watcher[w]) /\ Counted(w)
  <2>1. watcher[w] = NoPass
    BY DEF WatchInit
  <2> QED BY <2>1, IdlePass DEF Counted, Holds, Stages
<1> QED BY <1>1, <1>2, <1>3 DEF WatchInv

LEMMA WatchStep ==
  SourceWatchAssumption /\ WatchInv /\ [WatchNext]_watchvars => WatchInv'
<1> SUFFICES ASSUME SourceWatchAssumption, WatchInv, [WatchNext]_watchvars PROVE WatchInv'
  OBVIOUS
<1>1. ASSUME NEW w \in Watchers, Poll(w) PROVE WatchInv'
  BY <1>1, BootstrapStep, QueueKnownStep, PollIndexStep, PollArticleStep, PollDoneStep,
     PollFailsStep, ClaimSourceStep, ReportStep, PinStep DEF Poll
<1>2. ASSUME NEW w \in Watchers, Review(w) PROVE WatchInv'
  BY <1>2, EnqueueStep, HoldReadStep, HoldTakeStep, ClaimReviewStep, AskStep, StoreResultStep,
     OwnedStep, AcceptStep, DismissReadStep, ReleaseStep, CompleteStep, ReviewFailsStep,
     SelectReviewStep DEF Review
<1>3. ASSUME NEW w \in Watchers, Crash(w) PROVE WatchInv'
  BY <1>3, EndsStep DEF Crash, world, history
<1>4. CASE OperatorHold \/ OperatorRelease \/ Advance \/ Publish \/ FallDue \/ Expire
  BY <1>4, OperatorStep, AdvanceStep, PublishStep, DueStep, ExpireStep
<1>5. ASSUME NEW c \in Contents, Again(c) PROVE WatchInv'
  BY <1>5, AgainStep
<1>6. CASE UNCHANGED watchvars
  <2>1. UNCHANGED <<page, links, source, review, seen, armed, cleared, keys, hold, overridden, bound, budget, watcher, forecast>>
    BY <1>6 DEF watchvars
  <2>2. Types' /\ FoundStaysHeld'
    BY <2>1 DEF WatchInv, Types, FoundStaysHeld
  <2> QED BY <2>1, <2>2, AroundPasses
<1> QED BY <1>1, <1>2, <1>3, <1>4, <1>5, <1>6 DEF WatchNext

\* The rows are what their declarations allow; what is queued was observed and
\* stays queued, what a hold was taken for is armed, and the attempt of the
\* pass that has a row is counted, so that giving it back never goes below
\* zero (source_watch.rs run, record_review_failure; participation_holds.rs prior).
THEOREM Watched == SourceWatchAssumption /\ WatchSpec => []WatchInv
<1> SUFFICES ASSUME SourceWatchAssumption PROVE WatchSpec => []WatchInv
  OBVIOUS
<1>1. WatchInit => WatchInv
  BY WatchInitially
<1>2. WatchInv /\ [WatchNext]_watchvars => WatchInv'
  BY WatchStep
<1> QED BY <1>1, <1>2, PTL DEF WatchSpec

\* The rows of the watch are of their declared types.
THEOREM RowsTyped == SourceWatchAssumption /\ WatchSpec => []WatchTypeOK
<1> SUFFICES ASSUME SourceWatchAssumption PROVE WatchSpec => []WatchTypeOK
  OBVIOUS
<1>1. WatchInv => WatchTypeOK
  BY DEF SourceWatchAssumption, WatchInv, Types, Noticed, WatchTypeOK, SourceRows, ReviewRows, Observations
<1> QED BY <1>1, Watched, PTL

\* While the question is open, what was queued and held is held, or stood
\* dismissed with all else when the watch released it, unless an operator
\* released (participation_holds.rs change, the guard of a release): for passes
\* of any length, with leases that end under them.
THEOREM StaysHeld == SourceWatchAssumption /\ WatchSpec => []FoundStaysHeld
<1>1. WatchInv => FoundStaysHeld
  BY DEF WatchInv
<1> QED BY <1>1, Watched, PTL

-----------------------------------------------------------------------------
(***************************************************************************)
(* The workflows: the providers that decide one result are never one, for  *)
(* any configurations, orders of them that are deployed, and retained      *)
(* pages.                                                                  *)
(***************************************************************************)
Fields == {"kind", "task", "of", "left", "failed", "said", "kept", "docs", "todo", "judge", "event",
           "basis"}
IsFlow(f) == f = [x \in Fields |-> f[x]]
IsRecord(r) == r = [x \in {"trigger", "resolution", "review"} |-> r[x]]

\* A counter judge is alone, of another provider than the judge it counters,
\* which is the first configured.
CounteredApart(f) ==
  /\ f.judge = Head(deployed)
  /\ \E c \in Configs : f.left = <<c>> /\ Named(c) # Named(f.judge)

\* What a call under way may rest on, by the workflow that makes it.
WatchPart(f) ==
  f.kind = "observe" =>
    /\ \/ f.task \in {"SOURCE_VERIFIER", "AMBIGUITY_JUDGE"} /\ f.left = Lead
       \/ f.task = "COUNTER_JUDGE" /\ CounteredApart(f)
    /\ \A d \in f.said : d.task = "SOURCE_VERIFIER" => d.by = Head(deployed)
EarlyPart(f) ==
  f.kind = "early" =>
    \/ f.task = "RESOLUTION_JUDGE" /\ f.left = Lead /\ Other # <<>>
    \/ f.task = "COUNTER_JUDGE" /\ CounteredApart(f)
DisputePart(f) ==
  f.kind = "dispute" =>
    \/ f.task \in {"DISPUTE_EVIDENCE", "DISPUTE_ANALYST"} /\ Independent # <<>>
    \/ /\ f.task = "INDEPENDENT_REJUDGE"
       /\ \E c \in Configs : f.left = <<c>> /\ Named(c) \notin Originals
Retaining(f) ==
  /\ Carries(f) \/ f.kind \in {"resolve", "dispute", "fresh"}
  /\ f.said \subseteq f.kept /\ (f.kind = "fresh" => f.said = {})

UnderWay(f) == IsFlow(f) /\ Retaining(f) /\ WatchPart(f) /\ EarlyPart(f) /\ DisputePart(f)

FlowInv ==
  /\ deployed \in Orders /\ IsRecord(record)
  /\ flow # Absent => UnderWay(flow)
  /\ DecidedApart /\ DismissedByTwo /\ DecisionsRetained

\* What First finds qualifies (coordinator.rs: the providers, in the order
\* configured).
LEMMA FirstFound ==
  ASSUME deployed \in Seq(Configs), NEW which
  PROVE  First(which) = <<>> \/ \E c \in which \cap Configs : First(which) = <<c>>
<1> DEFINE at == {i \in DOMAIN deployed : deployed[i] \in which}
<1>1. CASE at = {}
  BY <1>1 DEF First
<1>2. CASE at # {}
  <2>1. at \subseteq Nat
    OBVIOUS
  <2>2. PICK m \in at : \A y \in at : ~(<<y, m>> \in OpToRel(<, Nat))
    <3> HIDE DEF at
    <3> QED BY <1>2, <2>1, NatLessThanWellFounded, WFMin
  <2>3. \A y \in at : m =< y
    <3>1. \A y \in at : ~(y < m)
      <4> HIDE DEF at
      <4> QED BY <2>1, <2>2 DEF OpToRel
    <3>2. m \in Nat /\ \A y \in at : y \in Nat
      BY <2>1, <2>2
    <3>3. ASSUME NEW y \in at PROVE m =< y
      <4>1. y \in Nat /\ m \in Nat /\ ~(y < m)
        BY <3>1, <3>2
      <4> QED BY <4>1
    <3> QED BY <3>3
  <2>4. Min(at) \in at
    <3> HIDE DEF at
    <3> QED BY <2>2, <2>3 DEF Min
  <2>5. deployed[Min(at)] \in which \cap Configs
    <3>1. PICK i : i = Min(at)
      OBVIOUS
    <3>2. i \in DOMAIN deployed /\ deployed[i] \in which
      BY <2>4, <3>1
    <3>3. deployed[i] \in Configs
      BY <3>2
    <3> QED BY <3>1, <3>2, <3>3
  <2>6. First(which) = <<deployed[Min(at)]>>
    BY <1>2 DEF First
  <2> HIDE DEF at
  <2> QED BY <2>5, <2>6
<1> QED BY <1>1, <1>2

\* What changes of a workflow that starts, asks, is answered or judged.
LEMMA Starts ==
  ASSUME NEW kind, NEW f, f = Started(kind)
  PROVE  IsFlow(f) /\ f.kind = kind /\ f.said = {} /\ f.kept = {} /\ f.event = Absent
  BY DEF Started, IsFlow, Fields

LEMMA Asks ==
  ASSUME NEW f, IsFlow(f), NEW task, NEW of, NEW who, NEW g, g = Asking(f, task, of, who)
  PROVE  /\ IsFlow(g) /\ g.task = task /\ g.left = who
         /\ g.kind = f.kind /\ g.said = f.said /\ g.kept = f.kept /\ g.judge = f.judge
         /\ g.event = f.event
  BY DEF Asking, IsFlow, Fields

LEMMA Judges ==
  ASSUME NEW f, IsFlow(f), NEW c, NEW g, g = [f EXCEPT !.judge = c]
  PROVE  /\ IsFlow(g) /\ g.judge = c
         /\ g.kind = f.kind /\ g.said = f.said /\ g.kept = f.kept /\ g.event = f.event
  BY DEF IsFlow, Fields

LEMMA Says ==
  ASSUME NEW f, IsFlow(f), NEW d, NEW g, g = Said(f, d)
  PROVE  /\ IsFlow(g) /\ g.said = f.said \cup {d} /\ g.kept = f.kept \cup {d}
         /\ g.kind = f.kind /\ g.task = f.task /\ g.left = f.left /\ g.judge = f.judge
         /\ g.event = f.event
  BY DEF Said, IsFlow, Fields

LEMMA Collects ==
  ASSUME NEW f, IsFlow(f), NEW l, NEW g, g = Collected(f, l)
  PROVE  /\ IsFlow(g) /\ f.kept \subseteq g.kept
         /\ g.kind = f.kind /\ g.said = f.said /\ g.judge = f.judge /\ g.event = f.event
  BY DEF Collected, IsFlow, Fields

\* How a workflow goes on, and how it ends.
LEMMA Continues ==
  ASSUME FlowInv, NEW f, Continue(f), UnderWay(f)
  PROVE  FlowInv'
<1>1. UNCHANGED <<deployed, record>> /\ flow' = f /\ done' = Absent
  BY DEF Continue
<1>2. UnderWay(f)'
  BY <1>1 DEF UnderWay, IsFlow, Retaining, Carries, WatchPart, EarlyPart, DisputePart, CounteredApart, Lead,
     Other, Independent, Originals, First
<1>3. DecidedApart' /\ DismissedByTwo' /\ DecisionsRetained'
  BY <1>1 DEF FlowInv, DecidedApart, DismissedByTwo, DecisionsRetained
<1> QED BY <1>1, <1>2, <1>3 DEF FlowInv, IsRecord

LEMMA Ends ==
  ASSUME FlowInv, NEW f, NEW code, NEW kept, NEW rec, End(Ended(f, code, kept), rec),
         IsRecord(rec), DecidedApart', f.kind = "observe" /\ code = "dismissed" => DismissedByTwo',
         code = "ok" \/ f.kind \notin {"resolve", "dispute"} => f.said \subseteq kept
  PROVE  FlowInv'
<1>1. /\ flow' = Absent /\ record' = rec /\ deployed' = deployed
      /\ done' = Ended(f, code, kept)
  BY DEF End
<1>2. done'.kind = f.kind /\ done'.code = code /\ done'.said = f.said /\ done'.kept = kept
  BY <1>1 DEF Ended
<1>3. DecisionsRetained'
  BY <1>2 DEF DecisionsRetained
<1>4. DismissedByTwo'
  BY <1>2 DEF DismissedByTwo
<1> QED BY <1>1, <1>3, <1>4 DEF FlowInv, IsRecord

LEMMA Closes ==
  ASSUME FlowInv, NEW f, NEW code, NEW kept, End(Ended(f, code, kept), record),
         f.kind = "observe" => code # "dismissed",
         code = "ok" \/ f.kind \notin {"resolve", "dispute"} => f.said \subseteq kept
  PROVE  FlowInv'
<1>1. record' = record
  BY DEF End
<1>2. DecidedApart' /\ IsRecord(record)
  BY <1>1 DEF FlowInv, DecidedApart
<1> QED BY <1>2, Ends

\* A refusal keeps what its workflow carries.
LEMMA Fails ==
  ASSUME FlowInv, NEW f, Retaining(f), NEW code, code \notin {"ok", "dismissed"}, NEW more,
         Refuse(f, code, Kept(f, more))
  PROVE  FlowInv'
<1>1. PICK k : k = Kept(f, more)
  OBVIOUS
<1>2. End(Ended(f, code, k), record)
  BY <1>1 DEF Refuse
<1>3. f.kind \notin {"resolve", "dispute"} => f.said \subseteq k
  BY <1>1 DEF Retaining, Kept, Carries
<1> QED BY <1>2, <1>3, Closes

\* Resolutions, compilations and estimates may ask anything.
LEMMA AsksOn ==
  ASSUME FlowInv, NEW f, IsFlow(f), f.kind \in {"resolve", "compile", "refresh"},
         f.said \subseteq f.kept, NEW task, NEW of, NEW who, Continue(Asking(f, task, of, who))
  PROVE  FlowInv'
<1>1. PICK g : g = Asking(f, task, of, who)
  OBVIOUS
<1>2. IsFlow(g) /\ g.kind = f.kind /\ g.said = f.said /\ g.kept = f.kept
  BY <1>1, Asks
<1>3. UnderWay(g)
  BY <1>2 DEF UnderWay, Retaining, Carries, WatchPart, EarlyPart, DisputePart
<1> QED BY <1>1, <1>3, Continues

\* What a new resolution, trigger or review leaves of the record.
LEMMA Resolves ==
  ASSUME FlowInv, NEW r, r.early => Named(r.judge) # Named(r.counter),
         record' = [record EXCEPT !.resolution = r]
  PROVE  IsRecord(record') /\ DecidedApart'
<1>1. IsRecord(record') /\ record'.trigger = record.trigger /\ record'.review = record.review
      /\ record'.resolution = r
  BY DEF FlowInv, IsRecord
<1>2. ASSUME NEW x \in {record'.trigger, record'.resolution} \ {Absent},
             x = record'.trigger \/ x.early
      PROVE  Named(x.judge) # Named(x.counter)
  BY <1>1, <1>2 DEF FlowInv, DecidedApart
<1> QED BY <1>1, <1>2 DEF FlowInv, DecidedApart, Named

LEMMA Triggers ==
  ASSUME FlowInv, NEW r, Named(r.judge) # Named(r.counter),
         record' = [record EXCEPT !.trigger = r]
  PROVE  IsRecord(record') /\ DecidedApart'
<1>1. IsRecord(record') /\ record'.trigger = r /\ record'.review = record.review
      /\ record'.resolution = record.resolution
  BY DEF FlowInv, IsRecord
<1>2. ASSUME NEW x \in {record'.trigger, record'.resolution} \ {Absent},
             x = record'.trigger \/ x.early
      PROVE  Named(x.judge) # Named(x.counter)
  BY <1>1, <1>2 DEF FlowInv, DecidedApart
<1> QED BY <1>1, <1>2 DEF FlowInv, DecidedApart, Named

LEMMA Reviews ==
  ASSUME FlowInv, NEW r, r.of = record.resolution, Named(r.by) \notin Originals,
         record' = [record EXCEPT !.review = r]
  PROVE  IsRecord(record') /\ DecidedApart'
<1>1. IsRecord(record') /\ record'.trigger = record.trigger /\ record'.review = r
      /\ record'.resolution = record.resolution
  BY DEF FlowInv, IsRecord
<1>2. Named(r.by) \notin {Named(r.of.judge), Named(r.of.counter)}
  BY DEF Originals
<1> QED BY <1>1, <1>2 DEF FlowInv, DecidedApart, Named

\* A result is retained with every answer, and the record it becomes is sound.
LEMMA Decides ==
  ASSUME FlowInv, NEW f, f.said \subseteq f.kept, NEW rec, Finish(f, "ok", f.kept, rec),
         record' = rec => IsRecord(record') /\ DecidedApart'
  PROVE  FlowInv'
<1>1. End(Ended(f, "ok", f.kept), rec)
  BY DEF Finish
<1>2. record' = rec
  BY <1>1 DEF End
<1> QED BY <1>1, <1>2, Ends

-----------------------------------------------------------------------------
\* An answer is added to what was said and kept.
Replied(f, c, out, g) == g = Said(f, Decision(f.task, f.of, c, out))

LEMMA Replies ==
  ASSUME NEW f, UnderWay(f), NEW c, NEW out, NEW g, Replied(f, c, out, g)
  PROVE  /\ IsFlow(g) /\ g.said \subseteq g.kept
         /\ g.kind = f.kind /\ g.task = f.task /\ g.left = f.left /\ g.judge = f.judge
         /\ g.event = f.event
         /\ \E d : /\ g.said = f.said \cup {d} /\ d.task = f.task /\ d.by = c /\ d.out = out
<1>1. PICK d : d = Decision(f.task, f.of, c, out)
  OBVIOUS
<1>2. d.task = f.task /\ d.by = c /\ d.out = out
  BY <1>1 DEF Decision
<1>3. IsFlow(f) /\ f.said \subseteq f.kept
  BY DEF UnderWay, Retaining
<1>4. g = Said(f, d)
  BY <1>1 DEF Replied
<1>5. /\ IsFlow(g) /\ g.said = f.said \cup {d} /\ g.kept = f.kept \cup {d}
      /\ g.kind = f.kind /\ g.task = f.task /\ g.left = f.left /\ g.judge = f.judge
      /\ g.event = f.event
  BY <1>3, <1>4, Says
<1> QED BY <1>2, <1>3, <1>5

\* A resolution is proposed at the close (propose_resolution).
LEMMA ResolvingStep ==
  ASSUME FlowInv, NEW g, IsFlow(g), g.said \subseteq g.kept, g.kind = "resolve", NEW c, NEW out,
         Resolving(g, c, out)
  PROVE  FlowInv'
<1>1. CASE Continue(Asking(g, "RESOLUTION_JUDGE", Absent, deployed))
  BY <1>1, AsksOn
<1>2. ASSUME NEW s \in g.todo,
             Continue(Asking([g EXCEPT !.todo = @ \ {s}], "SOURCE_VERIFIER", s, deployed))
      PROVE  FlowInv'
  <2>1. PICK h : h = [g EXCEPT !.todo = @ \ {s}]
    OBVIOUS
  <2>2. IsFlow(h) /\ h.kind = g.kind /\ h.said = g.said /\ h.kept = g.kept
    BY <2>1 DEF IsFlow, Fields
  <2>3. Continue(Asking(h, "SOURCE_VERIFIER", s, deployed))
    BY <1>2, <2>1
  <2> QED BY <2>2, <2>3, AsksOn
<1>3. CASE Continue(Asking([g EXCEPT !.judge = c], "COUNTER_JUDGE", Absent, <<c>>))
  <2>1. PICK h : h = [g EXCEPT !.judge = c]
    OBVIOUS
  <2>2. IsFlow(h) /\ h.kind = g.kind /\ h.said = g.said /\ h.kept = g.kept
    BY <2>1, Judges
  <2>3. Continue(Asking(h, "COUNTER_JUDGE", Absent, <<c>>))
    BY <1>3, <2>1
  <2> QED BY <2>2, <2>3, AsksOn
<1>4. CASE Refuse(g, "resolution_domain_rejected", g.kept) \/ Refuse(g, "ai_rejected", g.kept)
  BY <1>4, Closes DEF Refuse
<1>5. CASE Finish(g, "ok", g.kept, [record EXCEPT !.resolution =
             [early |-> FALSE, judge |-> g.judge, counter |-> c, docs |-> g.docs]])
  <2>1. PICK r : r = [early |-> FALSE, judge |-> g.judge, counter |-> c, docs |-> g.docs]
    OBVIOUS
  <2>2. Finish(g, "ok", g.kept, [record EXCEPT !.resolution = r])
    BY <1>5, <2>1
  <2>3. r.early = FALSE
    BY <2>1
  <2>4. record' = [record EXCEPT !.resolution = r] => IsRecord(record') /\ DecidedApart'
    BY <2>3, Resolves
  <2> QED BY <2>2, <2>4, Decides
<1> QED BY <1>1, <1>2, <1>3, <1>4, <1>5 DEF Resolving

\* A counter judge is asked only of another provider than the lead's.
LEMMA AsksCounter ==
  ASSUME FlowInv, JudgingAssumption, NEW f, IsFlow(f), f.kind \in {"observe", "early"}, f.said \subseteq f.kept,
         f.kind = "observe" => \A d \in f.said : d.task = "SOURCE_VERIFIER" => d.by = Head(deployed),
         NEW c, c = Head(deployed), Other # <<>>,
         Continue(Asking([f EXCEPT !.judge = c], "COUNTER_JUDGE", Absent, Other))
  PROVE  FlowInv'
<1>1. PICK g : g = [f EXCEPT !.judge = c]
  OBVIOUS
<1>2. /\ IsFlow(g) /\ g.judge = c /\ g.kind = f.kind /\ g.said = f.said /\ g.kept = f.kept
  <2>1. IsFlow(f)
    OBVIOUS
  <2> QED BY ONLY <1>1, <2>1, Judges
<1>3. PICK h : h = Asking(g, "COUNTER_JUDGE", Absent, Other)
  OBVIOUS
<1>4. /\ IsFlow(h) /\ h.judge = c /\ h.kind = f.kind /\ h.said = f.said /\ h.kept = f.kept
      /\ h.task = "COUNTER_JUDGE" /\ h.left = Other
  BY <1>2, <1>3, Asks
<1>5. CounteredApart(h)
  <2>1. deployed \in Seq(Configs)
    BY DEF JudgingAssumption, FlowInv
  <2>2. PICK o \in {x \in Configs : Named(x) # Named(Head(deployed))} : Other = <<o>>
    BY <2>1, FirstFound DEF Other
  <2> QED BY <1>4, <2>2 DEF CounteredApart
<1>6. UnderWay(h)
  BY <1>4, <1>5 DEF UnderWay, Retaining, Carries, WatchPart, EarlyPart, DisputePart
<1>7. Continue(h)
  BY <1>1, <1>3
<1> QED BY <1>6, <1>7, Continues

\* The page a watch observed is reviewed (review_source_observation).
LEMMA ObservingStep ==
  ASSUME FlowInv, JudgingAssumption, NEW f, UnderWay(f), f.kind = "observe",
         NEW c, c = Head(f.left), NEW out, NEW g, Replied(f, c, out, g), Observing(g, c, out)
  PROVE  FlowInv'
<1>1. /\ IsFlow(g) /\ g.said \subseteq g.kept
      /\ g.kind = "observe" /\ g.task = f.task /\ g.left = f.left /\ g.judge = f.judge
      /\ g.event = f.event
  BY Replies
<1>2. PICK d : g.said = f.said \cup {d} /\ d.task = f.task /\ d.by = c /\ d.out = out
  BY Replies
<1>3. /\ \/ f.task \in {"SOURCE_VERIFIER", "AMBIGUITY_JUDGE"} /\ f.left = Lead
         \/ f.task = "COUNTER_JUDGE" /\ CounteredApart(f)
      /\ \A e \in f.said : e.task = "SOURCE_VERIFIER" => e.by = Head(deployed)
  BY DEF UnderWay, WatchPart
<1>4. f.task # "COUNTER_JUDGE" => c = Head(deployed)
  BY <1>3 DEF Lead
<1>5. \A e \in g.said : e.task = "SOURCE_VERIFIER" => e.by = Head(deployed)
  BY <1>2, <1>3, <1>4
<1>6. f.task = "COUNTER_JUDGE" => g.judge = Head(deployed) /\ Named(c) # Named(g.judge)
  BY <1>1, <1>3 DEF CounteredApart
<1>7. CASE g.task = "SOURCE_VERIFIER" /\ Continue(Asking(g, "AMBIGUITY_JUDGE", Absent, Lead))
  <2>1. PICK h : h = Asking(g, "AMBIGUITY_JUDGE", Absent, Lead)
    OBVIOUS
  <2>2. /\ IsFlow(h) /\ h.kind = "observe" /\ h.said = g.said /\ h.kept = g.kept
        /\ h.task = "AMBIGUITY_JUDGE" /\ h.left = Lead
    BY <1>1, <2>1, Asks
  <2>3. UnderWay(h)
    BY <1>1, <1>5, <2>2 DEF UnderWay, Retaining, Carries, WatchPart, EarlyPart, DisputePart
  <2> QED BY <1>7, <2>1, <2>3, Continues
<1>8. CASE g.task # "COUNTER_JUDGE" /\ Countered(g, c)
  <2>1. CASE Refuse(g, "unavailable", g.kept)
    BY <1>1, <2>1, Closes DEF Refuse
  <2>2. CASE Other # <<>> /\ Continue(Asking([g EXCEPT !.judge = c], "COUNTER_JUDGE", Absent, Other))
    BY <1>1, <1>4, <1>5, <1>8, <2>2, AsksCounter
  <2> QED BY <1>8, <2>1, <2>2 DEF Countered
<1>9. CASE Refuse(g, "early_counter_time_mismatch", g.kept)
  BY <1>1, <1>9, Closes DEF Refuse
<1>10. CASE Finish(g, "not_accepted", g.kept, record)
  BY <1>1, <1>10, Closes DEF Finish
<1>11. CASE /\ g.task = "COUNTER_JUDGE" /\ out = "agrees" /\ Unrelated(g)
            /\ Finish(g, "dismissed", g.kept, record)
  <2>1. End(Ended(g, "dismissed", g.kept), record) /\ done' = Ended(g, "dismissed", g.kept)
        /\ record' = record
    BY <1>11 DEF Finish, End
  <2>2. PICK e \in SaidOf(g, "SOURCE_VERIFIER") : e.out = "irrelevant"
    BY <1>11 DEF Unrelated
  <2>3. e \in g.said /\ d \in g.said /\ e.by = Head(deployed)
    BY <1>2, <1>5, <2>2 DEF SaidOf
  <2>4. Named(e.by) # Named(d.by) /\ e.out = "irrelevant" /\ d.out = "agrees"
    BY <1>1, <1>2, <1>6, <1>11, <2>2, <2>3
  <2>5. done'.said = g.said
    BY <2>1 DEF Ended
  <2>6. \E x, y \in done'.said : Named(x.by) # Named(y.by) /\ x.out = "irrelevant" /\ y.out = "agrees"
    BY <2>3, <2>4, <2>5
  <2>7. DismissedByTwo'
    BY <2>6 DEF DismissedByTwo, Named
  <2>8. IsRecord(record) /\ DecidedApart'
    BY <2>1 DEF FlowInv, DecidedApart
  <2> QED BY <1>1, <2>1, <2>7, <2>8, Ends
<1>12. CASE /\ g.task = "COUNTER_JUDGE"
            /\ Finish(g, "ok", g.kept, [record EXCEPT !.trigger =
                 [event |-> g.event, basis |-> g.basis, judge |-> g.judge, counter |-> c,
                  docs |-> g.docs]])
  <2>1. PICK r : r = [event |-> g.event, basis |-> g.basis, judge |-> g.judge, counter |-> c,
                      docs |-> g.docs]
    OBVIOUS
  <2>2. Finish(g, "ok", g.kept, [record EXCEPT !.trigger = r])
    BY <1>12, <2>1
  <2>3. Named(r.judge) # Named(r.counter)
    BY <1>1, <1>6, <1>12, <2>1
  <2>4. record' = [record EXCEPT !.trigger = r] => IsRecord(record') /\ DecidedApart'
    BY <2>3, Triggers
  <2> QED BY <1>1, <2>2, <2>4, Decides
<1> QED BY <1>1, <1>7, <1>8, <1>9, <1>10, <1>11, <1>12 DEF Observing

\* An early close is proposed on its trigger (propose_early_resolution).
LEMMA ProposingStep ==
  ASSUME FlowInv, JudgingAssumption, NEW f, UnderWay(f), f.kind = "early",
         NEW c, c = Head(f.left), NEW out, NEW g, Replied(f, c, out, g), Proposing(g, c, out)
  PROVE  FlowInv'
<1>1. /\ IsFlow(g) /\ g.said \subseteq g.kept
      /\ g.kind = "early" /\ g.task = f.task /\ g.left = f.left /\ g.judge = f.judge
  BY Replies
<1>2. \/ f.task = "RESOLUTION_JUDGE" /\ f.left = Lead /\ Other # <<>>
      \/ f.task = "COUNTER_JUDGE" /\ CounteredApart(f)
  BY DEF UnderWay, EarlyPart
<1>3. CASE /\ g.task = "RESOLUTION_JUDGE"
           /\ Continue(Asking([g EXCEPT !.judge = c], "COUNTER_JUDGE", Absent, Other))
  <2>1. c = Head(deployed) /\ Other # <<>>
    BY <1>1, <1>2, <1>3 DEF Lead
  <2> QED BY <1>1, <1>3, <2>1, AsksCounter
<1>4. CASE Refuse(g, "early_counter_time_mismatch", g.kept) \/ Refuse(g, "ai_rejected", g.kept)
  BY <1>1, <1>4, Closes DEF Refuse
<1>5. CASE /\ g.task = "COUNTER_JUDGE"
           /\ Finish(g, "ok", g.kept, [record EXCEPT !.resolution =
                [early |-> TRUE, judge |-> g.judge, counter |-> c, docs |-> g.docs]])
  <2>1. PICK r : r = [early |-> TRUE, judge |-> g.judge, counter |-> c, docs |-> g.docs]
    OBVIOUS
  <2>2. Finish(g, "ok", g.kept, [record EXCEPT !.resolution = r])
    BY <1>5, <2>1
  <2>3. Named(r.judge) # Named(r.counter)
    BY <1>1, <1>2, <1>5, <2>1 DEF CounteredApart
  <2>4. record' = [record EXCEPT !.resolution = r] => IsRecord(record') /\ DecidedApart'
    BY <2>3, Resolves
  <2> QED BY <1>1, <2>2, <2>4, Decides
<1> QED BY <1>3, <1>4, <1>5 DEF Proposing

\* A dispute is reviewed (review_dispute), by a provider of the resolution and
\* then by one that had no part in it.
LEMMA DisputingStep ==
  ASSUME FlowInv, JudgingAssumption, NEW f, UnderWay(f), f.kind = "dispute",
         NEW c, c = Head(f.left), NEW out, NEW g, Replied(f, c, out, g), Disputing(g, c, out)
  PROVE  FlowInv'
<1>1. /\ IsFlow(g) /\ g.said \subseteq g.kept
      /\ g.kind = "dispute" /\ g.task = f.task /\ g.left = f.left
  BY Replies
<1>2. \/ f.task \in {"DISPUTE_EVIDENCE", "DISPUTE_ANALYST"} /\ Independent # <<>>
      \/ /\ f.task = "INDEPENDENT_REJUDGE"
         /\ \E o \in Configs : f.left = <<o>> /\ Named(o) \notin Originals
  BY DEF UnderWay, DisputePart
<1>3. CASE g.task = "DISPUTE_EVIDENCE" /\ Continue(Asking(g, "DISPUTE_ANALYST", Absent, Original))
  <2>1. PICK h : h = Asking(g, "DISPUTE_ANALYST", Absent, Original)
    OBVIOUS
  <2>2. /\ IsFlow(h) /\ h.kind = "dispute" /\ h.said = g.said /\ h.kept = g.kept
        /\ h.task = "DISPUTE_ANALYST"
    BY <1>1, <2>1, Asks
  <2>3. UnderWay(h)
    BY <1>1, <1>2, <1>3, <2>2 DEF UnderWay, Retaining, WatchPart, EarlyPart, DisputePart
  <2> QED BY <1>3, <2>1, <2>3, Continues
<1>4. CASE /\ g.task = "DISPUTE_ANALYST"
           /\ Continue(Asking(g, "INDEPENDENT_REJUDGE", Absent, Independent))
  <2>1. PICK h : h = Asking(g, "INDEPENDENT_REJUDGE", Absent, Independent)
    OBVIOUS
  <2>2. /\ IsFlow(h) /\ h.kind = "dispute" /\ h.said = g.said /\ h.kept = g.kept
        /\ h.task = "INDEPENDENT_REJUDGE" /\ h.left = Independent
    BY <1>1, <2>1, Asks
  <2>3. \E o \in Configs : h.left = <<o>> /\ Named(o) \notin Originals
    <3>1. deployed \in Seq(Configs)
      BY DEF JudgingAssumption, FlowInv
    <3>2. PICK o \in {x \in Configs : Named(x) \notin Originals} : Independent = <<o>>
      BY <1>1, <1>2, <1>4, <3>1, FirstFound DEF Independent
    <3> QED BY <2>2, <3>2
  <2>4. UnderWay(h)
    BY <1>1, <2>2, <2>3 DEF UnderWay, Retaining, WatchPart, EarlyPart, DisputePart
  <2> QED BY <1>4, <2>1, <2>4, Continues
<1>5. CASE /\ g.task = "INDEPENDENT_REJUDGE"
           /\ Finish(g, "ok", g.kept, [record EXCEPT !.review =
                [of |-> record.resolution, by |-> c,
                 disposition |-> IF SaidMaterial(g) THEN "MATERIAL_CONFLICT"
                                 ELSE IF Valid(g) THEN "RETAIN_PROPOSAL" ELSE "INVALID_EVIDENCE"]])
  <2>1. PICK r : r = [of |-> record.resolution, by |-> c,
                      disposition |-> IF SaidMaterial(g) THEN "MATERIAL_CONFLICT"
                                      ELSE IF Valid(g) THEN "RETAIN_PROPOSAL" ELSE "INVALID_EVIDENCE"]
    OBVIOUS
  <2>2. Finish(g, "ok", g.kept, [record EXCEPT !.review = r])
    BY <1>5, <2>1
  <2>3. r.of = record.resolution /\ Named(r.by) \notin Originals
    BY <1>1, <1>2, <1>5, <2>1
  <2>4. record' = [record EXCEPT !.review = r] => IsRecord(record') /\ DecidedApart'
    BY <2>3, Reviews
  <2> QED BY <1>1, <2>2, <2>4, Decides
<1>6. CASE Refuse(g, "ai_rejected", g.kept)
  BY <1>1, <1>6, Closes DEF Refuse
<1> QED BY <1>3, <1>4, <1>5, <1>6 DEF Disputing

\* A question is compiled (compile_question).
LEMMA CompilingStep ==
  ASSUME FlowInv, NEW g, IsFlow(g), g.said \subseteq g.kept, g.kind = "compile", NEW c, NEW out,
         Compiling(g, c, out)
  PROVE  FlowInv'
<1>1. ASSUME NEW l, Nothing([g EXCEPT !.judge = c], l)
      PROVE  FlowInv'
  <2>1. PICK h : h = [g EXCEPT !.judge = c]
    OBVIOUS
  <2>2. h.kind = "compile" /\ h.said = g.said /\ h.kept = g.kept
    BY <2>1, Judges
  <2>3. PICK code \in {"unavailable", "source_rejected"} :
          Refuse(h, code, Kept(h, {SourceFailure(s) : s \in l.failed}))
    BY <1>1, <2>1 DEF Nothing
  <2>4. Retaining(h) /\ code \notin {"ok", "dismissed"}
    BY <2>2, <2>3 DEF Retaining, Carries
  <2> QED BY <2>3, <2>4, Fails
<1>2. ASSUME NEW l, Continue(Asking(Collected([g EXCEPT !.judge = c], l), "AMBIGUITY_JUDGE", Absent, deployed))
      PROVE  FlowInv'
  <2>1. PICK h : h = [g EXCEPT !.judge = c]
    OBVIOUS
  <2>2. IsFlow(h) /\ h.kind = "compile" /\ h.said = g.said /\ h.kept = g.kept
    BY <2>1, Judges
  <2>3. PICK k : k = Collected(h, l)
    OBVIOUS
  <2>4. IsFlow(k) /\ k.kind = "compile" /\ k.said = g.said /\ g.kept \subseteq k.kept
    BY <2>2, <2>3, Collects
  <2>5. k.said \subseteq k.kept /\ Continue(Asking(k, "AMBIGUITY_JUDGE", Absent, deployed))
    BY <1>2, <2>1, <2>3, <2>4
  <2> QED BY <2>4, <2>5, AsksOn
<1>3. CASE Continue(Asking(g, "DUPLICATE_DETECTOR", Absent, deployed))
  BY <1>3, AsksOn
<1>4. CASE Continue(Asking(g, "AI_FORECAST", Absent, <<g.judge>>))
  BY <1>4, AsksOn
<1>5. CASE Finish(g, "ok", g.kept, record)
  BY <1>5, Closes DEF Finish
<1>6. CASE Refuse(g, "compiler_not_publishable", g.kept)
           \/ Refuse(g, "compiler_domain_validation", g.kept)
  BY <1>6, Closes DEF Refuse
<1> QED BY <1>1, <1>2, <1>3, <1>4, <1>5, <1>6 DEF Compiling

\* A call is answered, fails over to the next provider, or ends its workflow
\* (coordinator.rs call).
LEMMA AnswerStep ==
  ASSUME FlowInv, JudgingAssumption, Answer
  PROVE  FlowInv'
<1>1. PICK f : f = flow
  OBVIOUS
<1>2. UnderWay(f)
  BY <1>1 DEF FlowInv, Answer
<1>3. PICK c : c = Head(f.left)
  OBVIOUS
<1>4. PICK failed : failed = f.failed \cup {Failure(f.task, c)}
  OBVIOUS
<1>5. IsFlow(f) /\ Retaining(f) /\ f.said \subseteq f.kept
  BY <1>2 DEF UnderWay, Retaining
<1>6. CASE Len(f.left) > 1 /\ Continue([f EXCEPT !.left = Tail(@), !.failed = failed])
  <2>1. PICK h : h = [f EXCEPT !.left = Tail(@), !.failed = failed]
    OBVIOUS
  <2>2. /\ IsFlow(h) /\ h.kind = f.kind /\ h.task = f.task /\ h.said = f.said /\ h.kept = f.kept
    BY <1>5, <2>1 DEF IsFlow, Fields
  <2>3. Len(f.left) > 1
    BY <1>6
  <2>4. ASSUME NEW o PROVE f.left # <<o>>
    <3>1. PICK n : n = Len(f.left)
      OBVIOUS
    <3>2. f.left = <<o>> => n = 1
      BY <3>1
    <3>3. n = 1 => ~(n > 1)
      OBVIOUS
    <3>4. n > 1
      BY <2>3, <3>1, Zenon
    <3> QED BY <3>2, <3>3, <3>4, Zenon
  <2>5. f.kind # "observe" /\ f.kind # "early"
    BY <1>2, <2>4 DEF UnderWay, WatchPart, EarlyPart, CounteredApart, Lead
  <2>6. f.kind = "dispute" => f.task \in {"DISPUTE_EVIDENCE", "DISPUTE_ANALYST"} /\ Independent # <<>>
    BY <1>2, <2>4 DEF UnderWay, DisputePart
  <2>7. UnderWay(h)
    BY <1>5, <2>2, <2>5, <2>6 DEF UnderWay, Retaining, Carries, WatchPart, EarlyPart, DisputePart
  <2> QED BY <1>6, <2>1, <2>7, Continues
<1>7. ASSUME NEW more, NEW code \in {"unavailable", "ai_rejected"}, FailCall(f, code, more)
      PROVE  FlowInv'
  <2>1. CASE Finish(f, "ok", f.kept \cup more, record)
    <3>1. PICK k : k = f.kept \cup more
      OBVIOUS
    <3>2. End(Ended(f, "ok", k), record) /\ f.said \subseteq k
      BY <1>5, <2>1, <3>1 DEF Finish
    <3> QED BY <3>2, Closes
  <2>2. CASE Refuse(f, code, Kept(f, more))
    BY <1>5, <2>2, Fails
  <2> QED BY <1>7, <2>1, <2>2 DEF FailCall
<1>8. ASSUME NEW out, Answered(Said(f, Decision(f.task, f.of, c, out)), c, out)
      PROVE  FlowInv'
  <2>1. PICK g : g = Said(f, Decision(f.task, f.of, c, out))
    OBVIOUS
  <2>2. Replied(f, c, out, g) /\ Answered(g, c, out)
    BY <1>8, <2>1 DEF Replied
  <2>3. IsFlow(g) /\ g.said \subseteq g.kept /\ g.kind = f.kind
    BY <1>2, <2>2, Replies
  <2>4. CASE g.kind = "resolve" /\ Resolving(g, c, out)
    BY <2>3, <2>4, ResolvingStep
  <2>5. CASE g.kind = "observe" /\ Observing(g, c, out)
    BY <1>2, <1>3, <2>2, <2>3, <2>5, ObservingStep
  <2>6. CASE g.kind = "early" /\ Proposing(g, c, out)
    BY <1>2, <1>3, <2>2, <2>3, <2>6, ProposingStep
  <2>7. CASE g.kind = "dispute" /\ Disputing(g, c, out)
    BY <1>2, <1>3, <2>2, <2>3, <2>7, DisputingStep
  <2>8. CASE g.kind = "compile" /\ Compiling(g, c, out)
    BY <2>3, <2>8, CompilingStep
  <2>9. CASE g.kind = "refresh" /\ Finish(g, "ok", g.kept, record)
    BY <2>3, <2>9, Closes DEF Finish
  <2>10. CASE g.kind = "fresh" /\ Checking(g, out)
    BY <2>3, <2>10, Closes DEF Checking, Finish, Refuse
  <2> QED BY <2>2, <2>4, <2>5, <2>6, <2>7, <2>8, <2>9, <2>10 DEF Answered
<1> QED BY <1>1, <1>3, <1>4, <1>6, <1>7, <1>8 DEF Answer

-----------------------------------------------------------------------------
\* A page whose time alone is outside the window means no instant within it
\* (early.rs, the day and the instant of a page).
LEMMA DismissedByTime ==
  ASSUME JudgingAssumption, NEW pg \in Pages, OutsideOpen(pg) \/ Predates(pg),
         done'.said = {}, done'.event = pg
  PROVE  DismissedByTwo'
<1>1. PICK o, e, n \in Nat : o = Opening /\ e = Observed /\ n = Day /\ o <= e /\ n > 0
  BY DEF JudgingAssumption
<1>2. pg.precision \in {"instant", "date", "none"} /\ pg.at \in Nat
  BY <1>1 DEF Pages, DayOf, JudgingAssumption
<1>3. CASE pg.precision = "instant"
  <2>1. ~(o <= pg.at /\ pg.at <= e)
    BY <1>1, <1>3 DEF OutsideOpen, Predates, EventAt
  <2>2. {pg.at} \cap (o..e) = {}
    BY <2>1
  <2> QED BY <1>1, <1>3, <2>2 DEF DismissedByTwo
<1>4. CASE pg.precision = "date"
  <2>1. PICK p \in Nat : p = pg.at
    BY <1>2
  <2>2. PICK q \in Int : q = o \div n
    BY <1>1
  <2>3. p < q
    BY <1>1, <1>4, <2>1, <2>2 DEF OutsideOpen, Predates, EventAt, DayOf
  <2>4. n * q <= o
    BY <1>1, <2>2
  <2>5. p * n + n <= q * n
    BY <1>1, <2>3
  <2>6. \A t \in p * n..p * n + n - 1 : t < o
    BY <1>1, <2>4, <2>5
  <2>7. (p * n..p * n + n - 1) \cap (o..e) = {}
    BY <1>1, <2>6
  <2> QED BY <1>1, <1>4, <2>1, <2>7 DEF DismissedByTwo
<1>5. CASE pg.precision = "none"
  BY <1>1, <1>5 DEF OutsideOpen, Predates, EventAt
<1> QED BY <1>2, <1>3, <1>4, <1>5

\* A watch has a page reviewed.
LEMMA ObserveStep ==
  ASSUME FlowInv, JudgingAssumption, Observe
  PROVE  FlowInv'
<1>1. PICK pg \in Pages :
        LET f == [Started("observe") EXCEPT !.event = pg, !.docs = {Announced},
                    !.basis = IF pg.precision = "instant" THEN "published_instant"
                              ELSE "observed_upper_bound"]
        IN \/ ~Readable(f.docs) /\ Refuse(f, "unavailable", {})
           \/ /\ Readable(f.docs) /\ (OutsideOpen(pg) \/ Predates(pg))
              /\ Finish(f, "dismissed", {}, record)
           \/ Readable(f.docs) /\ Uncertain(pg) /\ Finish(f, "not_accepted", {}, record)
           \/ /\ Readable(f.docs) /\ ~(OutsideOpen(pg) \/ Predates(pg) \/ Uncertain(pg))
              /\ Continue(Asking(f, "SOURCE_VERIFIER", Announced, Lead))
  BY DEF Observe
<1>2. PICK b : b = IF pg.precision = "instant" THEN "published_instant" ELSE "observed_upper_bound"
  OBVIOUS
<1>3. PICK f : f = [Started("observe") EXCEPT !.event = pg, !.docs = {Announced}, !.basis = b]
  OBVIOUS
<1>4. IsFlow(f) /\ f.kind = "observe" /\ f.said = {} /\ f.kept = {} /\ f.event = pg
  <2>1. PICK s : s = Started("observe")
    OBVIOUS
  <2>2. IsFlow(s) /\ s.kind = "observe" /\ s.said = {} /\ s.kept = {}
    BY <2>1, Starts
  <2>3. f = [s EXCEPT !.event = pg, !.docs = {Announced}, !.basis = b]
    BY <1>3, <2>1
  <2> QED BY <2>2, <2>3 DEF IsFlow, Fields
<1>5. \/ Refuse(f, "unavailable", {})
      \/ (OutsideOpen(pg) \/ Predates(pg)) /\ Finish(f, "dismissed", {}, record)
      \/ Finish(f, "not_accepted", {}, record)
      \/ Continue(Asking(f, "SOURCE_VERIFIER", Announced, Lead))
  BY <1>1, <1>2, <1>3
<1>6. CASE Refuse(f, "unavailable", {}) \/ Finish(f, "not_accepted", {}, record)
  <2>1. PICK k : k = {}
    OBVIOUS
  <2>2. f.said \subseteq k
    BY <1>4
  <2>3. End(Ended(f, "unavailable", k), record) \/ End(Ended(f, "not_accepted", k), record)
    BY <1>6, <2>1 DEF Refuse, Finish
  <2> QED BY <2>2, <2>3, Closes
<1>7. CASE (OutsideOpen(pg) \/ Predates(pg)) /\ Finish(f, "dismissed", {}, record)
  <2>1. PICK k : k = {}
    OBVIOUS
  <2>2. f.said \subseteq k /\ End(Ended(f, "dismissed", k), record)
    BY <1>4, <1>7, <2>1 DEF Finish
  <2>3. done' = Ended(f, "dismissed", k) /\ record' = record
    BY <2>2 DEF End
  <2>4. done'.said = {} /\ done'.event = pg
    BY <1>4, <2>3 DEF Ended
  <2>5. DismissedByTwo'
    BY <1>7, <2>4, DismissedByTime
  <2>6. IsRecord(record) /\ DecidedApart'
    BY <2>3 DEF FlowInv, DecidedApart
  <2> QED BY <2>2, <2>5, <2>6, Ends
<1>8. CASE Continue(Asking(f, "SOURCE_VERIFIER", Announced, Lead))
  <2>1. PICK h : h = Asking(f, "SOURCE_VERIFIER", Announced, Lead)
    OBVIOUS
  <2>2. /\ IsFlow(h) /\ h.kind = "observe" /\ h.said = {} /\ h.kept = {}
        /\ h.task = "SOURCE_VERIFIER" /\ h.left = Lead
    BY <1>4, <2>1, Asks
  <2>3. UnderWay(h)
    BY <2>2 DEF UnderWay, Retaining, Carries, WatchPart, EarlyPart, DisputePart
  <2> QED BY <1>8, <2>1, <2>3, Continues
<1> QED BY <1>5, <1>6, <1>7, <1>8

\* The other workflows begin.
LEMMA ProposeEarlyStep ==
  ASSUME FlowInv, ProposeEarly
  PROVE  FlowInv'
<1>1. PICK s : s = Started("early")
  OBVIOUS
<1>2. IsFlow(s) /\ s.kind = "early" /\ s.said = {} /\ s.kept = {}
  BY <1>1, Starts
<1>3. PICK f : f = [s EXCEPT !.docs = record.trigger.docs]
  OBVIOUS
<1>4. IsFlow(f) /\ f.kind = "early" /\ f.said = {} /\ f.kept = {}
  BY <1>2, <1>3 DEF IsFlow, Fields
<1>5. \/ Refuse(f, "unavailable", {})
      \/ Other # <<>> /\ Continue(Asking(f, "RESOLUTION_JUDGE", Absent, Lead))
  BY <1>1, <1>3 DEF ProposeEarly
<1>6. CASE Refuse(f, "unavailable", {})
  <2>1. f.said \subseteq {}
    BY <1>4
  <2> QED BY <1>6, <1>4, <2>1, Closes DEF Refuse
<1>7. CASE Other # <<>> /\ Continue(Asking(f, "RESOLUTION_JUDGE", Absent, Lead))
  <2>1. PICK h : h = Asking(f, "RESOLUTION_JUDGE", Absent, Lead)
    OBVIOUS
  <2>2. /\ IsFlow(h) /\ h.kind = "early" /\ h.said = {} /\ h.kept = {}
        /\ h.task = "RESOLUTION_JUDGE" /\ h.left = Lead
    BY <1>4, <2>1, Asks
  <2>3. UnderWay(h)
    BY <1>7, <2>2 DEF UnderWay, Retaining, Carries, WatchPart, EarlyPart, DisputePart
  <2> QED BY <1>7, <2>1, <2>3, Continues
<1> QED BY <1>5, <1>6, <1>7

LEMMA ReviewDisputeStep ==
  ASSUME FlowInv, JudgeDispute
  PROVE  FlowInv'
<1>1. PICK s : s = Started("dispute")
  OBVIOUS
<1>2. IsFlow(s) /\ s.kind = "dispute" /\ s.said = {} /\ s.kept = {}
  BY <1>1, Starts
<1>3. PICK f : f = [s EXCEPT !.docs = record.resolution.docs \cup {CitedPage}]
  OBVIOUS
<1>4. IsFlow(f) /\ f.kind = "dispute" /\ f.said = {} /\ f.kept = {}
  BY <1>2, <1>3 DEF IsFlow, Fields
<1>5. \/ Refuse(f, "unavailable", {})
      \/ Independent # <<>> /\ Continue(Asking(f, "DISPUTE_EVIDENCE", Absent, Original))
  BY <1>1, <1>3 DEF JudgeDispute
<1>6. CASE Refuse(f, "unavailable", {})
  <2>1. f.said \subseteq {}
    BY <1>4
  <2> QED BY <1>6, <1>4, <2>1, Closes DEF Refuse
<1>7. CASE Independent # <<>> /\ Continue(Asking(f, "DISPUTE_EVIDENCE", Absent, Original))
  <2>1. PICK h : h = Asking(f, "DISPUTE_EVIDENCE", Absent, Original)
    OBVIOUS
  <2>2. /\ IsFlow(h) /\ h.kind = "dispute" /\ h.said = {} /\ h.kept = {}
        /\ h.task = "DISPUTE_EVIDENCE"
    BY <1>4, <2>1, Asks
  <2>3. UnderWay(h)
    BY <1>7, <2>2 DEF UnderWay, Retaining, Carries, WatchPart, EarlyPart, DisputePart
  <2> QED BY <1>7, <2>1, <2>3, Continues
<1> QED BY <1>5, <1>6, <1>7

\* Pages are fetched, and none of them was retained.
LEMMA NothingStep ==
  ASSUME FlowInv, NEW kind \in {"refresh", "resolve"}, NEW l, Nothing(Started(kind), l)
  PROVE  FlowInv'
<1>1. PICK f : f = Started(kind)
  OBVIOUS
<1>2. PICK code \in {"unavailable", "source_rejected"} :
        Refuse(f, code, Kept(f, {SourceFailure(s) : s \in l.failed}))
  BY <1>1 DEF Nothing
<1>3. f.kind = kind /\ f.said = {}
  BY <1>1, Starts
<1>4. Retaining(f) /\ code \notin {"ok", "dismissed"}
  BY <1>2, <1>3 DEF Retaining, Carries
<1> QED BY <1>2, <1>4, Fails

LEMMA ProposeResolutionStep ==
  ASSUME FlowInv, JudgeResolution
  PROVE  FlowInv'
<1>1. PICK l \in Collections :
        \/ Nothing(Started("resolve"), l)
        \/ \E s \in l.docs :
             Continue(Asking([Collected(Started("resolve"), l) EXCEPT !.todo = l.docs \ {s}],
                             "SOURCE_VERIFIER", s, deployed))
  BY DEF JudgeResolution
<1>2. CASE Nothing(Started("resolve"), l)
  BY <1>2, NothingStep
<1>3. ASSUME NEW s \in l.docs,
             Continue(Asking([Collected(Started("resolve"), l) EXCEPT !.todo = l.docs \ {s}],
                             "SOURCE_VERIFIER", s, deployed))
      PROVE  FlowInv'
  <2>1. PICK f : f = Started("resolve")
    OBVIOUS
  <2>2. IsFlow(f) /\ f.kind = "resolve" /\ f.said = {}
    BY <2>1, Starts
  <2>3. PICK k : k = Collected(f, l)
    OBVIOUS
  <2>4. IsFlow(k) /\ k.kind = "resolve" /\ k.said = {}
    BY <2>2, <2>3, Collects
  <2>5. PICK h : h = [k EXCEPT !.todo = l.docs \ {s}]
    OBVIOUS
  <2>6. IsFlow(h) /\ h.kind = "resolve" /\ h.said = {} /\ h.said \subseteq h.kept
    BY <2>4, <2>5 DEF IsFlow, Fields
  <2>7. Continue(Asking(h, "SOURCE_VERIFIER", s, deployed))
    BY <1>3, <2>1, <2>3, <2>5
  <2> QED BY <2>6, <2>7, AsksOn
<1> QED BY <1>1, <1>2, <1>3

LEMMA RefreshStep ==
  ASSUME FlowInv, Refresh
  PROVE  FlowInv'
<1>1. PICK f : f = Started("refresh")
  OBVIOUS
<1>2. IsFlow(f) /\ f.kind = "refresh" /\ f.said = {}
  BY <1>1, Starts
<1>3. PICK l, g : /\ g = Collected(f, l)
                  /\ \/ Nothing(Started("refresh"), l)
                     \/ Refuse(g, "ai_rejected", g.kept)
                     \/ Continue(Asking(g, "AI_FORECAST", Absent, deployed))
  BY <1>1 DEF Refresh
<1>4. IsFlow(g) /\ g.kind = "refresh" /\ g.said = {} /\ g.said \subseteq g.kept
  BY <1>2, <1>3, Collects
<1>5. CASE Nothing(Started("refresh"), l)
  BY <1>5, NothingStep
<1>6. CASE Refuse(g, "ai_rejected", g.kept)
  BY <1>4, <1>6, Closes DEF Refuse
<1>7. CASE Continue(Asking(g, "AI_FORECAST", Absent, deployed))
  BY <1>4, <1>7, AsksOn
<1> QED BY <1>3, <1>5, <1>6, <1>7

LEMMA CompileStep ==
  ASSUME FlowInv, Compile
  PROVE  FlowInv'
<1>1. PICK f : f = Started("compile")
  OBVIOUS
<1>2. IsFlow(f) /\ f.kind = "compile" /\ f.said \subseteq f.kept
  BY <1>1, Starts
<1>3. Continue(Asking(f, "MARKET_COMPILER", Absent, deployed))
  BY <1>1 DEF Compile
<1> QED BY <1>2, <1>3, AsksOn

LEMMA CheckFreshnessStep ==
  ASSUME FlowInv, CheckFreshness
  PROVE  FlowInv'
<1>1. PICK f : f = Started("fresh")
  OBVIOUS
<1>2. IsFlow(f) /\ f.kind = "fresh" /\ f.said = {} /\ f.kept = {}
  BY <1>1, Starts
<1>3. \/ Refuse(f, "unavailable", {})
      \/ Continue(Asking(f, "question_freshness", Announced, Lead))
  BY <1>1 DEF CheckFreshness
<1>4. CASE Refuse(f, "unavailable", {})
  <2>1. f.said \subseteq {}
    BY <1>2
  <2> QED BY <1>2, <1>4, <2>1, Closes DEF Refuse
<1>5. CASE Continue(Asking(f, "question_freshness", Announced, Lead))
  <2>1. PICK h : h = Asking(f, "question_freshness", Announced, Lead)
    OBVIOUS
  <2>2. IsFlow(h) /\ h.kind = "fresh" /\ h.said = {} /\ h.kept = {}
    BY <1>2, <2>1, Asks
  <2>3. UnderWay(h)
    BY <2>2 DEF UnderWay, Retaining, Carries, WatchPart, EarlyPart, DisputePart
  <2> QED BY <1>5, <2>1, <2>3, Continues
<1> QED BY <1>3, <1>4, <1>5

\* Between two workflows, the configuration or the retained pages may change.
LEMMA BetweenStep ==
  ASSUME FlowInv, Redeploy \/ Lose
  PROVE  FlowInv'
<1>1. deployed' \in Orders /\ done' = Absent /\ UNCHANGED <<record, flow>> /\ flow = Absent
  BY DEF Redeploy, Lose, AtRest, FlowInv
<1>2. DecidedApart' /\ DismissedByTwo' /\ DecisionsRetained'
  BY <1>1 DEF FlowInv, DecidedApart, DismissedByTwo, DecisionsRetained
<1> QED BY <1>1, <1>2 DEF FlowInv, IsRecord

LEMMA RestStep ==
  ASSUME FlowInv, UNCHANGED flowvars
  PROVE  FlowInv'
<1>1. UNCHANGED <<deployed, record, flow, done>>
  BY DEF flowvars
<1>2. DecidedApart' /\ DismissedByTwo' /\ DecisionsRetained'
  BY <1>1 DEF FlowInv, DecidedApart, DismissedByTwo, DecisionsRetained
<1>3. flow # Absent => UnderWay(flow)'
  BY <1>1 DEF FlowInv, UnderWay, IsFlow, Retaining, Carries, WatchPart, EarlyPart, DisputePart,
     CounteredApart, Lead, Other, Independent, Originals, First
<1> QED BY <1>1, <1>2, <1>3 DEF FlowInv, IsRecord

\* Whatever is deployed, answered, declined or lost: a call under way is made
\* to whom its workflow allows (coordinator.rs call, and the workflows of
\* resolution.rs, dispute.rs and early.rs).
THEOREM WorkflowInvariant == JudgingAssumption /\ FlowSpec => []FlowInv
<1> SUFFICES ASSUME JudgingAssumption PROVE FlowSpec => []FlowInv
  OBVIOUS
<1>1. FlowInit => FlowInv
  <2> SUFFICES ASSUME FlowInit PROVE FlowInv
    OBVIOUS
  <2>1. /\ deployed \in Orders /\ flow = Absent /\ done = Absent
        /\ record.trigger = Absent /\ record.resolution = Absent /\ record.review = Absent
        /\ IsRecord(record)
    BY DEF FlowInit, IsRecord
  <2> QED BY <2>1 DEF FlowInv, DecidedApart, DismissedByTwo, DecisionsRetained
<1>2. FlowInv /\ [FlowNext]_flowvars => FlowInv'
  BY ObserveStep, ProposeEarlyStep, ProposeResolutionStep, ReviewDisputeStep, CompileStep,
     RefreshStep, CheckFreshnessStep, AnswerStep, BetweenStep, RestStep DEF FlowNext
<1> QED BY <1>1, <1>2, PTL DEF FlowSpec

\* No provider reviews a dispute of what it decided, two providers agree on an
\* early close and on its trigger, a page is dismissed by two of them or by its
\* time alone, and an answer that counted is retained.
THEOREM ApartAndRetained == JudgingAssumption /\ FlowSpec => []JudgedApart
<1>1. FlowInv => JudgedApart
  BY DEF FlowInv, JudgedApart
<1> QED BY <1>1, WorkflowInvariant, PTL

------------------------------------------------------------------------------
(***************************************************************************)
(* The risk feed: an episode has one question, what is signed is what is   *)
(* stored, and nothing goes back, for any number of ticks, people and      *)
(* episodes.  A tick signs long after it collected (Drafted): the batch    *)
(* finds the snapshot again, and a snapshot tells all that is signed of a  *)
(* question (SnapshotTells).                                               *)
(***************************************************************************)
Estimates == [at : Nat, clock : BOOLEAN]
QuestionRows ==
  [e : Episodes, open : Nat, state : {"OPEN", "LOCKED"}, rev : Nat, held : BOOLEAN,
   ai : Estimates, votes : [Users -> Nat \cup {Empty}]]
Snapshots == [rev : Nat, ai : Estimates, rows : SUBSET (Users \X Nat)]
Publications ==
  [at : Nat, e : Episodes \cup {Empty}, signals : SUBSET {"ai", "crowd"},
   snap : Snapshots \cup {Empty}, expires : Nat]
TickStages ==
  {"idle", "series", "seed", "publish", "bind", "approve", "stale", "lease", "store", "release",
   "head", "collect", "sign"}
TickRows ==
  [pc : TickStages, at : Nat, e : Episodes \cup {Empty}, q : Nat \cup {Empty},
   row : QuestionRows \cup {Empty}, seq : Nat, snap : Publications \cup {Empty}]

FeedTypes ==
  /\ instant \in Nat /\ exact \in BOOLEAN
  /\ questions \in Seq(QuestionRows) /\ binding \in [Episodes -> Nat \cup {Empty}]
  /\ feed \in Seq(Publications) /\ tick \in [Ticks -> TickRows]

\* The least and the greatest of some numbers are among them.
LEMMA LeastOf ==
  ASSUME NEW S \in SUBSET Nat, S # {}
  PROVE  Min(S) \in S /\ \A x \in S : Min(S) <= x
<1>1. PICK m \in S : \A y \in S : ~(<<y, m>> \in OpToRel(<, Nat))
  BY NatLessThanWellFounded, WFMin
<1>2. \A y \in S : ~(y < m)
  BY <1>1 DEF OpToRel
<1>3. \A y \in S : m =< y
  BY <1>2
<1> QED
  BY <1>1, <1>3 DEF Min

LEMMA GreatestOf ==
  ASSUME RiskFeedAssumption, NEW S \in SUBSET Episodes, S # {}
  PROVE  Max(S) \in S
<1> DEFINE T == {Last - x : x \in S}
<1>1. Last \in Nat /\ S \subseteq Nat /\ \A x \in S : x <= Last
  BY DEF RiskFeedAssumption, Episodes
<1>2. T \subseteq Nat /\ T # {}
  <2>1. \A x \in S : Last - x \in Nat
    BY <1>1
  <2> QED BY <2>1
<1>3. PICK m \in T : \A y \in T : m <= y
  <2> HIDE DEF T
  <2> QED BY <1>2, LeastOf
<1>4. PICK x \in S : m = Last - x
  OBVIOUS
<1>5. \A y \in S : x >= y
  <2>1. ASSUME NEW y \in S PROVE x >= y
    <3>1. Last - x <= Last - y
      BY <1>3, <1>4
    <3> QED BY <1>1, <3>1
  <2> QED BY <2>1
<1> HIDE DEF T
<1> QED BY <1>4, <1>5 DEF Max

\* What is signed of a question follows from what the snapshot holds of it,
\* and from what never changes.
LEMMA SnapshotTells ==
  ASSUME NEW q \in QuestionRows, NEW p \in QuestionRows, NEW at \in Nat, NEW e \in Episodes,
         q.open = p.open, q.e = p.e, Snapshot(q, at) = Snapshot(p, at), Snapshot(q, at) # Empty,
         Snapshot(p, at) # Empty
  PROVE  Signals(q, at) = Signals(p, at) /\ Expiry(e, q, at) = Expiry(e, p, at)
<1> DEFINE pairs(x) == {<<u, x.votes[u]>> : u \in Rows(x, at)}
           times(x) == {x.votes[u] : u \in Rows(x, at)}
<1>1. q.ai = p.ai /\ pairs(q) = pairs(p)
  <2>1. /\ Snapshot(q, at) = [rev |-> q.rev, ai |-> q.ai, rows |-> pairs(q)]
        /\ Snapshot(p, at) = [rev |-> p.rev, ai |-> p.ai, rows |-> pairs(p)]
    BY DEF Snapshot
  <2>2. PICK x, y : x = pairs(q) /\ y = pairs(p)
    OBVIOUS
  <2>3. [rev |-> q.rev, ai |-> q.ai, rows |-> x] = [rev |-> p.rev, ai |-> p.ai, rows |-> y]
    <3> HIDE DEF pairs
    <3> QED BY <2>1, <2>2
  <2>4. q.ai = p.ai /\ x = y
    BY <2>3
  <2> QED BY <2>2, <2>4
<1>2. times(q) \subseteq times(p)
  <2>1. ASSUME NEW u \in Rows(q, at) PROVE q.votes[u] \in times(p)
    <3>1. <<u, q.votes[u]>> \in pairs(p)
      BY <1>1
    <3>2. PICK v \in Rows(p, at) : <<u, q.votes[u]>> = <<v, p.votes[v]>>
      BY <3>1
    <3> QED BY <3>2
  <2> QED BY <2>1
<1>3. times(p) \subseteq times(q)
  <2>1. ASSUME NEW u \in Rows(p, at) PROVE p.votes[u] \in times(q)
    <3>1. <<u, p.votes[u]>> \in pairs(q)
      BY <1>1
    <3>2. PICK v \in Rows(q, at) : <<u, p.votes[u]>> = <<v, q.votes[v]>>
      BY <3>1
    <3> QED BY <3>2
  <2> QED BY <2>1
<1>4. times(q) = times(p)
  BY <1>2, <1>3
<1> HIDE DEF pairs
<1>5. Signals(q, at) = Signals(p, at)
  BY <1>1, <1>4 DEF Signals, AdmissibleSignal
<1>6. \A s : Oldest(q, at, s) = Oldest(p, at, s)
  BY <1>1, <1>4 DEF Oldest
<1>7. Expiry(e, q, at) = Expiry(e, p, at)
  BY <1>5, <1>6 DEF Expiry
<1> QED BY <1>5, <1>7

\* An estimate's question and episode, once for ever.
OneEach == \A i, j \in DOMAIN questions : questions[i].e = questions[j].e => i = j
BoundTo ==
  \A e \in Episodes : binding[e] # Empty =>
    binding[e] \in DOMAIN questions /\ questions[binding[e]].e = e
InOrderSoFar == \A i, j \in DOMAIN feed : i < j => feed[i].at <= feed[j].at

\* What a snapshot and the signals of a question say.
Tells(q, p) ==
  /\ Snapshot(q, p.at) = p.snap /\ Signals(q, p.at) = p.signals
  /\ Expiry(p.e, q, p.at) = p.expires

\* What a tick is about to sign was said of its question at some time.
Drafted(p) ==
  p.e # Empty =>
    /\ p.e \in Episodes /\ binding[p.e] # Empty /\ p.signals # {} /\ p.snap # Empty
    /\ \E q \in QuestionRows :
         q.open = questions[binding[p.e]].open /\ q.e = p.e /\ Tells(q, p)

Ticking(p) ==
  /\ p.pc \in {"seed", "publish", "bind", "approve"} => p.e \in Episodes
  /\ p.pc \in {"bind", "approve"} => p.q \in DOMAIN questions /\ questions[p.q].e = p.e
  /\ p.pc \in {"lease", "store"} =>
       p.e \in Episodes /\ p.q \in DOMAIN questions /\ p.row \in QuestionRows
  /\ p.pc \in {"collect", "sign"} =>
       /\ p.seq <= Len(feed)
       /\ Len(feed) = p.seq => feed = <<>> \/ feed[Len(feed)].at <= p.at
  /\ p.pc = "sign" => p.snap \in Publications /\ p.snap.at = p.at /\ Drafted(p.snap)

FeedInv ==
  /\ FeedTypes /\ OneEach /\ BoundTo /\ InOrderSoFar
  /\ \A t \in Ticks : Ticking(tick[t])

\* No step takes back a question, a binding or a publication.
Grown ==
  /\ exact' = exact /\ FeedTypes' /\ OneEach' /\ BoundTo' /\ InOrderSoFar'
  /\ \A i \in DOMAIN questions :
       /\ i \in DOMAIN questions' /\ questions'[i].e = questions[i].e
       /\ questions'[i].open = questions[i].open
  /\ \A e \in Episodes : binding[e] # Empty => binding'[e] = binding[e]
  /\ feed' = feed \/ Len(feed') > Len(feed)

\* It depends on the mapping alone, which stays.
LEMMA TellsTheSame ==
  ASSUME exact' = exact, NEW q, NEW p PROVE Tells(q, p)' <=> Tells(q, p)
<1>1. \A at : Signals(q, at)' = Signals(q, at)
  BY DEF Signals, AdmissibleSignal
<1>2. \A e, at : Expiry(e, q, at)' = Expiry(e, q, at)
  BY <1>1 DEF Expiry
<1> QED BY <1>1, <1>2 DEF Tells

LEMMA DraftedStays ==
  ASSUME FeedInv, Grown, NEW t \in Ticks, tick'[t] = tick[t], Drafted(tick[t].snap)
  PROVE  Drafted(tick[t].snap)'
<1> DEFINE p == tick[t].snap
<1> SUFFICES ASSUME p.e # Empty
             PROVE  /\ p.e \in Episodes /\ binding'[p.e] # Empty /\ p.signals # {} /\ p.snap # Empty
                    /\ \E q \in QuestionRows :
                         q.open = questions'[binding'[p.e]].open /\ q.e = p.e /\ Tells(q, p)'
  BY DEF Drafted
<1>1. p.e \in Episodes /\ binding[p.e] # Empty /\ binding'[p.e] = binding[p.e]
  BY DEF Grown, Drafted
<1>2. questions'[binding'[p.e]].open = questions[binding[p.e]].open
  BY <1>1 DEF Grown, FeedInv, BoundTo
<1>3. ASSUME NEW q, Tells(q, p) PROVE Tells(q, p)'
  <2>1. PICK x : x = p
    OBVIOUS
  <2>2. Tells(q, x)'
    BY <1>3, <2>1, TellsTheSame DEF Grown
  <2> QED BY <2>1, <2>2
<1> QED BY <1>1, <1>2, <1>3 DEF Drafted

\* A tick that stands still is still right about what it knows.
LEMMA OthersKept ==
  ASSUME FeedInv, Grown, NEW t \in Ticks, tick'[t] = tick[t]
  PROVE  Ticking(tick[t])'
<1> DEFINE p == tick[t]
<1>1. Ticking(p) /\ p \in TickRows
  BY DEF FeedInv, FeedTypes
<1>2. p.pc = "sign" => p.snap \in Publications /\ p.snap.at = p.at /\ Drafted(p.snap)'
  BY <1>1, DraftedStays DEF Ticking
<1>3. p.pc \in {"collect", "sign"} =>
        /\ p.seq <= Len(feed')
        /\ Len(feed') = p.seq => feed' = <<>> \/ feed'[Len(feed')].at <= p.at
  <2>1. Len(feed) \in Nat /\ Len(feed') \in Nat /\ p.seq \in Nat
    BY <1>1 DEF FeedInv, Grown, FeedTypes, TickRows
  <2>2. p.pc \in {"collect", "sign"} =>
          /\ p.seq <= Len(feed)
          /\ Len(feed) = p.seq => feed = <<>> \/ feed[Len(feed)].at <= p.at
    BY <1>1 DEF Ticking
  <2>3. feed' = feed \/ Len(feed') > Len(feed)
    BY DEF Grown
  <2> QED BY <2>1, <2>2, <2>3
<1>4. p.pc \in {"bind", "approve"} => p.q \in DOMAIN questions' /\ questions'[p.q].e = p.e
  BY <1>1 DEF Ticking, Grown
<1>5. p.pc \in {"lease", "store"} =>
        p.e \in Episodes /\ p.q \in DOMAIN questions' /\ p.row \in QuestionRows
  BY <1>1 DEF Ticking, Grown
<1>6. p.pc \in {"seed", "publish", "bind", "approve"} => p.e \in Episodes
  BY <1>1 DEF Ticking
<1> QED BY <1>2, <1>3, <1>4, <1>5, <1>6 DEF Ticking

LEMMA OneTickMoves ==
  ASSUME FeedInv, Grown, NEW t \in Ticks, \A x \in Ticks : x # t => tick'[x] = tick[x],
         Ticking(tick[t])'
  PROVE  FeedInv'
<1>1. ASSUME NEW x \in Ticks PROVE Ticking(tick[x])'
  <2>1. CASE x = t
    BY <2>1
  <2>2. CASE x # t
    BY <2>2, OthersKept
  <2> QED BY <2>1, <2>2
<1> QED BY <1>1 DEF FeedInv, Grown

\* A tick goes on with p and writes nothing.
LEMMA TickGoesOn ==
  ASSUME FeedInv, NEW t \in Ticks, NEW p \in TickRows, tick' = [tick EXCEPT ![t] = p], Ticking(p),
         UNCHANGED <<instant, exact, questions, binding, feed>>
  PROVE  FeedInv'
<1>1. tick'[t] = p /\ \A x \in Ticks : x # t => tick'[x] = tick[x]
  BY DEF FeedInv, FeedTypes
<1>2. Ticking(tick[t])'
  BY <1>1, TellsTheSame DEF Ticking, Drafted
<1>3. Grown
  BY DEF FeedInv, Grown, FeedTypes, OneEach, BoundTo, InOrderSoFar
<1> QED BY <1>1, <1>2, <1>3, OneTickMoves

LEMMA TicksStand ==
  ASSUME FeedInv, Grown, tick' = tick
  PROVE  FeedInv'
<1>1. ASSUME NEW t \in Ticks PROVE Ticking(tick[t])'
  BY OthersKept
<1> QED BY <1>1 DEF FeedInv, Grown

\* Nothing is published, and no estimate replaced.
LEMMA Quiet ==
  ASSUME FeedInv, feed' = feed, \A q \in DOMAIN questions : questions'[q].ai = questions[q].ai
  PROVE  SignedAsStored /\ NeverBack
<1>1. Len(feed) \in Nat
  BY DEF FeedInv, FeedTypes
<1>2. SignedAsStored
  BY <1>1 DEF SignedAsStored
<1>3. NeverBack
  BY DEF NeverBack, FeedInv, InOrderSoFar
<1> QED BY <1>2, <1>3

\* What a step may do to a question.
LEMMA Regrown ==
  ASSUME FeedInv, UNCHANGED <<exact, binding, feed>>, instant' \in Nat,
         tick' \in [Ticks -> TickRows], questions' \in Seq(QuestionRows),
         Len(questions') = Len(questions),
         \A i \in DOMAIN questions : /\ questions'[i].e = questions[i].e
                                     /\ questions'[i].open = questions[i].open
  PROVE  Grown
<1>1. DOMAIN questions' = DOMAIN questions
  BY DEF FeedInv, FeedTypes
<1> QED BY <1>1 DEF Grown, FeedInv, FeedTypes, OneEach, BoundTo, InOrderSoFar

\* A row with some of its fields written.
LEMMA RowEdits ==
  ASSUME NEW x \in TickRows, NEW pc \in TickStages, NEW n \in Nat, NEW e \in Episodes \cup {Empty},
         NEW q \in Nat \cup {Empty}, NEW r \in QuestionRows \cup {Empty},
         NEW s \in Publications \cup {Empty}
  PROVE  /\ [x EXCEPT !.pc = pc] \in TickRows
         /\ [x EXCEPT !.pc = pc, !.at = n] \in TickRows
         /\ [x EXCEPT !.pc = pc, !.e = e] \in TickRows
         /\ [x EXCEPT !.pc = pc, !.q = q] \in TickRows
         /\ [x EXCEPT !.pc = pc, !.seq = n] \in TickRows
         /\ [x EXCEPT !.pc = pc, !.snap = s] \in TickRows
         /\ [x EXCEPT !.pc = pc, !.e = e, !.q = q, !.row = r] \in TickRows
<1>1. [x EXCEPT !.pc = pc] \in TickRows
  BY DEF TickRows
<1>2. [x EXCEPT !.pc = pc, !.at = n] \in TickRows
  BY DEF TickRows
<1>3. [x EXCEPT !.pc = pc, !.e = e] \in TickRows
  BY DEF TickRows
<1>4. [x EXCEPT !.pc = pc, !.q = q] \in TickRows
  BY DEF TickRows
<1>5. [x EXCEPT !.pc = pc, !.seq = n] \in TickRows
  BY DEF TickRows
<1>6. [x EXCEPT !.pc = pc, !.snap = s] \in TickRows
  BY DEF TickRows
<1>7. [x EXCEPT !.pc = pc, !.e = e, !.q = q, !.row = r] \in TickRows
  BY DEF TickRows
<1> QED BY <1>1, <1>2, <1>3, <1>4, <1>5, <1>6, <1>7

LEMMA NoTickRow == NoTick \in TickRows /\ Ticking(NoTick)
<1>1. NoTick \in TickRows
  BY DEF NoTick, TickRows, TickStages
<1>2. Ticking(NoTick)
  BY DEF NoTick, Ticking
<1> QED BY <1>1, <1>2

LEMMA Phased ==
  ASSUME FeedInv, NEW t \in Ticks, NEW pc \in {"stale", "head", "series"}, NEW n \in Nat,
         tick' = [tick EXCEPT ![t] = [NoTick EXCEPT !.pc = pc, !.at = n]],
         UNCHANGED <<instant, exact, questions, binding, feed>>
  PROVE  FeedInv' /\ SignedAsStored /\ NeverBack
<1> DEFINE p == [NoTick EXCEPT !.pc = pc, !.at = n]
<1>1. p \in TickRows
  BY NoTickRow, RowEdits DEF TickStages
<1>2. p.pc = pc
  BY NoTickRow DEF TickRows
<1>3. Ticking(p)
  BY <1>2 DEF Ticking
<1> HIDE DEF p
<1>4. FeedInv'
  BY <1>1, <1>3, TickGoesOn DEF p
<1> QED BY <1>4, Quiet

LEMMA PhaseStep ==
  ASSUME FeedInv, NEW t \in Ticks, NEW pc \in {"stale", "head"}, Phase(t, pc),
         UNCHANGED <<instant, exact, questions, binding, feed>>
  PROVE  FeedInv' /\ SignedAsStored /\ NeverBack
<1>1. tick[t].at \in Nat
  BY DEF FeedInv, FeedTypes, TickRows
<1> QED BY <1>1, Phased DEF Phase

LEMMA EndStep ==
  ASSUME FeedInv, NEW t \in Ticks, EndTick(t),
         UNCHANGED <<instant, exact, questions, binding, feed>>
  PROVE  FeedInv' /\ SignedAsStored /\ NeverBack
<1>1. FeedInv'
  BY NoTickRow, TickGoesOn DEF EndTick
<1> QED BY <1>1, Quiet

\* A tick goes on to another step of what it does.
LEMMA OnwardStep ==
  ASSUME FeedInv, NEW t \in Ticks, NEW p \in TickRows, tick' = [tick EXCEPT ![t] = p], Ticking(p),
         UNCHANGED <<instant, exact, questions, binding, feed>>
  PROVE  FeedInv' /\ SignedAsStored /\ NeverBack
BY TickGoesOn, Quiet

LEMMA OnwardRow ==
  ASSUME FeedInv, NEW t \in Ticks, NEW pc \in TickStages, Onward(t, pc)
  PROVE  /\ tick' = [tick EXCEPT ![t] = [tick[t] EXCEPT !.pc = pc]]
         /\ [tick[t] EXCEPT !.pc = pc] \in TickRows
BY DEF Onward, FeedInv, FeedTypes, TickRows

LEMMA DueEpisodeStep ==
  ASSUME RiskFeedAssumption, FeedInv, NEW t \in Ticks, Due(t), exact' = exact
  PROVE  FeedInv' /\ SignedAsStored /\ NeverBack
<1> DEFINE e == NextEpisode(tick[t].at)
           p == [tick[t] EXCEPT !.pc = "seed", !.e = e]
<1>1. CASE Phase(t, "stale")
  BY <1>1, PhaseStep DEF Due, store
<1>2. CASE tick' = [tick EXCEPT ![t].pc = "seed", ![t].e = e] /\ e \in Episodes
  <2> HIDE DEF e
  <2>1. tick[t] \in TickRows
    BY DEF FeedInv, FeedTypes
  <2>2. p \in TickRows
    BY <1>2, <2>1, RowEdits DEF TickStages
  <2>9. p.pc = "seed" /\ p.e = e
    BY <2>1 DEF TickRows
  <2>3. Ticking(p)
    BY <1>2, <2>9 DEF Ticking
  <2>4. tick' = [tick EXCEPT ![t] = p]
    BY <1>2 DEF FeedInv, FeedTypes
  <2> QED BY <2>2, <2>3, <2>4, OnwardStep DEF Due, store
<1> QED BY <1>1, <1>2 DEF Due

LEMMA SeedStep ==
  ASSUME FeedInv, NEW t \in Ticks, Seed(t), exact' = exact
  PROVE  FeedInv' /\ SignedAsStored /\ NeverBack
<1> DEFINE e == tick[t].e
           q == Min(QuestionsOf(e))
           p == [tick[t] EXCEPT !.pc = "bind", !.q = q]
<1>1. Ticking(tick[t]) /\ tick[t] \in TickRows /\ tick[t].pc = "seed" /\ e \in Episodes
  BY DEF FeedInv, FeedTypes, Seed, AtStep, Ticking
<1>2. CASE QuestionsOf(e) # {}
  <2>1. QuestionsOf(e) \subseteq DOMAIN questions /\ DOMAIN questions \subseteq Nat
    BY DEF QuestionsOf, FeedInv, FeedTypes
  <2>2. q \in QuestionsOf(e) /\ q \in Nat
    BY <1>2, <2>1, LeastOf
  <2>3. q \in DOMAIN questions /\ questions[q].e = e
    BY <2>2 DEF QuestionsOf
  <2>4. tick' = [tick EXCEPT ![t].pc = "bind", ![t].q = q]
    BY <1>2 DEF Seed
  <2> HIDE DEF q
  <2>5. p \in TickRows
    BY <1>1, <2>2, RowEdits DEF TickStages
  <2>9. p.pc = "bind" /\ p.e = e /\ p.q = q
    BY <1>1 DEF TickRows
  <2>6. Ticking(p)
    BY <1>1, <2>3, <2>9 DEF Ticking
  <2>7. tick' = [tick EXCEPT ![t] = p]
    BY <2>4 DEF FeedInv, FeedTypes
  <2> QED BY <2>5, <2>6, <2>7, OnwardStep DEF Seed, store
<1>3. CASE QuestionsOf(e) = {}
  <2> DEFINE s == [tick[t] EXCEPT !.pc = "publish"]
  <2>1. Onward(t, "publish")
    BY <1>3 DEF Seed
  <2>2. tick' = [tick EXCEPT ![t] = s] /\ s \in TickRows
    BY <2>1, OnwardRow DEF TickStages
  <2>3. s.pc = "publish" /\ s.e = e
    BY <1>1 DEF TickRows
  <2>4. Ticking(s)
    BY <1>1, <2>3 DEF Ticking
  <2> QED BY <2>2, <2>4, OnwardStep DEF Seed, store
<1> QED BY <1>2, <1>3

LEMMA PublishQuestionStep ==
  ASSUME FeedInv, NEW t \in Ticks, PublishQuestion(t), exact' = exact
  PROVE  FeedInv' /\ SignedAsStored /\ NeverBack
<1> DEFINE e == tick[t].e
           n == Len(questions)
           r == [e |-> e, open |-> tick[t].at, state |-> "OPEN", rev |-> 0, held |-> FALSE,
                 ai |-> [at |-> tick[t].at, clock |-> FALSE], votes |-> [u \in Users |-> Empty]]
           p == [tick[t] EXCEPT !.pc = "bind", !.q = n + 1]
<1>1. Ticking(tick[t]) /\ tick[t] \in TickRows /\ tick[t].pc = "publish" /\ e \in Episodes
  BY DEF FeedInv, FeedTypes, PublishQuestion, AtStep, Ticking
<1>2. n \in Nat /\ questions \in Seq(QuestionRows) /\ DOMAIN questions = 1..n
  BY DEF FeedInv, FeedTypes
<1>3. r \in QuestionRows
  <2>1. tick[t].at \in Nat
    BY <1>1 DEF TickRows
  <2>2. [at |-> tick[t].at, clock |-> FALSE] \in Estimates
    BY <2>1 DEF Estimates
  <2>3. [u \in Users |-> Empty] \in [Users -> Nat \cup {Empty}]
    OBVIOUS
  <2> QED BY <1>1, <2>1, <2>2, <2>3 DEF QuestionRows
<1>4. r.e = e
  OBVIOUS
<1>5. questions' = Append(questions, r)
  BY DEF PublishQuestion
<1> HIDE DEF r
<1>6. /\ questions' \in Seq(QuestionRows) /\ DOMAIN questions' = 1..(n + 1)
      /\ questions'[n + 1].e = e /\ \A i \in DOMAIN questions : questions'[i] = questions[i]
  BY <1>2, <1>3, <1>4, <1>5
<1>7. p \in TickRows
  <2>1. PICK m \in Nat : m = n + 1
    BY <1>2
  <2>2. [tick[t] EXCEPT !.pc = "bind", !.q = m] \in TickRows
    BY <1>1, RowEdits DEF TickStages
  <2> QED BY <2>1, <2>2
<1>8. p.pc = "bind" /\ p.q = n + 1 /\ p.e = e
  BY <1>1 DEF TickRows
<1>9. tick' = [tick EXCEPT ![t] = p]
  BY DEF FeedInv, FeedTypes, PublishQuestion
<1> HIDE DEF n, p
<1>10. tick' \in [Ticks -> TickRows] /\ tick'[t] = p /\ \A x \in Ticks : x # t => tick'[x] = tick[x]
  BY <1>7, <1>9 DEF FeedInv, FeedTypes
<1>11. UNCHANGED <<instant, binding, feed>>
  BY DEF PublishQuestion
<1>12. OneEach'
  <2>1. \A i \in DOMAIN questions : questions[i].e # e
    BY DEF PublishQuestion, Unasked, QuestionsOf, e
  <2>2. \A i \in DOMAIN questions' : i \in DOMAIN questions \/ i = n + 1
    BY <1>2, <1>6
  <2> QED BY <1>6, <2>1, <2>2 DEF OneEach, FeedInv
<1>13. Grown
  <2>1. FeedTypes'
    BY <1>6, <1>10, <1>11 DEF FeedInv, FeedTypes
  <2>2. \A i \in DOMAIN questions : i \in DOMAIN questions'
    BY <1>2, <1>6
  <2> QED BY <1>6, <1>11, <1>12, <2>1, <2>2 DEF Grown, FeedInv, BoundTo, InOrderSoFar
<1>14. Ticking(tick[t])'
  <2>1. n + 1 \in DOMAIN questions'
    BY <1>2, <1>6
  <2> QED BY <1>1, <1>6, <1>8, <1>10, <2>1 DEF Ticking
<1>15. FeedInv'
  BY <1>10, <1>13, <1>14, OneTickMoves
<1> QED BY <1>6, <1>11, <1>15, Quiet

LEMMA BindStep ==
  ASSUME FeedInv, NEW t \in Ticks, Bind(t), exact' = exact
  PROVE  FeedInv' /\ SignedAsStored /\ NeverBack
<1>1. CASE Phase(t, "stale")
  BY <1>1, PhaseStep DEF Bind
<1>2. CASE Onward(t, "approve")
  <2> DEFINE s == [tick[t] EXCEPT !.pc = "approve"]
  <2>1. Ticking(tick[t]) /\ tick[t] \in TickRows /\ tick[t].pc = "bind"
    BY DEF FeedInv, FeedTypes, Bind, AtStep
  <2>2. tick' = [tick EXCEPT ![t] = s] /\ s \in TickRows
    BY <1>2, OnwardRow DEF TickStages
  <2>3. s.pc = "approve" /\ s.e = tick[t].e /\ s.q = tick[t].q
    BY <2>1 DEF TickRows
  <2>4. Ticking(s)
    BY <2>1, <2>3 DEF Ticking
  <2> QED BY <2>2, <2>4, OnwardStep DEF Bind
<1> QED BY <1>1, <1>2 DEF Bind

\* The row of a tick at the beginning of a phase.
LEMMA PhaseRow ==
  ASSUME FeedInv, NEW t \in Ticks, NEW pc \in {"stale", "head"}, Phase(t, pc)
  PROVE  /\ tick' \in [Ticks -> TickRows] /\ tick'[t].pc = pc
         /\ \A x \in Ticks : x # t => tick'[x] = tick[x]
<1> DEFINE p == [NoTick EXCEPT !.pc = pc, !.at = tick[t].at]
<1>1. tick[t].at \in Nat
  BY DEF FeedInv, FeedTypes, TickRows
<1>2. p \in TickRows
  BY <1>1, NoTickRow, RowEdits DEF TickStages
<1>3. p.pc = pc
  BY NoTickRow DEF TickRows
<1> HIDE DEF p
<1> QED BY <1>2, <1>3 DEF Phase, FeedInv, FeedTypes, p

LEMMA ApproveStep ==
  ASSUME FeedInv, NEW t \in Ticks, Approve(t), exact' = exact
  PROVE  FeedInv' /\ SignedAsStored /\ NeverBack
<1> DEFINE e == tick[t].e
           q == tick[t].q
<1>1. e \in Episodes /\ q \in DOMAIN questions /\ questions[q].e = e
  BY DEF FeedInv, Approve, AtStep, Ticking
<1>2. q \in Nat
  BY <1>1 DEF FeedInv, FeedTypes
<1>3. binding[e] = Empty /\ binding' = [binding EXCEPT ![e] = q]
  BY DEF Approve
<1> HIDE DEF e, q
<1>4. binding' \in [Episodes -> Nat \cup {Empty}] /\ binding'[e] = q
      /\ \A x \in Episodes : x # e => binding'[x] = binding[x]
  BY <1>1, <1>2, <1>3 DEF FeedInv, FeedTypes
<1>5. Phase(t, "stale") /\ UNCHANGED <<instant, questions, feed>>
  BY DEF Approve
<1>6. /\ tick' \in [Ticks -> TickRows] /\ tick'[t].pc = "stale"
      /\ \A x \in Ticks : x # t => tick'[x] = tick[x]
  BY <1>5, PhaseRow
<1>7. BoundTo'
  BY <1>1, <1>4, <1>5 DEF BoundTo, FeedInv
<1>8. Grown
  BY <1>3, <1>4, <1>5, <1>6, <1>7 DEF Grown, FeedInv, FeedTypes, OneEach, InOrderSoFar
<1>9. Ticking(tick[t])'
  BY <1>6 DEF Ticking
<1>10. FeedInv'
  BY <1>6, <1>8, <1>9, OneTickMoves
<1> QED BY <1>5, <1>10, Quiet

LEMMA PickStaleStep ==
  ASSUME RiskFeedAssumption, FeedInv, NEW t \in Ticks, PickStale(t), exact' = exact
  PROVE  FeedInv' /\ SignedAsStored /\ NeverBack
<1> DEFINE at == tick[t].at
           e == Min(Stale(at))
           q == binding[e]
           r == questions[binding[e]]
           p == [tick[t] EXCEPT !.pc = "lease", !.e = e, !.q = q, !.row = r]
<1>1. CASE Phase(t, "head")
  BY <1>1, PhaseStep DEF PickStale, store
<1>2. CASE /\ Stale(at) # {}
           /\ tick' = [tick EXCEPT ![t].pc = "lease", ![t].e = e, ![t].q = q, ![t].row = r]
  <2>1. tick[t] \in TickRows /\ questions \in Seq(QuestionRows)
    BY DEF FeedInv, FeedTypes
  <2>2. Stale(at) \subseteq Standing /\ Standing \subseteq Episodes
    BY DEF Stale, Standing
  <2>3. Stale(at) \in SUBSET Nat
    <3>1. Episodes \subseteq Nat
      BY DEF Episodes, RiskFeedAssumption
    <3> HIDE DEF Episodes
    <3> QED BY <2>2, <3>1
  <2>4. e \in Standing /\ e \in Episodes
    BY <1>2, <2>2, <2>3, LeastOf
  <2> HIDE DEF e
  <2>5. q \in DOMAIN questions
    BY <2>4 DEF Standing, FeedInv, BoundTo
  <2>6. q \in Nat /\ r \in QuestionRows
    BY <2>1, <2>5
  <2> HIDE DEF q, r
  <2>7. p \in TickRows
    <3>1. PICK c \in Episodes, n \in Nat, x \in QuestionRows : c = e /\ n = q /\ x = r
      BY <2>4, <2>6
    <3>2. [tick[t] EXCEPT !.pc = "lease", !.e = c, !.q = n, !.row = x] \in TickRows
      BY <2>1, RowEdits DEF TickStages
    <3> QED BY <3>1, <3>2
  <2>8. p.pc = "lease" /\ p.e = e /\ p.q = q /\ p.row = r
    BY <2>1 DEF TickRows
  <2>9. Ticking(p)
    BY <2>4, <2>5, <2>6, <2>8 DEF Ticking
  <2>10. tick' = [tick EXCEPT ![t] = p]
    BY <1>2 DEF FeedInv, FeedTypes
  <2> QED BY <2>7, <2>9, <2>10, OnwardStep DEF PickStale, store
<1> QED BY <1>1, <1>2 DEF PickStale

LEMMA LeaseRefreshStep ==
  ASSUME FeedInv, NEW t \in Ticks, LeaseRefresh(t), exact' = exact
  PROVE  FeedInv' /\ SignedAsStored /\ NeverBack
<1>1. CASE Phase(t, "head")
  BY <1>1, PhaseStep DEF LeaseRefresh
<1>2. CASE Onward(t, "store")
  <2> DEFINE s == [tick[t] EXCEPT !.pc = "store"]
  <2>1. Ticking(tick[t]) /\ tick[t] \in TickRows /\ tick[t].pc = "lease"
    BY DEF FeedInv, FeedTypes, LeaseRefresh, AtStep
  <2>2. tick' = [tick EXCEPT ![t] = s] /\ s \in TickRows
    BY <1>2, OnwardRow DEF TickStages
  <2>3. s.pc = "store" /\ s.e = tick[t].e /\ s.q = tick[t].q /\ s.row = tick[t].row
    BY <2>1 DEF TickRows
  <2>4. Ticking(s)
    BY <2>1, <2>3 DEF Ticking
  <2> QED BY <2>2, <2>4, OnwardStep DEF LeaseRefresh
<1> QED BY <1>1, <1>2 DEF LeaseRefresh

LEMMA RefreshFailsStep ==
  ASSUME FeedInv, NEW t \in Ticks, RefreshFails(t), exact' = exact
  PROVE  FeedInv' /\ SignedAsStored /\ NeverBack
<1> DEFINE s == [tick[t] EXCEPT !.pc = "release"]
<1>1. tick' = [tick EXCEPT ![t] = s] /\ s \in TickRows
  BY OnwardRow DEF RefreshFails, TickStages
<1>2. s.pc = "release"
  BY DEF FeedInv, FeedTypes, TickRows
<1>3. Ticking(s)
  BY <1>2 DEF Ticking
<1> QED BY <1>1, <1>3, OnwardStep DEF RefreshFails, store

\* The estimate that is replaced is the row's, which the new one is later than.
LEMMA StoreEstimateStep ==
  ASSUME FeedInv, NEW t \in Ticks, StoreEstimate(t), exact' = exact
  PROVE  FeedInv' /\ SignedAsStored /\ NeverBack
<1> DEFINE q == tick[t].q
           v == [at |-> tick[t].at, clock |-> TRUE]
           s == [tick[t] EXCEPT !.pc = "release"]
<1>1. q \in DOMAIN questions
  BY DEF FeedInv, StoreEstimate, AtStep, Ticking
<1>2. v \in Estimates /\ v.at = tick[t].at
  BY DEF FeedInv, FeedTypes, TickRows, Estimates
<1>3. tick[t].at > questions[q].ai.at
  BY DEF StoreEstimate, MayStore
<1>4. questions' = [questions EXCEPT ![q].ai = v]
  BY DEF StoreEstimate
<1>5. tick' = [tick EXCEPT ![t] = s] /\ s \in TickRows
  BY OnwardRow DEF StoreEstimate, TickStages
<1>6. s.pc = "release"
  BY DEF FeedInv, FeedTypes, TickRows
<1>7. UNCHANGED <<instant, binding, feed>>
  BY DEF StoreEstimate
<1> HIDE DEF q, v, s
<1>8. ASSUME NEW x \in QuestionRows
      PROVE  /\ [x EXCEPT !.ai = v] \in QuestionRows /\ [x EXCEPT !.ai = v].e = x.e
             /\ [x EXCEPT !.ai = v].open = x.open /\ [x EXCEPT !.ai = v].ai = v
  BY <1>2 DEF QuestionRows
<1>9. questions \in Seq(QuestionRows) /\ questions[q] \in QuestionRows
  BY <1>1 DEF FeedInv, FeedTypes
<1>10. /\ questions' \in Seq(QuestionRows) /\ Len(questions') = Len(questions)
       /\ questions'[q] = [questions[q] EXCEPT !.ai = v]
       /\ \A i \in DOMAIN questions : i # q => questions'[i] = questions[i]
  BY <1>1, <1>4, <1>8, <1>9
<1>11. /\ questions'[q].e = questions[q].e /\ questions'[q].open = questions[q].open
       /\ questions'[q].ai = v
  BY <1>8, <1>9, <1>10
<1>12. \A i \in DOMAIN questions : /\ questions'[i].e = questions[i].e
                                  /\ questions'[i].open = questions[i].open
  BY <1>10, <1>11
<1>13. tick' \in [Ticks -> TickRows] /\ tick'[t] = s /\ \A x \in Ticks : x # t => tick'[x] = tick[x]
  BY <1>5 DEF FeedInv, FeedTypes
<1>14. Grown
  BY <1>7, <1>10, <1>12, <1>13, Regrown DEF FeedInv, FeedTypes
<1>15. Ticking(tick[t])'
  BY <1>6, <1>13 DEF Ticking
<1>16. FeedInv'
  BY <1>13, <1>14, <1>15, OneTickMoves
<1>17. SignedAsStored
  BY <1>7 DEF SignedAsStored, FeedInv, FeedTypes
<1>18. NeverBack
  BY <1>2, <1>3, <1>7, <1>10, <1>11 DEF NeverBack, FeedInv, InOrderSoFar
<1> QED BY <1>16, <1>17, <1>18

LEMMA ReadHeadStep ==
  ASSUME FeedInv, NEW t \in Ticks, ReadHead(t), exact' = exact
  PROVE  FeedInv' /\ SignedAsStored /\ NeverBack
<1> DEFINE n == Len(feed)
           p == [tick[t] EXCEPT !.pc = "collect", !.seq = n]
<1>1. CASE EndTick(t)
  BY <1>1, EndStep DEF ReadHead, store
<1>2. CASE InOrder(tick[t].at) /\ tick' = [tick EXCEPT ![t].pc = "collect", ![t].seq = n]
  <2>1. tick[t] \in TickRows /\ n \in Nat
    BY DEF FeedInv, FeedTypes
  <2>2. feed = <<>> \/ feed[n].at <= tick[t].at
    <3>1. feed # <<>> => feed[n] \in Publications
      BY DEF FeedInv, FeedTypes
    <3>2. tick[t].at \in Nat /\ \A x \in Publications : x.at \in Nat
      BY <2>1 DEF TickRows, Publications
    <3> QED BY <1>2, <3>1, <3>2 DEF InOrder
  <2>3. tick' = [tick EXCEPT ![t] = p]
    BY <1>2 DEF FeedInv, FeedTypes
  <2> HIDE DEF n
  <2>4. p \in TickRows
    BY <2>1, RowEdits DEF TickStages
  <2>5. p.pc = "collect" /\ p.seq = n /\ p.at = tick[t].at
    BY <2>1 DEF TickRows
  <2>6. Ticking(p)
    BY <2>1, <2>2, <2>5 DEF Ticking, n
  <2> QED BY <2>3, <2>4, <2>6, OnwardStep DEF ReadHead, store
<1> QED BY <1>1, <1>2 DEF ReadHead

LEMMA SnapshotTyped ==
  ASSUME NEW q \in QuestionRows, NEW at \in Nat, Snapshot(q, at) # Empty
  PROVE  Snapshot(q, at) \in Snapshots
<1> DEFINE pairs == {<<u, q.votes[u]>> : u \in Rows(q, at)}
<1>1. \A u \in Rows(q, at) : u \in Users /\ q.votes[u] \in Nat
  BY DEF Rows, QuestionRows
<1>2. pairs \subseteq Users \X Nat
  BY <1>1
<1>3. Snapshot(q, at) = [rev |-> q.rev, ai |-> q.ai, rows |-> pairs]
  BY DEF Snapshot
<1> HIDE DEF pairs
<1> QED BY <1>2, <1>3 DEF Snapshots, QuestionRows

LEMMA ExpiryTyped ==
  ASSUME RiskFeedAssumption, NEW q \in QuestionRows, NEW at \in Nat, NEW e \in Episodes
  PROVE  Expiry(e, q, at) \in Nat
<1> DEFINE times == {q.votes[u] : u \in Rows(q, at)}
           S == {at + Ttl, WindowEnd(e)} \cup {Oldest(q, at, s) + MaxAge : s \in Signals(q, at)}
<1>1. Ttl \in Nat /\ MaxAge \in Nat /\ Cadence \in Nat /\ Window \in Nat /\ e \in Nat
  BY DEF RiskFeedAssumption, Episodes
<1>2. WindowEnd(e) \in Nat
  BY <1>1 DEF WindowEnd, WindowStart
<1>3. times \subseteq Nat
  BY DEF Rows, QuestionRows
<1>4. times # {} => Min(times) \in Nat
  <2> HIDE DEF times
  <2> QED BY <1>3, LeastOf
<1>5. ASSUME NEW s \in Signals(q, at) PROVE Oldest(q, at, s) \in Nat
  <2>1. s = "ai" \/ times # {}
    BY DEF Signals
  <2>2. q.ai.at \in Nat
    BY DEF QuestionRows, Estimates
  <2> QED BY <1>4, <2>1, <2>2 DEF Oldest
<1>6. S \subseteq Nat /\ S # {}
  <2>1. \A s \in Signals(q, at) : Oldest(q, at, s) + MaxAge \in Nat
    BY <1>1, <1>5
  <2>2. at + Ttl \in Nat
    BY <1>1
  <2> QED BY <1>2, <2>1, <2>2
<1>7. Expiry(e, q, at) = Min(S)
  BY DEF Expiry
<1> HIDE DEF S
<1> QED BY <1>6, <1>7, LeastOf

\* A tick writes down what is current.
LEMMA CollectStep ==
  ASSUME RiskFeedAssumption, FeedInv, NEW t \in Ticks, Collect(t), exact' = exact
  PROVE  FeedInv' /\ SignedAsStored /\ NeverBack
<1> DEFINE at == tick[t].at
           e == Selected(at)
           q == IF e = Empty THEN Empty ELSE questions[binding[e]]
           payload == IF e = Empty THEN
                   [at |-> at, e |-> Empty, signals |-> {}, snap |-> Empty, expires |-> at + Ttl]
                 ELSE [at |-> at, e |-> e, signals |-> Signals(q, at), snap |-> Snapshot(q, at),
                       expires |-> Expiry(e, q, at)]
           p == [tick[t] EXCEPT !.pc = "sign", !.snap = payload]
<1>1. Ticking(tick[t]) /\ tick[t] \in TickRows /\ tick[t].pc = "collect" /\ at \in Nat
  BY DEF FeedInv, FeedTypes, Collect, AtStep, TickRows
<1>2. tick' = [tick EXCEPT ![t].pc = "sign", ![t].snap = payload]
  BY DEF Collect
<1>3. payload \in Publications /\ payload.at = at /\ Drafted(payload)
  <2>1. CASE e = Empty
    <3>1. payload = [at |-> at, e |-> Empty, signals |-> {}, snap |-> Empty, expires |-> at + Ttl]
      BY <2>1
    <3>2. at + Ttl \in Nat
      BY <1>1 DEF RiskFeedAssumption
    <3> HIDE DEF payload
    <3> QED BY <1>1, <3>1, <3>2 DEF Publications, Drafted
  <2>2. CASE e # Empty
    <3>1. e \in Eligible(at)
      <4>1. Eligible(at) \subseteq Episodes
        BY DEF Eligible, Operational, Standing
      <4> DEFINE mature == {x \in Eligible(at) : at >= WindowStart(x) + Grid}
      <4>2. Eligible(at) # {} => Max(Eligible(at)) \in Eligible(at)
        BY <4>1, GreatestOf
      <4>3. mature \subseteq Eligible(at)
        OBVIOUS
      <4> HIDE DEF mature
      <4>4. mature # {} => Max(mature) \in mature
        BY <4>1, <4>3, GreatestOf
      <4> QED BY <2>2, <4>2, <4>3, <4>4 DEF Selected, mature
    <3>2. e \in Episodes /\ binding[e] # Empty
      BY <3>1 DEF Eligible, Operational, Standing
    <3>3. q = questions[binding[e]]
      BY <2>2
    <3>4. Snapshot(q, at) # Empty /\ Signals(q, at) # {}
      BY <3>1, <3>3 DEF Eligible
    <3>5. q \in QuestionRows /\ q.e = e
      BY <3>2, <3>3 DEF FeedInv, FeedTypes, BoundTo
    <3>6. payload = [at |-> at, e |-> e, signals |-> Signals(q, at), snap |-> Snapshot(q, at),
                     expires |-> Expiry(e, q, at)]
      BY <2>2
    <3> HIDE DEF e, q, payload
    <3>7. Snapshot(q, at) \in Snapshots /\ Expiry(e, q, at) \in Nat
      BY <1>1, <3>2, <3>4, <3>5, SnapshotTyped, ExpiryTyped
    <3>8. Signals(q, at) \subseteq {"ai", "crowd"}
      BY DEF Signals
    <3>9. payload \in Publications
      BY <1>1, <3>2, <3>6, <3>7, <3>8 DEF Publications
    <3>10. /\ payload.at = at /\ payload.e = e /\ payload.signals = Signals(q, at)
           /\ payload.snap = Snapshot(q, at) /\ payload.expires = Expiry(e, q, at)
      BY <3>6
    <3>11. Tells(q, payload)
      BY <3>10 DEF Tells
    <3>12. q.open = questions[binding[payload.e]].open
      BY <3>3, <3>10
    <3> QED BY <3>2, <3>4, <3>5, <3>9, <3>10, <3>11, <3>12 DEF Drafted
  <2> QED BY <2>1, <2>2
<1> HIDE DEF payload
<1>4. tick' = [tick EXCEPT ![t] = p]
  BY <1>2 DEF FeedInv, FeedTypes
<1>5. p \in TickRows
  BY <1>1, <1>3, RowEdits DEF TickStages
<1>6. p.pc = "sign" /\ p.seq = tick[t].seq /\ p.at = at /\ p.snap = payload
  BY <1>1 DEF TickRows
<1> HIDE DEF at, p
<1>7. Ticking(p)
  <2>1. /\ p.seq <= Len(feed)
        /\ Len(feed) = p.seq => feed = <<>> \/ feed[Len(feed)].at <= p.at
    BY <1>1, <1>6 DEF Ticking, at
  <2> QED BY <1>3, <1>6, <2>1 DEF Ticking
<1> QED BY <1>4, <1>5, <1>7, OnwardStep DEF Collect, store

\* What is signed is what was collected, the head has not moved since, and the
\* batch finds the snapshot again.
LEMMA PublishFeedStep ==
  ASSUME FeedInv, NEW t \in Ticks, PublishFeed(t), exact' = exact
  PROVE  FeedInv' /\ SignedAsStored /\ NeverBack
<1> DEFINE p == tick[t].snap
           n == Len(feed)
<1>1. /\ p \in Publications /\ p.at = tick[t].at /\ Drafted(p)
      /\ feed = <<>> \/ feed[n].at <= p.at
  <2>1. Ticking(tick[t]) /\ tick[t].pc = "sign" /\ n = tick[t].seq
    BY DEF FeedInv, PublishFeed, AtStep, MayPublish
  <2> QED BY <2>1 DEF Ticking
<1>2. feed \in Seq(Publications) /\ n \in Nat /\ DOMAIN feed = 1..n
  BY DEF FeedInv, FeedTypes
<1>3. feed' = Append(feed, p) /\ UNCHANGED <<instant, questions, binding, revoked>>
  BY DEF PublishFeed
<1>4. p.e # Empty => p.e \notin revoked /\ Snapshot(questions[binding[p.e]], p.at) = p.snap
  BY DEF PublishFeed, MayPublish
<1>5. tick' = [tick EXCEPT ![t] = NoTick]
  BY DEF PublishFeed, EndTick
<1> HIDE DEF p
<1>6. /\ feed' \in Seq(Publications) /\ Len(feed') = n + 1 /\ DOMAIN feed' = 1..(n + 1)
      /\ feed'[n + 1] = p /\ \A i \in DOMAIN feed : feed'[i] = feed[i]
  BY <1>1, <1>2, <1>3
<1>7. \A i, j \in DOMAIN feed' : i < j => feed'[i].at <= feed'[j].at
  <2>1. SUFFICES ASSUME NEW i \in DOMAIN feed', NEW j \in DOMAIN feed', i < j
                 PROVE  feed'[i].at <= feed'[j].at
    OBVIOUS
  <2>2. CASE j \in DOMAIN feed
    <3>1. i \in DOMAIN feed
      BY <1>2, <1>6, <2>1, <2>2
    <3> QED BY <1>6, <2>1, <2>2, <3>1 DEF FeedInv, InOrderSoFar
  <2>3. CASE j = n + 1
    <3>1. i \in DOMAIN feed /\ n \in DOMAIN feed /\ (i = n \/ i < n) /\ feed # <<>>
      BY <1>2, <1>6, <2>1, <2>3
    <3>2. feed[i].at <= feed[n].at
      <4>1. CASE i = n
        <5>1. feed[n] \in Publications
          BY <1>2, <3>1
        <5>2. feed[n].at \in Nat
          BY <5>1 DEF Publications
        <5> QED BY <4>1, <5>2
      <4>2. CASE i < n
        BY <3>1, <4>2 DEF FeedInv, InOrderSoFar
      <4> QED BY <3>1, <4>1, <4>2
    <3>3. feed[n].at <= p.at
      BY <1>1, <3>1
    <3>4. feed[i].at \in Nat /\ feed[n].at \in Nat /\ p.at \in Nat
      <4>1. feed[i] \in Publications /\ feed[n] \in Publications
        BY <1>2, <3>1
      <4> QED BY <1>1, <4>1 DEF Publications
    <3>5. feed[i].at <= p.at
      BY <3>2, <3>3, <3>4
    <3>6. feed'[i] = feed[i] /\ feed'[j] = p
      BY <1>6, <2>3, <3>1
    <3> QED BY <3>5, <3>6
  <2> QED BY <1>2, <1>6, <2>2, <2>3
<1>8. tick' \in [Ticks -> TickRows] /\ tick'[t] = NoTick /\ \A x \in Ticks : x # t => tick'[x] = tick[x]
  BY <1>5, NoTickRow DEF FeedInv, FeedTypes
<1>9. Grown
  <2>1. FeedTypes'
    BY <1>3, <1>6, <1>8 DEF FeedInv, FeedTypes
  <2>2. Len(feed') > Len(feed)
    BY <1>2, <1>6
  <2> QED BY <1>3, <1>7, <2>1, <2>2 DEF Grown, FeedInv, OneEach, BoundTo, InOrderSoFar
<1>10. Ticking(tick[t])'
  BY <1>8 DEF Ticking, NoTick
<1>11. FeedInv'
  BY <1>8, <1>9, <1>10, OneTickMoves
<1>12. NeverBack
  BY <1>3, <1>7 DEF NeverBack
<1>13. SignedAsStored
  <2> DEFINE b == binding[p.e]
             r == questions[b]
  <2>1. SUFFICES ASSUME p.e # Empty
                 PROVE  /\ p.e \notin revoked /\ Snapshot(r, p.at) # Empty
                        /\ Signals(r, p.at) = p.signals /\ p.signals # {}
                        /\ Expiry(p.e, r, p.at) = p.expires
    BY <1>6 DEF SignedAsStored
  <2>2. p.e \in Episodes /\ b # Empty /\ p.signals # {} /\ p.snap # Empty
    BY <1>1, <2>1 DEF Drafted
  <2>3. PICK q \in QuestionRows : q.open = r.open /\ q.e = p.e /\ Tells(q, p)
    BY <1>1, <2>1 DEF Drafted
  <2>4. r \in QuestionRows /\ r.e = p.e
    BY <2>2 DEF FeedInv, FeedTypes, BoundTo
  <2>5. p.at \in Nat
    BY <1>1 DEF Publications
  <2>6. Snapshot(r, p.at) = p.snap /\ Snapshot(q, p.at) = p.snap
    BY <1>4, <2>1, <2>3 DEF Tells
  <2> HIDE DEF b, r
  <2>7. Signals(r, p.at) = Signals(q, p.at) /\ Expiry(p.e, r, p.at) = Expiry(p.e, q, p.at)
    BY <2>2, <2>3, <2>4, <2>5, <2>6, SnapshotTells
  <2> QED BY <1>4, <2>1, <2>2, <2>3, <2>6, <2>7 DEF Tells
<1> QED BY <1>11, <1>12, <1>13

\* A command changes one question, and neither its episode nor when it opened.
LEMMA QuestionChanges ==
  ASSUME FeedInv, NEW q \in DOMAIN questions, NEW r \in QuestionRows, exact' = exact,
         questions' = [questions EXCEPT ![q] = r], UNCHANGED <<instant, binding, feed, tick>>,
         r.e = questions[q].e, r.open = questions[q].open, r.ai = questions[q].ai
  PROVE  FeedInv' /\ SignedAsStored /\ NeverBack
<1>1. /\ questions' \in Seq(QuestionRows) /\ Len(questions') = Len(questions)
      /\ \A i \in DOMAIN questions : questions'[i] = IF i = q THEN r ELSE questions[i]
  BY DEF FeedInv, FeedTypes
<1>2. \A i \in DOMAIN questions : /\ questions'[i].e = questions[i].e
                                  /\ questions'[i].open = questions[i].open
                                  /\ questions'[i].ai = questions[i].ai
  BY <1>1
<1>3. Grown
  BY <1>1, <1>2, Regrown DEF FeedInv, FeedTypes
<1> QED BY <1>2, <1>3, TicksStand, Quiet

LEMMA Voted ==
  ASSUME NEW x \in QuestionRows, NEW v \in [Users -> Nat \cup {Empty}], NEW n \in Nat
  PROVE  LET a == [x EXCEPT !.votes = v, !.rev = n] IN
         a \in QuestionRows /\ a.e = x.e /\ a.open = x.open /\ a.ai = x.ai
BY DEF QuestionRows

LEMMA Held ==
  ASSUME NEW x \in QuestionRows, NEW b \in BOOLEAN
  PROVE  LET h == [x EXCEPT !.held = b] IN
         h \in QuestionRows /\ h.e = x.e /\ h.open = x.open /\ h.ai = x.ai
BY DEF QuestionRows

LEMMA LockedUp ==
  ASSUME NEW x \in QuestionRows, NEW n \in Nat
  PROVE  LET l == [x EXCEPT !.state = "LOCKED", !.rev = n] IN
         l \in QuestionRows /\ l.e = x.e /\ l.open = x.open /\ l.ai = x.ai
BY DEF QuestionRows

LEMMA VoteStep ==
  ASSUME FeedInv, NEW q \in DOMAIN questions, NEW u \in Users, NEW at, Vote(q, u, at), exact' = exact
  PROVE  FeedInv' /\ SignedAsStored /\ NeverBack
<1> DEFINE x == questions[q]
           v == [x.votes EXCEPT ![u] = at]
           n == x.rev + 1
           a == [x EXCEPT !.votes = v, !.rev = n]
<1>1. x \in QuestionRows
  BY DEF FeedInv, FeedTypes
<1>2. v \in [Users -> Nat \cup {Empty}]
  BY <1>1 DEF QuestionRows, Vote
<1>3. n \in Nat
  BY <1>1 DEF QuestionRows
<1>4. questions' = [questions EXCEPT ![q] = a]
  BY DEF Vote, FeedInv, FeedTypes
<1> HIDE DEF n, v, x
<1>5. a \in QuestionRows /\ a.e = x.e /\ a.open = x.open /\ a.ai = x.ai
  BY <1>1, <1>2, <1>3, Voted
<1> HIDE DEF a
<1> QED BY <1>4, <1>5, QuestionChanges DEF Vote, Change, x

LEMMA HoldStep ==
  ASSUME FeedInv, NEW q \in DOMAIN questions, Hold(q), exact' = exact
  PROVE  FeedInv' /\ SignedAsStored /\ NeverBack
<1> DEFINE x == questions[q]
           b == ~x.held
           h == [x EXCEPT !.held = b]
<1>1. x \in QuestionRows
  BY DEF FeedInv, FeedTypes
<1>2. b \in BOOLEAN
  OBVIOUS
<1>3. questions' = [questions EXCEPT ![q] = h]
  BY DEF Hold, FeedInv, FeedTypes
<1> HIDE DEF b, x
<1>4. h \in QuestionRows /\ h.e = x.e /\ h.open = x.open /\ h.ai = x.ai
  BY <1>1, <1>2, Held
<1> HIDE DEF h
<1> QED BY <1>3, <1>4, QuestionChanges DEF Hold, Change, x

LEMMA LockStep ==
  ASSUME FeedInv, NEW q \in DOMAIN questions, LockQuestion(q), exact' = exact
  PROVE  FeedInv' /\ SignedAsStored /\ NeverBack
<1> DEFINE x == questions[q]
           n == x.rev + 1
           l == [x EXCEPT !.state = "LOCKED", !.rev = n]
<1>1. x \in QuestionRows
  BY DEF FeedInv, FeedTypes
<1>2. n \in Nat
  BY <1>1 DEF QuestionRows
<1>3. questions' = [questions EXCEPT ![q] = l]
  BY DEF LockQuestion, FeedInv, FeedTypes
<1> HIDE DEF n, x
<1>4. l \in QuestionRows /\ l.e = x.e /\ l.open = x.open /\ l.ai = x.ai
  BY <1>1, <1>2, LockedUp
<1> HIDE DEF l
<1> QED BY <1>3, <1>4, QuestionChanges DEF LockQuestion, Change, x

LEMMA TickStep ==
  ASSUME RiskFeedAssumption, FeedInv, NEW t \in Ticks, Tick(t), exact' = exact
  PROVE  FeedInv' /\ SignedAsStored /\ NeverBack
<1>1. CASE Begin(t)
  BY <1>1, Phased DEF Begin, store, FeedInv, FeedTypes
<1>2. CASE Due(t)
  BY <1>2, DueEpisodeStep
<1>3. CASE Seed(t)
  BY <1>3, SeedStep
<1>4. CASE PublishQuestion(t)
  BY <1>4, PublishQuestionStep
<1>5. CASE AttemptFails(t)
  BY <1>5, PhaseStep DEF AttemptFails
<1>6. CASE Bind(t)
  BY <1>6, BindStep
<1>7. CASE Approve(t)
  BY <1>7, ApproveStep
<1>8. CASE PickStale(t)
  BY <1>8, PickStaleStep
<1>9. CASE LeaseRefresh(t)
  BY <1>9, LeaseRefreshStep
<1>10. CASE StoreEstimate(t)
  BY <1>10, StoreEstimateStep
<1>11. CASE RefreshFails(t)
  BY <1>11, RefreshFailsStep
<1>12. CASE ReleaseRefresh(t)
  BY <1>12, PhaseStep DEF ReleaseRefresh
<1>13. CASE ReadHead(t)
  BY <1>13, ReadHeadStep
<1>14. CASE Collect(t)
  BY <1>14, CollectStep
<1>15. CASE PublishFeed(t)
  BY <1>15, PublishFeedStep
<1>16. CASE PublishFails(t)
  BY <1>16, EndStep DEF PublishFails, store
<1> QED BY <1>1, <1>2, <1>3, <1>4, <1>5, <1>6, <1>7, <1>8, <1>9, <1>10, <1>11, <1>12, <1>13, <1>14,
           <1>15, <1>16 DEF Tick

LEMMA FeedInitially == ASSUME RiskFeedAssumption, FeedInit PROVE FeedInv
<1>1. FeedTypes
  <2>1. tick \in [Ticks -> TickRows]
    BY NoTickRow DEF FeedInit
  <2> QED BY <2>1 DEF FeedInit, FeedTypes, RiskFeedAssumption
<1>2. OneEach /\ BoundTo /\ InOrderSoFar
  BY DEF FeedInit, OneEach, BoundTo, InOrderSoFar
<1>3. \A t \in Ticks : Ticking(tick[t])
  BY NoTickRow DEF FeedInit
<1> QED BY <1>1, <1>2, <1>3 DEF FeedInv

LEMMA FeedStep ==
  ASSUME RiskFeedAssumption, FeedInv, [FeedNext]_feedvars
  PROVE  FeedInv' /\ [SignedAsStored /\ NeverBack]_feedvars
<1>1. ASSUME UNCHANGED feedvars PROVE FeedInv'
  <2>1. UNCHANGED <<instant, exact, questions, binding, feed, tick>>
    BY <1>1 DEF feedvars
  <2>2. Grown
    BY <2>1 DEF Grown, FeedInv, FeedTypes, OneEach, BoundTo, InOrderSoFar
  <2> QED BY <2>1, <2>2, TicksStand
<1>2. ASSUME FeedNext PROVE FeedInv' /\ SignedAsStored /\ NeverBack
  <2>1. exact' = exact
    BY <1>2 DEF FeedNext
  <2>2. ASSUME NEW t \in Ticks, Tick(t) PROVE FeedInv' /\ SignedAsStored /\ NeverBack
    BY <2>1, <2>2, TickStep
  <2>3. ASSUME NEW t \in Ticks, TickDies(t) PROVE FeedInv' /\ SignedAsStored /\ NeverBack
    BY <2>1, <2>3, EndStep DEF TickDies, store
  <2>4. ASSUME NEW q \in DOMAIN questions, NEW u \in Users, NEW at \in 0..MaxInstant, Vote(q, u, at)
        PROVE  FeedInv' /\ SignedAsStored /\ NeverBack
    BY <2>1, <2>4, VoteStep
  <2>5. ASSUME NEW q \in DOMAIN questions, Hold(q) PROVE FeedInv' /\ SignedAsStored /\ NeverBack
    BY <2>1, <2>5, HoldStep
  <2>6. ASSUME NEW q \in DOMAIN questions, LockQuestion(q)
        PROVE  FeedInv' /\ SignedAsStored /\ NeverBack
    BY <2>1, <2>6, LockStep
  <2>7. ASSUME NEW e \in Episodes, Revoke(e) PROVE FeedInv' /\ SignedAsStored /\ NeverBack
    <3>1. UNCHANGED <<instant, questions, binding, feed, tick>>
      BY <2>7 DEF Revoke
    <3>2. Grown
      BY <2>1, <3>1 DEF Grown, FeedInv, FeedTypes, OneEach, BoundTo, InOrderSoFar
    <3> QED BY <3>1, <3>2, TicksStand, Quiet
  <2>8. ASSUME ClockAdvances PROVE FeedInv' /\ SignedAsStored /\ NeverBack
    <3>1. UNCHANGED <<questions, binding, feed, tick>> /\ instant' \in Nat
      BY <2>8 DEF ClockAdvances, store, FeedInv, FeedTypes
    <3>2. Grown
      BY <2>1, <3>1 DEF Grown, FeedInv, FeedTypes, OneEach, BoundTo, InOrderSoFar
    <3> QED BY <3>1, <3>2, TicksStand, Quiet
  <2> QED BY <1>2, <2>2, <2>3, <2>4, <2>5, <2>6, <2>7, <2>8 DEF FeedNext
<1> QED BY <1>1, <1>2

LEMMA EpisodesApart == FeedInv => OneQuestionPerEpisode
<1> SUFFICES ASSUME FeedInv, NEW e \in Episodes
             PROVE  /\ Cardinality(QuestionsOf(e)) <= 1
                    /\ binding[e] # Empty => QuestionsOf(e) = {binding[e]}
  BY DEF OneQuestionPerEpisode
<1>1. ASSUME NEW q \in QuestionsOf(e) PROVE QuestionsOf(e) = {q}
  BY <1>1 DEF QuestionsOf, FeedInv, OneEach
<1>2. CASE QuestionsOf(e) = {}
  <2>1. Cardinality({}) = 0
    BY FS_EmptySet
  <2>2. binding[e] = Empty
    BY <1>2 DEF QuestionsOf, FeedInv, BoundTo
  <2> QED BY <1>2, <2>1, <2>2
<1>3. CASE QuestionsOf(e) # {}
  <2>1. PICK q \in QuestionsOf(e) : TRUE
    BY <1>3
  <2>2. QuestionsOf(e) = {q} /\ Cardinality({q}) = 1
    BY <1>1, <2>1, FS_Singleton
  <2>3. binding[e] # Empty => binding[e] \in QuestionsOf(e)
    BY DEF QuestionsOf, FeedInv, BoundTo
  <2> QED BY <1>1, <2>2, <2>3
<1> QED BY <1>2, <1>3

\* A question for an episode, a binding to the episode's question, a feed in
\* the order of its instants, and every tick right about what it holds.
THEOREM FeedInvariant == RiskFeedAssumption /\ FeedSpec => []FeedInv
<1> SUFFICES ASSUME RiskFeedAssumption PROVE FeedSpec => []FeedInv
  OBVIOUS
<1>1. FeedInit => FeedInv
  BY FeedInitially
<1>2. FeedInv /\ [FeedNext]_feedvars => FeedInv'
  BY FeedStep
<1> QED BY <1>1, <1>2, PTL DEF FeedSpec

\* Overlapping ticks, a slow signer and commands in between notwithstanding: an
\* episode has one question, which its binding names; what is signed is what is
\* stored (the guards of publish_feed_v2's batch); and neither an estimate nor
\* the feed goes back in time (the guard of risk_refresh.rs prepare).
THEOREM PublishedAsStored == RiskFeedAssumption /\ FeedSpec => FeedFollowsStore
<1> SUFFICES ASSUME RiskFeedAssumption PROVE FeedSpec => FeedFollowsStore
  OBVIOUS
<1>1. FeedInv /\ [FeedNext]_feedvars => [SignedAsStored /\ NeverBack]_feedvars
  BY FeedStep
<1>2. FeedInv => OneQuestionPerEpisode
  BY EpisodesApart
<1> QED BY <1>1, <1>2, FeedInvariant, PTL DEF FeedSpec, FeedFollowsStore
=============================================================================
