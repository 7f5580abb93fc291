-------------------------------- MODULE Points --------------------------------
(***************************************************************************)
(* Participation points and evidence cutoffs: the accounts, awards,        *)
(* positions and ledger that the points migration's triggers keep          *)
(* (points.rs, writes.rs, 0004_participation_points.sql), the cutoff       *)
(* decision with its receipt classification and completion barrier         *)
(* (eligibility.rs, 0013_receipt_eligibility.sql), and the early           *)
(* resolution that drives them and pays the reporter (automation.rs).      *)
(*                                                                         *)
(* A batch is one action.  accept() is a job whose every await is a step,  *)
(* so submissions, holds, expiry, another accept and a crash come between. *)
(***************************************************************************)
EXTENDS Naturals, FiniteSets, FiniteSetsExt

CONSTANTS
    Users, Forecasts, Addresses, Jobs,
    Urls,            \* evidence pages a hold or a trigger may cite
    Grant,           \* profile_grant
    WalletGrant,     \* wallet_grant
    RewardPoints,    \* EVIDENCE_REWARD_POINTS
    Stakes,          \* stakes a request may carry, 0 is practice
    Page,            \* PAGE_SIZE, receipts classified by one apply()
    CloseAt,         \* close_at of every forecast
    MaxTime,         \* the clock's bound
    MaxSubmissions,  \* accepted submissions per forecast
    MaxHolds,        \* operator hold changes per forecast
    MaxReports,      \* evidence reports per forecast
    Nil

ASSUME PointsAssumption ==
    /\ {Grant, WalletGrant, RewardPoints, CloseAt, MaxTime} \subseteq Nat
    /\ Stakes \subseteq Nat /\ Page \in Nat \ {0}

VARIABLES
    now,
    account,    \* point_accounts: [available, committed]
    link,       \* wallet_links: the user's address or Nil
    bonus,      \* point_awards of kind wallet: {[user, address]}
    fc,         \* forecasts: [state, outcome, trigger]; trigger # Nil is schema 2
    receipt,    \* command receipts of submit_forecast: [user, rev, at, outcome, stake]
    position,   \* point_positions of a forecast by user, or Nil
    ledger,     \* point_ledger settlements: [user, forecast, rev, stake, returned]
    hold,       \* active_participation_holds: the evidence url or Nil
    holds,      \* participation_hold_events counted
    decision,   \* forecast_eligibility_decisions: the trigger or Nil
    class,      \* forecast_receipt_eligibility: {[user, rev, status]}
    complete,   \* forecast_eligibility_completions
    report,     \* evidence_reports: {[user, at, url, status]}
    reward,     \* point_evidence_rewards: the user or Nil
    job         \* one accept() call each

vars == <<now, account, link, bonus, fc, receipt, position, ledger, hold, holds,
          decision, class, complete, report, reward, job>>
money == <<account, position, ledger>>
review == <<hold, holds, decision, class, complete>>

Outcomes == {"YES", "NO"}
Bases == {"published_instant", "observed_upper_bound"}
Trigger == [cutoff: 0..MaxTime, basis: Bases, url: Urls]
ASSUME TriggerAssumption == Nil \notin Trigger
Idle == [pc |-> "idle", f |-> Nil, trigger |-> Nil, left |-> 0, report |-> Nil]

\* The triggers points_profile_created and point_award_credit grant the profile's points.
Init ==
    /\ now = 0
    /\ account = [u \in Users |-> [available |-> Grant, committed |-> 0]]
    /\ link = [u \in Users |-> Nil] /\ bonus = {}
    /\ fc = [f \in Forecasts |-> [state |-> "OPEN", outcome |-> Nil, trigger |-> Nil]]
    /\ receipt = [f \in Forecasts |-> {}]
    /\ position = [f \in Forecasts |-> [u \in Users |-> Nil]]
    /\ ledger = {}
    /\ hold = [f \in Forecasts |-> Nil] /\ holds = [f \in Forecasts |-> 0]
    /\ decision = [f \in Forecasts |-> Nil] /\ class = [f \in Forecasts |-> {}]
    /\ complete = [f \in Forecasts |-> FALSE]
    /\ report = [f \in Forecasts |-> {}] /\ reward = [f \in Forecasts |-> Nil]
    /\ job = [j \in Jobs |-> Idle]

Tick == /\ now < MaxTime /\ now' = now + 1
        /\ UNCHANGED <<account, link, bonus, fc, receipt, position, ledger, hold, holds,
                       decision, class, complete, report, reward, job>>

-------------------------------------------------------------------------------
\* wallet_links and the bonus triggers points_wallet_linked / points_wallet_reverified

BonusDue(u, a) == \A b \in bonus : b.user # u /\ b.address # a

LinkWallet(u, a) ==
    /\ \A v \in Users \ {u} : link[v] # a
    /\ link' = [link EXCEPT ![u] = a]
    /\ IF BonusDue(u, a)
       THEN /\ bonus' = bonus \cup {[user |-> u, address |-> a]}
            /\ account' = [account EXCEPT ![u].available = @ + WalletGrant]
       ELSE UNCHANGED <<bonus, account>>
    /\ UNCHANGED <<now, fc, receipt, position, ledger, review, report, reward, job>>

UnlinkWallet(u) ==
    /\ link[u] # Nil /\ link' = [link EXCEPT ![u] = Nil]
    /\ UNCHANGED <<now, account, bonus, fc, receipt, position, ledger, review, report, reward, job>>

-------------------------------------------------------------------------------
\* Submissions: submit_forecast with reservation_sql inside the accepted batch

\* No statement of the Worker inserts into point_eligibility_adjustments.
Adjusted(f) == {}

\* point_eligibility_account_holds: a receipt under a cutoff and not yet adjusted.
AccountHeld(u) ==
    \E f \in Forecasts : /\ decision[f] # Nil /\ u \notin Adjusted(f)
                         /\ \E r \in receipt[f] : r.user = u

Staked(f, u) == IF position[f][u] = Nil THEN 0 ELSE position[f][u].amount

\* The earlier stake is not released when it is replaced.
ReserveAgain(f, u, o, s) ==
    LET rev == Cardinality(receipt[f]) + 1
    IN  /\ account[u].available >= s
        /\ account' = [account EXCEPT ![u] = [available |-> @.available - s, committed |-> @.committed + s]]
        /\ position' = [position EXCEPT ![f][u] =
               [amount |-> s, outcome |-> o, rev |-> rev,
                status |-> IF s = 0 THEN "practice" ELSE "committed"]]
        /\ receipt' = [receipt EXCEPT ![f] = @ \cup
               {[user |-> u, rev |-> rev, at |-> now, outcome |-> o, stake |-> s]}]

Reserve(f, u, o, s) ==
    LET old == Staked(f, u)
        rev == Cardinality(receipt[f]) + 1
    IN  /\ account[u].available + old >= s
        /\ account' = [account EXCEPT ![u] = [available |-> @.available + old - s,
                                              committed |-> @.committed + s - old]]
        /\ position' = [position EXCEPT ![f][u] =
               [amount |-> s, outcome |-> o, rev |-> rev,
                status |-> IF s = 0 THEN "practice" ELSE "committed"]]
        /\ receipt' = [receipt EXCEPT ![f] = @ \cup
               {[user |-> u, rev |-> rev, at |-> now, outcome |-> o, stake |-> s]}]

Submit(f, u, o, s) ==
    /\ Cardinality(receipt[f]) < MaxSubmissions
    /\ fc[f].state = "OPEN" /\ now < CloseAt
    /\ hold[f] = Nil /\ decision[f] = Nil
    /\ ~AccountHeld(u)
    /\ Reserve(f, u, o, s)
    /\ UNCHANGED <<now, link, bonus, fc, ledger, review, report, reward, job>>

-------------------------------------------------------------------------------
\* Holds, ordinary lifecycle and settlement

\* participation_holds.rs change(): a compare-and-set on the last event.
Hold(f, url) ==
    /\ holds[f] < MaxHolds /\ hold[f] = Nil /\ fc[f].state = "OPEN"
    /\ hold' = [hold EXCEPT ![f] = url] /\ holds' = [holds EXCEPT ![f] = @ + 1]
    /\ UNCHANGED <<now, money, link, bonus, fc, receipt, decision, class, complete, report, reward, job>>

Release(f) ==
    /\ holds[f] < MaxHolds /\ hold[f] # Nil
    /\ hold' = [hold EXCEPT ![f] = Nil] /\ holds' = [holds EXCEPT ![f] = @ + 1]
    /\ UNCHANGED <<now, money, link, bonus, fc, receipt, decision, class, complete, report, reward, job>>

\* forecast_resolution_blockers, read by the trigger on every change of state.
Blocked(f) ==
    \/ decision[f] # Nil /\ ~complete[f]
    \/ /\ fc[f].trigger = Nil /\ hold[f] # Nil
       /\ ~(complete[f] /\ decision[f].url = hold[f])

\* The scheduler's expiry lock, and its finalization with any outcome.
ExpiryLock(f) ==
    /\ fc[f].state = "OPEN" /\ now >= CloseAt /\ ~Blocked(f)
    /\ fc' = [fc EXCEPT ![f].state = "LOCKED"]
    /\ UNCHANGED <<now, money, link, bonus, receipt, review, report, reward, job>>

Finalize(f, o) ==
    /\ fc[f].state = "LOCKED" /\ now >= CloseAt /\ ~Blocked(f)
    /\ fc' = [fc EXCEPT ![f].state = "FINALIZED", ![f].outcome = o]
    /\ UNCHANGED <<now, money, link, bonus, receipt, review, report, reward, job>>

Returned(f, p) ==
    IF fc[f].outcome = "INVALID" THEN p.amount
    ELSE IF fc[f].outcome = p.outcome THEN 2 * p.amount ELSE 0

Unsettled(f) == {u \in Users : position[f][u] # Nil /\ position[f][u].status = "committed"}

\* forecast_eligibility_points_effective: the position stands on the last eligible receipt.
Effective(f, u) ==
    \/ decision[f] = Nil
    \/ \E c \in class[f] :
          /\ c.user = u /\ c.status = "eligible" /\ c.rev = position[f][u].rev
          /\ \A d \in class[f] : d.user = u /\ d.status = "eligible" => d.rev <= c.rev

\* settlement_sql, one set-based statement: one row refused refuses them all.
Settle(f) ==
    /\ fc[f].state = "FINALIZED" /\ Unsettled(f) # {} /\ ~Blocked(f)
    /\ \A u \in Unsettled(f) : Effective(f, u)
    /\ ledger' = ledger \cup {[user |-> u, forecast |-> f, rev |-> position[f][u].rev,
            stake |-> position[f][u].amount, returned |-> Returned(f, position[f][u])] : u \in Unsettled(f)}
    /\ account' = [u \in Users |-> IF u \notin Unsettled(f) THEN account[u] ELSE
            [available |-> account[u].available + Returned(f, position[f][u]),
             committed |-> account[u].committed - position[f][u].amount]]
    /\ position' = [position EXCEPT ![f] = [u \in Users |->
            IF u \in Unsettled(f) THEN [@[u] EXCEPT !.status = "settled"] ELSE @[u]]]
    /\ UNCHANGED <<now, link, bonus, fc, receipt, review, report, reward, job>>

\* report_evidence: the report row, and what became of the page it named.
Report(f, u, url) ==
    /\ Cardinality(report[f]) < MaxReports /\ fc[f].state \in {"OPEN", "LOCKED"}
    /\ \A r \in report[f] : r.user # u \/ r.url # url
    /\ \E s \in {"received", IF hold[f] = Nil THEN "unrelated" ELSE "held"} :
          report' = [report EXCEPT ![f] = @ \cup {[user |-> u, at |-> now, url |-> url, status |-> s]}]
    /\ UNCHANGED <<now, money, link, bonus, fc, receipt, review, reward, job>>

-------------------------------------------------------------------------------
\* Automation.accept, step by step

Keep == UNCHANGED <<now, link, bonus, fc, receipt, position, ledger, hold, holds, report>>
Goto(j, pc) == job' = [job EXCEPT ![j].pc = pc]
Stop(j) == job' = [job EXCEPT ![j] = Idle]

\* The snapshot, the retained evidence and the hold are read before anything is written.
\* A question this trigger already closed is answered as a retry.
Begin(j, f, t) ==
    /\ job[j].pc = "idle" /\ t.cutoff <= now
    /\ \/ /\ fc[f].trigger = t
          /\ job' = [job EXCEPT ![j] = [Idle EXCEPT !.pc = "again", !.f = f, !.trigger = t]]
       \/ /\ fc[f].trigger = Nil /\ fc[f].state = "OPEN" /\ hold[f] # Nil
          /\ job' = [job EXCEPT ![j] = [Idle EXCEPT !.pc = "decide", !.f = f, !.trigger = t]]
    /\ Keep /\ UNCHANGED <<account, decision, class, complete, reward>>

\* A settled forecast may still be given a cutoff.
MayDecideLate(f) == TRUE

\* retry_eligibility: a decided, still open forecast none of whose receipts awaits review.
Resume(j, f) ==
    /\ decision[f] # Nil /\ fc[f].state = "OPEN"
    /\ \A c \in class[f] : c.status # "review"
    /\ Begin(j, f, decision[f])

\* decide(): the cutoff is written once, and never behind a settled forecast.
MayDecide(f) == fc[f].state # "FINALIZED" /\ \A l \in ledger : l.forecast # f

Decide(j) ==
    LET f == job[j].f  t == job[j].trigger
    IN  /\ job[j].pc = "decide"
        /\ \/ /\ decision[f] \notin {Nil, t} /\ Stop(j) /\ UNCHANGED decision
           \/ /\ decision[f] = Nil /\ ~MayDecide(f) /\ Stop(j) /\ UNCHANGED decision
           \/ /\ decision[f] = t \/ (decision[f] = Nil /\ MayDecide(f))
              /\ decision' = [decision EXCEPT ![f] = t]
              /\ job' = [job EXCEPT ![j].pc = IF complete[f] THEN "finish" ELSE "classify", ![j].left = Page]
        /\ Keep /\ UNCHANGED <<account, class, complete, reward>>

\* receipt_status: a published instant is an inclusive cutoff, an observation proves nothing earlier.
ReceiptStatus(at, t) ==
    IF at >= t.cutoff THEN "void"
    ELSE IF t.basis = "published_instant" THEN "eligible" ELSE "review"

Unclassified(f) == {r \in receipt[f] : \A c \in class[f] : c.rev # r.rev}

\* receipts(): each row of the page is inserted on its own, in revision order.
Classify(j) ==
    LET f == job[j].f  open == Unclassified(f)
    IN  /\ job[j].pc = "classify"
        /\ IF open = {} \/ job[j].left = 0
           THEN Goto(j, "finish") /\ UNCHANGED class
           ELSE LET r == CHOOSE r \in open : \A o \in open : r.rev <= o.rev
                IN  /\ class' = [class EXCEPT ![f] = @ \cup
                           {[user |-> r.user, rev |-> r.rev, status |-> ReceiptStatus(r.at, job[j].trigger)]}]
                    /\ job' = [job EXCEPT ![j].left = @ - 1]
        /\ Keep /\ UNCHANGED <<account, decision, complete, reward>>

\* forecast_eligibility_completion_validate, over the tables the Worker writes.
Completable(f) ==
    /\ Unclassified(f) = {} /\ fc[f].state # "FINALIZED"
    /\ \A c \in class[f] : c.status # "review" /\ c.user \in Adjusted(f)

\* finish(): a completion refused by the barrier is a refusal of the whole accept.
Finish(j) ==
    LET f == job[j].f
    IN  /\ job[j].pc = "finish"
        /\ IF complete[f] \/ Completable(f)
           THEN complete' = [complete EXCEPT ![f] = TRUE] /\ Goto(j, "lock")
           ELSE UNCHANGED complete /\ Stop(j)
        /\ Keep /\ UNCHANGED <<account, decision, class, reward>>

\* The hold read at the start is trusted at the lock.
MayLockStale(f) == fc[f].state = "OPEN" /\ complete[f] /\ ~Blocked(f)

\* The lock's batch asks again for the hold and the completion, and for the revision it read.
MayLock(f) == fc[f].state = "OPEN" /\ hold[f] # Nil /\ complete[f] /\ ~Blocked(f)

\* Before the close the question closes early under its trigger, after it it locks as usual.
Lock(j) ==
    LET f == job[j].f
    IN  /\ job[j].pc = "lock"
        /\ \/ /\ ~MayLock(f) /\ Stop(j) /\ UNCHANGED fc
           \/ /\ MayLock(f) /\ now < CloseAt
              /\ fc' = [fc EXCEPT ![f].state = "LOCKED", ![f].trigger = job[j].trigger]
              /\ Goto(j, "reward")
           \/ /\ MayLock(f) /\ now >= CloseAt
              /\ fc' = [fc EXCEPT ![f].state = "LOCKED"] /\ Stop(j)
        /\ UNCHANGED <<now, money, link, bonus, receipt, review, report, reward>>

Citing(f, t) == {r \in report[f] : r.status = "held" /\ r.url = t.url}
Earliest(S) == {r \in S : \A o \in S : r.at <= o.at}

\* reward_evidence_report: the earliest held report that cites the evidence, then one batch.
PickReport(j) ==
    LET f == job[j].f  C == Citing(f, job[j].trigger)
    IN  /\ job[j].pc = "reward"
        /\ \/ /\ C = {} \/ reward[f] # Nil
              /\ Stop(j)
           \/ /\ reward[f] = Nil
              /\ \E r \in Earliest(C) : job' = [job EXCEPT ![j].pc = "pay", ![j].report = r]
        /\ Keep /\ UNCHANGED <<account, decision, class, complete, reward>>

PayReport(j) ==
    LET f == job[j].f  r == job[j].report
    IN  /\ job[j].pc = "pay"
        /\ reward' = [reward EXCEPT ![f] = r.user]
        /\ account' = [account EXCEPT ![r.user].available = @ + RewardPoints]
        /\ report' = [report EXCEPT ![f] = (@ \ {r}) \cup {[r EXCEPT !.status = "rewarded"]}]
        /\ Stop(j)
        /\ UNCHANGED <<now, link, bonus, fc, receipt, position, ledger, review>>

Answered(j) == job[j].pc = "again" /\ Stop(j) /\ Keep
               /\ UNCHANGED <<account, decision, class, complete, reward>>

\* The Worker is stopped, or a storage call fails, between two awaits.
Crash(j) == job[j].pc \notin {"idle", "again"} /\ Stop(j) /\ Keep
            /\ UNCHANGED <<account, decision, class, complete, reward>>

Accept(j) == Decide(j) \/ Classify(j) \/ Finish(j) \/ Lock(j)
             \/ PickReport(j) \/ PayReport(j) \/ Answered(j)

Next ==
    \/ Tick
    \/ \E u \in Users : UnlinkWallet(u) \/ \E a \in Addresses : LinkWallet(u, a)
    \/ \E f \in Forecasts :
          \/ \E u \in Users, o \in Outcomes, s \in Stakes : Submit(f, u, o, s)
          \/ \E url \in Urls : Hold(f, url)
          \/ \E u \in Users, url \in Urls : Report(f, u, url)
          \/ \E o \in Outcomes \cup {"INVALID"} : Finalize(f, o)
          \/ Release(f) \/ ExpiryLock(f) \/ Settle(f)
    \/ \E j \in Jobs : \/ Accept(j) \/ Crash(j)
                       \/ \E f \in Forecasts : Resume(j, f) \/ \E t \in Trigger : Begin(j, f, t)

Spec == Init /\ [][Next]_vars

-------------------------------------------------------------------------------
\* Properties

Total(S, op(_)) == FoldSet(LAMBDA x, acc : op(x) + acc, 0, S)

\* The variables hold what the tables and the jobs of points.rs, eligibility.rs and
\* automation.rs hold.
TypeOK ==
    /\ now \in 0..MaxTime
    /\ \A u \in Users : account[u].available \in Nat /\ account[u].committed \in Nat
    /\ link \in [Users -> Addresses \cup {Nil}] /\ bonus \subseteq [user : Users, address : Addresses]
    /\ \A f \in Forecasts :
          /\ fc[f] \in [state : {"OPEN", "LOCKED", "FINALIZED"},
                        outcome : Outcomes \cup {"INVALID", Nil}, trigger : Trigger \cup {Nil}]
          /\ receipt[f] \subseteq [user : Users, rev : 1..MaxSubmissions, at : 0..MaxTime,
                                   outcome : Outcomes, stake : Stakes]
          /\ class[f] \subseteq [user : Users, rev : 1..MaxSubmissions, status : {"eligible", "void", "review"}]
          /\ decision[f] \in Trigger \cup {Nil} /\ hold[f] \in Urls \cup {Nil}
          /\ reward[f] \in Users \cup {Nil}
    /\ \A j \in Jobs : job[j].pc \in {"idle", "again", "decide", "classify", "finish", "lock", "reward", "pay"}

\* Points are neither lost nor made: an account's total is what it was granted, rewarded and won,
\* and what it has committed is exactly its open positions (the ledger's snapshot and position
\* triggers of 0004, over submissions, revisions, settlements, bonuses and rewards).  A wallet
\* earns its bonus once, whoever links it, and a user once, whatever they link and unlink
\* (points_wallet_linked and points_wallet_reverified).
Conserved ==
    /\ \A b, c \in bonus : b.user = c.user \/ b.address = c.address => b = c
    /\ \A u \in Users :
        LET Won == Total({l \in ledger : l.user = u}, LAMBDA l : l.returned)
            Spent == Total({l \in ledger : l.user = u}, LAMBDA l : l.stake)
        IN  /\ account[u].available + account[u].committed + Spent
                 = Grant + WalletGrant * Cardinality({b \in bonus : b.user = u})
                   + RewardPoints * Cardinality({f \in Forecasts : reward[f] = u}) + Won
            /\ account[u].committed
                 = Total({f \in Forecasts : u \in Unsettled(f)}, LAMBDA f : position[f][u].amount)

\* No settlement stands on a receipt the cutoff of its forecast does not call eligible, whichever
\* of the settlement and the cutoff came first (the guard of decide(), the settlement's triggers);
\* and no submission slips in behind a completed cutoff, whose receipts are all classified (the
\* completion barrier and the intake triggers of 0013).
CutoffHonoured ==
    /\ \A f \in Forecasts : complete[f] => Unclassified(f) = {}
    /\ \A l \in ledger : \A r \in receipt[l.forecast] :
        r.rev = l.rev /\ decision[l.forecast] # Nil
            => ReceiptStatus(r.at, decision[l.forecast]) = "eligible"

\* A forecast closes early only under a hold in force at that moment and under the very cutoff
\* that was completed, although accept() read the hold several awaits before its lock batch.
LockGuarded ==
    \A f \in Forecasts : fc'[f].trigger # fc[f].trigger
        => hold[f] # Nil /\ complete[f] /\ decision[f] = fc'[f].trigger
EarlyLockGuarded == [][LockGuarded]_vars

\* A cutoff is decided before its forecast settles, and an early lock is made
\* under the holds it was decided under.
CutoffsGuarded == EarlyLockGuarded /\ []CutoffHonoured

\* What receipt-eligibility.md promises of a person who edited at or after the cutoff.
Kept(f, u) == {c \in class[f] : c.user = u /\ c.status # "void"}
Expected(f, u) ==
    IF Kept(f, u) = {} THEN 0
    ELSE LET last == CHOOSE c \in Kept(f, u) : \A d \in Kept(f, u) : d.rev <= c.rev
         IN  (CHOOSE r \in receipt[f] : r.rev = last.rev).stake

\* Once apply() has classified the whole history, every person's stake is the one of their last
\* receipt before the cutoff (eligibility.rs, "classify a page, then adjust what it classified").
Restored ==
    \A j \in Jobs : LET f == job[j].f IN
        job[j].pc = "finish" /\ Unclassified(f) = {}
            => \A c \in class[f] : Staked(f, c.user) = Expected(f, c.user)

===============================================================================
