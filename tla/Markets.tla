-------------------------------- MODULE Markets --------------------------------
(***************************************************************************)
(* Point markets: the treasury, the markets it funds, quotes, fills,       *)
(* refunds of fills made after the evidence, and settlement                *)
(* (point_markets.rs, pricing.rs, 0008_point_markets.sql,                  *)
(* 0014_market_eligibility.sql).                                           *)
(*                                                                         *)
(* A batch is one action, reads before it are another: buyers, refund      *)
(* coordinators and settlers interleave between the two.  A request's      *)
(* clock is the time it started, not the time its batch commits.           *)
(*                                                                         *)
(* Points are whole; atomic units are Scale to a point.  Prices come from  *)
(* the real cost function max(y,n) + b ln(1 + exp(-|y-n|/b)), whose second *)
(* term is tabulated in hundredths by SoftTail.  One mode (active) is modelled.*)
(***************************************************************************)
EXTENDS Integers, Sequences, FiniteSets, FiniteSetsExt, SequencesExt

CONSTANTS
    Forecasts, Users, Buyers, Coordinators, Settlers, Keys,
    FundKeys, FundAmount, IssuanceCap,   \* fund_treasury, in atomic units
    Initial,          \* a new account's points
    Scale,            \* ATOMIC_UNITS_PER_POINT
    SoftTail,             \* b ln(1 + exp(-d/b)) in hundredths, by the distance d
    Subsidy,          \* subsidy_atomic
    Spends,           \* points a quote may be asked for
    OwnerGrossCap, OwnerUnsettledCap, GlobalCap, MarketCap,  \* atomic
    QuoteLife,        \* quote_lifetime_ms
    Limit,            \* MAX_BATCH of a refund or a settlement pass
    MaxUnsettled, MaxPerDay,             \* create()'s 20 and 5
    Cutoffs,          \* times the evidence may carry
    MaxTime, MaxQuotes, Nil

Outcomes == {"YES", "NO", "INVALID"}
Bases == {"published_instant", "observed_upper_bound"}

\* cost_interval, in hundredths of an atomic unit.
Cost(y, n) == 100 * Max({y, n}) + SoftTail[Max({y, n}) - Min({y, n})]

\* PricingPolicy.validate: the subsidy covers b ln 2 and the limits are ordered.
MarketsAssumption ==
    /\ 100 * Subsidy >= Cost(0, 0)
    /\ OwnerGrossCap <= OwnerUnsettledCap
    /\ Spends \subseteq Nat \ {0} /\ Scale \in Nat \ {0} /\ Limit \in Nat \ {0}

VARIABLES
    now,
    phase,      \* forecasts.state: OPEN, LOCKED (any later state) or the final outcome
    treasury,   \* [issued, available, funded]
    market,     \* point_markets row or Nil
    quotes,     \* market_quotes, in the order they were stored
    fills,      \* market_fills of a forecast, in revision order
    voided,     \* market_fill_voids: revisions refunded
    position,   \* market_positions: [gross, claims, settled] or Nil
    account,    \* point_accounts and point_fractions: [available, committed, fraction]
    decision,   \* forecast_eligibility_decisions: [cutoff, basis] or Nil
    complete,   \* forecast_eligibility_completions
    paid,       \* market_settlements: {[user, forecast, payout]}
    denied,     \* quotes receipt_status answered not_accepted for
    buy, coord, settler   \* one request, refund pass and settlement pass each

vars == <<now, phase, treasury, market, quotes, fills, voided, position, account,
          decision, complete, paid, denied, buy, coord, settler>>
book == <<treasury, market, fills, voided, position, account, paid>>

NoClaims == [YES |-> 0, NO |-> 0]

Init ==
    /\ now = 0 /\ phase = [f \in Forecasts |-> "OPEN"]
    /\ treasury = [issued |-> 0, available |-> 0, funded |-> {}]
    /\ market = [f \in Forecasts |-> Nil] /\ quotes = <<>>
    /\ fills = [f \in Forecasts |-> <<>>] /\ voided = [f \in Forecasts |-> {}]
    /\ position = [f \in Forecasts |-> [u \in Users |-> Nil]]
    /\ account = [u \in Users |-> [available |-> Initial, committed |-> 0, fraction |-> 0]]
    /\ decision = [f \in Forecasts |-> Nil] /\ complete = [f \in Forecasts |-> FALSE]
    /\ paid = {} /\ denied = {}
    /\ buy = [b \in Buyers |-> Nil] /\ coord = [c \in Coordinators |-> Nil]
    /\ settler = [s \in Settlers |-> Nil]

Other(side) == IF side = "YES" THEN "NO" ELSE "YES"
Total(S, val(_)) == MapThenSumSet(val, S)

\* content_hash of the PricingState: what state_hash stands for.
StateOf(m) == [claims |-> m.claims, gross |-> m.gross, revision |-> m.revision, closed |-> m.closed]

-------------------------------------------------------------------------------
\* Pricing

\* claims_for_spend: the most claims whose cost increase the spend still covers.
ClaimsForSpend(st, side, spend) ==
    LET own == st.claims[side]  other == st.claims[Other(side)]
        Affordable(c) == Cost(own + c, other) - Cost(own, other) <= 100 * spend
    IN  Max({c \in 0..(3 * spend) : Affordable(c)})

\* quote_buy refuses a closed market, a saturated price and a claim the reserve cannot cover.
Quotable(st, side, spend) ==
    LET c == ClaimsForSpend(st, side, spend)
    IN  /\ st.closed = Nil
        /\ Subsidy + st.gross + spend >= Max({st.claims[side] + c, st.claims[Other(side)]})
        /\ c >= spend

-------------------------------------------------------------------------------
\* Treasury and market creation

FundTreasury(k) ==
    /\ k \notin treasury.funded /\ treasury.issued + FundAmount <= IssuanceCap
    /\ treasury' = [issued |-> treasury.issued + FundAmount,
                    available |-> treasury.available + FundAmount,
                    funded |-> treasury.funded \cup {k}]
    /\ UNCHANGED <<now, phase, market, quotes, fills, voided, position, account, decision,
                   complete, paid, denied, buy, coord, settler>>

Create(f) ==
    /\ market[f] = Nil /\ phase[f] = "OPEN" /\ treasury.available >= Subsidy
    /\ LET open == {g \in Forecasts : market[g] # Nil}
       IN  /\ Cardinality({g \in open : market[g].status # "settled"}) < MaxUnsettled
           /\ Cardinality(open) < MaxPerDay
    /\ market' = [market EXCEPT ![f] = [status |-> "open", claims |-> NoClaims, gross |-> 0,
                                        revision |-> 0, closed |-> Nil, reserve |-> Subsidy]]
    /\ treasury' = [treasury EXCEPT !.available = @ - Subsidy]
    /\ UNCHANGED <<now, phase, quotes, fills, voided, position, account, decision,
                   complete, paid, denied, buy, coord, settler>>

-------------------------------------------------------------------------------
\* Quotes and fills

\* totals(): an owner's unsettled gross in one forecast and in all, in atomic units.
Exposure(u, S) == Scale * Total({f \in S : position[f][u] # Nil /\ ~position[f][u].settled},
                                LAMBDA f : position[f][u].gross)

WithinOwnerLimits(u, f, spend) ==
    /\ Exposure(u, {f}) + spend <= OwnerGrossCap
    /\ Exposure(u, Forecasts) + spend <= OwnerUnsettledCap

\* A fill is not tied to the state it was priced against.
OpenGuardAnyState(f, seen) == market[f].status = "open" /\ phase[f] = "OPEN"

\* open_guard, against the row the request read; at is the request's clock.
OpenGuard(f, seen) ==
    /\ market[f].status = "open" /\ StateOf(market[f]) = seen
    /\ phase[f] = "OPEN"

\* quote(): its open_guard makes the reads and the insert one step.
Quote(u, f, side, points) ==
    LET st == StateOf(market[f])  spend == points * Scale
    IN  /\ Len(quotes) < MaxQuotes /\ market[f] # Nil
        /\ account[u].available >= points
        /\ Quotable(st, side, spend) /\ WithinOwnerLimits(u, f, spend)
        /\ OpenGuard(f, st) /\ decision[f] = Nil
        /\ quotes' = Append(quotes, [user |-> u, forecast |-> f, side |-> side, points |-> points,
                                     claims |-> ClaimsForSpend(st, side, spend), state |-> st,
                                     at |-> now])
        /\ UNCHANGED <<now, phase, book, decision, complete, denied, buy, coord, settler>>

\* Every request clock the client of quote q can still have: it knows the quote, and it is not late.
RequestTimes(q) == {t \in quotes[q].at..now : t < quotes[q].at + QuoteLife}

\* accept(), its reads: the request is new, the receipt re-derives and the owner can pay.
AcceptRead(b, q, k) ==
    LET f == quotes[q].forecast  u == quotes[q].user  spend == quotes[q].points * Scale
    IN  /\ buy[b] = Nil
        /\ \A g \in Forecasts : \A i \in DOMAIN fills[g] : ~(fills[g][i].user = u /\ fills[g][i].key = k)
        /\ StateOf(market[f]) = quotes[q].state /\ Quotable(quotes[q].state, quotes[q].side, spend)
        /\ WithinOwnerLimits(u, f, spend) /\ account[u].available >= quotes[q].points
        /\ \E t \in RequestTimes(q) :
             buy' = [buy EXCEPT ![b] = [quote |-> q, key |-> k, at |-> t, account |-> account[u]]]
        /\ UNCHANGED <<now, phase, book, quotes, decision, complete, denied, coord, settler>>

\* The caps guard of the batch.
WithinCaps(u, f, spend) ==
    LET all == Total(Users, LAMBDA v : Exposure(v, Forecasts))
    IN  /\ WithinOwnerLimits(u, f, spend)
        /\ all + spend <= GlobalCap
        /\ market[f].gross + spend <= MarketCap

\* market_cutoff_fill, the UNIQUE indexes of market_fills and market_ledger_validate.
FillAdmitted(r) ==
    LET q == quotes[r.quote]
    IN  /\ decision[q.forecast] = Nil
        /\ \A g \in Forecasts : \A i \in DOMAIN fills[g] :
              /\ fills[g][i].quote # r.quote
              /\ ~(fills[g][i].user = q.user /\ fills[g][i].key = r.key)
        /\ account[q.user] = r.account

\* Only the pricing state's deposits grow; the row's reserve column is forgotten.
FilledUnreserved(m, q) == [m EXCEPT !.claims[q.side] = @ + q.claims, !.gross = @ + q.points * Scale,
                                    !.revision = @ + 1]

\* accept_quote's new state, and the reserve and gross columns of the row.
Filled(m, q) == [m EXCEPT !.claims[q.side] = @ + q.claims, !.gross = @ + q.points * Scale,
                          !.revision = @ + 1, !.reserve = @ + q.points * Scale]

\* accept(), its batch: all of it or nothing, and the request ends either way.
AcceptBatch(b) ==
    LET r == buy[b]  q == quotes[r.quote]  f == q.forecast  u == q.user
        spend == q.points * Scale
        held == IF position[f][u] = Nil THEN [gross |-> 0, claims |-> NoClaims, settled |-> FALSE]
                ELSE position[f][u]
        after == Filled(market[f], q)
    IN  /\ r # Nil
        /\ buy' = [buy EXCEPT ![b] = Nil]
        /\ IF OpenGuard(f, q.state) /\ WithinCaps(u, f, spend) /\ FillAdmitted(r)
           THEN /\ fills' = [fills EXCEPT ![f] = Append(@,
                      [quote |-> r.quote, key |-> r.key, user |-> u, side |-> q.side,
                       points |-> q.points, claims |-> q.claims, at |-> r.at,
                       receipt |-> StateOf(after)])]
                /\ account' = [account EXCEPT ![u] = [r.account EXCEPT !.available = @ - q.points, !.committed = @ + q.points]]
                /\ position' = [position EXCEPT ![f][u] =
                      [held EXCEPT !.gross = @ + q.points, !.claims[q.side] = @ + q.claims]]
                /\ market' = [market EXCEPT ![f] = after]
           ELSE UNCHANGED <<fills, account, position, market>>
        /\ UNCHANGED <<now, phase, treasury, quotes, voided, decision, complete, paid, denied, coord, settler>>

\* receipt_status: absence is definitive only under a persisted cutoff.
AskReceipt(q, k) ==
    LET u == quotes[q].user  f == quotes[q].forecast
        unheard == \A g \in Forecasts : \A i \in DOMAIN fills[g] :
                      fills[g][i].quote # q /\ ~(fills[g][i].user = u /\ fills[g][i].key = k)
    IN  /\ unheard /\ decision[f] # Nil /\ q \notin denied
        /\ denied' = denied \cup {q}
        /\ UNCHANGED <<now, phase, book, quotes, decision, complete, buy, coord, settler>>

-------------------------------------------------------------------------------
\* Refunds of fills made after the evidence

Effective(f) == DOMAIN fills[f] \ voided[f]
\* A fill on the cutoff's own instant is kept.
LateAfter(f) == {i \in Effective(f) : fills[f][i].at > decision[f].cutoff}

Late(f) == {i \in Effective(f) : fills[f][i].at >= decision[f].cutoff}
Stake(f, S) == Scale * Total(S, LAMBDA i : fills[f][i].points)
Claims(f, S, side) == Total({i \in S : fills[f][i].side = side}, LAMBDA i : fills[f][i].claims)
Liability(f, S) == Max({Claims(f, S, "YES"), Claims(f, S, "NO"), Stake(f, S)})

Inverted(f) ==
    \E i, j \in DOMAIN fills[f] :
        i < j /\ fills[f][i].at >= decision[f].cutoff /\ fills[f][j].at < decision[f].cutoff

\* market_eligibility_anomalies: the book of an open market does not reconcile.
Anomaly(f) ==
    LET m == market[f]
        Mine(u) == {i \in Effective(f) : fills[f][i].user = u}
    IN  \/ m.status # "open" \/ m.revision # Len(fills[f]) \/ Inverted(f)
        \/ m.gross # Stake(f, DOMAIN fills[f])
        \/ \E side \in {"YES", "NO"} : m.claims[side] # Claims(f, DOMAIN fills[f], side)
        \/ \E p \in paid : p.forecast = f
        \/ \E u \in Users :
              \/ position[f][u] = Nil /\ Mine(u) # {}
              \/ /\ position[f][u] # Nil
                 /\ \/ Scale * position[f][u].gross # Stake(f, Mine(u))
                    \/ \E side \in {"YES", "NO"} : position[f][u].claims[side] # Claims(f, Mine(u), side)
                    \/ position[f][u].gross > 0 /\ position[f][u].settled
        \/ m.reserve # Subsidy + Stake(f, Effective(f))
        \/ m.reserve < Liability(f, Effective(f))

\* A cutoff is decided by the early resolution; the event may be any time before now.
Decide(f, cutoff, basis) ==
    /\ decision[f] = Nil /\ phase[f] \in {"OPEN", "LOCKED"} /\ cutoff <= now
    /\ decision' = [decision EXCEPT ![f] = [cutoff |-> cutoff, basis |-> basis]]
    /\ UNCHANGED <<now, phase, book, quotes, complete, denied, buy, coord, settler>>

\* void_after_evidence: the latest late fills, ORDER BY revision DESC LIMIT.
VoidList(f) == SubSeq(Reverse(SetToSortSeq(Late(f), <)), 1, Min({Limit, Cardinality(Late(f))}))

VoidBegin(c, f) ==
    /\ coord[c] = Nil /\ decision[f] # Nil /\ ~complete[f] /\ market[f] # Nil
    /\ ~Anomaly(f) /\ Late(f) # {}
    /\ coord' = [coord EXCEPT ![c] = [f |-> f, list |-> VoidList(f), snap |-> Nil]]
    /\ UNCHANGED <<now, phase, book, quotes, decision, complete, denied, buy, settler>>

VoidSnap(c) ==
    /\ coord[c] # Nil /\ coord[c].snap = Nil
    /\ LET f == coord[c].f
       IN  coord' = [coord EXCEPT ![c].snap = [account |-> account[fills[f][Head(coord[c].list)].user],
                                               reserve |-> market[f].reserve]]
    /\ UNCHANGED <<now, phase, book, quotes, decision, complete, denied, buy, settler>>

\* market_void_validate on fill i with the balances the coordinator read.
VoidAdmitted(f, i, snap) ==
    LET fill == fills[f][i]  rest == Effective(f) \ {i}
    IN  /\ i \notin voided[f] /\ fill.at >= decision[f].cutoff
        /\ ~Anomaly(f)
        /\ \A j \in Effective(f) : j <= i
        /\ snap.reserve = market[f].reserve
        /\ snap.account.available = account[fill.user].available
        /\ snap.account.committed = account[fill.user].committed
        /\ fill.points <= snap.account.committed
        /\ snap.reserve - fill.points * Scale >= Liability(f, rest)

VoidInsert(c) ==
    LET f == coord[c].f  i == Head(coord[c].list)  fill == fills[f][i]  u == fill.user
        Next1 == IF Len(coord[c].list) = 1 THEN Nil
                 ELSE [coord[c] EXCEPT !.list = Tail(@), !.snap = Nil]
    IN  /\ coord[c] # Nil /\ coord[c].snap # Nil
        /\ \/ /\ VoidAdmitted(f, i, coord[c].snap)
              /\ voided' = [voided EXCEPT ![f] = @ \cup {i}]
              /\ account' = [account EXCEPT ![u].available = @ + fill.points, ![u].committed = @ - fill.points]
              /\ position' = [position EXCEPT ![f][u].gross = @ - fill.points,
                                              ![f][u].claims[fill.side] = @ - fill.claims,
                                              ![f][u].settled = (position[f][u].gross = fill.points)]
              /\ market' = [market EXCEPT ![f].reserve = @ - fill.points * Scale]
              /\ coord' = [coord EXCEPT ![c] = Next1]
           \/ /\ ~VoidAdmitted(f, i, coord[c].snap)
              /\ coord' = [coord EXCEPT ![c] = IF i \in voided[f] THEN Next1 ELSE Nil]
              /\ UNCHANGED <<voided, account, position, market>>
        /\ UNCHANGED <<now, phase, treasury, quotes, fills, decision, complete, paid, denied, buy, settler>>

\* market_eligibility_completion
Complete(f) ==
    /\ decision[f] # Nil /\ ~complete[f]
    /\ market[f] # Nil => (/\ Late(f) = {}
                           /\ decision[f].basis = "observed_upper_bound" => Effective(f) = {}
                           /\ ~Anomaly(f))
    /\ complete' = [complete EXCEPT ![f] = TRUE]
    /\ UNCHANGED <<now, phase, book, quotes, decision, denied, buy, coord, settler>>

\* eligible_prefix: the receipt at the cutoff, or Nil when a person has to look.
EligiblePrefix(f) ==
    LET before == {i \in DOMAIN fills[f] : fills[f][i].at < decision[f].cutoff}
        st == fills[f][Max(before)].receipt
    IN  IF decision[f].basis # "published_instant" \/ Inverted(f) THEN Nil
        ELSE IF before = {} THEN [claims |-> NoClaims, gross |-> 0, revision |-> 0, closed |-> Nil]
        ELSE IF st.revision = Max(before) THEN st ELSE Nil

-------------------------------------------------------------------------------
\* The forecast, as this component sees it, and settlement

Blocked(f) == decision[f] # Nil /\ ~complete[f]

Lock(f) ==
    /\ phase[f] = "OPEN" /\ ~Blocked(f) /\ phase' = [phase EXCEPT ![f] = "LOCKED"]
    /\ UNCHANGED <<now, book, quotes, decision, complete, denied, buy, coord, settler>>

Finalize(f, o) ==
    /\ phase[f] = "LOCKED" /\ ~Blocked(f) /\ phase' = [phase EXCEPT ![f] = o]
    /\ UNCHANGED <<now, book, quotes, decision, complete, denied, buy, coord, settler>>

Unsettled(f) == {u \in Users : position[f][u] # Nil /\ ~position[f][u].settled}

SettleRead(s, f) ==
    /\ settler[s] = Nil /\ phase[f] \in Outcomes /\ market[f] # Nil
    /\ market[f].status # "settled" /\ market[f].closed \in {Nil, phase[f]}
    /\ \E people \in SUBSET Unsettled(f) :
          /\ Cardinality(people) = Min({Limit, Cardinality(Unsettled(f))})
          /\ settler' = [settler EXCEPT ![s] =
                [f |-> f, seen |-> StateOf(market[f]),
                 people |-> [u \in people |-> [position |-> position[f][u], account |-> account[u]]]]]
    /\ UNCHANGED <<now, phase, book, quotes, decision, complete, denied, buy, coord>>

Payout(p, o) == IF o = "INVALID" THEN p.gross * Scale ELSE p.claims[o]

\* Only the first batch of a settlement passes its guard.
SettleAdmittedFirst(w) ==
    /\ StateOf(market[w.f]) = w.seen /\ market[w.f].status = "open"
    /\ \A u \in DOMAIN w.people : w.people[u].account = account[u]

\* The batch's guard, the unique settlement, the ledger's balances and the blockers.
SettleAdmitted(w) ==
    LET f == w.f
    IN  /\ StateOf(market[f]) = w.seen /\ market[f].status # "settled"
        /\ \A u \in DOMAIN w.people :
              /\ w.people[u].account = account[u]
              /\ \A p \in paid : ~(p.forecast = f /\ p.user = u)
        /\ ~Blocked(f)

SettleBatch(s) ==
    LET w == settler[s]  f == w.f  o == phase[f]  people == DOMAIN w.people
        Due(u) == Payout(w.people[u].position, o)
        left == market[f].reserve - Total(people, Due)
        done == Unsettled(f) \subseteq people
        Credit(u) == LET a == w.people[u].account  sum == Due(u) + a.fraction
                     IN  [available |-> a.available + sum \div Scale, fraction |-> sum % Scale,
                          committed |-> a.committed - w.people[u].position.gross]
    IN  /\ w # Nil
        /\ settler' = [settler EXCEPT ![s] = Nil]
        /\ IF SettleAdmitted(w)
           THEN /\ paid' = paid \cup {[user |-> u, forecast |-> f, payout |-> Due(u)] : u \in people}
                /\ account' = [u \in Users |-> IF u \in people THEN Credit(u) ELSE account[u]]
                /\ position' = [position EXCEPT ![f] =
                      [u \in Users |-> IF u \in people THEN [@[u] EXCEPT !.settled = TRUE] ELSE @[u]]]
                /\ market' = [market EXCEPT ![f].closed = o,
                                            ![f].status = IF done THEN "settled" ELSE "settling",
                                            ![f].reserve = IF done THEN 0 ELSE left]
                /\ treasury' = [treasury EXCEPT !.available = @ + IF done THEN left ELSE 0]
           ELSE UNCHANGED <<paid, account, position, market, treasury>>
        /\ UNCHANGED <<now, phase, quotes, fills, voided, decision, complete, denied, buy, coord>>

-------------------------------------------------------------------------------
Tick == /\ now < MaxTime /\ now' = now + 1
        /\ UNCHANGED <<phase, book, quotes, decision, complete, denied, buy, coord, settler>>

Next ==
    \/ Tick
    \/ \E k \in FundKeys : FundTreasury(k)
    \/ \E f \in Forecasts :
          \/ Create(f) \/ Complete(f) \/ Lock(f)
          \/ \E o \in Outcomes : Finalize(f, o)
          \/ \E t \in Cutoffs, basis \in Bases : Decide(f, t, basis)
          \/ \E u \in Users, side \in {"YES", "NO"}, n \in Spends : Quote(u, f, side, n)
          \/ \E c \in Coordinators : VoidBegin(c, f)
          \/ \E s \in Settlers : SettleRead(s, f)
    \/ \E b \in Buyers : AcceptBatch(b) \/ \E q \in DOMAIN quotes, k \in Keys : AcceptRead(b, q, k)
    \/ \E q \in DOMAIN quotes, k \in Keys : AskReceipt(q, k)
    \/ \E c \in Coordinators : VoidSnap(c) \/ VoidInsert(c)
    \/ \E s \in Settlers : SettleBatch(s)

Spec == Init /\ [][Next]_vars

-------------------------------------------------------------------------------
Account == [available : Nat, committed : Nat, fraction : 0..(Scale - 1)]

\* The shapes of the tables' rows.
TypeOK ==
    /\ now \in 0..MaxTime /\ phase \in [Forecasts -> {"OPEN", "LOCKED"} \cup Outcomes]
    /\ treasury.issued \in 0..IssuanceCap /\ treasury.available \in Nat
    /\ account \in [Users -> Account]
    /\ \A f \in Forecasts :
          /\ market[f] = Nil \/ (market[f].reserve \in Nat /\ market[f].closed \in {Nil} \cup Outcomes)
          /\ voided[f] \subseteq DOMAIN fills[f]
          /\ decision[f] = Nil \/ decision[f] \in [cutoff : Cutoffs, basis : Bases]
    /\ complete \in [Forecasts -> BOOLEAN] /\ denied \subseteq DOMAIN quotes

\* No write makes or loses a unit: treasury, reserves and owners hold what was issued and
\* granted, fractions included, and an owner's committed points are its unsettled cost.
Conserved ==
    /\ treasury.available
       + Total({f \in Forecasts : market[f] # Nil}, LAMBDA f : market[f].reserve)
       + Total(Users, LAMBDA u : Scale * account[u].available + account[u].fraction)
       = treasury.issued + Cardinality(Users) * Initial * Scale
    /\ \A u \in Users : Scale * account[u].committed = Exposure(u, Forecasts)

\* The reserve pays every unsettled position whatever outcome is still possible.
Covered ==
    \A f \in Forecasts : market[f] # Nil =>
        \A o \in IF market[f].closed = Nil THEN Outcomes ELSE {market[f].closed} :
            market[f].reserve >= Total(Unsettled(f), LAMBDA u : Payout(position[f][u], o))

\* Every fill was charged at the price of exactly the fills before it: concurrent requests
\* never fill from the same state, and no state is skipped.
PriceHonoured ==
    \A f \in Forecasts : \A i \in DOMAIN fills[f] :
        LET fill == fills[f][i]
            before == IF i = 1 THEN [claims |-> NoClaims, gross |-> 0, revision |-> 0, closed |-> Nil]
                      ELSE fills[f][i - 1].receipt
        IN  /\ quotes[fill.quote].state = before
            /\ fill.claims = ClaimsForSpend(before, fill.side, Scale * fill.points)
            /\ fill.receipt.revision = i

\* The revision order of fills is the order of their clocks, although a clock is the
\* request's start: a reader never finds the inversion eligible_prefix gives up on.
FillsInTimeOrder ==
    \A f \in Forecasts : \A i, j \in DOMAIN fills[f] : i < j => fills[f][i].at <= fills[f][j].at

\* When the refunds are complete, what is left in the market is the receipt at the cutoff:
\* its claims, its deposits and nothing later.
RefundMeetsPrefix ==
    \A f \in Forecasts :
        (complete[f] /\ market[f] # Nil /\ decision[f].basis = "published_instant") =>
            LET prefix == EligiblePrefix(f)
            IN  /\ prefix # Nil
                /\ \A side \in {"YES", "NO"} : Claims(f, Effective(f), side) = prefix.claims[side]
                /\ market[f].status = "open" => market[f].reserve = Subsidy + prefix.gross

\* A settlement pays an owner for its effective fills, once, and for no refunded one.
PaidTheEffective ==
    \A p \in paid :
        LET mine == {i \in Effective(p.forecast) : fills[p.forecast][i].user = p.user}
        IN  /\ p.payout = IF phase[p.forecast] = "INVALID" THEN Stake(p.forecast, mine)
                          ELSE Claims(p.forecast, mine, phase[p.forecast])
            /\ \A q \in paid : (q.forecast = p.forecast /\ q.user = p.user) => q = p

\* A buyer told that a purchase was not accepted never finds it accepted later.
DeniedStaysDenied == \A f \in Forecasts : \A i \in DOMAIN fills[f] : fills[f][i].quote \notin denied

================================================================================
