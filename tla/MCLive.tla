------------------------------- MODULE MCLive -------------------------------
(***************************************************************************)
(* What must happen in the end, on small instances and under the fairness  *)
(* the cron trigger justifies: deliveries to the chain are confirmed,      *)
(* markets are settled and refunded, reviews of sources end.  A behaviour  *)
(* is about one part; the fairness of the others says nothing of it.       *)
(***************************************************************************)
EXTENDS Naturals, Sequences, TLC

CONSTANTS w1, f1, u1, u2, b1, c1, s1, k1, g1, a1, t1, Nil

VARIABLES
  part,
  log, early, intents, delivery, enabled, observed, chain, due, txs, worker, finalizer, gated, faults,
  now, phase, treasury, market, quotes, fills, voided, position, account, decision, complete, paid,
  denied, buy, coord, settler,
  forecast, links, page, source, bound, seen, review, hold, keys, budget, watcher, dues, crashes,
  ops, armed, cleared, overridden

deliveries == <<log, early, intents, delivery, enabled, observed, chain, due, txs, worker, finalizer,
                gated, faults>>
books == <<now, phase, treasury, market, quotes, fills, voided, position, account, decision, complete,
           paid, denied, buy, coord, settler>>
sources == <<forecast, links, page, source, bound, seen, review, hold, keys, budget, watcher, dues,
             crashes, ops, armed, cleared, overridden>>
vars == <<part, deliveries, books, sources>>

Relays == INSTANCE Relay WITH
  Workers <- {w1}, MaxRev <- 3, Lease <- 1, Backoff <- 1, Resend <- 4, TxLife <- 1, Challenge <- 1,
  MaxLate <- 0, MaxSends <- 2, MaxFaults <- 0, Lag <- FALSE, MaxEarly <- 0, Held <- FALSE, None <- Nil

\* b = 8 atomic units: the soft part of its cost, tabulated.
SoftTailOf8 == 0 :> 555 @@ 1 :> 507 @@ 2 :> 461 @@ 3 :> 419 @@ 4 :> 380 @@ 5 :> 343 @@ 6 :> 310
  @@ 7 :> 279 @@ 8 :> 251 @@ 9 :> 225 @@ 10 :> 202 @@ 11 :> 181 @@ 12 :> 162 @@ 13 :> 145
  @@ 14 :> 129 @@ 15 :> 115 @@ 16 :> 102 @@ 17 :> 91 @@ 18 :> 81 @@ 19 :> 72 @@ 20 :> 64

Books == INSTANCE Markets WITH
  Forecasts <- {f1}, Users <- {u1, u2}, Buyers <- {b1}, Coordinators <- {c1}, Settlers <- {s1},
  Keys <- {k1}, FundKeys <- {g1}, FundAmount <- 6, IssuanceCap <- 6, Initial <- 4, Scale <- 2,
  SoftTail <- SoftTailOf8, Subsidy <- 6, Spends <- {2}, OwnerGrossCap <- 8, OwnerUnsettledCap <- 8,
  GlobalCap <- 12, MarketCap <- 12, QuoteLife <- 2, Limit <- 1, MaxUnsettled <- 1, MaxPerDay <- 1,
  Cutoffs <- {1}, MaxTime <- 1, MaxQuotes <- 2

Watch == INSTANCE SourceWatch WITH
  Watchers <- {w1}, Articles <- {a1}, Contents <- {t1}, MaxAttempts <- 2, Budget <- 1,
  MaxDue <- 1, MaxClaims <- 5, MaxCrashes <- 1, MaxOps <- 0

ASSUME InstanceAssumption ==
  Relays!RelayAssumption /\ Books!MarketsAssumption /\ Watch!SourceWatchAssumption

RelayRests ==
  /\ log = Nil /\ early = Nil /\ intents = Nil /\ delivery = Nil /\ enabled = Nil /\ observed = Nil
  /\ chain = Nil /\ due = Nil /\ txs = Nil /\ worker = Nil /\ finalizer = Nil /\ gated = Nil
  /\ faults = Nil
BooksRest ==
  /\ now = Nil /\ phase = Nil /\ treasury = Nil /\ market = Nil /\ quotes = Nil /\ fills = Nil
  /\ voided = Nil /\ position = Nil /\ account = Nil /\ decision = Nil /\ complete = Nil
  /\ paid = Nil /\ denied = Nil /\ buy = Nil /\ coord = Nil /\ settler = Nil
WatchRests ==
  /\ forecast = Nil /\ links = Nil /\ page = Nil /\ source = Nil /\ bound = Nil /\ seen = Nil
  /\ review = Nil /\ hold = Nil /\ keys = Nil /\ budget = Nil /\ watcher = Nil /\ dues = Nil
  /\ crashes = Nil /\ ops = Nil /\ armed = Nil /\ cleared = Nil /\ overridden = Nil

Init ==
  /\ part \in {"relay", "books", "watch"}
  /\ IF part = "relay" THEN Relays!Init ELSE RelayRests
  /\ IF part = "books" THEN Books!Init ELSE BooksRest
  /\ IF part = "watch" THEN Watch!WatchInit ELSE WatchRests

Next ==
  \/ part = "relay" /\ Relays!Next /\ UNCHANGED <<part, books, sources>>
  \/ part = "books" /\ Books!Next  /\ UNCHANGED <<part, deliveries, sources>>
  \/ part = "watch" /\ Watch!WatchNext  /\ UNCHANGED <<part, deliveries, books>>

\* The fairness of each part, of the behaviours that are about it.
RelayFairness ==
  /\ WF_deliveries(part = "relay" /\ Relays!Tick)
  /\ WF_deliveries(part = "relay" /\ Relays!Pass(w1))
  /\ \A s \in Relays!Signatures : WF_deliveries(part = "relay" /\ Relays!Execute(s))
BooksFairness ==
  /\ WF_books(part = "books" /\ Books!SettleRead(s1, f1))
  /\ WF_books(part = "books" /\ Books!SettleBatch(s1))
  /\ WF_books(part = "books" /\ Books!VoidBegin(c1, f1))
  /\ WF_books(part = "books" /\ Books!VoidSnap(c1))
  /\ WF_books(part = "books" /\ Books!VoidInsert(c1))
  /\ WF_books(part = "books" /\ Books!Complete(f1))
WatchFairness ==
  /\ WF_sources(part = "watch" /\ Watch!Expire)
  /\ WF_sources(part = "watch" /\ (Watch!Poll(w1) \/ Watch!Review(w1)))
  /\ WF_sources(part = "watch" /\ Watch!Again(t1))

FairSpec == Init /\ [][Next]_vars /\ RelayFairness /\ BooksFairness /\ WatchFairness

\* Whatever an enabled forecast commits is confirmed in the end (Relay).
EventuallyConfirmed ==
  \A r \in 1..3 : (part = "relay" /\ enabled /\ r <= Len(log)) ~> (part = "relay" /\ r \in Relays!Confirmed)
\* A finalized market is settled, and a cutoff with a known instant refunded to
\* completion (Markets).
BooksClosed ==
  /\ (part = "books" /\ phase[f1] \in Books!Outcomes /\ market[f1] # Nil) ~>
       (part = "books" /\ market[f1] # Nil /\ market[f1].status = "settled")
  /\ (part = "books" /\ decision[f1] # Nil /\ decision[f1].basis = "published_instant") ~>
       (part = "books" /\ complete[f1])
\* A review that was queued ends (SourceWatch).
ReviewEnds ==
  (part = "watch" /\ review[t1] # Nil) ~>
    (part = "watch" /\ review[t1] # Nil /\ review[t1].state \in {"complete", "exhausted"})
=============================================================================
