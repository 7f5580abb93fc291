----------------------------- MODULE MCAccounts -----------------------------
(***************************************************************************)
(* What a profile holds, on small instances: its points under early        *)
(* cutoffs and under evidence rewards, market books with refunds and with  *)
(* competing buyers, wallet sign-in with two contexts, with a sign-up and  *)
(* before the switch, the Seeker badge and the stamps of its receipts; and *)
(* the sandbox invoices.                                                   *)
(* Points and markets share point_accounts, but every write to it is one   *)
(* statement of one of them, so that each is looked at on its own: a       *)
(* behaviour is about one part, and the others rest.                       *)
(***************************************************************************)
EXTENDS Points, Attestations, Seeker, SignIn, TLC

CONSTANTS u1, u2, f1, f2, j1, j2, p1, a1, a2, b1, b2, c1, c2, s1, k1, k2, g1, r1, r2, m1

VARIABLES
  part,
  mnow, phase, treasury, market, quotes, fills, voided, mposition, maccount, mdecision,
  mcomplete, paid, denied, buy, coord, settler,
  bnow, capital, invoice, baudit, caller, paidIn, paidOut

books == <<mnow, phase, treasury, market, quotes, fills, voided, mposition, maccount, mdecision,
           mcomplete, paid, denied, buy, coord, settler>>
cents == <<bnow, capital, invoice, baudit, caller, paidIn, paidOut>>

\* The same tables with two wallets and an evidence report.
Reward == INSTANCE Points WITH
  Addresses <- {a1, a2}, Jobs <- {j1}, Stakes <- {0, 2}, CloseAt <- 1, MaxTime <- 1,
  MaxSubmissions <- 1, MaxHolds <- 1, MaxReports <- 1

\* b = 8 atomic units: the soft part of its cost, tabulated.
SoftTailOf8 == 0 :> 555 @@ 1 :> 507 @@ 2 :> 461 @@ 3 :> 419 @@ 4 :> 380 @@ 5 :> 343 @@ 6 :> 310
  @@ 7 :> 279 @@ 8 :> 251 @@ 9 :> 225 @@ 10 :> 202 @@ 11 :> 181 @@ 12 :> 162 @@ 13 :> 145
  @@ 14 :> 129 @@ 15 :> 115 @@ 16 :> 102 @@ 17 :> 91 @@ 18 :> 81 @@ 19 :> 72 @@ 20 :> 64
  @@ 21 :> 57 @@ 22 :> 51 @@ 23 :> 45 @@ 24 :> 40 @@ 25 :> 35 @@ 26 :> 31 @@ 27 :> 28
  @@ 28 :> 24 @@ 29 :> 22 @@ 30 :> 19 @@ 31 :> 17 @@ 32 :> 15 @@ 33 :> 13 @@ 34 :> 12
  @@ 35 :> 10 @@ 36 :> 9 @@ 37 :> 8 @@ 38 :> 7 @@ 39 :> 6 @@ 40 :> 5

\* One market with a cutoff, two refund passes and one buyer.
Refunds == INSTANCE Markets WITH
  Forecasts <- {f1}, Users <- {u1, u2}, Buyers <- {b1}, Coordinators <- {c1, c2}, Settlers <- {s1},
  Keys <- {k1, k2}, FundKeys <- {g1}, FundAmount <- 6, IssuanceCap <- 6, Initial <- 4, Scale <- 2,
  SoftTail <- SoftTailOf8, Subsidy <- 6, Spends <- {2}, OwnerGrossCap <- 8, OwnerUnsettledCap <- 8,
  GlobalCap <- 12, MarketCap <- 12, QuoteLife <- 2, Limit <- 1, MaxUnsettled <- 1, MaxPerDay <- 1,
  Cutoffs <- {1}, MaxTime <- 1, MaxQuotes <- 2,
  now <- mnow, position <- mposition, account <- maccount, decision <- mdecision, complete <- mcomplete

\* Two markets and two buyers at the limits.
Trades == INSTANCE Markets WITH
  Forecasts <- {f1, f2}, Users <- {u1, u2}, Buyers <- {b1, b2}, Coordinators <- {}, Settlers <- {s1},
  Keys <- {k1}, FundKeys <- {g1}, FundAmount <- 12, IssuanceCap <- 12, Initial <- 6, Scale <- 2,
  SoftTail <- SoftTailOf8, Subsidy <- 6, Spends <- {2}, OwnerGrossCap <- 8, OwnerUnsettledCap <- 10,
  GlobalCap <- 8, MarketCap <- 8, QuoteLife <- 2, Limit <- 1, MaxUnsettled <- 2, MaxPerDay <- 2,
  Cutoffs <- {}, MaxTime <- 0, MaxQuotes <- 2,
  now <- mnow, position <- mposition, account <- maccount, decision <- mdecision, complete <- mcomplete

\* Two contexts sign up with the same wallet.
SignUp == INSTANCE SignIn WITH Befores <- {"new"}, MaxChallenges <- 2

\* A deployment that does not require the wallet; its links are attached and detached.
Optional == INSTANCE SignIn WITH
  ProfileIds <- {u1}, Contexts <- {c1}, Switches <- {FALSE}, Befores <- {"attached"}

\* Two commands at once on the pool and two invoices.
Pool == INSTANCE Billing WITH
  Callers <- {c1, c2}, Invoices <- {k1, k2}, Attempts <- {}, Price <- 2, Cap <- 2, MaxAttempts <- 2,
  Amounts <- {0, 1, 2}, ExpiresAt <- 1, RefundUntil <- 1, MaxCents <- 3, MaxTime <- 1,
  now <- bnow, audit <- baudit

\* Two attempts within one envelope.
Envelope == INSTANCE Billing WITH
  Callers <- {c1}, Invoices <- {k1}, Attempts <- {r1, r2}, Price <- 2, Cap <- 2, MaxAttempts <- 2,
  Amounts <- {0, 1, 2}, ExpiresAt <- 1, RefundUntil <- 1, MaxCents <- 4, MaxTime <- 1,
  now <- bnow, audit <- baudit

ASSUME InstanceAssumption ==
  /\ Refunds!MarketsAssumption /\ Trades!MarketsAssumption
  /\ Pool!BillingAssumption /\ Envelope!BillingAssumption
  /\ SignInAssumption /\ SignUp!SignInAssumption /\ Optional!SignInAssumption /\ SeekerAssumption

BooksRest ==
  /\ mnow = Nil /\ phase = Nil /\ treasury = Nil /\ market = Nil /\ quotes = Nil /\ fills = Nil
  /\ voided = Nil /\ mposition = Nil /\ maccount = Nil /\ mdecision = Nil /\ mcomplete = Nil
  /\ paid = Nil /\ denied = Nil /\ buy = Nil /\ coord = Nil /\ settler = Nil
\* Without an identity or a session no profile is looked at.
WaysRest ==
  /\ identity = [a \in Pubkeys |-> Null] /\ sessions = <<>>
  /\ clock = Null /\ required = Null /\ users = Null /\ links = Null /\ audited = Null
  /\ contexts = Null /\ challenges = Null /\ call = Null
BadgeRests ==
  /\ row = [u \in Profiles |-> None]
  /\ holder = None /\ skr = None /\ moves = None /\ current = None /\ relinks = None /\ refresh = None
CentsRest ==
  /\ bnow = Nil /\ capital = Nil /\ invoice = Nil /\ baudit = Nil /\ caller = Nil
  /\ paidIn = Nil /\ paidOut = Nil

MCInit ==
  /\ part \in {"points", "reward", "refunds", "trades", "contexts", "signup", "optional", "badge",
             "pool", "envelope", "stamps"}
  /\ Init /\ StampInit
  /\ CASE part = "refunds" -> Refunds!Init
       [] part = "trades"  -> Trades!Init
       [] OTHER            -> BooksRest
  /\ CASE part = "contexts" -> SignInInit
       [] part = "signup"   -> SignUp!SignInInit
       [] part = "optional" -> Optional!SignInInit
       [] OTHER             -> WaysRest
  /\ IF part = "badge" THEN SeekerInit ELSE BadgeRests
  /\ CASE part = "pool"     -> Pool!Init
       [] part = "envelope" -> Envelope!Init
       [] OTHER             -> CentsRest

MCNext ==
  \/ part = "points"   /\ Next                /\ UNCHANGED <<part, books, signinvars, seekervars, cents, stampvars>>
  \/ part = "reward"   /\ Reward!Next         /\ UNCHANGED <<part, books, signinvars, seekervars, cents, stampvars>>
  \/ part = "refunds"  /\ Refunds!Next        /\ UNCHANGED <<part, vars, signinvars, seekervars, cents, stampvars>>
  \/ part = "trades"   /\ Trades!Next         /\ UNCHANGED <<part, vars, signinvars, seekervars, cents, stampvars>>
  \/ part = "contexts" /\ SignInNext          /\ UNCHANGED <<part, vars, books, seekervars, cents, stampvars>>
  \/ part = "signup"   /\ SignUp!SignInNext   /\ UNCHANGED <<part, vars, books, seekervars, cents, stampvars>>
  \/ part = "optional" /\ Optional!SignInNext /\ UNCHANGED <<part, vars, books, seekervars, cents, stampvars>>
  \/ part = "badge"    /\ SeekerNext          /\ UNCHANGED <<part, vars, books, signinvars, cents, stampvars>>
  \/ part = "pool"     /\ Pool!Next           /\ UNCHANGED <<part, vars, books, signinvars, seekervars, stampvars>>
  \/ part = "envelope" /\ Envelope!Next       /\ UNCHANGED <<part, vars, books, signinvars, seekervars, stampvars>>
  \/ part = "stamps"   /\ StampNext           /\ UNCHANGED <<part, vars, books, signinvars, seekervars, cents>>

MCSpec == MCInit /\ [][MCNext]_<<part, vars, books, signinvars, seekervars, cents, stampvars>>

\* Users, passes, browser contexts and requests are interchangeable.
Symmetry == Permutations({u1, u2}) \cup Permutations({c1, c2}) \cup Permutations({r1, r2})
            \cup Permutations({j1, j2})

\* Points are neither lost nor made, and bonuses paid once (Points).
PointsBalance ==
  IF part = "reward" THEN Reward!TypeOK /\ Reward!Conserved ELSE TypeOK /\ Conserved
\* The books balance (Markets): no write makes or loses a unit, an owner's
\* committed points are its unsettled cost, and a reserve pays every position.
BooksBalance ==
  /\ part = "refunds" => Refunds!TypeOK /\ Refunds!Conserved /\ Refunds!Covered
  /\ part = "trades" => Trades!TypeOK /\ Trades!Conserved /\ Trades!Covered
\* Fills follow their quotes and each other (Markets).
TradesAsQuoted ==
  /\ part = "refunds" =>
       Refunds!PriceHonoured /\ Refunds!FillsInTimeOrder /\ Refunds!DeniedStaysDenied
  /\ part = "trades" => Trades!PriceHonoured /\ Trades!FillsInTimeOrder
\* Refunds end at the receipt of the cutoff, and settlements pay what is left (Markets).
RefundsMeetPrefix == part = "refunds" => Refunds!RefundMeetsPrefix /\ Refunds!PaidTheEffective
\* Every cent paid in is in the pool, held for an invoice, or paid out once; an
\* invoice owes no more than it holds (Billing).
CentsAccounted ==
  /\ part = "pool" => Pool!Accounted /\ Pool!Solvent /\ Pool!NeverBroke /\ Pool!PaidBackOnce
  /\ part = "envelope" =>
       Envelope!Accounted /\ Envelope!Solvent /\ Envelope!NeverBroke /\ Envelope!PaidBackOnce
=============================================================================
