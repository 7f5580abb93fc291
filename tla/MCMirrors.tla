------------------------------ MODULE MCMirrors ------------------------------
(***************************************************************************)
(* What the Worker knows of the chain, on small instances: the relay       *)
(* with two overlapping passes and faults, the relay of a longer history   *)
(* up to finalization, the ledger of its daily spend, and the mirror of    *)
(* the dispute intake with two requests, or one and a longer chain.  And   *)
(* about publishers: the source watch with two passes that may outlive     *)
(* their leases, over two contents, or over one with an operator or a      *)
(* crash.  None reads another's rows, so a behaviour is about one of them, *)
(* its part, and the others rest.                                          *)
(***************************************************************************)
EXTENDS Relay, DailySpend, Intake, SourceWatch, TLC

CONSTANTS w1, w2, s1, s2, u1, c1, c2, a1

VARIABLE part

\* The same rows with one pass at a time, nodes that do not lag, one early lock
\* and a hold.
Long == INSTANCE Relay WITH
  Workers <- {w1}, MaxRev <- 3, Lease <- 1, Backoff <- 1, Resend <- 1, TxLife <- 1,
  Challenge <- 1, MaxLate <- 0, MaxSends <- 2, MaxFaults <- 0, Lag <- FALSE, MaxEarly <- 1,
  Held <- TRUE

\* One request to the mirror of a longer chain.
Alone == INSTANCE Intake WITH
  Requesters <- {w1}, MaxSlot <- 7, MaxRevisions <- 3, MaxGeneration <- 2

\* One content, with second attempts and an operator or a pass that is killed,
\* until the forecast is locked; over two contents it stays open.
Disturbed == INSTANCE SourceWatch WITH
  Contents <- {c1}, MaxAttempts <- 2, Budget <- 1, MaxDue <- 0, MaxCrashes <- 1, MaxOps <- 1

ASSUME InstanceAssumption ==
  /\ IntakeAssumption /\ Alone!IntakeAssumption
  /\ SourceWatchAssumption /\ Disturbed!SourceWatchAssumption

WatchRests ==
  /\ forecast = None /\ links = None /\ page = None /\ source = None /\ bound = None
  /\ seen = None /\ review = None /\ hold = None /\ keys = None /\ budget = None
  /\ watcher = None /\ dues = None /\ crashes = None /\ ops = None /\ armed = None
  /\ cleared = None /\ overridden = None

MCInit ==
  /\ part \in {"relay", "long", "spend", "pair", "alone", "watch", "disturbed"}
  /\ IF part = "long" THEN Long!Init ELSE Init
  /\ part \notin {"relay", "long"} => log = <<"LIVE">> /\ enabled
  /\ SpendInit
  /\ part # "spend" => \A c \in Callers : caller[c].day = 0 /\ caller[c].amount = 1
  /\ IF part = "alone" THEN Alone!IntakeInit ELSE IntakeInit
  /\ part \notin {"pair", "alone"} => recorded[1].state = "CHALLENGE"
  /\ CASE part = "watch"      -> WatchInit
       [] part = "disturbed"  -> Disturbed!WatchInit
       [] OTHER              -> WatchRests

MCNext ==
  \/ part = "relay"    /\ Next         /\ UNCHANGED <<part, spend, intakevars, watchvars>>
  \/ part = "long"     /\ Long!Next    /\ UNCHANGED <<part, spend, intakevars, watchvars>>
  \/ part = "spend"    /\ SpendNext    /\ UNCHANGED <<part, vars, intakevars, watchvars>>
  \/ part = "pair"     /\ IntakeNext   /\ UNCHANGED <<part, vars, spend, watchvars>>
  \/ part = "alone"    /\ Alone!IntakeNext /\ UNCHANGED <<part, vars, spend, watchvars>>
  \/ /\ part = "watch" /\ WatchNext /\ forecast' = "OPEN"
     /\ UNCHANGED <<part, vars, spend, intakevars>>
  \/ /\ part = "disturbed" /\ Disturbed!WatchNext /\ forecast' # "FINAL" /\ crashes' + ops' <= 1
     /\ UNCHANGED <<part, vars, spend, intakevars>>

MCSpec == MCInit /\ [][MCNext]_<<part, vars, spend, intakevars, watchvars>>

\* Passes are interchangeable, and so are the requests to the mirror, the
\* candidates of a seal and the contents of an article.
Symmetry == Permutations({w1, w2}) \cup Permutations({c1, c2})
=============================================================================
