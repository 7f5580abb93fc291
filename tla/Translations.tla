---------------------------- MODULE Translations ----------------------------
(***************************************************************************)
(* The display translations of one published forecast: the operator's      *)
(* English edition of it with its audit (translation_admin.rs), and the    *)
(* reviewed machine translations generated from what is displayed          *)
(* (translations.rs), while the estimate shown beside it is refreshed.     *)
(*                                                                         *)
(* A document is the edition and the rationale a reader sees; its hash is  *)
(* the document itself.  The facts of a text that a translation may not    *)
(* change (numbers, links, clauses) are one value, its facts.  The clock   *)
(* of a request stands still at the instant it began, so that the          *)
(* deadline of a call, taken from it, never passes.                        *)
(***************************************************************************)
EXTENDS Integers, Sequences, FiniteSetsExt

CONSTANTS
  Requests,       \* requests for a translation, each made once
  Languages,      \* the target languages other than English
  Editions,       \* what an operator may submit, see EditionFacts
  EditionFacts,   \* the facts an edition states
  OriginalFacts,  \* the facts of the specification's own text
  Fingerprint,    \* the client of a request
  Limit,          \* limits of a scope: [global, ip, minute, ai]
  Minute,         \* 60_000
  Lease,          \* LEASE_MS
  MaxClock, MaxEdits, MaxCrashes,   \* bounds
  Null

TranslationsAssumption ==
  /\ {Minute, Lease} \subseteq Nat \ {0} /\ {MaxClock, MaxEdits, MaxCrashes} \subseteq Nat
  /\ EditionFacts \in [Editions -> Int] /\ OriginalFacts \in Int /\ Null \notin Editions
  /\ DOMAIN Fingerprint = Requests /\ Limit \in [{"global", "ip", "minute", "ai"} -> Nat]

VARIABLES
  now,
  estimate,       \* forecasts.ai_forecast: [at, why] or Null
  edition,        \* the current row of forecast_translations, or Null
  audit,          \* forecast_translation_audit: what was displayed, in order
  ready,          \* forecast_display_translations: rows [doc, lang, body, by]
  kept,           \* artifacts of accepted translations: [by, kind]
  lease,          \* ai_leases of each document and language: [by, until]
  count,          \* rate_limits: by scope and bucket
  calls,          \* model calls made
  req,            \* the requests
  edits, crashes

textvars == <<now, estimate, edition, audit, ready, kept, lease, count, calls, req, edits, crashes>>
display == <<estimate, edition, audit>>
rows == <<ready, kept>>

Fresh == [pc |-> "idle", at |-> 0, lang |-> Null, doc |-> Null, of |-> Null, body |-> Null,
          answer |-> Null]

TextInit ==
  /\ now = 0 /\ estimate = Null /\ edition = Null /\ audit = <<>> /\ ready = {} /\ kept = {}
  /\ lease = {} /\ count = [k \in {} |-> 0] /\ calls = 0
  /\ req = [r \in Requests |-> Fresh] /\ edits = 0 /\ crashes = 0

------------------------------------------------------------------------------
(***************************************************************************)
(* What is displayed.                                                      *)
(***************************************************************************)
\* texts: every public string of a document is an original or an edition's.
Facts(doc) == IF doc.edition = Null THEN OriginalFacts ELSE EditionFacts[doc.edition]

\* source: the displayed document, and the rows it was read from.
Displayed == [doc |-> [edition |-> edition, why |-> IF estimate = Null THEN Null ELSE estimate.why],
              edition |-> edition, estimate |-> estimate]

\* A refresh writes an estimate, with the rationale of the last or another.
Reestimate ==
  /\ edits < MaxEdits /\ edits' = edits + 1
  /\ \E w \in {0, 1} : estimate' = [at |-> edits, why |-> w]
  /\ UNCHANGED <<now, edition, audit, rows, lease, count, calls, req, crashes>>

\* set_translation: the audit grows and the display changes, unless it is a replay.
SetTranslation ==
  /\ edits < MaxEdits /\ edits' = edits + 1
  /\ \E e \in Editions :
       /\ audit' = IF edition = e THEN audit ELSE Append(audit, e)
       /\ edition' = e
  /\ UNCHANGED <<now, estimate, rows, lease, count, calls, req, crashes>>

------------------------------------------------------------------------------
(***************************************************************************)
(* generate: what a request reads, leases, counts, asks and commits.       *)
(***************************************************************************)
At(r, pc) == req[r].pc = pc
\* A request with the fields of f replaced.
Replaced(m, f) == [x \in DOMAIN m |-> IF x \in DOMAIN f THEN f[x] ELSE m[x]]
Set(r, f) == req' = [req EXCEPT ![r] = Replaced(req[r], f)]
\* cached: the translation stored for a document, in a language.
Cached(doc, lang) == {t \in ready : t.doc = doc /\ t.lang = lang}
Stored(r) == LET found == Cached(req[r].doc, req[r].lang) IN
  IF found = {} THEN Null ELSE CHOOSE t \in found : TRUE
\* ready, or the refusal of what could not be committed.
Replied(r) == [pc |-> "release", answer |-> Stored(r)]

\* The request names the document it was shown; when that changed it is refused.
Ask(r) ==
  /\ At(r, "idle")
  /\ \E l \in Languages :
       LET s == Displayed  found == Cached(s.doc, l)
       IN Set(r, [at |-> now, lang |-> l, doc |-> s.doc, of |-> s,
                  pc |-> IF found = {} THEN "lease" ELSE "done",
                  answer |-> IF found = {} THEN Null ELSE CHOOSE t \in found : TRUE])
  /\ UNCHANGED <<now, display, rows, lease, count, calls, edits, crashes>>

Leases(r) == {x \in lease : x.doc = req[r].doc /\ x.lang = req[r].lang}
Free(r) == \A x \in Leases(r) : x.until <= req[r].at
TakeLease(r) ==
  /\ At(r, "lease")
  /\ IF Free(r)
       THEN /\ lease' = (lease \ Leases(r)) \cup {[doc |-> req[r].doc, lang |-> req[r].lang,
                                                     by |-> r, until |-> req[r].at + Lease]}
            /\ Set(r, [pc |-> "recheck"])
       ELSE Set(r, [pc |-> "done"]) /\ UNCHANGED lease
  /\ UNCHANGED <<now, display, rows, count, calls, edits, crashes>>

\* A generator may have committed between the first read and the lease.
Recheck(r) ==
  /\ At(r, "recheck")
  /\ Set(r, IF Stored(r) = Null THEN [pc |-> "charge"] ELSE Replied(r))
  /\ UNCHANGED <<now, display, rows, lease, count, calls, edits, crashes>>

\* The counters of a request, in the order they are counted.
Scopes(r) == <<
  <<"global">>, <<"ip", Fingerprint[r]>>,
  <<"minute", Fingerprint[r], req[r].at \div Minute>>, <<"ai">> >>
Counted(scope) == IF scope \in DOMAIN count THEN count[scope] ELSE 0
Over(scope) == Counted(scope) >= Limit[scope[1]]
\* Each is counted before it is compared, and the first that refuses ends it.
Charge(r) ==
  /\ At(r, "charge")
  /\ LET over == {i \in 1..4 : Over(Scopes(r)[i])}
         last == IF over = {} THEN 4 ELSE Min(over)
     IN /\ count' = [s \in DOMAIN count \cup {Scopes(r)[i] : i \in 1..last} |->
                       Counted(s) + IF \E i \in 1..last : Scopes(r)[i] = s THEN 1 ELSE 0]
        /\ Set(r, [pc |-> IF over = {} THEN "call" ELSE "release"])
  /\ UNCHANGED <<now, display, rows, lease, calls, edits, crashes>>

\* validate_translation: nothing a translation may not change has changed.
KeepsFacts(r, facts) == facts = Facts(req[r].doc)
\* generate_translation: the model's draft is validated and reviewed, or refused.
Call(r) ==
  /\ At(r, "call") /\ calls' = calls + 1
  /\ \E facts \in {OriginalFacts} \cup {EditionFacts[e] : e \in Editions} :
       Set(r, IF KeepsFacts(r, facts) THEN [pc |-> "reread", body |-> facts] ELSE [pc |-> "release"])
  /\ UNCHANGED <<now, display, rows, lease, count, edits, crashes>>

\* The source is read again.
Reread(r) ==
  /\ At(r, "reread")
  /\ Set(r, [pc |-> IF Displayed = req[r].of THEN "commit" ELSE "release"])
  /\ UNCHANGED <<now, display, rows, lease, count, calls, edits, crashes>>

\* A guard that trusts the second reading of the source.
GuardLeaseOnly(r) == \E x \in Leases(r) : x.by = r /\ x.until > req[r].at
\* The guard of the batch.
Guard(r) ==
  /\ edition = req[r].of.edition /\ estimate = req[r].of.estimate
  /\ \E x \in Leases(r) : x.by = r /\ x.until > req[r].at
CommitText(r) ==
  /\ At(r, "commit")
  /\ LET t == [doc |-> req[r].doc, lang |-> req[r].lang, body |-> req[r].body, by |-> r] IN
     IF Guard(r)
       THEN /\ ready' = IF Cached(t.doc, t.lang) = {} THEN ready \cup {t} ELSE ready
            /\ kept' = kept \cup {[by |-> r, kind |-> k] : k \in {"generation", "review"}}
            /\ Set(r, [pc |-> "release",
                       answer |-> IF Stored(r) = Null THEN t ELSE Stored(r)])
       ELSE UNCHANGED rows /\ Set(r, Replied(r))
  /\ UNCHANGED <<now, display, lease, count, calls, edits, crashes>>

\* The lease is released whatever happened, if it is still this request's.
Release(r) ==
  /\ At(r, "release")
  /\ lease' = {x \in lease : x.by # r}
  /\ Set(r, [pc |-> "done"])
  /\ UNCHANGED <<now, display, rows, count, calls, edits, crashes>>

\* A request that is cut off leaves its lease.
Crash(r) ==
  /\ req[r].pc \notin {"idle", "done"} /\ crashes < MaxCrashes /\ crashes' = crashes + 1
  /\ Set(r, [pc |-> "done"])
  /\ UNCHANGED <<now, display, rows, lease, count, calls, edits>>

Clock ==
  /\ now < MaxClock /\ now' = now + 1
  /\ UNCHANGED <<display, rows, lease, count, calls, req, edits, crashes>>

TextNext ==
  \/ Reestimate \/ SetTranslation \/ Clock
  \/ \E r \in Requests :
       \/ Ask(r) \/ TakeLease(r) \/ Recheck(r) \/ Charge(r) \/ Call(r)
       \/ Reread(r) \/ CommitText(r) \/ Release(r) \/ Crash(r)

TextSpec == TextInit /\ [][TextNext]_textvars

------------------------------------------------------------------------------
\* The audit ends with what is displayed, and repeats nothing in a row.
AuditTellsDisplay ==
  /\ edition = IF audit = <<>> THEN Null ELSE audit[Len(audit)]
  /\ \A i \in 1..Len(audit) - 1 : audit[i] # audit[i + 1]

\* A document has one translation to a language, with its facts, and both
\* records of how it was made are retained.
OneTranslationEach ==
  \A t \in ready :
    /\ Cached(t.doc, t.lang) = {t} /\ t.body = Facts(t.doc)
    /\ \A k \in {"generation", "review"} : [by |-> t.by, kind |-> k] \in kept

\* The model is not called more often in a day than its counters allow.
CallsWithinLimit == calls <= Limit["global"] /\ calls <= Limit["ai"]

\* Two requests generate the same translation at once only if a lease ran out:
\* there is a request for it that began a lease after the first of the two.
Generating(r) == req[r].pc \in {"recheck", "charge", "call", "reread", "commit"}
Same(q, r) == req[q].doc = req[r].doc /\ req[q].lang = req[r].lang
OneGenerator ==
  \A q, r \in Requests :
    q # r /\ Generating(q) /\ Generating(r) /\ Same(q, r) =>
      \E s \in Requests :
        /\ Same(s, r) /\ req[s].pc \notin {"idle", "lease"}
        /\ req[s].at >= req[q].at + Lease \/ req[s].at >= req[r].at + Lease

\* What is stored is of what is displayed at that moment, and is never replaced.
StoredAsShown ==
  /\ ready \subseteq ready'
  /\ \A t \in ready' \ ready : t.doc = Displayed.doc /\ UNCHANGED display

\* A translation is stored once, by one generator at a time within its limits,
\* of what is displayed when it is stored, which the audit tells.
TranslatedAsShown ==
  /\ [][StoredAsShown]_textvars
  /\ [](AuditTellsDisplay /\ OneTranslationEach /\ CallsWithinLimit /\ OneGenerator)
=============================================================================
