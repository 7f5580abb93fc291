------------------------------- MODULE Replica -------------------------------
(***************************************************************************)
(* What the registry relay promises: a log that is only ever appended to   *)
(* is copied, entry by entry and in order, and an entry is acknowledged    *)
(* only once it and everything before it has been copied.                  *)
(***************************************************************************)
EXTENDS Naturals

VARIABLES
  appended,       \* entries of the local log
  copied,         \* entries the replica holds
  acked           \* entries acknowledged

vars == <<appended, copied, acked>>

Init == appended \in Nat /\ copied = 0 /\ acked = 0

Append == appended' = appended + 1 /\ UNCHANGED <<copied, acked>>

Copy == copied < appended /\ copied' = copied + 1 /\ UNCHANGED <<appended, acked>>

Acknowledge == acked < copied /\ acked' = acked + 1 /\ UNCHANGED <<appended, copied>>

Next == Append \/ Copy \/ Acknowledge

Spec == Init /\ [][Next]_vars
=============================================================================
