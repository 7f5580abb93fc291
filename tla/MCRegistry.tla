------------------------------ MODULE MCRegistry ------------------------------
(***************************************************************************)
(* The registry program on small instances: its roles, one forecast over   *)
(* two intake epochs with one disputing wallet, one epoch with two         *)
(* wallets, and the bytes it exchanges with the Worker.  The roles never   *)
(* read a forecast account, nor the reverse, and the bytes are about one   *)
(* account or instruction, so a behaviour is about one of the four, its    *)
(* part, and the others rest.                                              *)
(***************************************************************************)
EXTENDS RegistryRoles, Registry, TLC

CONSTANTS k1, k2, k3, k4, u1, u2, r1, r2, c1

VARIABLES part, shape, record, altered

bytes == <<shape, record, altered>>

Bytes == INSTANCE Wire WITH
  Limit <- 6, MaxBody <- 2, Chunk <- 1, Disputes <- 2, MaxChanges <- 2, changes <- altered

ASSUME InstanceAssumption == Bytes!WireAssumption

MCInit ==
  /\ part \in {"roles", "epochs", "wallets", "bytes"}
  /\ RolesInit /\ Init /\ Bytes!WireInit
  /\ part # "bytes" => shape = "accept"

\* With two epochs, one wallet files, and with two wallets there is one epoch,
\* whose events are relayed at once, over a shorter time.
Filing == {u \in Users : \E e \in Epochs : receipts'[<<e, u>>] # Zero}
OneWallet == Cardinality(Filing) <= 1
OneEpoch ==
  /\ now' < MaxTime
  /\ gate' # Zero => gate'.epoch <= 1
  /\ forecast # Zero /\ forecast' # forecast => forecast'.at = now
  /\ gate # Zero /\ gate'.sealed # gate.sealed => gate'.sealed.payload.at = now

MCNext ==
  \/ part = "roles"   /\ RolesNext         /\ UNCHANGED <<part, vars, bytes>>
  \/ part = "epochs"  /\ Next /\ OneWallet /\ UNCHANGED <<part, roles, bytes>>
  \/ part = "wallets" /\ Next /\ OneEpoch  /\ UNCHANGED <<part, roles, bytes>>
  \/ part = "bytes"   /\ Bytes!WireNext    /\ UNCHANGED <<part, roles, vars>>

MCSpec == MCInit /\ [][MCNext]_<<part, roles, vars, bytes>>

Symmetry == Permutations({k2, k3, k4}) \cup Permutations({u1, u2})

\* The Worker and the program read each other's bytes as they were written.
ReadAsWritten == Bytes!ReadAsWritten
===============================================================================
