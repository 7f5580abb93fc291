---------------------------- MODULE RegistryRoles ----------------------------
(***************************************************************************)
(* Who may act for the Solana program forecast_registry: its config        *)
(* account (administrator, relayer, proposed administrator) and the        *)
(* reviewer role (programs/forecast_registry/src/lib.rs, tags 0, 3, 4, 5   *)
(* and 14).                                                                *)
(*                                                                         *)
(* A transaction is signed first and lands later, any number of times as   *)
(* far as this model goes, and after others signed later.  What a stale    *)
(* one may still do is the question for the reviewer's role, whose         *)
(* transaction names the role it replaces; the other instructions hold no  *)
(* more state than their signer, so for them landing is signing.           *)
(***************************************************************************)
EXTENDS Integers, FiniteSets

CONSTANTS
  Keys,           \* public keys
  InitialAdmin,   \* initial_admin::INITIAL_ADMIN
  Default,        \* Pubkey::default(), and the zero commitment
  MaxChanges,     \* bound on the appointments of a reviewer
  MaxSigned       \* bound on the appointments signed

ASSUME RolesAssumption ==
  /\ InitialAdmin \in Keys /\ Default \notin Keys
  /\ Default \notin [key : Keys, revision : Nat]
  /\ MaxChanges \in Nat /\ MaxSigned \in Nat

VARIABLES
  config,         \* Config, or Default before it is created
  role,           \* Reviewer, or Default before it is created
  signed,         \* signed appointments
  changes         \* history: how often the reviewer's role was written

roles == <<config, role, signed, changes>>

\* Config::decode refuses anything else, and every instruction decodes it.
Decodes(c) ==
  /\ c.admin # Default /\ c.relayer # Default
  /\ c.admin # c.relayer
  /\ c.pending # Default => c.pending # c.admin /\ c.pending # c.relayer

\* What an appointment names as its predecessor: the revision and commitment
\* of the role, or zeros where there is none.
Commitment(r) == IF r = Default THEN [key |-> Default, revision |-> 0] ELSE r

RolesInit ==
  /\ config = Default /\ role = Default
  /\ signed = {} /\ changes = 0

\* Tag 0.
Initialize(relayer) ==
  /\ config = Default
  /\ relayer # InitialAdmin
  /\ config' = [admin |-> InitialAdmin, relayer |-> relayer,
                pending |-> Default]
  /\ UNCHANGED <<role, signed, changes>>

\* Mutant: the relayer may become the proposed administrator's key.
SetRelayerAny(key) ==
  /\ config # Default /\ Decodes(config)
  /\ key # config.admin
  /\ config' = [config EXCEPT !.relayer = key]
  /\ UNCHANGED <<role, signed, changes>>

\* Tag 3, signed by the administrator.
SetRelayer(key) ==
  /\ config # Default /\ Decodes(config)
  /\ key # config.admin /\ key # config.pending
  /\ config' = [config EXCEPT !.relayer = key]
  /\ UNCHANGED <<role, signed, changes>>

\* Tag 4, signed by the administrator.
ProposeAdmin(key) ==
  /\ config # Default /\ Decodes(config)
  /\ key # config.admin /\ key # config.relayer
  /\ config' = [config EXCEPT !.pending = key]
  /\ UNCHANGED <<role, signed, changes>>

\* Tag 5, signed by the proposed administrator.
AcceptAdmin ==
  /\ config # Default /\ Decodes(config)
  /\ config.pending # Default
  /\ config' = [config EXCEPT !.admin = config.pending, !.pending = Default]
  /\ UNCHANGED <<role, signed, changes>>

\* The administrator signs tag 14 over the role as it stands.
SignAppointment(key) ==
  /\ config # Default /\ Decodes(config)
  /\ Cardinality(signed) < MaxSigned
  /\ signed' = signed \cup {[by |-> config.admin, key |-> key,
                             over |-> Commitment(role), at |-> changes]}
  /\ UNCHANGED <<config, role, changes>>

\* Mutant: the role keeps its revision.
SameRevision(r) == IF r = Default THEN 1 ELSE r.revision

\* A new role starts at revision 1, every replacement is one more.
NextRevision(r) == IF r = Default THEN 1 ELSE r.revision + 1

Eligible(key) == key # config.admin /\ key # config.relayer

\* Tag 14 lands.
SetReviewer(t) ==
  /\ config # Default /\ Decodes(config)
  /\ t.by = config.admin
  /\ Eligible(t.key)
  /\ t.over = Commitment(role)
  /\ changes < MaxChanges
  /\ role' = [key |-> t.key, revision |-> NextRevision(role)]
  /\ changes' = changes + 1
  /\ UNCHANGED <<config, signed>>

RolesNext ==
  \/ \E k \in Keys : \/ Initialize(k) \/ SetRelayer(k) \/ ProposeAdmin(k)
                     \/ SignAppointment(k)
  \/ AcceptAdmin
  \/ \E t \in signed : SetReviewer(t)

RolesSpec == RolesInit /\ [][RolesNext]_roles

-----------------------------------------------------------------------------
(***************************************************************************)
(* Properties                                                              *)
(***************************************************************************)
Key == Keys \cup {Default}

\* The accounts hold records of their declared layout.
RolesTypeOK ==
  /\ config \in [admin : Keys, relayer : Keys, pending : Key] \cup {Default}
  /\ role \in [key : Keys, revision : Nat \ {0}] \cup {Default}
  /\ signed \subseteq [by : Keys, key : Keys,
                       over : [key : Key, revision : Nat], at : Nat]
  /\ changes \in Nat

\* Every config stored is one that Config::decode accepts.
ConfigReadable == config # Default => Decodes(config)

\* The program never writes a config it will not read: no order of rotations,
\* proposals and acceptances leaves the account unusable for good
\* (process_instruction stores the config without decoding it again).
NeverBricked == RolesTypeOK /\ ConfigReadable

\* An appointment takes effect only over the very role it was signed over: not
\* again, and not after the role has changed and changed back (the comparison
\* of revision and commitment in tag 14).
NoStaleAppointment ==
  [][changes' # changes =>
       \E t \in signed : t.at = changes /\ t.key = role'.key
                         /\ t.by = config.admin]_roles
=============================================================================
