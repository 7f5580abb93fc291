------------------------------- MODULE MCRelay -------------------------------
(* The relay on a small instance, with calls of the transport that fail. *)
EXTENDS Relay
==============================================================================
