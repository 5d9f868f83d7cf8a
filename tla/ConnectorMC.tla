---------------------------- MODULE ConnectorMC ----------------------------
(* Connector and Pairing for TLC: a behaviour is of the calls of paired      *)
(* clients, or of the pairing; the other has nothing to do.  Windows are     *)
(* interchangeable, and so are applications.                                 *)
EXTENDS Connector, Pairing, TLC

VARIABLE part

MCInit == part \in {"calls", "pairing"} /\ Init /\ PairingInit
MCNext == \/ part = "calls" /\ Next /\ UNCHANGED <<part, pvars>>
          \/ part = "pairing" /\ PairingNext /\ UNCHANGED <<part, vars>>
MCSpec == MCInit /\ [][MCNext]_<<part, vars, pvars>>

Symmetry == Permutations(Sessions) \cup Permutations(Apps)
=============================================================================
