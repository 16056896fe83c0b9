-------------------------- MODULE MCConnectorLease --------------------------
(* A small instance of ConnectorLease for TLC.                             *)
EXTENDS ConnectorLease, TLC

HolderSymmetry == Permutations(Holders)
=============================================================================
