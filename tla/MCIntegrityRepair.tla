-------------------------- MODULE MCIntegrityRepair --------------------------
(* A TLC instance of IntegrityRepair: every kind of file, every damage.    *)
EXTENDS IntegrityRepair

Harm == SUBSET {"container", "gap", "frames"}
=============================================================================
