--------------------------- MODULE MCPlayerSession ---------------------------
(* A window that wraps a day of three minutes, every day.                  *)
EXTENDS PlayerSession

Nightly == <<[start |-> 2, end |-> 1, days |-> {}]>>
NoSchedule == <<>>
=============================================================================
