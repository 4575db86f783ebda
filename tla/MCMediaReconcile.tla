------------------------- MODULE MCMediaReconcile -------------------------
(* A small library: two files, three paths of which two are a show folder. *)
EXTENDS MediaReconcile, TLC

CONSTANTS f1, f2

Files == {f1, f2}
Shows == {{1, 3}}
Placed == (f1 :> 1) @@ (f2 :> 2)
=============================================================================
