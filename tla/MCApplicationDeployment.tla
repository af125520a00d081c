---------------------- MODULE MCApplicationDeployment ----------------------
(* Scripts for the runs of ApplicationDeployment. *)
EXTENDS ApplicationDeployment

\* Every output of up to three lines.
ShortOutputs == UNION {[1 .. n -> {"text", "done", "error"}] : n \in 0 .. 3}
=============================================================================
