------------------------------ MODULE MCSidecar ------------------------------
(* Instances of Sidecar for TLC: tool callbacks are polled on after a         *)
(* cancellation, policy and approval callbacks (both "policy") are dropped.   *)
(* The first run may ask its host once; the second only contends for the      *)
(* writer, the table of runs and the shutdown.                                *)
EXTENDS Sidecar, TLC

CONSTANTS r1, r2

OneAsker == (r1 :> 1) @@ (r2 :> 0)
OneEvent == (r1 :> 0) @@ (r2 :> 1)
NoEvents == (r1 :> 0) @@ (r2 :> 0)
=============================================================================
