----------------------------- MODULE MCDirectRun -----------------------------
(* Instances of DirectRun for TLC.  Signatures: w, a state-changing tool     *)
(* under key k; v, an unkeyed state-changing tool; q, a read under key k.    *)
EXTENDS DirectRun

CONSTANTS r1, r2, w, v, q, k

MCRunOf == [r \in Runs |-> r]
MCKeyOf == [s \in Sigs |-> IF s = v THEN NoKey ELSE k]
=============================================================================
