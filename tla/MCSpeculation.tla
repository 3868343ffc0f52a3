---------------------------- MODULE MCSpeculation ----------------------------
(* Instances of Speculation for TLC: q, an eligible read, and w, a state-     *)
(* changing tool, share the concurrency key k.  The first run's model asks    *)
(* for the read, the second's for either.                                     *)
EXTENDS Speculation, TLC

CONSTANTS r1, r2, q, w, k

MCSlots == Runs \X {"direct", "candidate"}
MCRunOf == [o \in MCSlots |-> o[1]]
MCKeyOf == [s \in Sigs |-> k]
MCAsks == (r1 :> {q}) @@ (r2 :> {q, w})
=============================================================================
