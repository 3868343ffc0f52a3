--------------------------- MODULE MCProgrammatic ---------------------------
(* Instances of Programmatic for TLC.  r1 runs programs that call tools, at  *)
(* most two at a time; r2, programs that call none.  Signatures: w, an        *)
(* unkeyed state-changing tool; q, an unkeyed parallel-safe read.             *)
EXTENDS Programmatic

CONSTANTS r1, r2, o1, o2, w, q, k, write, read

MCRunOf == [o \in Slots |-> r1]
MCSlotAt == [r \in Runs |-> IF r = r1 THEN <<o1, o2>> ELSE << >>]
MCKeyOf == [s \in Sigs |-> NoKey]
MCToolOf == [s \in Sigs |-> IF s = w THEN write ELSE read]
=============================================================================
