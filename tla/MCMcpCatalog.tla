----------------------------- MODULE MCMcpCatalog -----------------------------
(* Instances of McpCatalog for TLC.                                          *)
EXTENDS McpCatalog

CONSTANTS f1, f2, f3, c1, c2
=============================================================================
