---------------------------- MODULE CatalogPromise ----------------------------
(***************************************************************************)
(* What the catalog manager of llama-harness-mcp promises its host, apart  *)
(* from how it keeps the promise: tools of one connected server context    *)
(* are served at a time, the list they came from was requested after the   *)
(* last list-change notice whenever a call is let through, a context gives *)
(* way only when no call runs on it, and nothing runs on a context whose   *)
(* shutdown has begun.  McpCatalog implements this specification.          *)
(***************************************************************************)
CONSTANTS
  Contexts,    \* server connections, one per refresh
  Calls,       \* tool calls
  Registered,  \* the refreshes that replace the group in the host's registry
  Nobody       \* no context

VARIABLES
  serving,     \* the context whose tools are installed
  bound,       \* the host's registry holds the installed tools
  ended,       \* the manager was closed
  current,     \* contexts whose listing began after the last notice
  using,       \* the context a call in flight runs on
  closing      \* contexts whose shutdown has begun

vars == <<serving, bound, ended, current, using, closing>>

Init ==
  /\ serving = Nobody
  /\ bound = FALSE
  /\ ended = FALSE
  /\ current = {}
  /\ using = [c \in Calls |-> Nobody]
  /\ closing = {}

Idle(f) == \A c \in Calls : using[c] # f

Begin(f) ==
  /\ ~ended
  /\ current' = current \cup {f}
  /\ UNCHANGED <<serving, bound, ended, using, closing>>

\* The list is complete and current, the context open, the old one idle.
Install(f) ==
  /\ ~ended
  /\ f \in current /\ f \notin closing
  /\ bound => f \in Registered
  /\ \A c \in Calls : using[c] = Nobody
  /\ serving' = f
  /\ bound' = (bound \/ f \in Registered)
  /\ UNCHANGED <<ended, current, using, closing>>

Bind ==
  /\ serving # Nobody
  /\ bound' = TRUE
  /\ UNCHANGED <<serving, ended, current, using, closing>>

Notice ==
  /\ current' = {}
  /\ UNCHANGED <<serving, bound, ended, using, closing>>

Admit(c) ==
  /\ using[c] = Nobody
  /\ serving \in current
  /\ using' = [using EXCEPT ![c] = serving]
  /\ UNCHANGED <<serving, bound, ended, current, closing>>

Leave(c) ==
  /\ using' = [using EXCEPT ![c] = Nobody]
  /\ UNCHANGED <<serving, bound, ended, current, closing>>

Withdraw ==
  /\ ended' = TRUE
  /\ serving' = Nobody
  /\ UNCHANGED <<bound, current, using, closing>>

\* A context out of service is shut down once no call runs on it.
BeginClose(f) ==
  /\ f # serving /\ Idle(f)
  /\ closing' = closing \cup {f}
  /\ UNCHANGED <<serving, bound, ended, current, using>>

Next ==
  \/ \E f \in Contexts : Begin(f) \/ Install(f) \/ BeginClose(f)
  \/ Bind \/ Notice \/ Withdraw
  \/ \E c \in Calls : Admit(c) \/ Leave(c)

Spec == Init /\ [][Next]_vars
=============================================================================
