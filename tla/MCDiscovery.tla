---------------------------- MODULE MCDiscovery ----------------------------
(* A catalog of seven tools in which every rung of the ranking and every   *)
(* refusal of the registry occurs, and the requests that reach them.       *)
EXTENDS Discovery

Tool(id, key, name, space, aliases, words, hot, bytes, callers, group) ==
  [id |-> id, key |-> key, name |-> name, space |-> space, aliases |-> aliases,
   words |-> words, hot |-> hot, bytes |-> bytes, callers |-> callers,
   group |-> group, speculates |-> FALSE, harmless |-> FALSE, sound |-> TRUE]

(* 1 is a legacy registration whose declared id is not its key; 6 and 7    *)
(* share the alias "look"; 4 is another tool with the id of 3, and also in *)
(* the group, so that it can only come in its place.                       *)
MCKnown == <<
  Tool(" echo", "echo", "Echo", NoSpace, {}, <<"echo">>, TRUE, 3, {"direct"},
       NoGroup),
  Tool("fs/list", "fs/list", "list files", "fs", {}, <<"fs", "list", "files">>,
       FALSE, 4, {"direct"}, "mcp"),
  Tool("fs/read", "fs/read", "read file", "fs", {"cat"},
       <<"fs", "read", "file", "cat">>, FALSE, 6, {"direct", "plan"}, "mcp"),
  Tool("fs/read", "fs/read", "other read", "fs", {}, <<"read">>, TRUE, 5,
       {"direct"}, "mcp"),
  [Tool("fs/spy", "fs/spy", "spy", NoSpace, {}, <<"read">>, FALSE, 2,
        {"direct", "speculative"}, NoGroup) EXCEPT !.speculates = TRUE],
  Tool("web/find", "web/find", "find", NoSpace, {"look"},
       <<"web", "find", "file", "look">>, FALSE, 3, {"direct"}, NoGroup),
  Tool("web/grep", "web/grep", "grep", NoSpace, {"look"},
       <<"web", "grep", "file", "read", "look">>, FALSE, 3, {"direct", "plan"},
       NoGroup) >>

MCSetup == <<1, 2, 3, 5, 4, 6, 7>>
MCReplacements == {[group |-> "mcp", tools |-> <<4>>],
                   [group |-> "mcp", tools |-> <<3, 4>>]}

All == <<"echo", "fs/list", "fs/read", "web/find", "web/grep">>

Ask(list, callers, phrase, terms, tools, bytes, expansion) ==
  [list |-> list, callers |-> callers, caller |-> CHOOSE c \in callers : TRUE,
   query |-> [phrase |-> phrase, terms |-> terms],
   hostTools |-> tools, hostBytes |-> bytes, expansion |-> expansion,
   providerTools |-> 8, providerBytes |-> 100]

(* In the first registry and in the second they are answered by: a lexical *)
(* expansion that passes over a tool too large; a lexical scope of one;    *)
(* the full catalog, twice, in two orders; a namespace too large and one   *)
(* that fits; an ambiguous alias and a hot tool too large; no capacity     *)
(* and an empty catalog.                                                   *)
MCRequests == {
  Ask(All, {"direct"}, "?", {"read", "file"}, 4, 11, 3),
  Ask(All, {"direct"}, "?", {"find"}, 2, 30, 1),
  Ask(<<"echo", " echo", "web/find">>, {"direct"}, "?", {}, 9, 50, 1),
  Ask(<<"web/find", "echo">>, {"direct"}, "?", {}, 9, 50, 1),
  Ask(All, {"direct", "plan"}, "fs", {"fs"}, 3, 14, 2),
  Ask(<<"web/find", "web/grep", "fs/read">>, {"direct"}, "look", {}, 3, 6, 2),
  Ask(<<"fs/list">>, {"direct"}, "?", {}, 0, 30, 1) }

(* Selections differ only in the run that makes them. *)
Symmetric == Permutations(Threads)
=============================================================================
