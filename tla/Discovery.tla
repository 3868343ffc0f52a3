----------------------------- MODULE Discovery -----------------------------
(***************************************************************************)
(* The tool registry and the selection of a run's tool scope               *)
(* (core/src/tool.rs, core/src/discovery.rs).  Runs share a registry and   *)
(* select their scopes concurrently: from the tools they are allowed they  *)
(* take all that fit the budget of the host and the provider, or else the  *)
(* hot ones, the exact matches of the request, or the best lexical         *)
(* candidates that still fit.  The catalog index and the prepared catalog  *)
(* they need come from two caches of the registry, read under a shared     *)
(* lock and filled under an exclusive one.  The application may replace a  *)
(* group of registrations at any time: that makes a new registry, and runs *)
(* that hold the old one go on with it.                                    *)
(***************************************************************************)
EXTENDS ToolRanking, LruCache

CONSTANTS
  Threads,        \* the tasks that select scopes
  Setup,          \* the registrations made before the first run, in order
  Replacements,   \* calls of replace_group: records [group, tools]
  Requests,       \* what a run may ask for: records, see Allowed and Limits
  MaxAliases,     \* the code's 32
  MaxIndexes, MaxIndexBytes,      \* MAX_SCOPE_CATALOG_CACHE_ENTRIES, _BYTES
  MaxCatalogs, MaxCatalogBytes,   \* MAX_PREPARED_CATALOG_CACHE_*
  MaxStarts,      \* bound: selections started
  MaxStopping,    \* bound: selections asked to stop at a time
  MaxRegistries   \* bound: registries made

VARIABLES
  setup,       \* registrations still to be made
  registries,  \* each registry: the version of each tool it holds, generation
  indexes,     \* catalog_cache of each registry
  catalogs,    \* prepared_catalog_cache of each registry
  pc, job, ranked, picked, tick, outcome,  \* of each thread
  stopping,    \* cancelled, or past its deadline: what check_stopped sees
  starts

vars == <<setup, registries, indexes, catalogs, pc, job, ranked, picked, tick,
          outcome, stopping, starts>>
local == <<pc, job, ranked, picked, tick, outcome>>
shared == <<setup, registries, starts>>

Unranked == Lexical(<<>>, FALSE)
NoJob    == [req |-> CHOOSE req \in Requests : TRUE, at |-> 0, allowed |-> <<>>]

----------------------------------------------------------------------------
(* Registration *)

Held(r) == DOMAIN r.version

(* ToolDiscoveryMetadata::validate and validate_deferred_lexical_shape: no *)
(* two aliases alike, and a deferred tool's words all fit the index.       *)
MetadataSound(t) ==
  /\ Cardinality(Known[t].aliases) <= MaxAliases
  /\ Known[t].hot \/ Len(Known[t].words) <= MaxTerms

(* validate_scheduling_metadata: some caller; speculation only if both its *)
(* caller and its policy are there and every safety flag is.               *)
SchedulingSound(t) ==
  /\ Known[t].callers # {}
  /\ ("speculative" \in Known[t].callers) = Known[t].speculates
  /\ Known[t].speculates => Known[t].harmless

(* What register_inner_with_group refuses: a key already taken, metadata,  *)
(* schemas that do not compile or are too large (~sound), scheduling.      *)
Registrable(r, t) ==
  /\ \A u \in Held(r) : Known[u].key # Known[t].key
  /\ MetadataSound(t) /\ SchedulingSound(t) /\ Known[t].sound

Registered(r, t) ==
  [version    |-> [u \in Held(r) \union {t} |->
                     IF u = t THEN r.generation + 1 ELSE r.version[u]],
   generation |-> r.generation + 1]

(* replace_group on a snapshot: the group's tools leave, the new ones are  *)
(* registered one after the other; the first refusal fails the call.       *)
WithoutGroup(r, group) ==
  [r EXCEPT !.version = Restrict(@, {t \in Held(r) : Known[t].group # group})]

AllRegistrable(r, group, ts) ==
  \A i \in DOMAIN ts :
    Registrable(FoldLeft(Registered, WithoutGroup(r, group), SubSeq(ts, 1, i - 1)),
                ts[i])

Replaced(r, group, ts) == FoldLeft(Registered, WithoutGroup(r, group), ts)

----------------------------------------------------------------------------
(* The scope of a request: what the registry allows, what fits *)

(* registered: by trimmed key, else by the exact declared id. *)
Resolves(r, name, t) ==
  /\ t \in Held(r)
  /\ \/ Known[t].key = name
     \/ Known[t].id = name /\ \A u \in Held(r) : Known[u].key # name

(* allowed_catalog_for_callers_guarded: in the order of the allowlist, a   *)
(* tool once, however it is named, if one of the run's callers may use it. *)
Allowed(r, req) ==
  LET named(i) == {t \in Held(r) : Resolves(r, req.list[i], t)}
      fresh(i) == /\ \A j \in 1..(i - 1) : named(i) \cap named(j) = {}
                  /\ \E t \in named(i) : Known[t].callers \cap req.callers # {}
      kept     == SelectSeq([i \in DOMAIN req.list |-> i], fresh)
  IN [i \in DOMAIN kept |-> CHOOSE t \in named(kept[i]) : TRUE]

(* ToolDiscoveryLimits::effective: the smaller of host and provider. *)
Limits(req) ==
  [tools |-> Min({req.hostTools, req.providerTools}),
   bytes |-> Min({req.hostBytes, req.providerBytes}),
   expansion |-> req.expansion]

(* serialized_array_bytes: brackets, commas, elements. *)
ArrayBytes(S) ==
  2 + Max({Cardinality(S) - 1, 0}) + MapThenSumSet(LAMBDA t : Known[t].bytes, S)

Fits(S, limits) ==
  Cardinality(S) <= limits.tools /\ ArrayBytes(S) <= limits.bytes

HotTools(S) == {t \in S : Known[t].hot}

(* The greedy expansion: a lexical candidate joins if the scope with it    *)
(* still fits; one that does not fit is passed over.                       *)
ExpandedUntilFull(required, ids, limits) ==
  LET step(acc, t) ==
        IF acc.full THEN acc
        ELSE IF Fits(acc.scope \union {t}, limits)
             THEN [acc EXCEPT !.scope = @ \union {t}]
             ELSE [acc EXCEPT !.full = TRUE]
  IN FoldLeft(step, [scope |-> required, full |-> FALSE], ids).scope

Expanded(required, ids, limits) ==
  FoldLeft(LAMBDA scope, t : IF Fits(scope \union {t}, limits)
                             THEN scope \union {t} ELSE scope,
           required, ids)

(* The kind of selection the statistics report. *)
SelectionKind(S, rank) ==
  CASE S = {} -> "NoMatch"
    [] S # {} /\ rank.exact /\ rank.ids # <<>> -> "Exact"
    [] S # {} /\ (rank.ids = <<>> \/ (~rank.exact /\ S = HotTools(S))) -> "HotOnly"
    [] OTHER -> IF rank.confident THEN "LexicalConfident" ELSE "LexicalExpanded"

----------------------------------------------------------------------------
Init ==
  /\ setup = Setup
  /\ registries = <<[version |-> <<>>, generation |-> 0]>>
  /\ indexes = <<NewCache>> /\ catalogs = <<NewCache>>
  /\ pc = [t \in Threads |-> "idle"]
  /\ job = [t \in Threads |-> NoJob]
  /\ ranked = [t \in Threads |-> Unranked]
  /\ picked = [t \in Threads |-> <<>>]
  /\ tick = [t \in Threads |-> 0]
  /\ outcome = [t \in Threads |-> "none"]
  /\ stopping = [t \in Threads |-> FALSE]
  /\ starts = 0

(* register, register_with_discovery: the next of the application's calls; *)
(* one that is refused leaves the registry as it was.                      *)
Register ==
  /\ setup # <<>>
  /\ setup' = Tail(setup)
  /\ registries' = IF Registrable(registries[1], Head(setup))
                   THEN <<Registered(registries[1], Head(setup))>>
                   ELSE registries
  /\ UNCHANGED <<indexes, catalogs, local, stopping, starts>>

(* replace_group: a new registry, with caches of its own; the old one is   *)
(* untouched.                                                              *)
ReplaceGroup ==
  /\ setup = <<>> /\ Len(registries) < MaxRegistries
  /\ \E call \in Replacements :
       /\ AllRegistrable(Last(registries), call.group, call.tools)
       /\ registries' = Append(registries,
                               Replaced(Last(registries), call.group, call.tools))
  /\ indexes' = Append(indexes, NewCache)
  /\ catalogs' = Append(catalogs, NewCache)
  /\ UNCHANGED <<setup, local, stopping, starts>>

(* select_scope_for_run_callers, called by a run that has just begun, with *)
(* the registry it holds; nothing changes a registry that is shared, so    *)
(* the allowed catalog may be taken here.                                  *)
Start(t) ==
  /\ setup = <<>> /\ starts < MaxStarts
  /\ pc[t] = "idle"
  /\ \E req \in Requests :
       job' = [job EXCEPT ![t] = [req |-> req, at |-> Len(registries),
                                  allowed |-> Allowed(Last(registries), req)]]
  /\ pc' = [pc EXCEPT ![t] = "select"]
  /\ starts' = starts + 1
  /\ UNCHANGED <<setup, registries, indexes, catalogs, ranked, picked, tick,
                 outcome, stopping>>

(* The run takes the answer: of the selection only the caches remain. *)
Answer(t) ==
  /\ pc[t] = "done"
  /\ pc' = [pc EXCEPT ![t] = "idle"]
  /\ job' = [job EXCEPT ![t] = NoJob]
  /\ ranked' = [ranked EXCEPT ![t] = Unranked]
  /\ picked' = [picked EXCEPT ![t] = <<>>]
  /\ outcome' = [outcome EXCEPT ![t] = "none"]
  /\ stopping' = [stopping EXCEPT ![t] = FALSE]
  /\ UNCHANGED <<shared, indexes, catalogs, tick>>

Req(t) == job[t].req
At(t) == job[t].at
Catalog(t) == job[t].allowed

Return(t, kind) ==
  /\ pc' = [pc EXCEPT ![t] = "done"]
  /\ outcome' = [outcome EXCEPT ![t] = kind]

(* Cancellation or the run's deadline, at any moment of a selection. *)
AskToStop(t) ==
  /\ pc[t] \notin {"idle", "done"} /\ ~stopping[t]
  /\ Cardinality({u \in Threads : stopping[u]}) < MaxStopping
  /\ stopping' = [stopping EXCEPT ![t] = TRUE]
  /\ UNCHANGED <<shared, indexes, catalogs, local>>

(* A guard: every step begins with one, except inside CatalogCache::get.   *)
(* A selection that stops before it writes leaves the caches alone.        *)
Guard(t) ==
  /\ pc[t] \in {"select", "readIndex", "writeIndex", "rank", "readCatalog",
                "writeCatalog", "finish"}
  /\ stopping[t]
  /\ Return(t, "Stopped")
  /\ UNCHANGED <<shared, indexes, catalogs, job, ranked, picked, tick, stopping>>

(* The part of select_scope_for_callers_guarded that needs no index. *)
Select(t) ==
  LET list   == Catalog(t)
      limits == Limits(Req(t))
      room   == limits.tools # 0 /\ limits.bytes >= 2
      full   == room /\ Fits(ToSet(list), limits)
  IN /\ pc[t] = "select" /\ ~stopping[t]
     /\ \/ list = <<>> /\ Return(t, "EmptyCatalog") /\ UNCHANGED picked
        \/ list # <<>> /\ ~room /\ Return(t, "NoCapacity") /\ UNCHANGED picked
        \/ /\ list # <<>> /\ full
           /\ picked' = [picked EXCEPT ![t] = list]
           /\ pc' = [pc EXCEPT ![t] = "readCatalog"]
           /\ outcome' = [outcome EXCEPT ![t] = "FullCatalog"]
        \/ /\ list # <<>> /\ room /\ ~full
           /\ IF Fits(HotTools(ToSet(list)), limits)
              THEN pc' = [pc EXCEPT ![t] = "readIndex"] /\ UNCHANGED outcome
              ELSE Return(t, "LimitReached")
           /\ UNCHANGED picked
     /\ UNCHANGED <<shared, indexes, catalogs, job, ranked, tick, stopping>>

----------------------------------------------------------------------------
(* The catalog index: catalog_index_for_scope *)

Versioned(t, list) == [i \in DOMAIN list |->
                         <<list[i], registries[At(t)].version[list[i]]>>]

(* CatalogCacheKey: the caller and the versioned ids, sorted. *)
IndexKey(t) == <<Req(t).caller, ToSet(Versioned(t, Catalog(t)))>>

IndexBytes(t) == 1 + ArrayBytes(ToSet(Catalog(t)))

UsingIndex(t) ==
  [ranked EXCEPT ![t] =
     Rank(Content(indexes'[At(t)], IndexKey(t)), Req(t).query,
          Min({Limits(Req(t)).expansion, Limits(Req(t)).tools}))]

(* The read lock: a reader that finds its entry draws a tick of the clock  *)
(* ...                                                                     *)
ReadIndex(t) ==
  /\ pc[t] = "readIndex" /\ ~stopping[t]
  /\ IF Holds(indexes[At(t)], IndexKey(t))
     THEN /\ indexes' = [indexes EXCEPT ![At(t)] = Ticked(@)]
          /\ tick' = [tick EXCEPT ![t] = indexes'[At(t)].clock]
          /\ pc' = [pc EXCEPT ![t] = "touchIndex"]
     ELSE /\ pc' = [pc EXCEPT ![t] = "writeIndex"]
          /\ UNCHANGED <<indexes, tick>>
  /\ UNCHANGED <<shared, catalogs, job, ranked, picked, outcome, stopping>>

(* ... and stamps the entry with it; other readers may do so in between.   *)
(* Then the lock is released and the index is ranked.                      *)
TouchIndex(t) ==
  /\ pc[t] = "touchIndex"
  /\ indexes' = [indexes EXCEPT ![At(t)] = Used(@, IndexKey(t), tick[t])]
  /\ ranked' = UsingIndex(t)
  /\ tick' = [tick EXCEPT ![t] = 0]
  /\ pc' = [pc EXCEPT ![t] = "rank"]
  /\ UNCHANGED <<shared, catalogs, job, picked, outcome, stopping>>

NoReader(t, place) == \A u \in Threads : ~(pc[u] = place /\ At(u) = At(t))

(* After a miss the index is built without any lock; under the write lock  *)
(* the key is looked up again, another run may have been faster.           *)
InsertIndex(t) ==
  Insert(indexes[At(t)], IndexKey(t), ToSet(Catalog(t)), IndexBytes(t),
         MaxIndexes, MaxIndexBytes)

WriteIndex(t) ==
  LET cache == indexes[At(t)]
  IN /\ pc[t] = "writeIndex" /\ ~stopping[t]
     /\ NoReader(t, "touchIndex")
     /\ IF Holds(cache, IndexKey(t))
        THEN /\ indexes' = [indexes EXCEPT ![At(t)] =
                              Used(Ticked(cache), IndexKey(t), cache.clock + 1)]
             /\ ranked' = UsingIndex(t)
        ELSE /\ indexes' = [indexes EXCEPT ![At(t)] = InsertIndex(t)]
             /\ ranked' = [ranked EXCEPT ![t] =
                  Rank(ToSet(Catalog(t)), Req(t).query,
                       Min({Limits(Req(t)).expansion, Limits(Req(t)).tools}))]
     /\ pc' = [pc EXCEPT ![t] = "rank"]
     /\ UNCHANGED <<shared, catalogs, job, picked, tick, outcome, stopping>>

(* The exact matches are mandatory, the lexical ones are taken as they     *)
(* fit; the scope is sorted by id.  An empty scope needs no catalog.       *)
Choose(t) ==
  LET limits == Limits(Req(t))
      hot    == HotTools(ToSet(Catalog(t)))
      exact  == hot \union ToSet(ranked[t].ids)
      scope  == IF ranked[t].exact THEN exact
                ELSE Expanded(hot, ranked[t].ids, limits)
  IN /\ pc[t] = "rank" /\ ~stopping[t]
     /\ IF ranked[t].exact /\ ~Fits(exact, limits)
        THEN Return(t, "LimitReached") /\ UNCHANGED picked
        ELSE /\ picked' = [picked EXCEPT ![t] = InIdOrder(scope)]
             /\ outcome' = [outcome EXCEPT ![t] = SelectionKind(scope, ranked[t])]
             /\ pc' = [pc EXCEPT ![t] = IF scope = {} THEN "done" ELSE "readCatalog"]
     /\ UNCHANGED <<shared, indexes, catalogs, job, ranked, tick, stopping>>

----------------------------------------------------------------------------
(* The prepared catalog: scope_with_stats *)

(* PreparedCatalogKey: the versioned ids in the order of the selection. *)
UnorderedCatalogKey(t) == ToSet(Versioned(t, picked[t]))

CatalogKey(t) == Versioned(t, picked[t])

(* What a prepared catalog holds: the definitions, in order. *)
Prepare(t) == picked[t]

ReadCatalog(t) ==
  /\ pc[t] = "readCatalog" /\ ~stopping[t]
  /\ IF Holds(catalogs[At(t)], CatalogKey(t))
     THEN /\ catalogs' = [catalogs EXCEPT ![At(t)] = Ticked(@)]
          /\ tick' = [tick EXCEPT ![t] = catalogs'[At(t)].clock]
          /\ pc' = [pc EXCEPT ![t] = "touchCatalog"]
     ELSE /\ pc' = [pc EXCEPT ![t] = "writeCatalog"]
          /\ UNCHANGED <<catalogs, tick>>
  /\ UNCHANGED <<shared, indexes, job, ranked, picked, outcome, stopping>>

TouchCatalog(t) ==
  /\ pc[t] = "touchCatalog"
  /\ catalogs' = [catalogs EXCEPT ![At(t)] = Used(@, CatalogKey(t), tick[t])]
  /\ picked' = [picked EXCEPT ![t] = Content(catalogs'[At(t)], CatalogKey(t))]
  /\ tick' = [tick EXCEPT ![t] = 0]
  /\ pc' = [pc EXCEPT ![t] = "finish"]
  /\ UNCHANGED <<shared, indexes, job, ranked, outcome, stopping>>

InsertCatalog(t) ==
  Insert(catalogs[At(t)], CatalogKey(t), Prepare(t),
         1 + ArrayBytes(ToSet(picked[t])), MaxCatalogs, MaxCatalogBytes)

InsertAnyway(t) == [catalogs EXCEPT ![At(t)] = InsertCatalog(t)]

FillCatalogs(t) ==
  IF Holds(catalogs[At(t)], CatalogKey(t))
  THEN [catalogs EXCEPT ![At(t)] = Used(Ticked(@), CatalogKey(t), @.clock + 1)]
  ELSE [catalogs EXCEPT ![At(t)] = InsertCatalog(t)]

WriteCatalog(t) ==
  /\ pc[t] = "writeCatalog" /\ ~stopping[t]
  /\ NoReader(t, "touchCatalog")
  /\ catalogs' = FillCatalogs(t)
  /\ picked' = [picked EXCEPT ![t] = IF Holds(catalogs[At(t)], CatalogKey(t))
                                     THEN Content(catalogs[At(t)], CatalogKey(t))
                                     ELSE Prepare(t)]
  /\ pc' = [pc EXCEPT ![t] = "finish"]
  /\ UNCHANGED <<shared, indexes, job, ranked, tick, outcome, stopping>>

(* The last guard has passed: the scope is handed to the run. *)
Finish(t) ==
  /\ pc[t] = "finish" /\ ~stopping[t]
  /\ pc' = [pc EXCEPT ![t] = "done"]
  /\ UNCHANGED <<shared, indexes, catalogs, job, ranked, picked, tick, outcome,
                 stopping>>

Selecting(t) ==
  \/ Start(t) \/ Answer(t) \/ AskToStop(t) \/ Guard(t) \/ Select(t)
  \/ ReadIndex(t) \/ TouchIndex(t) \/ WriteIndex(t) \/ Choose(t)
  \/ ReadCatalog(t) \/ TouchCatalog(t) \/ WriteCatalog(t) \/ Finish(t)

Next == Register \/ ReplaceGroup \/ \E t \in Threads : Selecting(t)

Spec == Init /\ [][Next]_vars

----------------------------------------------------------------------------
(* Every variable has its type: a tool held has a version its registry has *)
(* reached (tool.rs ToolRegistry), a thread is at one of its places and    *)
(* holds a tick of a cache only while it may still stamp an entry.         *)
TypeOK ==
  /\ starts \in 0..MaxStarts /\ Len(registries) \in 1..MaxRegistries
  /\ DOMAIN indexes = DOMAIN registries /\ DOMAIN catalogs = DOMAIN registries
  /\ \A r \in DOMAIN registries :
       /\ Held(registries[r]) \subseteq Tools
       /\ \A t \in Held(registries[r]) :
            registries[r].version[t] \in 1..registries[r].generation
  /\ \A t \in Threads :
       /\ pc[t] \in {"idle", "select", "readIndex", "touchIndex", "writeIndex",
                     "rank", "readCatalog", "touchCatalog", "writeCatalog",
                     "finish", "done"}
       /\ job[t].req \in Requests /\ At(t) \in 0..Len(registries)
       /\ \A list \in {Catalog(t), ranked[t].ids, picked[t]} : ToSet(list) \subseteq Tools
       /\ tick[t] \in Nat /\ (tick[t] # 0 => pc[t] \in {"touchIndex", "touchCatalog"})
       /\ outcome[t] \in {"none", "EmptyCatalog", "NoCapacity", "FullCatalog",
                          "LimitReached", "NoMatch", "Exact", "HotOnly",
                          "LexicalConfident", "LexicalExpanded", "Stopped"}
       /\ stopping[t] \in BOOLEAN

----------------------------------------------------------------------------
Scoped(t) == picked[t] # <<>> /\ outcome[t] # "Stopped"

(* The scope a run gets is worked out from its own request, whatever other *)
(* runs have left in the caches: its tools, in its own order, each once,   *)
(* all of them allowed to it by the registry it started with, within the   *)
(* budget as serialized, with every hot tool and every exact match; a run  *)
(* is refused only if the tools it cannot do without exceed the budget,    *)
(* and is given none only if it has no such tool or there is no room       *)
(* (discovery.rs select_scope_for_callers_guarded, scope_with_stats).      *)
Named(t, u) == \E i \in DOMAIN Req(t).list :
                 Req(t).list[i] \in {Known[u].id, Known[u].key}

Usable(t) == {u \in Held(registries[At(t)]) :
                /\ Named(t, u) /\ Known[u].callers \cap Req(t).callers # {}}

OwnScopeAmong(t, all, must) ==
  LET limits == Limits(Req(t))
      text   == 1 + MapThenSumSet(LAMBDA i : Known[picked[t][i]].bytes + 1,
                                  DOMAIN picked[t])
  IN /\ Scoped(t) =>
          /\ ToSet(picked[t]) \subseteq all
          /\ Cardinality(ToSet(picked[t])) = Len(picked[t])
          /\ Len(picked[t]) <= limits.tools /\ text <= limits.bytes
          /\ must \subseteq ToSet(picked[t])
          /\ IF outcome[t] = "FullCatalog" THEN picked[t] = Catalog(t)
             ELSE \A i, j \in DOMAIN picked[t] :
                    i < j => picked[t][i] < picked[t][j]
     /\ outcome[t] = "LimitReached" =>
          \/ Cardinality(must) > limits.tools
          \/ ArrayBytes(must) > limits.bytes
     /\ outcome[t] \in {"EmptyCatalog", "NoCapacity", "NoMatch"} =>
          picked[t] = <<>> /\ (must = {} \/ limits.tools = 0 \/ limits.bytes < 2)

OwnScope(t) ==
  OwnScopeAmong(t, Usable(t), HotTools(Usable(t)) \union ExactIds(Usable(t), Req(t).query))

ScopeIsOwn == \A t \in Threads : pc[t] = "done" => OwnScope(t)

(* The lexical candidates of a scope are the most relevant tools of the    *)
(* run's own catalog: one if it leads by the confidence margin, else up to *)
(* the expansion limit, found without sorting the catalog and from an      *)
(* index another run may have built; and none of them that would still fit *)
(* is left out, even after a larger one has been passed over               *)
(* (discovery.rs rank_with_counts and the expansion loop).                 *)
TakesTheBest(t, best) ==
  /\ ranked[t].ids = best
  /\ ToSet(picked[t]) \subseteq HotTools(ToSet(Catalog(t))) \union ToSet(best)
  /\ \A i \in DOMAIN best :
       \/ best[i] \in ToSet(picked[t])
       \/ ~Fits(ToSet(picked[t]) \union {best[i]}, Limits(Req(t)))

RelevantScope(t) ==
  outcome[t] \in {"HotOnly", "NoMatch", "LexicalConfident", "LexicalExpanded"}
    /\ ~ranked[t].exact =>
  TakesTheBest(t, Relevant(ToSet(Catalog(t)), Req(t).query,
                           Min({Limits(Req(t)).expansion, Limits(Req(t)).tools})))

NothingRelevantLeftOut ==
  \A t \in Threads : pc[t] = "done" => RelevantScope(t)

(* A scope is what the run's request and its registry make it, and nothing *)
(* else.                                                                   *)
ScopesSound == ScopeIsOwn /\ NothingRelevantLeftOut

(* The caches keep their bounds, count the bytes of exactly the entries    *)
(* they hold, and never hold two entries for one key, although two runs    *)
(* that miss together both build the entry (CatalogCache::insert,          *)
(* PreparedCatalogCache::insert).                                          *)
Accounted(cache, maxEntries, maxBytes) ==
  /\ Len(cache.entries) <= maxEntries /\ cache.bytes <= maxBytes
  /\ cache.bytes = MapThenSumSet(LAMBDA i : cache.entries[i].size,
                                 DOMAIN cache.entries)
  /\ \A i, j \in DOMAIN cache.entries :
       cache.entries[i].key = cache.entries[j].key => i = j

CachesAccounted ==
  \A r \in DOMAIN registries :
    /\ Accounted(indexes[r], MaxIndexes, MaxIndexBytes)
    /\ Accounted(catalogs[r], MaxCatalogs, MaxCatalogBytes)

(* Least recently used: readers that share the lock never make an entry    *)
(* look older than it is, and an entry is evicted only if none that stays  *)
(* was used before it (CatalogCache::get, least_recently_used_position).   *)
Ages(old, new) ==
  /\ \A i \in DOMAIN old.entries, j \in DOMAIN new.entries :
       old.entries[i].key = new.entries[j].key =>
         old.entries[i].used <= new.entries[j].used
  /\ \A i, j \in DOMAIN old.entries :
       ~Holds(new, old.entries[i].key) /\ Holds(new, old.entries[j].key) =>
         old.entries[i].used <= old.entries[j].used

EvictsTheOldest ==
  [][\A r \in DOMAIN registries : /\ Ages(indexes[r], indexes'[r])
                                  /\ Ages(catalogs[r], catalogs'[r])]_vars

(* What the caches hold is accounted for and aged in order.                *)
CachesSound == []CachesAccounted /\ EvictsTheOldest
=============================================================================
