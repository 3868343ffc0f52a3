------------------------------ MODULE TraceStore ------------------------------
(***************************************************************************)
(* The SQLite trace store of crates/llama-harness-observability: one table *)
(* of events keyed by (execution, sequence), appended to one transaction   *)
(* at a time, swept by the retention policy, exported and deleted by a     *)
(* console that takes the connection lock once per query, and migrated     *)
(* from its older schemas by whoever opens it first.                       *)
(*                                                                         *)
(* An event is a record: the execution and the public run it belongs to,   *)
(* its sequence number, its timestamp and what it says.  Only "finished"   *)
(* carries a status.  Redaction, raw payloads and JSON are left out: what  *)
(* matters of preparing an event is that it may be refused for its size.   *)
(***************************************************************************)
EXTENDS Naturals, Sequences, FiniteSets, Functions, SequencesExt, FiniteSetsExt

CONSTANTS
    Execs,       \* executions of the live application
    Runs,        \* public run ids
    Legacy,      \* traces of a schema v1 database
    LegacyRun,   \* the public run id of each of them
    ColonId,     \* run_id || ':' || trace_id: two traces may share it
    LegacyLen,   \* how many events each of them holds
    Openers,     \* processes that open the database for writing
    App,         \* the application among them
    MaxQuery,    \* MAX_QUERY_LIMIT
    KeepRuns,    \* RetentionPolicy::max_runs
    MaxClock     \* bound of the clock

NoId == <<"none">>
Writers == Execs \union {"import"}
Failed == {"busy", "limit", "invalid", "conflict"}

ASSUME StoreAssumption ==
    /\ LegacyRun \in [Legacy -> Runs]
    \* The first schema's primary key is (run_id, sequence), as the second's is:
    \* what it holds never collides there.
    /\ \A l, m \in Legacy : LegacyRun[l] = LegacyRun[m] => l = m
    /\ LegacyLen \in [Legacy -> Nat \ {0}]
    /\ IsFiniteSet(Legacy)
    /\ MaxQuery \in Nat \ {0} /\ KeepRuns \in Nat /\ MaxClock \in Nat
    /\ App \in Openers
    \* Executions are named by fresh UUIDs.
    /\ "import" \notin Execs /\ \A l \in Legacy : <<"legacy", l>> \notin Execs
    \* A public id is any text the host likes: there is always another.
    /\ \A run \in Runs : Runs # {run}

VARIABLES
    version,     \* MAX(version) of schema_migrations
    corrupt,     \* whether a legacy row's JSON disagrees with its identity
    opener,      \* what each opening process has got to
    rows,        \* the table trace_events
    log,         \* the events each execution has emitted so far
    now,         \* the clock
    report,      \* what each writer has still to record of its last append
    failures,    \* persist_failures_total
    healthy,     \* PersistenceHealth::healthy
    refused,     \* how many appends have been refused
    console,     \* the query the console is in the middle of
    file,        \* the file the last export wrote
    budget       \* how many busy databases, oversized events, retention
                 \* sweeps, batches and console queries are still to come

health == <<report, failures, healthy, refused>>
store == <<version, corrupt, opener, rows, log, now, health, console, file, budget>>

-----------------------------------------------------------------------------
Spend == budget > 0 /\ budget' = budget - 1

(* The table.                                                              *)

Of(S, exec) == {r \in S : r.exec = exec}

LastSeq(S, exec) == Max({r.seq : r \in Of(S, exec)} \union {0})

Stamp(S, exec) == Max({r.at : r \in Of(S, exec)})

\* Whether an execution's completion is stored.
Complete(S, exec) == \E r \in Of(S, exec) : r.what = "finished"

\* The outcome of append_prepared on a table S, if a sequence number had only
\* to be new.
VerdictUnordered(S, r) ==
    IF \E x \in Of(S, r.exec) : x.run # r.run \/ x.trace # r.trace THEN "invalid"
    ELSE IF \A x \in Of(S, r.exec) : x.seq # r.seq THEN "inserted"
    ELSE IF r \in S THEN "duplicate" ELSE "conflict"

\* The outcome of append_prepared on a table S.
Verdict(S, r) ==
    IF \E x \in Of(S, r.exec) : x.run # r.run \/ x.trace # r.trace THEN "invalid"
    ELSE IF \A x \in Of(S, r.exec) : x.seq # r.seq
         THEN IF r.seq = LastSeq(S, r.exec) + 1 THEN "inserted" ELSE "invalid"
    ELSE IF r \in S THEN "duplicate" ELSE "conflict"

\* One event of a transaction: a refusal ends it and keeps its reason.
Step(tx, r) ==
    LET verdict == Verdict(tx.rows, r) IN
    IF tx.verdict \in Failed \/ verdict = "duplicate" THEN tx
    ELSE IF verdict \in Failed THEN [tx EXCEPT !.verdict = verdict]
    ELSE [tx EXCEPT !.rows = {x \in @ : x.exec # r.exec \/ x.seq # r.seq} \union {r}]

\* A batch, if each event were committed as it is inserted.
BatchPiecemeal(S, batch) == FoldLeft(Step, [verdict |-> "ok", rows |-> S], batch)

\* A whole batch in one transaction, rolled back when one event is refused.
Batch(S, batch) ==
    LET tx == BatchPiecemeal(S, batch)
    IN  IF tx.verdict \in Failed THEN [tx EXCEPT !.rows = S] ELSE tx

-----------------------------------------------------------------------------
(* Opening a database: configure_and_migrate.  The version is read before  *)
(* the transactions that depend on it begin.                               *)

Open(p) == opener[p] = "open"

\* A database of the current version is opened as it is.
ReadVersion(p) ==
    /\ opener[p] = "closed"
    /\ opener' = [opener EXCEPT ![p] = CASE version = 1 -> "at1"
                                          [] version = 2 -> "at2"
                                          [] version = 3 -> "open"]
    /\ UNCHANGED <<version, corrupt, rows, log, now, health, console, file, budget>>

ColonOf(r) == <<"colon", ColonId[r.trace]>>

\* The length-prefixed identity of the third schema, one per (run, trace).
PrefixedOf(r) ==
    IF r.trace \in Legacy /\ r.exec = ColonOf(r) THEN <<"legacy", r.trace>> ELSE r.exec

\* A phase, if rows that cannot be decoded were left behind.
MigrateLossy(p, target, table, next) ==
    /\ version = target - 1
    /\ version' = target
    /\ rows' = IF corrupt THEN {r \in table : r.seq # 1} ELSE table
    /\ opener' = [opener EXCEPT ![p] = next]
    /\ UNCHANGED <<corrupt, log, now, health, console, file, budget>>

\* A phase: copy the table, replace it, insert its version.  The version's
\* primary key refuses a phase that another process has already committed.
Migrate(p, target, table, next) ==
    /\ \/ /\ version = target - 1
          /\ target = 3 => ~corrupt
          /\ version' = target
          /\ rows' = table
          /\ opener' = [opener EXCEPT ![p] = next]
       \/ /\ version >= target \/ (target = 3 /\ corrupt)
          /\ opener' = [opener EXCEPT ![p] = "failed"]
          /\ UNCHANGED <<version, rows>>
    /\ UNCHANGED <<corrupt, log, now, health, console, file, budget>>

MigrateToTwo(p) ==
    /\ opener[p] = "at1"
    /\ Migrate(p, 2, {[r EXCEPT !.exec = ColonOf(r)] : r \in rows}, "at2")

MigrateToThree(p) ==
    /\ opener[p] = "at2"
    /\ Migrate(p, 3, {[r EXCEPT !.exec = PrefixedOf(r)] : r \in rows}, "open")

-----------------------------------------------------------------------------
(* Appending, and what it does to the store's health.                      *)

\* The outcome of a writer's transaction, if a record that could not be
\* prepared returned before the result is observed.
ReportedTransaction(w, verdict) ==
    /\ report' = [report EXCEPT ![w] = IF verdict = "limit" THEN "none"
                                       ELSE IF verdict \in Failed THEN "failed" ELSE "ok"]
    /\ refused' = IF verdict \in Failed THEN refused + 1 ELSE refused
    /\ UNCHANGED <<failures, healthy>>

\* The outcome of a writer's transaction, still to be recorded.
Reported(w, verdict) ==
    /\ report' = [report EXCEPT ![w] = IF verdict \in Failed THEN "failed" ELSE "ok"]
    /\ refused' = IF verdict \in Failed THEN refused + 1 ELSE refused
    /\ UNCHANGED <<failures, healthy>>

\* EventEmitter::emit numbers an event; the sink appends it in a transaction
\* that an oversized event or a busy database keeps from being made.
Emit(e, run, what) ==
    /\ report[e] = "none"
    /\ \E time \in {now, now + 1} \intersect 0..MaxClock :
        LET event == [exec |-> e, run |-> run, trace |-> e,
                      seq |-> Len(log[e]) + 1, at |-> time, what |-> what]
        IN  /\ now' = time
            /\ log' = [log EXCEPT ![e] = Append(@, event)]
            /\ \/ /\ LET tx == Batch(rows, <<event>>)
                     IN  rows' = tx.rows /\ Reported(e, tx.verdict)
                  /\ UNCHANGED budget
               \/ /\ Spend
                  /\ \E fault \in {"busy", "limit"} : Reported(e, fault)
                  /\ UNCHANGED rows
    /\ UNCHANGED <<version, corrupt, opener, console, file>>

\* An event as it was, altered, or under another run.
Twisted(event, twist) ==
    CASE twist = "same" -> event
      [] twist = "altered" -> [event EXCEPT !.what = "altered"]
      [] twist = "foreign" -> [event EXCEPT !.run = CHOOSE run \in Runs : run # event.run]

\* append_batch: the first k events of an execution are appended again, the
\* last of them perhaps twisted.
Import(e, k, twist) ==
    /\ Open(App) /\ report["import"] = "none" /\ Spend
    /\ k \in 1..Len(log[e])
    /\ LET batch == [i \in 1..k |-> IF i < k THEN log[e][i] ELSE Twisted(log[e][k], twist)]
           tx == Batch(rows, batch)
       IN  rows' = tx.rows /\ Reported("import", tx.verdict)
    /\ UNCHANGED <<version, corrupt, opener, log, now, console, file>>

\* record_persistence_success takes the health lock once.
RecordSuccess(w) ==
    /\ report[w] = "ok"
    /\ report' = [report EXCEPT ![w] = "none"]
    /\ healthy' = TRUE
    /\ UNCHANGED <<version, corrupt, opener, rows, log, now, failures, refused,
                   console, file, budget>>

\* record_persistence_failure counts first, and takes the lock afterwards.
CountFailure(w) ==
    /\ report[w] = "failed"
    /\ report' = [report EXCEPT ![w] = "counted"]
    /\ failures' = failures + 1
    /\ UNCHANGED <<version, corrupt, opener, rows, log, now, healthy, refused,
                   console, file, budget>>

\* ... and would count once more, if the health record kept its own total.
MarkUnhealthyTwice(w) ==
    /\ report[w] = "counted"
    /\ report' = [report EXCEPT ![w] = "none"]
    /\ healthy' = FALSE
    /\ failures' = failures + 1
    /\ UNCHANGED <<version, corrupt, opener, rows, log, now, refused, console, file, budget>>

MarkUnhealthy(w) ==
    /\ report[w] = "counted"
    /\ report' = [report EXCEPT ![w] = "none"]
    /\ healthy' = FALSE
    /\ UNCHANGED <<version, corrupt, opener, rows, log, now, failures, refused,
                   console, file, budget>>

-----------------------------------------------------------------------------
(* Retention, exports and deletions.                                       *)

Stored(S) == {r.exec : r \in S}

\* Complete executions whose latest event is older than the cutoff, if the
\* status were not asked for.
ExpiredAnyhow(S, cutoff) == {x \in Stored(S) : Stamp(S, x) < cutoff}

\* Complete executions whose latest event is older than the cutoff.
Expired(S, cutoff) ==
    {x \in Stored(S) : Stamp(S, x) < cutoff /\ Complete(S, x)}

\* All but the KeepRuns latest executions; ties go by an arbitrary identity.
Outnumbered(S) ==
    {D \in SUBSET Stored(S) :
        /\ Cardinality(Stored(S) \ D) = Min({KeepRuns, Cardinality(Stored(S))})
        /\ \A d \in D, k \in Stored(S) \ D : Stamp(S, d) <= Stamp(S, k)}

Without(S, gone) == {r \in S : r.exec \notin gone}

\* apply_retention: by age, by number, or by both, in one transaction.
ApplyRetention ==
    /\ Open(App) /\ Spend
    /\ \E aged \in {{}} \union {Expired(rows, cutoff) : cutoff \in 0..now + 1} :
       \E extra \in {{}} \union Outnumbered(Without(rows, aged)) :
            rows' = Without(rows, aged \union extra)
    /\ UNCHANGED <<version, corrupt, opener, log, now, health, console, file>>

Idle == [pc |-> "idle", op |-> "export", exec |-> NoId]

\* A console opens the database read-only, and refuses an older schema.
Readable == version = 3

\* unique_execution_id_for_run: no execution, one, or an ambiguous run.
Resolve(run, op) ==
    /\ Readable /\ console = Idle /\ Spend
    /\ LET found == {r.exec : r \in {x \in rows : x.run = run}}
       IN  console' = IF Cardinality(found) = 1
                      THEN [pc |-> "found", op |-> op, exec |-> CHOOSE x \in found : TRUE]
                      ELSE Idle
    /\ UNCHANGED <<version, corrupt, opener, rows, log, now, health, file>>

\* event_count_for_execution: an unknown or an oversized trace is not exported.
CountEvents ==
    /\ console.pc = "found" /\ console.op = "export"
    /\ console' = IF Cardinality(Of(rows, console.exec)) \in 1..MaxQuery
                  THEN [console EXCEPT !.pc = "counted"] ELSE Idle
    /\ UNCHANGED <<version, corrupt, opener, rows, log, now, health, file, budget>>

\* events_for_execution, if the limit kept the last events.
ReadEventsLast ==
    /\ console.pc = "counted"
    /\ file' = {r \in Of(rows, console.exec) :
                    r.seq + MaxQuery > Cardinality(Of(rows, console.exec))}
    /\ console' = Idle
    /\ UNCHANGED <<version, corrupt, opener, rows, log, now, health, budget>>

\* events_for_execution: the first MaxQuery events; none is an error.
ReadEvents ==
    /\ console.pc = "counted"
    /\ file' = {r \in Of(rows, console.exec) : r.seq <= MaxQuery}
    /\ console' = Idle
    /\ UNCHANGED <<version, corrupt, opener, rows, log, now, health, budget>>

\* delete_execution, of the execution that was found.
DeleteEvents ==
    /\ console.pc = "found" /\ console.op = "delete"
    /\ rows' = Without(rows, {console.exec})
    /\ console' = Idle
    /\ UNCHANGED <<version, corrupt, opener, log, now, health, file, budget>>

-----------------------------------------------------------------------------
\* A database of schema v1 that nobody has opened, or a fresh one.
InitStore(schema, events) ==
    /\ version = schema
    /\ corrupt \in IF schema = 1 THEN BOOLEAN ELSE {FALSE}
    /\ opener = [p \in Openers |-> IF schema = 1 THEN "closed" ELSE "open"]
    /\ rows = IF schema = 3 THEN {} ELSE
              UNION {{[exec |-> NoId, run |-> LegacyRun[l], trace |-> l, seq |-> i, at |-> 0,
                       what |-> IF i = LegacyLen[l] THEN "finished" ELSE "asked"]
                        : i \in 1..LegacyLen[l]} : l \in Legacy}
    /\ log = [e \in Execs |-> <<>>]
    /\ now = 0
    /\ report = [w \in Writers |-> "none"]
    /\ failures = 0 /\ healthy = TRUE /\ refused = 0
    /\ console = Idle
    /\ file = {}
    /\ budget = events

\* Every step of the store but the emission of a live run's event.
StoreStep ==
    \/ \E p \in Openers :
        ReadVersion(p) \/ MigrateToTwo(p) \/ MigrateToThree(p)
    \/ ApplyRetention
    \/ \E e \in Execs : \E k \in 1..Len(log[e]), twist \in {"same", "altered", "foreign"} :
            Import(e, k, twist)
    \/ \E w \in Writers : RecordSuccess(w) \/ CountFailure(w) \/ MarkUnhealthy(w)
    \/ \E run \in Runs, op \in {"export", "delete"} : Resolve(run, op)
    \/ CountEvents \/ ReadEvents \/ DeleteEvents

-----------------------------------------------------------------------------
StoreTypeOK ==
    /\ version \in 1..3
    /\ opener \in [Openers -> {"closed", "at1", "at2", "open", "failed"}]
    /\ \A r \in rows : r.seq \in Nat \ {0} /\ r.at \in 0..MaxClock /\ r.run \in Runs
    /\ \A w \in Writers : report[w] \in {"none", "ok", "failed", "counted"}
    /\ failures \in 0..refused
    /\ console.pc \in {"idle", "found", "counted"}
    /\ file \subseteq UNION {file, rows}

\* A stored trace has no hole, starts with its first event, belongs to one run
\* and one trace, and ends when it is complete: whatever is evicted, imported
\* or refused while the run goes on, a reader never takes a part for a whole.
WholeTraces ==
    version = 3 =>
        \A x \in Stored(rows) :
            LET own == Of(rows, x) IN
            /\ {r.seq : r \in own} = 1..Cardinality(own)
            /\ \A r, s \in own : r.run = s.run /\ r.trace = s.trace
            /\ \A r \in own : r.what = "finished" => r.seq = Cardinality(own)

\* An export is such a trace too, though it is counted and read under two
\* locks: a prefix of one execution.
ExportsArePrefixes ==
    /\ {r.seq : r \in file} = 1..Cardinality(file)
    /\ \A r, s \in file : r.exec = s.exec /\ r.run = s.run

\* Whoever reads a trace, from the database or from an export, reads it whole.
ReadsAreWhole == WholeTraces /\ ExportsArePrefixes

\* What is stored never changes: an event stays as it is until its whole
\* execution is deleted, and age alone never deletes one that is not complete.
DeletionsAreWhole ==
    [][version = 3 =>
        \A r \in rows :
            \/ r \in rows'
            \/ /\ Of(rows', r.exec) = {}
               /\ (console' = console /\ Cardinality(Stored(rows)) <= KeepRuns)
                    => Complete(rows, r.exec)]_store

\* A migration loses, merges and reorders nothing, whoever opens the database
\* and however often; two traces whose joined names collide stay apart.
MigrationKeepsTraces ==
    [][version' # version =>
        {[r EXCEPT !.exec = NoId] : r \in rows'} = {[r EXCEPT !.exec = NoId] : r \in rows}]_store

\* Rows come and go by whole traces, across versions of the schema too.
RowsAreKept == DeletionsAreWhole /\ MigrationKeepsTraces

\* Every refused append is counted once its writer has reported it.
FailuresCounted ==
    (\A w \in Writers : report[w] \in {"none", "ok", "counted"}) => failures = refused
=============================================================================
