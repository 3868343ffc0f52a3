---------------------------- MODULE DesktopProofs ----------------------------
(***************************************************************************)
(* Theorems about DesktopHost and the two components it composes, the      *)
(* approval router and the trace store: for every set of runs and of       *)
(* legacy traces, every assignment of public ids, and every limit.         *)
(***************************************************************************)
EXTENDS DesktopHost, TLAPS, WellFoundedInduction, FunctionTheorems, FiniteSetTheorems, Integers

-----------------------------------------------------------------------------
(* The fold of append_batch.                                               *)

\* A nonempty set of natural numbers has a least element ...
LEMMA LeastNat ==
  ASSUME NEW S \in SUBSET Nat, S # {}
  PROVE  \E n \in S : \A m \in S : n <= m
<1> DEFINE R == {ss \in Nat \X Nat : ss[1] < ss[2]}
<1>1. IsWellFoundedOn(R, Nat)
  BY NatLessThanWellFounded, Zenon DEF OpToRel
<1> HIDE DEF R
<1>2. PICK x \in S : \A y \in S : ~(<<y, x>> \in R)
  BY <1>1, WFMin, Zenon
<1>3. \A x1, y \in Nat : <<y, x1>> \in R <=> y < x1
  BY DEF R
<1>4. \A y \in S : ~(y < x)
  BY <1>2, <1>3
<1> QED BY <1>4

\* ... and one that is bounded has a greatest, which Max finds.
LEMMA MaxOf ==
  ASSUME NEW n \in Nat, NEW S \in SUBSET (0..n), S # {}
  PROVE  /\ Max(S) \in S
         /\ \A y \in S : y <= Max(S)
<1> DEFINE D == {n - y : y \in S}
<1>1. \A y \in S : n - y \in Nat
  OBVIOUS
<1>2. D \in SUBSET Nat /\ D # {}
  BY <1>1
<1>3. PICK d \in D : \A m \in D : d <= m
  BY <1>2, LeastNat
<1>4. PICK x \in S : d = n - x
  BY <1>3
<1>5. \A y \in S : n - x <= n - y
  BY <1>3, <1>4
<1>6. \A y \in S : x >= y
  BY <1>5
<1>7. \E z \in S : \A y \in S : z >= y
  BY <1>6
<1>8. /\ Max(S) \in S
      /\ \A y \in S : Max(S) >= y
  BY <1>7, Zenon DEF Max
<1> QED BY <1>8

\* The equation of the fold over the first m events of a batch.
Folds(S, batch, it, m) ==
  it = [s \in SUBSET (1..m) |->
          IF s = {} THEN [verdict |-> "ok", rows |-> S]
          ELSE Step(it[s \ {Max(s)}], batch[Max(s)])]

LEMMA TopOf ==
  ASSUME NEW m \in Nat, NEW s \in SUBSET (1..m), s # {}
  PROVE  Max(s) \in 1..m /\ Max(s) \in s /\ s \ {Max(s)} \in SUBSET (1..(Max(s) - 1))
<1>1. s \in SUBSET (0..m)
  OBVIOUS
<1>2. Max(s) \in s /\ \A y \in s : y <= Max(s)
  BY <1>1, MaxOf
<1>3. Max(s) \in 1..m
  BY <1>2
<1>4. ASSUME NEW y \in s \ {Max(s)} PROVE y \in 1..(Max(s) - 1)
  <2> DEFINE k == Max(s)
  <2>1. y \in 1..m /\ y <= k /\ y # k /\ k \in 1..m
    BY <1>2, <1>3
  <2> HIDE DEF k
  <2>2. y \in 1..(k - 1)
    BY <2>1
  <2> QED BY <2>2 DEF k
<1> QED BY <1>2, <1>3, <1>4

\* It has a solution, whatever the length of the batch: one over m + 1 events
\* is built from one over m.
LEMMA FoldsSolvable ==
  ASSUME NEW S, NEW batch, NEW n \in Nat
  PROVE  \E it : Folds(S, batch, it, n)
<1> DEFINE Bad == {m \in Nat : ~ \E it : Folds(S, batch, it, m)}
<1>1. SUFFICES ASSUME Bad # {} PROVE FALSE
  OBVIOUS
<1>2. PICK m \in Bad : \A k \in Bad : m <= k
  BY <1>1, LeastNat
<1>3. CASE m = 0
  <2> DEFINE it == [s \in SUBSET (1..0) |-> [verdict |-> "ok", rows |-> S]]
  <2>1. \A s \in SUBSET (1..0) : s = {}
    OBVIOUS
  <2>2. Folds(S, batch, it, 0)
    BY <2>1 DEF Folds
  <2> QED BY <2>2, <1>3, Zenon
<1>4. CASE m # 0
  <2>1. m - 1 \in Nat /\ ~(m <= m - 1) /\ (m - 1) + 1 = m
    BY <1>4
  <2>2. m - 1 \notin Bad
    BY <1>2, <2>1
  <2>3. PICK old : Folds(S, batch, old, m - 1)
    BY <2>1, <2>2
  <2> DEFINE Body(f, s) == IF s = {} THEN [verdict |-> "ok", rows |-> S]
                           ELSE Step(f[s \ {Max(s)}], batch[Max(s)])
             new == [s \in SUBSET (1..m) |-> Body(old, s)]
  <2>4. old = [s \in SUBSET (1..(m - 1)) |-> Body(old, s)]
    BY <2>3, Zenon DEF Folds
  <2>5. \A s \in SUBSET (1..m) : s # {} => s \ {Max(s)} \in SUBSET (1..(m - 1))
    <3>1. SUFFICES ASSUME NEW s \in SUBSET (1..m), s # {}
                   PROVE  s \ {Max(s)} \in SUBSET (1..(m - 1))
      OBVIOUS
    <3>2. Max(s) \in 1..m /\ s \ {Max(s)} \in SUBSET (1..(Max(s) - 1))
      BY <3>1, TopOf
    <3>3. 1..(Max(s) - 1) \subseteq 1..(m - 1)
      BY <3>2
    <3> QED BY <3>2, <3>3
  <2>6. SUBSET (1..(m - 1)) \subseteq SUBSET (1..m)
    BY <2>1
  <2> HIDE DEF Body
  <2>7. \A s \in SUBSET (1..(m - 1)) : new[s] = old[s]
    BY <2>4, <2>6
  <2>8. \A s \in SUBSET (1..m) : Body(new, s) = Body(old, s)
    BY <2>5, <2>7 DEF Body
  <2>9. new = [s \in SUBSET (1..m) |-> Body(new, s)]
    BY <2>8
  <2>10. Folds(S, batch, new, m)
    BY <2>9, Zenon DEF Folds, Body
  <2> QED BY <2>10, <1>2
<1> QED BY <1>3, <1>4

\* What holds of a transaction that has done nothing, and is kept by each of
\* its events, holds of the whole batch: Q is the set of transactions it holds of.
LEMMA BatchKeeps ==
  ASSUME NEW S, NEW n \in Nat, NEW batch, DOMAIN batch = 1..n, NEW Q,
         [verdict |-> "ok", rows |-> S] \in Q,
         \A tx \in Q, i \in 1..n : Step(tx, batch[i]) \in Q
  PROVE  BatchPiecemeal(S, batch) \in Q
<1> DEFINE it == CHOOSE f : Folds(S, batch, f, n)
           Base == [verdict |-> "ok", rows |-> S]
           After(t, i) == Step(t, batch[i])
<1>1. Folds(S, batch, it, n)
  BY FoldsSolvable, Zenon
<1>2. BatchPiecemeal(S, batch) = it[1..n]
  BY Zenon DEF BatchPiecemeal, FoldLeft, MapThenFoldSet, Folds
<1>3. it = [s \in SUBSET (1..n) |->
              IF s = {} THEN Base ELSE After(it[s \ {Max(s)}], Max(s))]
  BY <1>1, Zenon DEF Folds
<1>4. Base \in Q /\ \A tx \in Q, i \in 1..n : After(tx, i) \in Q
  OBVIOUS
<1> HIDE DEF it, After, Base
<1> DEFINE Bad == {m \in 0..n : \E s \in SUBSET (1..m) : it[s] \notin Q}
<1>5. Bad = {}
  <2>1. SUFFICES ASSUME Bad # {} PROVE FALSE
    OBVIOUS
  <2>2. Bad \in SUBSET Nat
    OBVIOUS
  <2>3. PICK m \in Bad : \A k \in Bad : m <= k
    BY <2>1, <2>2, LeastNat
  <2>4. PICK s \in SUBSET (1..m) : it[s] \notin Q
    BY <2>3
  <2>5. s \in SUBSET (1..n) /\ m \in Nat
    OBVIOUS
  <2>6. s # {} /\ it[s] = After(it[s \ {Max(s)}], Max(s))
    BY <1>3, <1>4, <2>4, <2>5
  <2>7. Max(s) \in 1..m /\ s \ {Max(s)} \in SUBSET (1..(Max(s) - 1))
    BY <2>5, <2>6, TopOf
  <2>8. Max(s) - 1 \in 0..n /\ ~(m <= Max(s) - 1) /\ Max(s) \in 1..n
    BY <2>7
  <2>9. it[s \ {Max(s)}] \in Q
    BY <2>3, <2>7, <2>8
  <2> QED BY <1>4, <2>4, <2>6, <2>8, <2>9
<1>6. n \notin Bad
  BY <1>5
<1>7. 1..n \in SUBSET (1..n) /\ n \in 0..n
  OBVIOUS
<1> QED BY <1>2, <1>6, <1>7

-----------------------------------------------------------------------------
(* The inductive invariant: the router *)

Domains ==
  /\ named \in [Tasks -> Names \union {Nobody}]
  /\ registry \in [Names -> Tasks \union {Nobody}]
  /\ cancelled \subseteq Tasks /\ doomed \subseteq Tasks /\ pending \subseteq Tasks
  /\ channel \in [Tasks -> {"none", "open", "granted", "denied", "dropped", "closed"}]
  /\ asking \in [Tasks -> {"no", "emitting", "waiting", "leaving", "over"}]
  /\ verdict \in [Tasks -> Verdicts \union {"none"}]
  /\ told \subseteq Tasks \X {"granted", "denied"}

\* Whoever is in the map still waits, or has still to drop its guard.
SlotInv ==
  /\ IsFiniteSet(pending) /\ Cardinality(pending) <= MaxPending
  /\ \A t \in pending : asking[t] \in {"emitting", "waiting", "leaving"}

\* An answer is in the channel, and a verdict given, only if respond() said it
\* was delivered; a channel that is still open has had none, so that its
\* sender, once used, is used for good.
AnswerInv ==
  /\ \A t \in Tasks :
       /\ channel[t] \in {"granted", "denied"} => <<t, channel[t]>> \in told
       /\ verdict[t] \in {"granted", "denied"} => <<t, verdict[t]>> \in told
       /\ asking[t] = "no" => channel[t] = "none"
  /\ \A a \in told : channel[a[1]] \notin {"none", "open"}
  /\ \A a, b \in told : a[1] = b[1] => a = b

RouterInv == Domains /\ SlotInv /\ AnswerInv

-----------------------------------------------------------------------------
(* The inductive invariant: the store *)

Places == {"new", "started", "asking", "asked", "decided", "ended", "done"}
Over == {"ended", "done"}
Says == {"asked", "answered", "dispatched", "rejected", "finished"}

Event == [exec : Execs, run : Names, trace : Execs,
          seq : Nat \ {0}, at : 0..MaxClock, what : Says]

\* What an event r of a live run says is so, when its run is at a[r.exec], has
\* emitted lg[r.exec], and the user's answers are those of tl: in particular
\* nothing follows the event that ends a run.
True(r, lg, a, tl) ==
  /\ r.exec \in Execs /\ r.trace = r.exec
  /\ r.run \in Runs /\ r.at \in 0..MaxClock
  /\ r.seq \in 1..Len(lg[r.exec])
  /\ r.what = "finished" => r.seq = Len(lg[r.exec]) /\ a[r.exec] \in Over
  /\ r.what = "dispatched" => <<r.exec, "granted">> \in tl
  /\ r.what = "rejected" => <<r.exec, "denied">> \in tl

\* A run numbers its events as it emits them, under the name it registered.
LogInv ==
  /\ log \in [Execs -> Seq(Event)]
  /\ \A e \in Execs :
       /\ at[e] = "new" => log[e] = << >>
       /\ \A i \in 1..Len(log[e]) :
            /\ log[e][i].exec = e /\ log[e][i].run = named[e] /\ log[e][i].seq = i
            /\ True(log[e][i], log, at, told)

\* The i-th event of a legacy trace, under an identity x.
Old(l, i, x) ==
  [exec |-> x, run |-> LegacyRun[l], trace |-> l, seq |-> i, at |-> 0,
   what |-> IF i = LegacyLen[l] THEN "finished" ELSE "asked"]

OldEvents == UNION {{<<l, i>> : i \in 1..LegacyLen[l]} : l \in Legacy}

\* A table of the current schema: every row is an event of a live run or of a
\* migrated trace, a trace has no hole and no two rows of one number, and
\* belongs to one run.
Sound(S, lg, a, tl) ==
  /\ IsFiniteSet(S)
  /\ \A r \in S : \/ True(r, lg, a, tl)
                  \/ \E p \in OldEvents : r = Old(p[1], p[2], <<"legacy", p[1]>>)
  /\ \A r \in S : \A i \in 1..r.seq : \E s \in S : s.exec = r.exec /\ s.seq = i
  /\ \A r, s \in S : r.exec = s.exec => /\ r.run = s.run
                                        /\ r.seq = s.seq => r = s

\* A database of an older schema is as it was found: nobody but a migration
\* has written to it.
RowsInv ==
  /\ version = 1 => rows = {Old(p[1], p[2], NoId) : p \in OldEvents}
  /\ version = 2 => rows = {Old(p[1], p[2], <<"colon", ColonId[p[1]]>>) : p \in OldEvents}
  /\ version = 3 => Sound(rows, log, at, told)

\* The application, its runs and a console use the current schema only.
SchemaInv ==
  /\ version \in 1..3
  /\ opener \in [Openers -> {"closed", "at1", "at2", "open", "failed"}]
  /\ \A p \in Openers : Open(p) => version = 3
  /\ at \in [Tasks -> Places]
  /\ \A t \in Tasks : at[t] \notin {"new", "done"} => version = 3 /\ named[t] \in Names
  /\ console \in [pc : {"idle", "found", "counted"}, op : {"export", "delete"},
                  exec : {console.exec}]
  /\ console.pc # "idle" => version = 3

\* A refused append is counted, or its writer has still to count it.
Uncounted == {w \in Writers : report[w] = "failed"}

HealthInv ==
  /\ report \in [Writers -> {"none", "ok", "failed", "counted"}]
  /\ failures \in Nat /\ refused \in Nat
  /\ IsFiniteSet(Uncounted) /\ refused = failures + Cardinality(Uncounted)

StoreInv == SchemaInv /\ LogInv /\ RowsInv /\ ExportsArePrefixes /\ HealthInv

IInv == scene \in Scenes /\ RouterInv /\ StoreInv

-----------------------------------------------------------------------------
(* The steps of the router *)

LEMMA RegistryStep ==
  ASSUME RouterInv, Domains',
         UNCHANGED <<pending, channel, asking, verdict, told>>
  PROVE  RouterInv'
BY DEF RouterInv, SlotInv, AnswerInv

LEMMA RegisterKeeps ==
  ASSUME RouterInv, NEW t \in Tasks, NEW name \in NamesOf[t], Register(t, name)
  PROVE  RouterInv'
<1>1. name \in Names
  BY ApprovalAssumption
<1>2. Domains'
  BY <1>1 DEF RouterInv, Domains, Register
<1> QED BY <1>2, RegistryStep DEF Register

LEMMA DeregisterKeeps ==
  ASSUME RouterInv, NEW t \in Tasks, Deregister(t)
  PROVE  RouterInv'
<1>1. Domains'
  BY DEF RouterInv, Domains, Deregister
<1> QED BY <1>1, RegistryStep DEF Deregister

LEMMA CancelTokenKeeps ==
  ASSUME RouterInv, NEW name \in Names, CancelToken(name) \/ SnapshotRun(name)
  PROVE  RouterInv'
<1>1. Domains'
  BY DEF RouterInv, Domains, CancelToken, SnapshotRun
<1> QED BY <1>1, RegistryStep DEF CancelToken, SnapshotRun

LEMMA CancelEveryTokenKeeps ==
  ASSUME RouterInv, CancelEveryToken
  PROVE  RouterInv'
<1>1. \A name \in Names : registry[name] \in Tasks => registry[name] \in Tasks
  OBVIOUS
<1>2. cancelled' \subseteq Tasks
  BY <1>1 DEF RouterInv, Domains, CancelEveryToken
<1>3. Domains'
  BY <1>2 DEF RouterInv, Domains, CancelEveryToken
<1> QED BY <1>3, RegistryStep DEF CancelEveryToken

\* The map grows by a request only when it is not full, and the request's
\* channel is new.
LEMMA AskKeeps ==
  ASSUME RouterInv, NEW t \in Tasks, Ask(t)
  PROVE  RouterInv'
<1>1. channel[t] = "none" /\ \A a \in told : a[1] # t
  BY DEF RouterInv, Domains, AnswerInv, Ask
<1>2. CASE Cardinality(pending) >= MaxPending
  <2>1. /\ asking' = [asking EXCEPT ![t] = "over"]
        /\ verdict' = [verdict EXCEPT ![t] = "limit"]
        /\ asking[t] = "no"
        /\ UNCHANGED <<named, registry, cancelled, pending, channel, told, doomed>>
    BY <1>2 DEF Ask
  <2>2. Domains'
    BY <2>1 DEF RouterInv, Domains, Verdicts
  <2>3. t \notin pending
    BY <2>1 DEF RouterInv, SlotInv
  <2>4. SlotInv'
    BY <2>1, <2>3 DEF RouterInv, Domains, SlotInv
  <2>5. AnswerInv'
    BY <2>1 DEF RouterInv, Domains, AnswerInv
  <2> QED BY <2>2, <2>4, <2>5 DEF RouterInv
<1>3. CASE ~(Cardinality(pending) >= MaxPending)
  <2>1. /\ asking' = [asking EXCEPT ![t] = "emitting"]
        /\ pending' = pending \union {t}
        /\ channel' = [channel EXCEPT ![t] = "open"]
        /\ UNCHANGED <<named, registry, cancelled, verdict, told, doomed>>
    BY <1>3 DEF Ask
  <2>2. Domains'
    BY <2>1 DEF RouterInv, Domains
  <2>3. IsFiniteSet(pending') /\ Cardinality(pending') <= MaxPending
    <3>1. IsFiniteSet(pending) /\ Cardinality(pending) \in Nat
      BY FS_CardinalityType DEF RouterInv, SlotInv
    <3>2. /\ IsFiniteSet(pending \union {t})
          /\ Cardinality(pending \union {t}) \in {Cardinality(pending), Cardinality(pending) + 1}
      BY <3>1, FS_AddElement
    <3> QED BY <1>3, <2>1, <3>1, <3>2, ApprovalAssumption
  <2>4. SlotInv'
    BY <2>1, <2>3 DEF RouterInv, Domains, SlotInv
  <2>5. AnswerInv'
    BY <1>1, <2>1 DEF RouterInv, Domains, AnswerInv
  <2> QED BY <2>2, <2>4, <2>5 DEF RouterInv
<1> QED BY <1>2, <1>3

\* Leaving is the same whatever the outcome, and an outcome that is an answer
\* was found in the channel.
LEMMA LeaveKeeps ==
  ASSUME RouterInv, NEW t \in Tasks, NEW outcome \in Verdicts, Leave(t, outcome),
         asking[t] \in {"emitting", "waiting"},
         outcome \in {"granted", "denied"} => channel[t] = outcome,
         UNCHANGED <<named, registry, cancelled, pending, told, doomed>>
  PROVE  RouterInv'
<1>1. Domains'
  BY DEF RouterInv, Domains, Leave
<1>2. SlotInv'
  BY DEF RouterInv, Domains, SlotInv, Leave
<1>3. AnswerInv'
  <2>1. outcome \in {"granted", "denied"} => <<t, outcome>> \in told
    BY DEF RouterInv, AnswerInv
  <2>2. /\ channel' = [channel EXCEPT ![t] = "closed"] /\ channel'[t] = "closed"
        /\ verdict' = [verdict EXCEPT ![t] = outcome] /\ asking' = [asking EXCEPT ![t] = "leaving"]
    BY DEF Leave, RouterInv, Domains
  <2>3. \A u \in Tasks : /\ channel'[u] \in {"granted", "denied"} => <<u, channel'[u]>> \in told
                         /\ verdict'[u] \in {"granted", "denied"} => <<u, verdict'[u]>> \in told
                         /\ asking'[u] = "no" => channel'[u] = "none"
    BY <2>1, <2>2 DEF RouterInv, Domains, AnswerInv
  <2>4. \A a \in told : channel'[a[1]] \notin {"none", "open"}
    BY <2>2 DEF RouterInv, Domains, AnswerInv
  <2> QED BY <2>3, <2>4 DEF RouterInv, AnswerInv
<1> QED BY <1>1, <1>2, <1>3 DEF RouterInv

LEMMA EmitRequestKeeps ==
  ASSUME RouterInv, NEW t \in Tasks, EmitRequest(t)
  PROVE  RouterInv'
<1>1. CASE Leave(t, "unseen")
  BY <1>1, LeaveKeeps DEF EmitRequest, Verdicts
<1>2. CASE asking' = [asking EXCEPT ![t] = "waiting"] /\ UNCHANGED <<verdict, channel>>
  <2>1. Domains'
    BY <1>2 DEF RouterInv, Domains, EmitRequest
  <2>2. SlotInv'
    BY <1>2 DEF RouterInv, Domains, SlotInv, EmitRequest
  <2>3. AnswerInv'
    BY <1>2 DEF RouterInv, Domains, AnswerInv, EmitRequest
  <2> QED BY <2>1, <2>2, <2>3 DEF RouterInv
<1> QED BY <1>1, <1>2 DEF EmitRequest

LEMMA WakeKeeps ==
  ASSUME RouterInv, NEW t \in Tasks, Wake(t)
  PROVE  RouterInv'
<1>1. PICK outcome \in Ready(t) : Leave(t, outcome)
  BY DEF Wake
<1>2. outcome \in Verdicts /\ (outcome \in {"granted", "denied"} => channel[t] = outcome)
  BY DEF Ready, Verdicts
<1> QED BY <1>1, <1>2, LeaveKeeps DEF Wake

\* The map only shrinks.
LEMMA FewerPending ==
  ASSUME SlotInv, NEW S \in SUBSET pending
  PROVE  IsFiniteSet(S) /\ Cardinality(S) <= MaxPending
<1>1. /\ IsFiniteSet(S) /\ Cardinality(S) <= Cardinality(pending)
      /\ Cardinality(S) \in Nat /\ Cardinality(pending) \in Nat
  BY FS_Subset, FS_CardinalityType DEF SlotInv
<1> QED BY <1>1, ApprovalAssumption DEF SlotInv

LEMMA DropGuardKeeps ==
  ASSUME RouterInv, NEW t \in Tasks, DropGuard(t)
  PROVE  RouterInv'
<1>1. Domains'
  BY DEF RouterInv, Domains, DropGuard
<1>2. IsFiniteSet(pending') /\ Cardinality(pending') <= MaxPending
  BY FewerPending DEF RouterInv, DropGuard
<1>3. SlotInv'
  BY <1>2 DEF RouterInv, Domains, SlotInv, DropGuard
<1>4. AnswerInv'
  BY DEF RouterInv, Domains, AnswerInv, DropGuard
<1> QED BY <1>1, <1>3, <1>4 DEF RouterInv

\* A sender answers once: its entry is gone, and its channel no longer open.
LEMMA RespondKeeps ==
  ASSUME RouterInv, NEW t \in Tasks, NEW answer \in {"granted", "denied"}, Respond(t, answer)
  PROVE  RouterInv'
<1>1. Domains'
  BY DEF RouterInv, Domains, Respond
<1>2. IsFiniteSet(pending') /\ Cardinality(pending') <= MaxPending
  BY FewerPending DEF RouterInv, Respond
<1>3. SlotInv'
  BY <1>2 DEF RouterInv, Domains, SlotInv, Respond
<1>4. CASE channel[t] # "open"
  <2>1. UNCHANGED <<channel, told, asking, verdict>>
    BY <1>4 DEF Respond
  <2>2. AnswerInv'
    BY <2>1 DEF RouterInv, AnswerInv
  <2> QED BY <1>1, <1>3, <2>2 DEF RouterInv
<1>5. CASE channel[t] = "open"
  <2>1. /\ channel' = [channel EXCEPT ![t] = answer] /\ told' = told \union {<<t, answer>>}
        /\ UNCHANGED <<asking, verdict>> /\ t \in pending
    BY <1>5 DEF Respond
  <2>2. asking[t] # "no" /\ \A a \in told : a[1] # t
    BY <1>5, <2>1 DEF RouterInv, SlotInv, AnswerInv
  <2>3. \A u \in Tasks : u # t => channel'[u] = channel[u]
    BY <2>1 DEF RouterInv, Domains
  <2>4. channel'[t] = answer
    BY <2>1 DEF RouterInv, Domains
  <2>5. \A u \in Tasks :
          /\ channel'[u] \in {"granted", "denied"} => <<u, channel'[u]>> \in told'
          /\ verdict'[u] \in {"granted", "denied"} => <<u, verdict'[u]>> \in told'
          /\ asking'[u] = "no" => channel'[u] = "none"
    <3>1. SUFFICES ASSUME NEW u \in Tasks
                   PROVE  /\ channel'[u] \in {"granted", "denied"} => <<u, channel'[u]>> \in told'
                          /\ verdict'[u] \in {"granted", "denied"} => <<u, verdict'[u]>> \in told'
                          /\ asking'[u] = "no" => channel'[u] = "none"
      OBVIOUS
    <3>2. /\ channel[u] \in {"granted", "denied"} => <<u, channel[u]>> \in told
          /\ verdict[u] \in {"granted", "denied"} => <<u, verdict[u]>> \in told
          /\ asking[u] = "no" => channel[u] = "none"
      BY DEF RouterInv, AnswerInv
    <3>3. CASE u = t
      BY <2>1, <2>2, <2>4, <3>2, <3>3
    <3>4. CASE u # t
      <4>1. channel'[u] = channel[u]
        BY <2>3, <3>4
      <4> QED BY <2>1, <3>2, <4>1
    <3> QED BY <3>3, <3>4
  <2>6. \A a \in told' : channel'[a[1]] \notin {"none", "open"}
    BY <2>1, <2>3, <2>4 DEF RouterInv, Domains, AnswerInv
  <2>7. \A a, b \in told' : a[1] = b[1] => a = b
    BY <2>1, <2>2 DEF RouterInv, AnswerInv
  <2> QED BY <1>1, <1>3, <2>5, <2>6, <2>7 DEF RouterInv, AnswerInv
<1> QED BY <1>1, <1>3, <1>4, <1>5 DEF RouterInv

\* A dropped sender has had no answer.
LEMMA DroppedKeeps ==
  ASSUME RouterInv, NEW S, NEW P \in SUBSET pending, pending' = P, doomed' \subseteq doomed,
         channel' = Dropped(S),
         UNCHANGED <<named, registry, cancelled, asking, verdict, told>>
  PROVE  RouterInv'
<1>1. \A t \in Tasks : channel'[t] = channel[t] \/ (channel[t] = "open" /\ channel'[t] = "dropped")
  BY DEF Dropped
<1>2. channel' \in [Tasks -> {"none", "open", "granted", "denied", "dropped", "closed"}]
  BY DEF RouterInv, Domains, Dropped
<1>3. Domains'
  BY <1>2 DEF RouterInv, Domains
<1>4. IsFiniteSet(pending') /\ Cardinality(pending') <= MaxPending
  BY FewerPending DEF RouterInv
<1>5. SlotInv'
  BY <1>4 DEF RouterInv, SlotInv
<1>6. \A a \in told : a[1] \in Tasks
  BY DEF RouterInv, Domains
<1>7. AnswerInv'
  BY <1>1, <1>6 DEF RouterInv, AnswerInv
<1> QED BY <1>3, <1>5, <1>7 DEF RouterInv

LEMMA RemovalsKeep ==
  ASSUME RouterInv, CancelEveryRequest \/ \E t \in Tasks : RemoveOne(t)
  PROVE  RouterInv'
<1>1. CASE CancelEveryRequest
  <2>1. {} \in SUBSET pending /\ doomed' \subseteq doomed
    BY <1>1 DEF CancelEveryRequest
  <2> QED BY <1>1, <2>1, DroppedKeeps DEF CancelEveryRequest
<1>2. CASE \E t \in Tasks : RemoveOne(t)
  <2>1. PICK t \in Tasks : RemoveOne(t)
    BY <1>2
  <2>2. pending \ {t} \in SUBSET pending /\ doomed' \subseteq doomed
    BY <2>1 DEF RemoveOne
  <2> QED BY <2>1, <2>2, DroppedKeeps DEF RemoveOne
<1> QED BY <1>1, <1>2

\* The user and the host do what they like.
LEMMA OutsideKeeps ==
  ASSUME RouterInv, Outside
  PROVE  RouterInv'
BY RespondKeeps, RemovalsKeep, CancelTokenKeeps, CancelEveryTokenKeeps DEF Outside

LEMMA WaitingKeeps ==
  ASSUME RouterInv, NEW t \in Tasks, Waiting(t)
  PROVE  RouterInv'
BY EmitRequestKeeps, WakeKeeps, DropGuardKeeps DEF Waiting

\* Answers that were delivered stay so.
LEMMA ToldGrows ==
  ASSUME Next \/ UNCHANGED desktop
  PROVE  told \subseteq told'
BY DEF Next, RunStep, Start, Announce, Request, Dispatch, Proceed, Finish, Unregister, Waiting, Outside,
   Register, Deregister, Ask, EmitRequest, Wake, DropGuard, Respond, CancelToken, SnapshotRun,
   RemoveOne, CancelEveryToken, CancelEveryRequest, approvals, desktop

-----------------------------------------------------------------------------
(* Tables *)

LEMMA ImageFinite ==
  ASSUME NEW S, IsFiniteSet(S), NEW f, NEW T, T = {f[x] : x \in S}
  PROVE  IsFiniteSet(T)
<1> DEFINE g == [x \in S |-> f[x]]
<1>1. g \in Surjection(S, T)
  BY DEF Surjection
<1> HIDE DEF g
<1> QED BY <1>1, FS_Surjection

LEMMA OldEventsArePairs ==
  /\ IsFiniteSet(OldEvents)
  /\ \A p \in OldEvents : p = <<p[1], p[2]>> /\ p[1] \in Legacy /\ p[2] \in 1..LegacyLen[p[1]]
  /\ \A l \in Legacy : LegacyLen[l] \in Nat /\ \A i \in 1..LegacyLen[l] : <<l, i>> \in OldEvents
<1> DEFINE Of1(l) == {<<l, i>> : i \in 1..LegacyLen[l]}
           All == {Of1(l) : l \in Legacy}
<1>1. \A l \in Legacy : LegacyLen[l] \in Nat
  BY StoreAssumption
<1>2. ASSUME NEW l \in Legacy PROVE IsFiniteSet(Of1(l))
  <2>1. IsFiniteSet(1..LegacyLen[l])
    BY <1>1, FS_Interval
  <2> DEFINE f == [i \in 1..LegacyLen[l] |-> <<l, i>>]
             I == 1..LegacyLen[l]
             T == Of1(l)
  <2>2. T = {f[i] : i \in I}
    OBVIOUS
  <2>3. IsFiniteSet(I)
    BY <2>1
  <2> HIDE DEF f, T, I
  <2>4. IsFiniteSet(T)
    BY <2>2, <2>3, ImageFinite
  <2> QED BY <2>4 DEF T
<1>3. OldEvents = UNION All
  BY DEF OldEvents
<1> HIDE DEF Of1
<1>4. IsFiniteSet(All)
  <2> DEFINE f == [l \in Legacy |-> Of1(l)]
  <2>1. All = {f[l] : l \in Legacy}
    OBVIOUS
  <2>2. IsFiniteSet(Legacy)
    BY StoreAssumption
  <2> HIDE DEF f, All
  <2> QED BY <2>1, <2>2, ImageFinite
<1>5. \A T \in All : IsFiniteSet(T)
  BY <1>2
<1> HIDE DEF All
<1>6. IsFiniteSet(OldEvents)
  BY <1>3, <1>4, <1>5, FS_UNION, Zenon
<1>7. \A p \in OldEvents : p = <<p[1], p[2]>> /\ p[1] \in Legacy /\ p[2] \in 1..LegacyLen[p[1]]
  BY DEF OldEvents
<1>8. \A l \in Legacy : \A i \in 1..LegacyLen[l] : <<l, i>> \in OldEvents
  BY DEF OldEvents
<1> QED BY <1>1, <1>6, <1>7, <1>8

\* Rows numbered without a hole and without a repetition are as many as the
\* greatest of their numbers.
LEMMA PrefixCount ==
  ASSUME NEW T, NEW b \in Nat, \A r \in T : r.seq \in 1..b,
         \A r \in T : \A i \in 1..r.seq : \E s \in T : s.seq = i,
         \A r, s \in T : r.seq = s.seq => r = s
  PROVE  /\ Cardinality(T) \in Nat
         /\ {r.seq : r \in T} = 1..Cardinality(T)
<1>1. CASE T = {}
  <2>1. Cardinality(T) = 0
    BY <1>1, FS_EmptySet
  <2> QED BY <1>1, <2>1
<1>2. CASE T # {}
  <2> DEFINE N == {r.seq : r \in T}
             m == Max(N)
  <2>1. N \in SUBSET (0..b) /\ N # {}
    BY <1>2
  <2>2. m \in N /\ \A y \in N : y <= m
    BY <2>1, MaxOf
  <2>3. N \subseteq 1..b
    OBVIOUS
  <2>4. N \subseteq 1..m
    <3> HIDE DEF m, N
    <3> QED BY <2>2, <2>3
  <2>5. 1..m \subseteq N
    <3>1. PICK r \in T : r.seq = m
      BY <2>2
    <3> HIDE DEF m
    <3>2. \A i \in 1..m : \E s \in T : s.seq = i
      BY <3>1
    <3> QED BY <3>2
  <2>6. N = 1..m
    BY <2>4, <2>5
  <2>7. m \in Nat
    BY <2>2, <2>3
  <2> DEFINE f == [r \in T |-> r.seq]
  <2>8. f \in Bijection(T, 1..m)
    <3>1. f \in [T -> 1..m]
      BY <2>6
    <3>2. \A r, s \in T : f[r] = f[s] => r = s
      OBVIOUS
    <3>3. \A i \in 1..m : \E r \in T : f[r] = i
      BY <2>6
    <3> HIDE DEF f, m
    <3> QED BY <3>1, <3>2, <3>3, Fun_IsBij
  <2>9. IsFiniteSet(1..m) /\ Cardinality(1..m) = m
    <3> HIDE DEF m
    <3>1. IsFiniteSet(1..m) /\ Cardinality(1..m) = IF 1 > m THEN 0 ELSE m - 1 + 1
      BY <2>7, FS_Interval
    <3> QED BY <2>7, <3>1
  <2>10. Cardinality(T) = m
    <3> HIDE DEF f, m
    <3>1. ExistsBijection(T, 1..m)
      BY <2>8 DEF ExistsBijection
    <3>2. ExistsBijection(1..m, T)
      BY <3>1, Fun_ExistsBijSymmetric, Zenon
    <3>3. Cardinality(T) = Cardinality(1..m)
      BY <2>9, <3>2, FS_Bijection, Zenon
    <3> QED BY <2>9, <3>3
  <2> QED BY <2>6, <2>7, <2>10
<1> QED BY <1>1, <1>2

\* The rows of one execution are either events of a live run, or a migrated
\* trace; an event that ends the trace has the greatest number it can have.
LEMMA OwnRows ==
  ASSUME NEW S, NEW lg, NEW a, NEW tl, Sound(S, lg, a, tl),
         \A e \in Execs : Len(lg[e]) \in Nat, NEW x \in Stored(S)
  PROVE  \E b \in Nat : \A r \in Of(S, x) : r.seq \in 1..b /\ (r.what = "finished" => r.seq = b)
<1>1. CASE x \in Execs
  <2>1. \A r \in Of(S, x) : True(r, lg, a, tl)
    <3>1. \A r \in Of(S, x) : r \in S /\ r.exec = x
      BY DEF Of
    <3>2. \A p \in OldEvents : Old(p[1], p[2], <<"legacy", p[1]>>).exec \notin Execs
      BY OldEventsArePairs, StoreAssumption DEF Old
    <3>3. \A r \in S : \/ True(r, lg, a, tl)
                      \/ \E p \in OldEvents : r = Old(p[1], p[2], <<"legacy", p[1]>>)
      BY Zenon DEF Sound
    <3> HIDE DEF Old
    <3> QED BY <1>1, <3>1, <3>2, <3>3
  <2>2. \A r \in Of(S, x) : r.seq \in 1..Len(lg[x]) /\ (r.what = "finished" => r.seq = Len(lg[x]))
    BY <2>1 DEF True, Of
  <2> QED BY <1>1, <2>2
<1>2. CASE x \notin Execs
  <2>1. \A r \in Of(S, x) : r \in S /\ r.exec = x
    BY DEF Of
  <2>2. \A r \in Of(S, x) : \E p \in OldEvents : r = Old(p[1], p[2], <<"legacy", p[1]>>)
    BY <1>2, <2>1 DEF Sound, True
  <2>3. PICK r0 \in Of(S, x) : TRUE
    BY DEF Stored, Of
  <2>4. PICK p0 \in OldEvents : r0 = Old(p0[1], p0[2], <<"legacy", p0[1]>>)
    BY <2>2, <2>3
  <2>5. x = <<"legacy", p0[1]>> /\ p0[1] \in Legacy
    BY <2>1, <2>4, OldEventsArePairs DEF Old
  <2>6. ASSUME NEW r \in Of(S, x)
        PROVE  r.seq \in 1..LegacyLen[p0[1]] /\ (r.what = "finished" => r.seq = LegacyLen[p0[1]])
    <3>1. PICK p \in OldEvents : r = Old(p[1], p[2], <<"legacy", p[1]>>)
      BY <2>2
    <3>2. r.exec = <<"legacy", p[1]>> /\ r.seq = p[2]
          /\ (r.what = "finished" => p[2] = LegacyLen[p[1]])
      BY <3>1 DEF Old
    <3>3. p[1] = p0[1]
      BY <2>1, <2>5, <3>2
    <3> QED BY <3>2, <3>3, OldEventsArePairs
  <2> QED BY <2>5, <2>6, OldEventsArePairs
<1> QED BY <1>1, <1>2

\* A sound table has nothing but whole traces.
LEMMA SoundIsWhole ==
  ASSUME NEW S, NEW lg, NEW a, NEW tl, Sound(S, lg, a, tl),
         \A e \in Execs : Len(lg[e]) \in Nat, NEW x \in Stored(S)
  PROVE  LET own == Of(S, x) IN
         /\ {r.seq : r \in own} = 1..Cardinality(own)
         /\ \A r, s \in own : r.run = s.run /\ r.trace = s.trace
         /\ \A r \in own : r.what = "finished" => r.seq = Cardinality(own)
<1> DEFINE own == Of(S, x)
<1>1. PICK b \in Nat : \A r \in own : r.seq \in 1..b /\ (r.what = "finished" => r.seq = b)
  BY OwnRows
<1>2. \A r \in own : r \in S /\ r.exec = x
  BY DEF Of
<1>3. \A r \in own : \A i \in 1..r.seq : \E s \in own : s.seq = i
  BY <1>2 DEF Sound, Of
<1>4. \A r, s \in own : r.run = s.run /\ (r.seq = s.seq => r = s)
  BY <1>2 DEF Sound
<1>5. \A r, s \in own : r.trace = s.trace
  <2>1. ASSUME NEW r \in own
        PROVE  \/ x \in Execs /\ r.trace = x
               \/ x \notin Execs /\ x = <<"legacy", r.trace>>
    <3>1. CASE True(r, lg, a, tl)
      BY <1>2, <3>1 DEF True
    <3>2. CASE \E p \in OldEvents : r = Old(p[1], p[2], <<"legacy", p[1]>>)
      BY <1>2, <3>2, OldEventsArePairs, StoreAssumption DEF Old
    <3> QED BY <1>2, <3>1, <3>2 DEF Sound
  <2> QED BY <2>1
<1>6. Cardinality(own) \in Nat /\ {r.seq : r \in own} = 1..Cardinality(own)
  <2> HIDE DEF own
  <2> QED BY <1>1, <1>3, <1>4, PrefixCount
<1>7. ASSUME NEW r \in own, r.what = "finished" PROVE r.seq = Cardinality(own)
  <2>1. r.seq = b
    BY <1>1, <1>7
  <2>2. Cardinality(own) # 0 /\ b \in 1..Cardinality(own)
    BY <1>6, <2>1
  <2>3. Cardinality(own) \in {s.seq : s \in own}
    BY <1>6, <2>2
  <2>4. Cardinality(own) <= b
    BY <1>1, <2>3
  <2> QED BY <1>6, <2>1, <2>2, <2>4
<1> QED BY <1>4, <1>5, <1>6, <1>7

LEMMA TrueGrows ==
  ASSUME NEW lg, NEW lg2, NEW a, NEW a2, NEW tl, NEW tl2, NEW r, True(r, lg, a, tl),
         tl \subseteq tl2,
         \A e \in Execs : /\ Len(lg[e]) \in Nat /\ Len(lg2[e]) \in Nat /\ Len(lg[e]) <= Len(lg2[e])
                          /\ a[e] \in Over => a2[e] \in Over /\ Len(lg2[e]) = Len(lg[e])
  PROVE  True(r, lg2, a2, tl2)
BY DEF True

\* A table stays sound while runs go on, emit events until they end, and are
\* told their users' answers.
LEMMA SoundGrows ==
  ASSUME NEW S, NEW lg, NEW lg2, NEW a, NEW a2, NEW tl, NEW tl2, Sound(S, lg, a, tl),
         tl \subseteq tl2,
         \A e \in Execs : /\ Len(lg[e]) \in Nat /\ Len(lg2[e]) \in Nat /\ Len(lg[e]) <= Len(lg2[e])
                          /\ a[e] \in Over => a2[e] \in Over /\ Len(lg2[e]) = Len(lg[e])
  PROVE  Sound(S, lg2, a2, tl2)
<1>1. \A r \in S : True(r, lg, a, tl) => True(r, lg2, a2, tl2)
  BY TrueGrows
<1> QED BY <1>1 DEF Sound

\* A part of the table that takes whole traces or nothing of each is sound.
LEMMA SoundWithout ==
  ASSUME NEW S, NEW lg, NEW a, NEW tl, Sound(S, lg, a, tl), NEW gone
  PROVE  Sound(Without(S, gone), lg, a, tl)
<1>1. Without(S, gone) \subseteq S /\ \A r \in S : r \in Without(S, gone) <=> r.exec \notin gone
  BY DEF Without
<1>2. IsFiniteSet(Without(S, gone))
  BY <1>1, FS_Subset DEF Sound
<1> QED BY <1>1, <1>2 DEF Sound

LEMMA OldFields ==
  ASSUME NEW l, NEW i, NEW x
  PROVE  /\ Old(l, i, x).exec = x /\ Old(l, i, x).run = LegacyRun[l]
         /\ Old(l, i, x).trace = l /\ Old(l, i, x).seq = i /\ Old(l, i, x).at = 0
         /\ Old(l, i, x).what \in {"asked", "finished"}
BY DEF Old

\* The third schema's identities keep the legacy traces apart.
LEMMA MigratedIsSound ==
  ASSUME NEW lg, NEW a, NEW tl
  PROVE  Sound({Old(p[1], p[2], <<"legacy", p[1]>>) : p \in OldEvents}, lg, a, tl)
<1> DEFINE S == {Old(p[1], p[2], <<"legacy", p[1]>>) : p \in OldEvents}
<1>1. IsFiniteSet(S)
  <2> DEFINE f == [p \in OldEvents |-> Old(p[1], p[2], <<"legacy", p[1]>>)]
  <2>1. S = {f[p] : p \in OldEvents}
    OBVIOUS
  <2>2. IsFiniteSet(OldEvents)
    BY OldEventsArePairs
  <2> HIDE DEF f, S
  <2> QED BY <2>1, <2>2, ImageFinite
<1>2. ASSUME NEW r \in S, NEW i \in 1..r.seq
      PROVE  \E s \in S : s.exec = r.exec /\ s.seq = i
  <2>1. PICK p \in OldEvents : r = Old(p[1], p[2], <<"legacy", p[1]>>)
    OBVIOUS
  <2>2. r.exec = <<"legacy", p[1]>> /\ r.seq = p[2]
    BY <2>1, OldFields
  <2>3. <<p[1], i>> \in OldEvents
    BY <2>2, OldEventsArePairs
  <2>4. Old(p[1], i, <<"legacy", p[1]>>) \in S
    BY <2>3
  <2>5. /\ Old(p[1], i, <<"legacy", p[1]>>).exec = <<"legacy", p[1]>>
        /\ Old(p[1], i, <<"legacy", p[1]>>).seq = i
    BY OldFields
  <2> QED BY <2>2, <2>4, <2>5
<1>3. \A r, s \in S : r.exec = s.exec => r.run = s.run /\ (r.seq = s.seq => r = s)
  BY DEF Old
<1> QED BY <1>1, <1>2, <1>3 DEF Sound

-----------------------------------------------------------------------------
(* Appending to a table *)

LEMMA LastSeqIs ==
  ASSUME NEW S, NEW lg, NEW a, NEW tl, Sound(S, lg, a, tl),
         \A e \in Execs : Len(lg[e]) \in Nat, NEW e \in Execs
  PROVE  /\ LastSeq(S, e) \in Nat
         /\ \A i \in 1..LastSeq(S, e) : \E s \in S : s.exec = e /\ s.seq = i
<1> DEFINE N == {r.seq : r \in Of(S, e)} \union {0}
<1>1. \E b \in Nat : \A r \in Of(S, e) : r.seq \in 1..b
  <2>1. CASE e \in Stored(S)
    BY <2>1, OwnRows
  <2>2. CASE e \notin Stored(S)
    <3>1. Of(S, e) = {}
      BY <2>2 DEF Stored, Of
    <3> QED BY <3>1
  <2> QED BY <2>1, <2>2
<1>2. PICK b \in Nat : \A r \in Of(S, e) : r.seq \in 1..b
  BY <1>1
<1>3. N \in SUBSET (0..b) /\ N # {}
  BY <1>2
<1> DEFINE m == LastSeq(S, e)
<1>4. m \in N
  <2>1. Max(N) \in N
    BY <1>3, MaxOf
  <2> QED BY <2>1 DEF LastSeq
<1>5. m \in Nat
  BY <1>3, <1>4
<1>6. ASSUME NEW i \in 1..m PROVE \E s \in S : s.exec = e /\ s.seq = i
  <2>1. m # 0
    BY <1>5, <1>6
  <2>2. PICK r \in Of(S, e) : r.seq = m
    BY <1>4, <2>1
  <2>3. r \in S /\ r.exec = e /\ i \in 1..r.seq
    BY <2>2 DEF Of
  <2> QED BY <2>3 DEF Sound
<1> QED BY <1>5, <1>6

\* What append_prepared accepts has a new number, the next of its execution,
\* and belongs to the run of the rows there are.
LEMMA Accepted ==
  ASSUME NEW S, NEW r, Verdict(S, r) = "inserted"
  PROVE  /\ \A x \in S : x.exec = r.exec => x.run = r.run /\ x.seq # r.seq
         /\ r.seq = LastSeq(S, r.exec) + 1
<1>1. ~ \E x \in Of(S, r.exec) : x.run # r.run
  BY Zenon DEF Verdict
<1>2. \A x \in Of(S, r.exec) : x.seq # r.seq
  BY <1>1, Zenon DEF Verdict
<1>3. r.seq = LastSeq(S, r.exec) + 1
  BY <1>1, <1>2, Zenon DEF Verdict
<1> QED BY <1>1, <1>2, <1>3 DEF Of

LEMMA InsertedIsSound ==
  ASSUME NEW S, NEW lg, NEW a, NEW tl, Sound(S, lg, a, tl),
         \A e \in Execs : Len(lg[e]) \in Nat,
         NEW r, True(r, lg, a, tl), Verdict(S, r) = "inserted"
  PROVE  Sound(S \union {r}, lg, a, tl)
<1>1. r.exec \in Execs /\ r.seq \in Nat \ {0}
  BY DEF True
<1>2. /\ \A x \in S : x.exec = r.exec => x.run = r.run /\ x.seq # r.seq
      /\ r.seq = LastSeq(S, r.exec) + 1
  BY Accepted
<1>3. IsFiniteSet(S \union {r})
  BY FS_AddElement DEF Sound
<1>4. \A x \in S \union {r} : \/ True(x, lg, a, tl)
                              \/ \E p \in OldEvents : x = Old(p[1], p[2], <<"legacy", p[1]>>)
  BY DEF Sound
<1>5. \A x \in S : \A i \in 1..x.seq : \E s \in S \union {r} : s.exec = x.exec /\ s.seq = i
  BY DEF Sound
<1>6. \A i \in 1..r.seq : \E s \in S \union {r} : s.exec = r.exec /\ s.seq = i
  <2>1. SUFFICES ASSUME NEW i \in 1..r.seq, i # r.seq
                 PROVE  \E s \in S : s.exec = r.exec /\ s.seq = i
    OBVIOUS
  <2> DEFINE m == LastSeq(S, r.exec)
  <2>2. m \in Nat /\ \A j \in 1..m : \E s \in S : s.exec = r.exec /\ s.seq = j
    BY <1>1, LastSeqIs
  <2>3. i \in 1..m
    <3>1. r.seq = m + 1 /\ m \in Nat
      BY <1>2, <2>2
    <3> HIDE DEF m
    <3> QED BY <2>1, <3>1
  <2> QED BY <2>2, <2>3
<1>7. \A x, s \in S \union {r} : x.exec = s.exec => x.run = s.run /\ (x.seq = s.seq => x = s)
  BY <1>2 DEF Sound
<1> QED BY <1>3, <1>4, <1>5, <1>6, <1>7 DEF Sound

\* One event of a transaction.
LEMMA StepKeeps ==
  ASSUME NEW tx, NEW lg, NEW a, NEW tl, NEW R, tx \in [verdict : {"ok"} \union Failed, rows : R],
         Sound(tx.rows, lg, a, tl), \A e \in Execs : Len(lg[e]) \in Nat,
         NEW r, True(r, lg, a, tl)
  PROVE  /\ Step(tx, r).verdict \in {"ok"} \union Failed
         /\ Step(tx, r) = [verdict |-> Step(tx, r).verdict, rows |-> Step(tx, r).rows]
         /\ Sound(Step(tx, r).rows, lg, a, tl)
         /\ Step(tx, r).rows \in {tx.rows, tx.rows \union {r}}
<1> DEFINE v == Verdict(tx.rows, r)
<1>0. tx = [verdict |-> tx.verdict, rows |-> tx.rows] /\ tx.verdict \in {"ok"} \union Failed
  OBVIOUS
<1>1. CASE tx.verdict \in Failed \/ v = "duplicate"
  <2>1. Step(tx, r) = tx
    BY <1>1, Zenon DEF Step
  <2> QED BY <1>0, <2>1
<1>2. CASE tx.verdict \notin Failed /\ v \in Failed
  <2>1. v # "duplicate"
    BY <1>2 DEF Failed
  <2>2. Step(tx, r) = [tx EXCEPT !.verdict = v]
    BY <1>2, <2>1, Zenon DEF Step
  <2>3. Step(tx, r).verdict = v /\ Step(tx, r).rows = tx.rows
        /\ Step(tx, r) = [verdict |-> v, rows |-> tx.rows]
    BY <2>2, <1>0
  <2> QED BY <1>2, <2>3
<1>3. CASE tx.verdict \notin Failed /\ v \notin Failed /\ v # "duplicate"
  <2> DEFINE kept == {x \in tx.rows : x.exec # r.exec \/ x.seq # r.seq}
  <2>1. v = "inserted"
    BY <1>3, Zenon DEF Verdict, Failed
  <2>2. Step(tx, r) = [tx EXCEPT !.rows = kept \union {r}]
    BY <1>3, Zenon DEF Step
  <2>3. kept = tx.rows
    BY <2>1, Accepted
  <2>4. Sound(tx.rows \union {r}, lg, a, tl)
    BY <2>1, InsertedIsSound
  <2> HIDE DEF kept, v
  <2>5. Step(tx, r) = [verdict |-> tx.verdict, rows |-> tx.rows \union {r}]
    BY <1>0, <2>2, <2>3
  <2> QED BY <1>0, <2>4, <2>5
<1> QED BY <1>1, <1>2, <1>3

\* append_batch leaves a sound table sound, whatever events of live runs it is
\* given and in whatever order, and takes no row away.
LEMMA BatchIsSound ==
  ASSUME NEW S, NEW lg, NEW a, NEW tl, Sound(S, lg, a, tl),
         \A e \in Execs : Len(lg[e]) \in Nat,
         NEW n \in Nat, NEW batch, DOMAIN batch = 1..n,
         \A i \in 1..n : True(batch[i], lg, a, tl)
  PROVE  /\ Batch(S, batch).verdict \in {"ok"} \union Failed
         /\ Sound(Batch(S, batch).rows, lg, a, tl)
         /\ S \subseteq Batch(S, batch).rows
         /\ Batch(S, batch).rows \subseteq S \union {batch[i] : i \in 1..n}
<1> DEFINE U == S \union {batch[i] : i \in 1..n}
           R == {T \in SUBSET U : S \subseteq T /\ Sound(T, lg, a, tl)}
           Q == [verdict : {"ok"} \union Failed, rows : R]
           tx == BatchPiecemeal(S, batch)
<1>1. S \in R
  OBVIOUS
<1>2. [verdict |-> "ok", rows |-> S] \in Q
  BY <1>1
<1>3. \A t \in Q, i \in 1..n : Step(t, batch[i]) \in Q
  <2>1. SUFFICES ASSUME NEW t \in Q, NEW i \in 1..n PROVE Step(t, batch[i]) \in Q
    OBVIOUS
  <2> DEFINE u == Step(t, batch[i])
  <2>2. t \in [verdict : {"ok"} \union Failed, rows : R] /\ t.rows \in R
    OBVIOUS
  <2>3. /\ u.verdict \in {"ok"} \union Failed
        /\ u = [verdict |-> u.verdict, rows |-> u.rows]
        /\ Sound(u.rows, lg, a, tl)
        /\ u.rows \in {t.rows, t.rows \union {batch[i]}}
    BY <2>2, StepKeeps
  <2> HIDE DEF u
  <2>4. u.rows \in R
    BY <2>2, <2>3
  <2> HIDE DEF R
  <2>5. u \in Q
    BY <2>3, <2>4
  <2> QED BY <2>5 DEF u
<1>4. tx \in Q
  <2> HIDE DEF Q
  <2> QED BY <1>2, <1>3, BatchKeeps
<1> HIDE DEF tx
<1>5. tx.verdict \in {"ok"} \union Failed /\ tx.rows \in R
  BY <1>4
<1>6. Batch(S, batch) = IF tx.verdict \in Failed THEN [tx EXCEPT !.rows = S] ELSE tx
  BY Zenon DEF Batch, tx
<1>7. Batch(S, batch).verdict = tx.verdict /\ Batch(S, batch).rows \in R
  BY <1>1, <1>4, <1>5, <1>6
<1> QED BY <1>5, <1>7

-----------------------------------------------------------------------------
(* The steps of the store: health *)

\* An append that was refused is one more uncounted failure.
LEMMA ReportedKeeps ==
  ASSUME HealthInv, NEW w \in Writers, report[w] = "none", NEW v, Reported(w, v)
  PROVE  HealthInv'
<1>1. report' \in [Writers -> {"none", "ok", "failed", "counted"}]
  BY DEF HealthInv, Reported
<1>2. w \notin Uncounted
  BY DEF Uncounted
<1>3. CASE v \in Failed
  <2>1. Uncounted' = Uncounted \union {w}
    BY <1>3 DEF Uncounted, Reported, HealthInv
  <2>2. /\ IsFiniteSet(Uncounted \union {w})
        /\ Cardinality(Uncounted \union {w}) = Cardinality(Uncounted) + 1
    BY <1>2, FS_AddElement DEF HealthInv
  <2>3. IsFiniteSet(Uncounted') /\ Cardinality(Uncounted') = Cardinality(Uncounted) + 1
    BY <2>1, <2>2
  <2>4. Cardinality(Uncounted) \in Nat
    BY FS_CardinalityType DEF HealthInv
  <2>5. refused' = refused + 1 /\ failures' = failures
    BY <1>3 DEF Reported
  <2> QED BY <1>1, <2>3, <2>4, <2>5 DEF HealthInv
<1>4. CASE v \notin Failed
  <2>1. Uncounted' = Uncounted
    BY <1>2, <1>4 DEF Uncounted, Reported, HealthInv
  <2>2. refused' = refused /\ failures' = failures
    BY <1>4 DEF Reported
  <2> QED BY <1>1, <2>1, <2>2 DEF HealthInv
<1> QED BY <1>3, <1>4

LEMMA CountFailureKeeps ==
  ASSUME HealthInv, NEW w \in Writers, CountFailure(w)
  PROVE  HealthInv'
<1>1. report' \in [Writers -> {"none", "ok", "failed", "counted"}]
  BY DEF HealthInv, CountFailure
<1>2. w \in Uncounted /\ Uncounted' = Uncounted \ {w}
  BY DEF Uncounted, CountFailure, HealthInv
<1>3. /\ IsFiniteSet(Uncounted \ {w})
      /\ Cardinality(Uncounted \ {w}) = Cardinality(Uncounted) - 1
  BY <1>2, FS_RemoveElement DEF HealthInv
<1>4. IsFiniteSet(Uncounted') /\ Cardinality(Uncounted') = Cardinality(Uncounted) - 1
  BY <1>2, <1>3
<1>5. Cardinality(Uncounted) \in Nat
  BY FS_CardinalityType DEF HealthInv
<1>6. failures' = failures + 1 /\ refused' = refused
  BY DEF CountFailure
<1> QED BY <1>1, <1>4, <1>5, <1>6 DEF HealthInv

LEMMA RecordedKeeps ==
  ASSUME HealthInv, NEW w \in Writers, RecordSuccess(w) \/ MarkUnhealthy(w)
  PROVE  HealthInv'
<1>1. report' = [report EXCEPT ![w] = "none"] /\ report[w] # "failed"
      /\ UNCHANGED <<failures, refused>>
  BY DEF RecordSuccess, MarkUnhealthy
<1>2. report' \in [Writers -> {"none", "ok", "failed", "counted"}]
  BY <1>1 DEF HealthInv
<1>3. Uncounted' = Uncounted
  BY <1>1 DEF Uncounted, HealthInv
<1> QED BY <1>1, <1>2, <1>3 DEF HealthInv

-----------------------------------------------------------------------------
(* The steps of the store: tables, schemas and queries *)

LEMMA LogLengths ==
  ASSUME LogInv
  PROVE  \A e \in Execs : log[e] \in Seq(Event) /\ Len(log[e]) \in Nat
BY DEF LogInv

\* What a step of the store that neither emits nor changes the runs preserves
\* of the log.
LEMMA SameLog ==
  ASSUME LogInv, UNCHANGED <<log, named, at, told>>
  PROVE  LogInv'
BY DEF LogInv

LEMMA ReadVersionKeeps ==
  ASSUME StoreInv, NEW p \in Openers, ReadVersion(p), UNCHANGED <<approvals, at>>
  PROVE  StoreInv'
<1>1. UNCHANGED <<version, rows, log, report, failures, refused, console, file, named, told, at>>
  BY DEF ReadVersion, approvals, health
<1>2. /\ opener' \in [Openers -> {"closed", "at1", "at2", "open", "failed"}]
      /\ \A q \in Openers : opener'[q] = "open" => version = 3
  <2> DEFINE next == CASE version = 1 -> "at1" [] version = 2 -> "at2" [] version = 3 -> "open"
  <2>1. opener' = [opener EXCEPT ![p] = next]
    BY Zenon DEF ReadVersion
  <2>2. version \in 1..3
    BY DEF StoreInv, SchemaInv
  <2>3. next \in {"at1", "at2", "open"} /\ (next = "open" => version = 3)
    <3>1. CASE version = 1
      BY <3>1
    <3>2. CASE version = 2
      BY <3>2
    <3>3. CASE version = 3
      BY <3>3
    <3> QED BY <2>2, <3>1, <3>2, <3>3
  <2> HIDE DEF next
  <2> QED BY <2>1, <2>3 DEF StoreInv, SchemaInv, Open
<1>3. SchemaInv'
  BY <1>1, <1>2 DEF StoreInv, SchemaInv, Open
<1>4. LogInv' /\ ExportsArePrefixes' /\ HealthInv'
  BY <1>1 DEF StoreInv, LogInv, ExportsArePrefixes, HealthInv, Uncounted
<1>5. RowsInv'
  BY <1>1 DEF StoreInv, RowsInv
<1> QED BY <1>3, <1>4, <1>5 DEF StoreInv

\* A phase of the migration: its table is that of the next schema.
LEMMA MigrateKeeps ==
  ASSUME StoreInv, NEW p \in Openers, NEW target \in {2, 3}, NEW table,
         NEW next \in {"at2", "open"}, next = "open" <=> target = 3,
         Migrate(p, target, table, next), UNCHANGED <<approvals, at>>,
         target = 2 /\ version = 1 =>
           table = {Old(q[1], q[2], <<"colon", ColonId[q[1]]>>) : q \in OldEvents},
         target = 3 /\ version = 2 => table = {Old(q[1], q[2], <<"legacy", q[1]>>) : q \in OldEvents},
         opener[p] # "open"
  PROVE  StoreInv'
<1>1. UNCHANGED <<log, report, failures, refused, console, file, named, told, at>>
  BY DEF Migrate, approvals, health
<1>2. LogInv' /\ ExportsArePrefixes' /\ HealthInv'
  BY <1>1 DEF StoreInv, LogInv, ExportsArePrefixes, HealthInv, Uncounted
<1>3. CASE /\ version = target - 1 /\ version' = target /\ rows' = table
           /\ opener' = [opener EXCEPT ![p] = next]
  <2>1. \A q \in Openers : opener[q] # "open"
    BY <1>3 DEF StoreInv, SchemaInv, Open
  <2>2. version' \in 1..3 /\ (next = "open" => version' = 3)
    BY <1>3
  <2>3. \A t \in Tasks : at[t] \in {"new", "done"}
    BY <1>3 DEF StoreInv, SchemaInv
  <2>4. console.pc = "idle"
    BY <1>3 DEF StoreInv, SchemaInv
  <2>5. SchemaInv'
    BY <1>1, <1>3, <2>1, <2>2, <2>3, <2>4 DEF StoreInv, SchemaInv, Open
  <2>6. CASE target = 2
    <3>1. version' = 2 /\ rows' = {Old(q[1], q[2], <<"colon", ColonId[q[1]]>>) : q \in OldEvents}
      BY <1>3, <2>6
    <3> QED BY <1>2, <2>5, <3>1 DEF RowsInv, StoreInv
  <2>7. CASE target = 3
    <3>1. version' = 3 /\ rows' = {Old(q[1], q[2], <<"legacy", q[1]>>) : q \in OldEvents}
      BY <1>3, <2>7
    <3>2. Sound(rows', log', at', told')
      BY <3>1, MigratedIsSound
    <3>3. RowsInv'
      BY <3>1, <3>2 DEF RowsInv
    <3> QED BY <1>2, <2>5, <3>3 DEF StoreInv
  <2> QED BY <2>6, <2>7
<1>4. CASE opener' = [opener EXCEPT ![p] = "failed"] /\ UNCHANGED <<version, rows>>
  <2>1. SchemaInv'
    BY <1>1, <1>4 DEF StoreInv, SchemaInv, Open
  <2>2. RowsInv'
    BY <1>1, <1>4 DEF StoreInv, RowsInv
  <2> QED BY <1>2, <2>1, <2>2 DEF StoreInv
<1> QED BY <1>3, <1>4 DEF Migrate

LEMMA MigrateToTwoKeeps ==
  ASSUME StoreInv, NEW p \in Openers, MigrateToTwo(p), UNCHANGED <<approvals, at>>
  PROVE  StoreInv'
<1> DEFINE Joined(r) == [r EXCEPT !.exec = ColonOf(r)]
           Found(q) == Old(q[1], q[2], NoId)
           Next2(q) == Old(q[1], q[2], <<"colon", ColonId[q[1]]>>)
           table == {Joined(r) : r \in rows}
<1>1. version = 1 => table = {Next2(q) : q \in OldEvents}
  <2>1. version = 1 => rows = {Found(q) : q \in OldEvents}
    BY DEF StoreInv, RowsInv
  <2>2. \A q \in OldEvents : Joined(Found(q)) = Next2(q)
    BY DEF Old, ColonOf
  <2> HIDE DEF Joined, Found, Next2
  <2> QED BY <2>1, <2>2
<1>2. opener[p] = "at1" /\ Migrate(p, 2, table, "at2")
  BY DEF MigrateToTwo
<1> HIDE DEF table
<1> QED BY <1>1, <1>2, MigrateKeeps

LEMMA MigrateToThreeKeeps ==
  ASSUME StoreInv, NEW p \in Openers, MigrateToThree(p), UNCHANGED <<approvals, at>>
  PROVE  StoreInv'
<1> DEFINE Prefixed(r) == [r EXCEPT !.exec = PrefixedOf(r)]
           Joined(q) == Old(q[1], q[2], <<"colon", ColonId[q[1]]>>)
           Next3(q) == Old(q[1], q[2], <<"legacy", q[1]>>)
           table == {Prefixed(r) : r \in rows}
<1>1. version = 2 => table = {Next3(q) : q \in OldEvents}
  <2>1. version = 2 => rows = {Joined(q) : q \in OldEvents}
    BY DEF StoreInv, RowsInv
  <2>2. \A q \in OldEvents : PrefixedOf(Joined(q)) = <<"legacy", q[1]>>
    BY OldEventsArePairs DEF Old, ColonOf, PrefixedOf
  <2>3. \A q \in OldEvents : Prefixed(Joined(q)) = Next3(q)
    BY <2>2 DEF Old
  <2> HIDE DEF Prefixed, Joined, Next3
  <2> QED BY <2>1, <2>3
<1>2. opener[p] = "at2" /\ Migrate(p, 3, table, "open")
  BY DEF MigrateToThree
<1> HIDE DEF table
<1> QED BY <1>1, <1>2, MigrateKeeps

\* Rows go by whole executions, or a query reads them.
LEMMA RowsGoWhole ==
  ASSUME StoreInv, version = 3, NEW gone, rows' = Without(rows, gone) \/ rows' = rows,
         UNCHANGED <<approvals, at, version, opener, log, health>>,
         console' \in [pc : {"idle", "found", "counted"}, op : {"export", "delete"},
                       exec : {console'.exec}],
         ExportsArePrefixes'
  PROVE  StoreInv'
<1>1. UNCHANGED <<log, report, failures, refused, named, told, at>>
  BY DEF approvals, health
<1>2. LogInv' /\ HealthInv'
  BY <1>1 DEF StoreInv, LogInv, HealthInv, Uncounted
<1>3. SchemaInv'
  BY <1>1 DEF StoreInv, SchemaInv, Open
<1>4. Sound(rows', log, at, told)
  BY SoundWithout DEF StoreInv, RowsInv
<1>5. RowsInv'
  BY <1>1, <1>4 DEF RowsInv
<1> QED BY <1>2, <1>3, <1>5 DEF StoreInv

LEMMA ApplyRetentionKeeps ==
  ASSUME StoreInv, ApplyRetention, UNCHANGED <<approvals, at>>
  PROVE  StoreInv'
<1>1. PICK gone : rows' = Without(rows, gone)
  BY DEF ApplyRetention
<1>2. version = 3
  BY StoreAssumption DEF ApplyRetention, StoreInv, SchemaInv
<1>3. UNCHANGED <<console, file, version, opener, log, health>>
  BY DEF ApplyRetention
<1>4. ExportsArePrefixes'
  BY <1>3 DEF StoreInv, ExportsArePrefixes
<1>5. console' \in [pc : {"idle", "found", "counted"}, op : {"export", "delete"},
                    exec : {console'.exec}]
  BY <1>3 DEF StoreInv, SchemaInv
<1> QED BY <1>1, <1>2, <1>3, <1>4, <1>5, RowsGoWhole

LEMMA ResolveKeeps ==
  ASSUME StoreInv, NEW run \in Runs, NEW op \in {"export", "delete"}, Resolve(run, op),
         UNCHANGED <<approvals, at>>
  PROVE  StoreInv'
<1>1. version = 3 /\ UNCHANGED <<rows, file, version, opener, log, health>>
  BY DEF Resolve, Readable
<1>2. ExportsArePrefixes'
  BY <1>1 DEF StoreInv, ExportsArePrefixes
<1>3. console' = Idle \/ \E x : console' = [pc |-> "found", op |-> op, exec |-> x]
  BY DEF Resolve
<1>4. console' \in [pc : {"idle", "found", "counted"}, op : {"export", "delete"},
                    exec : {console'.exec}]
  BY <1>3 DEF Idle
<1> QED BY <1>1, <1>2, <1>4, RowsGoWhole

LEMMA CountEventsKeeps ==
  ASSUME StoreInv, CountEvents, UNCHANGED <<approvals, at>>
  PROVE  StoreInv'
<1>1. UNCHANGED <<rows, file, version, opener, log, health>>
  BY DEF CountEvents
<1>2. version = 3
  BY DEF CountEvents, StoreInv, SchemaInv
<1>3. ExportsArePrefixes'
  BY <1>1 DEF StoreInv, ExportsArePrefixes
<1>4. console' \in {Idle, [console EXCEPT !.pc = "counted"]}
  BY DEF CountEvents
<1>5. console' \in [pc : {"idle", "found", "counted"}, op : {"export", "delete"},
                    exec : {console'.exec}]
  BY <1>4 DEF Idle, StoreInv, SchemaInv
<1> QED BY <1>1, <1>2, <1>3, <1>5, RowsGoWhole

\* The first MaxQuery rows of a whole trace are a prefix of it.
LEMMA ReadEventsKeeps ==
  ASSUME StoreInv, ReadEvents, UNCHANGED <<approvals, at>>
  PROVE  StoreInv'
<1>1. UNCHANGED <<rows, version, opener, log, health>> /\ console' = Idle
  BY DEF ReadEvents
<1>2. version = 3
  BY DEF ReadEvents, StoreInv, SchemaInv
<1> DEFINE x == console.exec
           T == {r \in Of(rows, x) : r.seq <= MaxQuery}
<1>3. file' = T
  BY DEF ReadEvents
<1>4. Sound(rows, log, at, told) /\ \A e \in Execs : Len(log[e]) \in Nat
  BY <1>2, LogLengths DEF StoreInv, RowsInv
<1>5. ExportsArePrefixes'
  <2>1. CASE T = {}
    <3>1. file' = {} /\ Cardinality({}) = 0
      BY <1>3, <2>1, FS_EmptySet
    <3>2. Cardinality(file') = 0
      BY <3>1
    <3> QED BY <3>1, <3>2 DEF ExportsArePrefixes
  <2>2. CASE T # {}
    <3>1. x \in Stored(rows)
      BY <2>2 DEF Stored, Of
    <3>2. PICK b \in Nat : \A r \in Of(rows, x) : r.seq \in 1..b
      BY <1>4, <3>1, OwnRows
    <3>3. \A r \in T : r \in rows /\ r.exec = x /\ r.seq \in 1..b /\ r.seq <= MaxQuery
      BY <3>2 DEF Of
    <3>4. \A r, s \in T : r.run = s.run /\ (r.seq = s.seq => r = s)
      BY <1>4, <3>3 DEF Sound
    <3>5. ASSUME NEW r \in T, NEW i \in 1..r.seq PROVE \E s \in T : s.seq = i
      <4>1. PICK s \in rows : s.exec = x /\ s.seq = i
        BY <1>4, <3>3 DEF Sound
      <4>2. i <= MaxQuery
        BY <3>3, StoreAssumption
      <4> QED BY <4>1, <4>2 DEF Of
    <3>6. {r.seq : r \in T} = 1..Cardinality(T)
      <4> HIDE DEF T
      <4> QED BY <3>3, <3>4, <3>5, PrefixCount
    <3>7. \A r, s \in T : r.exec = s.exec /\ r.run = s.run
      BY <3>3, <3>4
    <3> HIDE DEF T
    <3> QED BY <1>3, <3>6, <3>7 DEF ExportsArePrefixes
  <2> QED BY <2>1, <2>2
<1>6. console' \in [pc : {"idle", "found", "counted"}, op : {"export", "delete"},
                    exec : {console'.exec}]
  BY <1>1 DEF Idle
<1> QED BY <1>1, <1>2, <1>5, <1>6, RowsGoWhole

LEMMA DeleteEventsKeeps ==
  ASSUME StoreInv, DeleteEvents, UNCHANGED <<approvals, at>>
  PROVE  StoreInv'
<1>1. /\ rows' = Without(rows, {console.exec}) /\ console' = Idle
      /\ UNCHANGED <<file, version, opener, log, health>>
  BY DEF DeleteEvents
<1>2. version = 3
  BY DEF DeleteEvents, StoreInv, SchemaInv
<1>3. ExportsArePrefixes'
  BY <1>1 DEF StoreInv, ExportsArePrefixes
<1>4. console' \in [pc : {"idle", "found", "counted"}, op : {"export", "delete"},
                    exec : {console'.exec}]
  BY <1>1 DEF Idle
<1> QED BY <1>1, <1>2, <1>3, <1>4, RowsGoWhole

-----------------------------------------------------------------------------
(* The steps of the store: recording, and appending *)

LEMMA RecordingKeeps ==
  ASSUME StoreInv, NEW w \in Writers, RecordSuccess(w) \/ CountFailure(w) \/ MarkUnhealthy(w),
         UNCHANGED <<approvals, at>>
  PROVE  StoreInv'
<1>1. UNCHANGED <<version, opener, rows, log, console, file, named, told, at>>
  BY DEF RecordSuccess, CountFailure, MarkUnhealthy, approvals
<1>2. HealthInv'
  BY RecordedKeeps, CountFailureKeeps DEF StoreInv
<1>3. SchemaInv' /\ LogInv' /\ ExportsArePrefixes'
  BY <1>1 DEF StoreInv, SchemaInv, LogInv, ExportsArePrefixes, Open
<1>4. RowsInv'
  BY <1>1 DEF StoreInv, RowsInv
<1> QED BY <1>2, <1>3, <1>4 DEF StoreInv

\* An event that was altered, or comes under another run, is still one of its
\* execution's, and says no more than it did.
LEMMA TwistedIsTrue ==
  ASSUME LogInv, NEW e \in Execs, NEW k \in 1..Len(log[e]),
         NEW twist \in {"same", "altered", "foreign"}
  PROVE  True(Twisted(log[e][k], twist), log, at, told)
<1> DEFINE v == log[e][k]
           w == Twisted(v, twist)
<1>1. v \in Event
  BY DEF LogInv
<1>2. True(v, log, at, told)
  BY DEF LogInv
<1>3. \/ w = v \/ w = [v EXCEPT !.what = "altered"]
      \/ w = [v EXCEPT !.run = CHOOSE run \in Runs : run # v.run]
  BY Zenon DEF Twisted
<1>4. /\ w.exec = v.exec /\ w.trace = v.trace /\ w.seq = v.seq /\ w.at = v.at
      /\ w.what \in {v.what, "altered"}
      /\ w.run \in {v.run, CHOOSE run \in Runs : run # v.run}
  <2> DEFINE other == CHOOSE run \in Runs : run # v.run
  <2> HIDE DEF v, w, other
  <2> QED BY <1>1, <1>3 DEF Event, other
<1>6. w.run \in Runs
  <2>1. v.run \in Runs
    BY <1>2 DEF True
  <2>2. \E run \in Runs : run # v.run
    BY <2>1, StoreAssumption
  <2>3. (CHOOSE run \in Runs : run # v.run) \in Runs
    BY <2>2
  <2> QED BY <1>4, <2>1, <2>3
<1> HIDE DEF v, w
<1>5. True(w, log, at, told)
  BY <1>2, <1>4, <1>6 DEF True
<1> QED BY <1>5 DEF w, v

LEMMA ImportKeeps ==
  ASSUME StoreInv, NEW e \in Execs, NEW k \in 1..Len(log[e]),
         NEW twist \in {"same", "altered", "foreign"}, Import(e, k, twist),
         UNCHANGED <<approvals, at>>
  PROVE  StoreInv' /\ rows \subseteq rows' /\ version = 3
<1>1. UNCHANGED <<version, opener, log, console, file, named, told, at>>
  BY DEF Import, approvals
<1>2. version = 3
  BY StoreAssumption DEF Import, StoreInv, SchemaInv
<1> DEFINE batch == [i \in 1..k |-> IF i < k THEN log[e][i] ELSE Twisted(log[e][k], twist)]
<1>3. rows' = Batch(rows, batch).rows /\ Reported("import", Batch(rows, batch).verdict)
  BY DEF Import
<1>4. k \in Nat /\ Len(log[e]) \in Nat
  BY LogLengths DEF StoreInv
<1>5. \A i \in 1..k : True(batch[i], log, at, told)
  <2>1. SUFFICES ASSUME NEW i \in 1..k PROVE True(batch[i], log, at, told)
    OBVIOUS
  <2>2. CASE i < k
    <3>1. i \in 1..Len(log[e])
      BY <1>4
    <3> QED BY <2>2, <3>1 DEF StoreInv, LogInv
  <2>3. CASE ~(i < k)
    <3>1. batch[i] = Twisted(log[e][k], twist)
      BY <2>3
    <3> HIDE DEF batch
    <3> QED BY <3>1, TwistedIsTrue DEF StoreInv
  <2> QED BY <2>2, <2>3
<1>6. DOMAIN batch = 1..k
  OBVIOUS
<1>7. Sound(rows, log, at, told) /\ \A x \in Execs : Len(log[x]) \in Nat
  BY <1>2, LogLengths DEF StoreInv, RowsInv
<1> HIDE DEF batch
<1>8. Sound(rows', log, at, told) /\ rows \subseteq rows'
  BY <1>3, <1>4, <1>5, <1>6, <1>7, BatchIsSound
<1>9. RowsInv'
  BY <1>1, <1>2, <1>8 DEF RowsInv
<1>10. HealthInv'
  <2>1. "import" \in Writers /\ report["import"] = "none"
    BY DEF Import, Writers
  <2> QED BY <1>3, <2>1, ReportedKeeps DEF StoreInv
<1>11. SchemaInv' /\ LogInv' /\ ExportsArePrefixes'
  BY <1>1 DEF StoreInv, SchemaInv, LogInv, ExportsArePrefixes, Open
<1> QED BY <1>2, <1>8, <1>9, <1>10, <1>11 DEF StoreInv

\* What a run may do between two of its events.
LEMMA QuietKeeps ==
  ASSUME StoreInv, UNCHANGED store, told \subseteq told', at' \in [Tasks -> Places],
         \A t \in Tasks : /\ at[t] \in Over => at'[t] \in Over
                          /\ at'[t] = "new" => at[t] = "new"
                          /\ log[t] # << >> => named'[t] = named[t]
                          /\ at'[t] \notin {"new", "done"} => version = 3 /\ named'[t] \in Names
  PROVE  StoreInv'
<1>1. UNCHANGED <<version, opener, rows, log, report, failures, refused, console, file>>
  BY DEF store, health
<1>2. ExportsArePrefixes' /\ HealthInv'
  BY <1>1 DEF StoreInv, ExportsArePrefixes, HealthInv, Uncounted
<1>3. SchemaInv'
  BY <1>1 DEF StoreInv, SchemaInv, Open
<1>4. /\ \A e \in Execs : Len(log[e]) \in Nat /\ log[e] \in Seq(Event)
      /\ \A e \in Execs : at[e] \in Over => at'[e] \in Over
  BY LogLengths, SceneAssumption DEF StoreInv
<1>5. \A r : True(r, log, at, told) => True(r, log, at', told')
  BY <1>4, TrueGrows
<1>6. LogInv'
  <2>1. \A e \in Execs : at'[e] = "new" => log[e] = << >>
    BY SceneAssumption DEF StoreInv, LogInv
  <2>2. ASSUME NEW e \in Execs, NEW i \in 1..Len(log[e])
        PROVE  /\ log[e][i].exec = e /\ log[e][i].run = named'[e] /\ log[e][i].seq = i
               /\ True(log[e][i], log, at', told')
    <3>1. log[e] # << >>
      BY <1>4, <2>2
    <3>2. named'[e] = named[e]
      BY <3>1, SceneAssumption
    <3>3. True(log[e][i], log, at', told')
      BY <1>5 DEF StoreInv, LogInv
    <3> QED BY <3>2, <3>3 DEF StoreInv, LogInv
  <2> QED BY <1>1, <2>1, <2>2 DEF StoreInv, LogInv
<1>7. RowsInv'
  <2>1. version = 3 => Sound(rows, log, at', told')
    BY <1>4, SoundGrows DEF StoreInv, RowsInv
  <2> QED BY <1>1, <2>1 DEF StoreInv, RowsInv
<1> QED BY <1>2, <1>3, <1>6, <1>7 DEF StoreInv

\* A run that has not come to its end records what is so, and moves on.
LEMMA RecordKeeps ==
  ASSUME StoreInv, NEW t \in Tasks, NEW from \in Places \ {"new", "ended", "done"},
         NEW to \in Places \ {"new", "done"}, Moves(t, from, to),
         NEW what \in Says, Record(t, what), UNCHANGED approvals,
         what = "finished" => to \in Over,
         what = "dispatched" => <<t, "granted">> \in told,
         what = "rejected" => <<t, "denied">> \in told
  PROVE  StoreInv' /\ (rows \subseteq rows' /\ UNCHANGED <<version, console>>)
<1>1. /\ at[t] = from /\ at' = [at EXCEPT ![t] = to] /\ at' \in [Tasks -> Places]
      /\ at'[t] = to /\ \A u \in Tasks : u # t => at'[u] = at[u]
  BY DEF Moves, StoreInv, SchemaInv
<1>2. /\ from \notin Over /\ from \notin {"new", "done"} /\ to # "new"
      /\ version = 3 /\ named[t] \in Names
  BY <1>1 DEF Over, StoreInv, SchemaInv
<1>3. UNCHANGED <<named, told>>
  BY DEF approvals
<1>4. CASE t \notin scene.kept
  <2>1. UNCHANGED store
    BY <1>4 DEF Record
  <2>2. \A u \in Tasks : /\ at[u] \in Over => at'[u] \in Over
                         /\ at'[u] = "new" => at[u] = "new"
                         /\ log[u] # << >> => named'[u] = named[u]
                         /\ at'[u] \notin {"new", "done"} => version = 3 /\ named'[u] \in Names
    BY <1>1, <1>2, <1>3 DEF StoreInv, SchemaInv
  <2>3. StoreInv'
    BY <1>1, <1>3, <2>1, <2>2, QuietKeeps
  <2> QED BY <2>1, <2>3 DEF store
<1>5. CASE t \in scene.kept
  <2>1. Emit(t, named[t], what)
    BY <1>5 DEF Record
  <2> DEFINE event(time) == [exec |-> t, run |-> named[t], trace |-> t,
                             seq |-> Len(log[t]) + 1, at |-> time, what |-> what]
  <2>2. PICK time \in {now, now + 1} \intersect 0..MaxClock :
          /\ now' = time
          /\ log' = [log EXCEPT ![t] = Append(@, event(time))]
          /\ \/ /\ LET tx == Batch(rows, <<event(time)>>)
                   IN  rows' = tx.rows /\ Reported(t, tx.verdict)
                /\ UNCHANGED budget
             \/ /\ Spend
                /\ \E fault \in {"busy", "limit"} : Reported(t, fault)
                /\ UNCHANGED rows
    BY <2>1, Zenon DEF Emit
  <2>3. /\ report[t] = "none"
        /\ UNCHANGED <<version, corrupt, opener, console, file>>
    BY <2>1 DEF Emit
  <2> DEFINE v == event(time)
             old == log[t]
  <2>4. t \in Execs /\ t \in Writers
    BY SceneAssumption DEF Writers
  <2>5. old \in Seq(Event) /\ Len(old) \in Nat
        /\ \A e \in Execs : log[e] \in Seq(Event) /\ Len(log[e]) \in Nat
    BY <2>4, LogLengths DEF StoreInv
  <2>6. v \in Event
    BY <2>4, <2>5, <1>2 DEF Event
  <2>7. /\ v.exec = t /\ v.run = named[t] /\ v.trace = t /\ v.seq = Len(old) + 1 /\ v.what = what
    OBVIOUS
  <2>8. log' = [log EXCEPT ![t] = Append(old, v)]
    BY <2>2
  <2> HIDE DEF v, old, event
  <2>9. /\ Append(old, v) \in Seq(Event) /\ Len(Append(old, v)) = Len(old) + 1
        /\ \A i \in 1..Len(old) : Append(old, v)[i] = old[i]
        /\ Append(old, v)[Len(old) + 1] = v
    BY <2>5, <2>6
  <2>10. /\ log' \in [Execs -> Seq(Event)] /\ log'[t] = Append(old, v)
         /\ \A e \in Execs : e # t => log'[e] = log[e]
    BY <2>4, <2>8, <2>9 DEF StoreInv, LogInv
  <2>11. \A e \in Execs : /\ Len(log[e]) \in Nat /\ Len(log'[e]) \in Nat
                          /\ Len(log[e]) <= Len(log'[e])
                          /\ at[e] \in Over => at'[e] \in Over /\ Len(log'[e]) = Len(log[e])
    <3>1. Len(log'[t]) = Len(old) + 1 /\ log[t] = old /\ at[t] \notin Over
      BY <1>1, <1>2, <2>9, <2>10 DEF old
    <3> QED BY <1>1, <2>4, <2>5, <2>10, <3>1, SceneAssumption
  <2>12. True(v, log', at', told)
    <3>1. v.seq \in 1..Len(log'[t]) /\ v.seq = Len(log'[t])
      BY <2>5, <2>7, <2>9, <2>10
    <3>2. v.run \in Runs /\ v.at \in 0..MaxClock
      BY <2>6, SceneAssumption DEF Event
    <3> QED BY <1>1, <2>4, <2>7, <3>1, <3>2 DEF True
  <2>13. \A r : True(r, log, at, told) => True(r, log', at', told)
    BY <2>11, TrueGrows
  <2>14. LogInv'
    <3>1. \A e \in Execs : at'[e] = "new" => log'[e] = << >>
      BY <1>1, <1>2, <2>4, <2>10, SceneAssumption DEF StoreInv, LogInv
    <3>2. ASSUME NEW e \in Execs, NEW i \in 1..Len(log'[e])
          PROVE  /\ log'[e][i].exec = e /\ log'[e][i].run = named[e] /\ log'[e][i].seq = i
                 /\ True(log'[e][i], log', at', told)
      <4>1. CASE e # t
        <5>1. log'[e] = log[e]
          BY <2>10, <4>1
        <5>2. /\ log[e][i].exec = e /\ log[e][i].run = named[e] /\ log[e][i].seq = i
              /\ True(log[e][i], log, at, told)
          BY <5>1 DEF StoreInv, LogInv
        <5> QED BY <5>1, <5>2, <2>13
      <4>2. CASE e = t /\ i = Len(old) + 1
        <5>1. log'[e][i] = v
          BY <2>9, <2>10, <4>2
        <5> QED BY <2>7, <2>12, <4>2, <5>1
      <4>3. CASE e = t /\ i # Len(old) + 1
        <5>1. i \in 1..Len(old)
          BY <2>5, <2>9, <2>10, <4>3
        <5>2. log'[e][i] = log[e][i] /\ i \in 1..Len(log[e])
          BY <2>9, <2>10, <4>3, <5>1 DEF old
        <5>3. /\ log[e][i].exec = e /\ log[e][i].run = named[e] /\ log[e][i].seq = i
              /\ True(log[e][i], log, at, told)
          BY <5>2 DEF StoreInv, LogInv
        <5> QED BY <5>2, <5>3, <2>13
      <4> QED BY <4>1, <4>2, <4>3
    <3> QED BY <1>3, <2>10, <3>1, <3>2, SMTT(20) DEF LogInv
  <2>15. Sound(rows, log', at', told)
    <3>1. Sound(rows, log, at, told)
      BY <1>2 DEF StoreInv, RowsInv
    <3> QED BY <2>11, <3>1, SoundGrows
  <2>16. Sound(rows', log', at', told) /\ rows \subseteq rows' /\ HealthInv'
    <3>1. CASE /\ rows' = Batch(rows, <<v>>).rows
               /\ Reported(t, Batch(rows, <<v>>).verdict)
      <4> DEFINE batch == <<v>>
      <4>1. DOMAIN batch = 1..1 /\ \A i \in 1..1 : batch[i] = v
        OBVIOUS
      <4> HIDE DEF batch
      <4>2. \A i \in 1..1 : True(batch[i], log', at', told)
        BY <4>1, <2>12
      <4>3. Sound(Batch(rows, batch).rows, log', at', told) /\ rows \subseteq Batch(rows, batch).rows
        BY <4>1, <4>2, <2>11, <2>15, BatchIsSound
      <4>4. rows' = Batch(rows, batch).rows
        BY <3>1 DEF batch
      <4>5. HealthInv'
        BY <2>3, <2>4, <3>1, ReportedKeeps DEF StoreInv
      <4> QED BY <4>3, <4>4, <4>5
    <3>2. CASE rows' = rows /\ \E fault \in {"busy", "limit"} : Reported(t, fault)
      <4>1. HealthInv'
        BY <2>3, <2>4, <3>2, ReportedKeeps DEF StoreInv
      <4> QED BY <2>15, <3>2, <4>1
    <3> QED BY <2>2, <3>1, <3>2 DEF v
  <2>17. RowsInv'
    BY <1>2, <1>3, <2>3, <2>16 DEF RowsInv
  <2>18. SchemaInv'
    BY <1>1, <1>2, <1>3, <2>3 DEF StoreInv, SchemaInv, Open
  <2>19. ExportsArePrefixes'
    BY <2>3 DEF StoreInv, ExportsArePrefixes
  <2> QED BY <2>3, <2>14, <2>16, <2>17, <2>18, <2>19 DEF StoreInv
<1> QED BY <1>4, <1>5

-----------------------------------------------------------------------------
(* The application *)

LEMMA InitHolds ==
  ASSUME Init
  PROVE  IInv
<1>1. scene \in Scenes /\ scene.schema \in {1, 3}
  BY SceneAssumption DEF Init
<1>2. RouterInv
  <2>1. Domains
    BY DEF Init, InitApprovals, Domains
  <2>2. SlotInv
    <3>1. pending = {} /\ IsFiniteSet({}) /\ Cardinality({}) = 0
      BY FS_EmptySet DEF Init, InitApprovals
    <3>2. IsFiniteSet(pending) /\ Cardinality(pending) = 0
      BY <3>1
    <3> QED BY <3>1, <3>2, ApprovalAssumption DEF SlotInv
  <2>3. AnswerInv
    BY DEF Init, InitApprovals, AnswerInv
  <2> QED BY <2>1, <2>2, <2>3 DEF RouterInv
<1>3. SchemaInv
  <2>1. /\ version = scene.schema /\ console = Idle
        /\ opener = [p \in Openers |-> IF version = 1 THEN "closed" ELSE "open"]
        /\ at = [t \in Tasks |-> IF t \in scene.runs THEN "new" ELSE "done"]
    BY DEF Init, InitStore
  <2>2. \A t \in Tasks : at[t] \in {"new", "done"}
    BY <2>1
  <2> QED BY <1>1, <2>1, <2>2 DEF SchemaInv, Idle, Open, Places
<1>4. LogInv
  <2>1. log = [e \in Execs |-> << >>]
    BY DEF Init, InitStore
  <2>2. << >> \in Seq(Event) /\ Len(<< >>) = 0
    OBVIOUS
  <2> QED BY <2>1, <2>2 DEF LogInv
<1>5. RowsInv
  <2>1. CASE scene.schema = 3
    <3>1. version = 3 /\ rows = {}
      BY <2>1 DEF Init, InitStore
    <3>2. Sound(rows, log, at, told)
      BY <3>1, FS_EmptySet DEF Sound
    <3> QED BY <3>1, <3>2 DEF RowsInv
  <2>2. CASE scene.schema = 1
    <3>1. version = 1
          /\ rows = UNION {{Old(l, i, NoId) : i \in 1..LegacyLen[l]} : l \in Legacy}
      BY <2>2 DEF Init, InitStore, Old
    <3>2. rows = {Old(p[1], p[2], NoId) : p \in OldEvents}
      <4> DEFINE Row(l, i) == Old(l, i, NoId)
      <4> HIDE DEF Row
      <4>1. UNION {{Row(l, i) : i \in 1..LegacyLen[l]} : l \in Legacy}
            \subseteq {Row(p[1], p[2]) : p \in OldEvents}
        <5>1. SUFFICES ASSUME NEW l \in Legacy, NEW i \in 1..LegacyLen[l]
                       PROVE  Row(l, i) \in {Row(p[1], p[2]) : p \in OldEvents}
          OBVIOUS
        <5>2. <<l, i>> \in OldEvents /\ <<l, i>>[1] = l /\ <<l, i>>[2] = i
          BY OldEventsArePairs
        <5> QED BY <5>2
      <4>2. {Row(p[1], p[2]) : p \in OldEvents}
            \subseteq UNION {{Row(l, i) : i \in 1..LegacyLen[l]} : l \in Legacy}
        BY OldEventsArePairs
      <4> QED BY <3>1, <4>1, <4>2 DEF Row
    <3>3. version # 2 /\ version # 3
      BY <3>1
    <3> HIDE DEF Old, OldEvents
    <3> QED BY <3>1, <3>2, <3>3, Zenon DEF RowsInv
  <2> QED BY <1>1, <2>1, <2>2
<1>6. ExportsArePrefixes
  <2>1. file = {} /\ Cardinality({}) = 0
    BY FS_EmptySet DEF Init, InitStore
  <2>2. Cardinality(file) = 0
    BY <2>1
  <2> QED BY <2>1, <2>2 DEF ExportsArePrefixes
<1>7. HealthInv
  <2>1. report = [w \in Writers |-> "none"] /\ failures = 0 /\ refused = 0
    BY DEF Init, InitStore
  <2>2. Uncounted = {}
    BY <2>1 DEF Uncounted
  <2>3. IsFiniteSet(Uncounted) /\ Cardinality(Uncounted) = 0
    BY <2>2, FS_EmptySet
  <2> QED BY <2>1, <2>3 DEF HealthInv
<1> QED BY <1>1, <1>2, <1>3, <1>4, <1>5, <1>6, <1>7 DEF IInv, StoreInv

\* The router's steps of a run that is not between two events of its own.
LEMMA QuietRouter ==
  ASSUME StoreInv, UNCHANGED <<store, at, named>>, told \subseteq told'
  PROVE  StoreInv'
<1>1. at' \in [Tasks -> Places]
  BY DEF StoreInv, SchemaInv
<1>2. \A t \in Tasks : at[t] \notin {"new", "done"} => version = 3 /\ named[t] \in Names
  BY DEF StoreInv, SchemaInv
<1> QED BY <1>1, <1>2, QuietKeeps

LEMMA WaitingTells ==
  ASSUME Outside \/ \E t \in Tasks : Waiting(t)
  PROVE  told \subseteq told' /\ named' = named
BY DEF Waiting, Outside, EmitRequest, Wake, DropGuard, Respond, CancelToken, SnapshotRun,
   RemoveOne, CancelEveryToken, CancelEveryRequest

LEMMA StartKeeps ==
  ASSUME IInv, NEW t \in Tasks, Start(t)
  PROVE  RouterInv' /\ StoreInv'
<1>1. PICK name \in NamesOf[t] :
        /\ Open(App)
        /\ \/ Moves(t, "new", "started") /\ Register(t, name)
           \/ registry[name] # Nobody /\ Moves(t, "new", "done") /\ UNCHANGED approvals
        /\ UNCHANGED store
  BY DEF Start
<1>2. version = 3 /\ name \in Names
  BY <1>1, StoreAssumption, ApprovalAssumption DEF IInv, StoreInv, SchemaInv
<1>3. log[t] = << >>
  BY <1>1, SceneAssumption DEF Moves, IInv, StoreInv, LogInv
<1>4. \A u \in Tasks : at[u] \notin {"new", "done"} => named[u] \in Names
  BY DEF IInv, StoreInv, SchemaInv
<1>5. CASE Moves(t, "new", "started") /\ Register(t, name)
  <2>1. RouterInv'
    BY <1>5, RegisterKeeps DEF IInv
  <2>2. /\ at[t] = "new" /\ at' \in [Tasks -> Places] /\ at'[t] = "started"
        /\ \A u \in Tasks : u # t => at'[u] = at[u]
    BY <1>5 DEF Moves, IInv, StoreInv, SchemaInv, Places
  <2>3. named'[t] = name /\ told' = told /\ \A u \in Tasks : u # t => named'[u] = named[u]
    BY <1>5 DEF Register, IInv, RouterInv, Domains
  <2>4. \A u \in Tasks : /\ at[u] \in Over => at'[u] \in Over
                         /\ at'[u] = "new" => at[u] = "new"
                         /\ log[u] # << >> => named'[u] = named[u]
                         /\ at'[u] \notin {"new", "done"} => version = 3 /\ named'[u] \in Names
    BY <1>2, <1>3, <1>4, <2>2, <2>3 DEF Over
  <2>5. StoreInv'
    BY <1>1, <2>2, <2>3, <2>4, QuietKeeps DEF IInv
  <2> QED BY <2>1, <2>5
<1>6. CASE Moves(t, "new", "done") /\ UNCHANGED approvals
  <2>1. RouterInv'
    BY <1>6 DEF approvals, IInv, RouterInv, Domains, SlotInv, AnswerInv
  <2>2. /\ at[t] = "new" /\ at' \in [Tasks -> Places] /\ at'[t] = "done"
        /\ \A u \in Tasks : u # t => at'[u] = at[u]
    BY <1>6 DEF Moves, IInv, StoreInv, SchemaInv, Places
  <2>3. UNCHANGED <<named, told>>
    BY <1>6 DEF approvals
  <2>4. \A u \in Tasks : /\ at[u] \in Over => at'[u] \in Over
                         /\ at'[u] = "new" => at[u] = "new"
                         /\ log[u] # << >> => named'[u] = named[u]
                         /\ at'[u] \notin {"new", "done"} => version = 3 /\ named'[u] \in Names
    BY <1>2, <1>4, <2>2, <2>3 DEF Over
  <2>5. StoreInv'
    BY <1>1, <2>2, <2>3, <2>4, QuietKeeps DEF IInv
  <2> QED BY <2>1, <2>5
<1> QED BY <1>1, <1>5, <1>6

\* A run asks, or unregisters, and moves on.
LEMMA MovesQuietly ==
  ASSUME StoreInv, NEW t \in Tasks, NEW from \in Places \ {"new"}, NEW to \in Places \ {"new"},
         Moves(t, from, to), from \in Over => to \in Over, from # "done",
         UNCHANGED <<store, named, told>>
  PROVE  StoreInv'
<1>1. /\ at[t] = from /\ at' \in [Tasks -> Places] /\ at'[t] = to
      /\ \A u \in Tasks : u # t => at'[u] = at[u]
  BY DEF Moves, StoreInv, SchemaInv
<1>2. \A u \in Tasks : at[u] \notin {"new", "done"} => version = 3 /\ named[u] \in Names
  BY DEF StoreInv, SchemaInv
<1>3. \A u \in Tasks : /\ at[u] \in Over => at'[u] \in Over
                       /\ at'[u] = "new" => at[u] = "new"
                       /\ log[u] # << >> => named'[u] = named[u]
                       /\ at'[u] \notin {"new", "done"} => version = 3 /\ named'[u] \in Names
  BY <1>1, <1>2
<1> QED BY <1>1, <1>3, QuietKeeps

LEMMA RequestKeeps ==
  ASSUME IInv, NEW t \in Tasks, Request(t)
  PROVE  RouterInv' /\ StoreInv'
<1>1. Moves(t, "asking", "asked") /\ Ask(t) /\ UNCHANGED store
  BY DEF Request
<1>2. UNCHANGED <<named, told>>
  BY <1>1 DEF Ask
<1>3. StoreInv'
  BY <1>1, <1>2, MovesQuietly DEF IInv, Places, Over
<1> QED BY <1>1, <1>3, AskKeeps DEF IInv

LEMMA UnregisterKeeps ==
  ASSUME IInv, NEW t \in Tasks, Unregister(t)
  PROVE  RouterInv' /\ StoreInv'
<1>1. Moves(t, "ended", "done") /\ Deregister(t) /\ UNCHANGED store
  BY DEF Unregister
<1>2. UNCHANGED <<named, told>>
  BY <1>1 DEF Deregister
<1>3. StoreInv'
  BY <1>1, <1>2, MovesQuietly DEF IInv, Places, Over
<1> QED BY <1>1, <1>3, DeregisterKeeps DEF IInv

\* Each event a run records is true when it records it: what it says of the
\* decision is what the user answered.
LEMMA EventsAreTrue ==
  ASSUME IInv, NEW t \in Tasks, Announce(t) \/ Dispatch(t) \/ Proceed(t) \/ Finish(t)
  PROVE  StoreInv' /\ (rows \subseteq rows' /\ UNCHANGED <<version, console, approvals>>)
<1>1. CASE Announce(t)
  BY <1>1, RecordKeeps DEF Announce, IInv, Places, Says, Over
<1>2. CASE Dispatch(t)
  BY <1>2, RecordKeeps DEF Dispatch, IInv, Places, Says, Over
<1>3. CASE Finish(t)
  BY <1>3, RecordKeeps DEF Finish, IInv, Places, Says, Over
<1>4. CASE Proceed(t)
  <2>1. CASE /\ verdict[t] \in {"granted", "denied"} /\ Moves(t, "asked", "decided")
             /\ Record(t, IF verdict[t] = "granted" THEN "dispatched" ELSE "rejected")
    <3>1. <<t, verdict[t]>> \in told
      BY <2>1 DEF IInv, RouterInv, AnswerInv
    <3>2. UNCHANGED approvals
      BY <1>4 DEF Proceed
    <3>3. CASE verdict[t] = "granted"
      BY <2>1, <3>1, <3>2, <3>3, RecordKeeps DEF IInv, Places, Says, Over
    <3>4. CASE verdict[t] # "granted"
      BY <2>1, <3>1, <3>2, <3>4, RecordKeeps DEF IInv, Places, Says, Over
    <3> QED BY <3>3, <3>4
  <2>2. CASE Moves(t, "asked", "ended") /\ Record(t, "finished")
    BY <1>4, <2>2, RecordKeeps DEF Proceed, IInv, Places, Says, Over
  <2> QED BY <1>4, <2>1, <2>2 DEF Proceed
<1> QED BY <1>1, <1>2, <1>3, <1>4

LEMMA RunStepKeeps ==
  ASSUME IInv, NEW t \in Tasks, RunStep(t)
  PROVE  RouterInv' /\ StoreInv'
<1>1. CASE Start(t) \/ Request(t) \/ Unregister(t)
  BY <1>1, StartKeeps, RequestKeeps, UnregisterKeeps
<1>2. CASE Announce(t) \/ Dispatch(t) \/ Proceed(t) \/ Finish(t)
  <2>1. StoreInv' /\ UNCHANGED approvals
    BY <1>2, EventsAreTrue
  <2>2. RouterInv'
    BY <2>1 DEF approvals, IInv, RouterInv, Domains, SlotInv, AnswerInv
  <2> QED BY <2>1, <2>2
<1>3. CASE Waiting(t) /\ UNCHANGED <<store, at>>
  <2>1. RouterInv'
    BY <1>3, WaitingKeeps DEF IInv
  <2>2. StoreInv'
    BY <1>3, WaitingTells, QuietRouter DEF IInv
  <2> QED BY <2>1, <2>2
<1> QED BY <1>1, <1>2, <1>3 DEF RunStep

LEMMA StoreStepKeeps ==
  ASSUME StoreInv, StoreStep, UNCHANGED <<approvals, at>>
  PROVE  StoreInv'
BY ReadVersionKeeps, MigrateToTwoKeeps, MigrateToThreeKeeps, ApplyRetentionKeeps, ImportKeeps,
   RecordingKeeps, ResolveKeeps, CountEventsKeeps, ReadEventsKeeps, DeleteEventsKeeps
   DEF StoreStep

LEMMA NextKeeps ==
  ASSUME IInv, [Next]_desktop
  PROVE  IInv'
<1>1. scene' = scene
  BY DEF Next, desktop
<1>2. CASE \E t \in Tasks : RunStep(t)
  BY <1>1, <1>2, RunStepKeeps DEF IInv
<1>3. CASE Outside /\ UNCHANGED <<store, at>>
  <2>1. RouterInv'
    BY <1>3, OutsideKeeps DEF IInv
  <2>2. StoreInv'
    BY <1>3, WaitingTells, QuietRouter DEF IInv
  <2> QED BY <1>1, <2>1, <2>2 DEF IInv
<1>4. CASE StoreStep /\ UNCHANGED <<approvals, at>>
  <2>1. RouterInv'
    BY <1>4 DEF approvals, IInv, RouterInv, Domains, SlotInv, AnswerInv
  <2>2. StoreInv'
    BY <1>4, StoreStepKeeps DEF IInv
  <2> QED BY <1>1, <2>1, <2>2 DEF IInv
<1>5. CASE UNCHANGED desktop
  <2>1. UNCHANGED approvals /\ UNCHANGED store /\ UNCHANGED at
    BY <1>5 DEF desktop
  <2>2. RouterInv'
    BY <2>1 DEF approvals, IInv, RouterInv, Domains, SlotInv, AnswerInv
  <2>3. StoreInv'
    BY <2>1, QuietRouter DEF IInv, approvals
  <2> QED BY <1>1, <2>2, <2>3 DEF IInv
<1> QED BY <1>2, <1>3, <1>4, <1>5 DEF Next

-----------------------------------------------------------------------------
(* The theorems about states.                                              *)

\* The inductive invariant holds of every state: the router's map, channels and
\* answers agree with each other, each run's events are true when it records
\* them, and the table has nothing but true events and whole legacy traces.
THEOREM Invariance == Spec => []IInv
<1>1. Init => IInv
  BY InitHolds
<1>2. IInv /\ [Next]_desktop => IInv'
  BY NextKeeps
<1> QED BY <1>1, <1>2, PTL DEF Spec

\* A set of pairs that agree on nothing but what they share has one at most.
LEMMA AtMostOne ==
  ASSUME NEW A, \A a, b \in A : a = b
  PROVE  Cardinality(A) <= 1
<1>1. CASE A = {}
  BY <1>1, FS_EmptySet
<1>2. CASE A # {}
  <2>1. PICK a \in A : TRUE
    BY <1>2
  <2>2. A = {a}
    BY <2>1
  <2>3. Cardinality({a}) = 1
    BY FS_Singleton
  <2> QED BY <2>2, <2>3
<1> QED BY <1>1, <1>2

LEMMA RouterIsSound ==
  ASSUME RouterInv
  PROVE  ApprovalsSound
<1>1. SUFFICES ASSUME NEW t \in Tasks
               PROVE  Cardinality({a \in told : a[1] = t}) <= 1
  BY DEF RouterInv, SlotInv, AnswerInv, ApprovalsSound, AnswersAreTheUsers, NoSlotIsLost
<1>2. \A a, b \in {c \in told : c[1] = t} : a = b
  BY DEF RouterInv, AnswerInv
<1> QED BY <1>2, AtMostOne

\* The router of crates/llama-harness-tauri grants or denies a request only on
\* its user's delivered answer, answers none twice, and loses no slot of its
\* map: approve_with_context, its guard, respond, cancel_run and shutdown,
\* interleaved at will by any number of runs, under any limit.
THEOREM RouterDecides == Spec => []ApprovalsSound
<1>1. IInv => ApprovalsSound
  BY RouterIsSound DEF IInv
<1> QED BY <1>1, Invariance, PTL

\* Whoever reads a trace of the current schema reads a prefix of one execution
\* without a hole, the whole of it when it is complete, and an export is such a
\* prefix although delete_execution, retention and appends come between its
\* queries: the store of crates/llama-harness-observability.
THEOREM TracesAreWhole == Spec => []ReadsAreWhole
<1>1. IInv => WholeTraces
  <2>1. SUFFICES ASSUME IInv, version = 3
                 PROVE  \A x \in Stored(rows) :
                          LET own == Of(rows, x) IN
                          /\ {r.seq : r \in own} = 1..Cardinality(own)
                          /\ \A r, s \in own : r.run = s.run /\ r.trace = s.trace
                          /\ \A r \in own : r.what = "finished" => r.seq = Cardinality(own)
    BY DEF WholeTraces
  <2>2. Sound(rows, log, at, told) /\ \A e \in Execs : Len(log[e]) \in Nat
    BY <2>1, LogLengths DEF IInv, StoreInv, RowsInv
  <2> QED BY <2>2, SoundIsWhole
<1>2. IInv => ExportsArePrefixes
  BY DEF IInv, StoreInv
<1>3. IInv => ReadsAreWhole
  BY <1>1, <1>2 DEF ReadsAreWhole
<1> QED BY <1>3, Invariance, PTL

\* Every row of the table, whatever the schema, is a true event of a live run or
\* one of a legacy trace under one of the identities the schemas gave it.
LEMMA RowsAre ==
  ASSUME SchemaInv, RowsInv, NEW r \in rows
  PROVE  \/ True(r, log, at, told)
         \/ \E p \in OldEvents : \E x : r = Old(p[1], p[2], x)
<1>1. CASE version = 1
  BY <1>1 DEF RowsInv
<1>2. CASE version = 2
  BY <1>2 DEF RowsInv
<1>3. CASE version = 3
  <2>1. \/ True(r, log, at, told)
        \/ \E p \in OldEvents : r = Old(p[1], p[2], <<"legacy", p[1]>>)
    BY <1>3 DEF RowsInv, Sound
  <2> QED BY <2>1
<1> QED BY <1>1, <1>2, <1>3 DEF SchemaInv

\* The stored trace tells the truth about the approvals: no call is reported
\* dispatched that its user did not grant, and none rejected that its user did
\* not deny, whatever else is imported, migrated, evicted or deleted.
THEOREM TracesAreTrue == Spec => []TraceTellsTruth
<1>1. IInv => TraceTellsTruth
  <2>1. SUFFICES ASSUME IInv, NEW r \in rows
                 PROVE  /\ r.what = "dispatched" => <<r.exec, "granted">> \in told
                        /\ r.what = "rejected" => <<r.exec, "denied">> \in told
    BY DEF TraceTellsTruth
  <2>2. CASE True(r, log, at, told)
    BY <2>2 DEF True
  <2>3. CASE \E p \in OldEvents : \E x : r = Old(p[1], p[2], x)
    BY <2>3, OldFields
  <2> QED BY <2>1, <2>2, <2>3, RowsAre DEF IInv, StoreInv
<1> QED BY <1>1, Invariance, PTL

\* The variables of both components stay in their types: the maps and channels
\* of the router, and the rows, health record and console of the store.
THEOREM TypeCorrect == Spec => []TypeOK
<1>1. IInv => TypeOK
  <2> SUFFICES ASSUME IInv PROVE TypeOK
    OBVIOUS
  <2>1. ApprovalsTypeOK
    BY DEF IInv, RouterInv, Domains, ApprovalsTypeOK
  <2>2. at \in [Tasks -> {"new", "started", "asking", "asked", "decided", "ended", "done"}]
    BY DEF IInv, StoreInv, SchemaInv, Places
  <2>3. \A r \in rows : r.seq \in Nat \ {0} /\ r.at \in 0..MaxClock /\ r.run \in Runs
    <3>1. SUFFICES ASSUME NEW r \in rows
                   PROVE  r.seq \in Nat \ {0} /\ r.at \in 0..MaxClock /\ r.run \in Runs
      OBVIOUS
    <3>2. CASE True(r, log, at, told)
      BY <3>2, LogLengths DEF True, IInv, StoreInv
    <3>3. CASE \E p \in OldEvents : \E x : r = Old(p[1], p[2], x)
      <4>1. PICK p \in OldEvents : \E x : r = Old(p[1], p[2], x)
        BY <3>3
      <4>2. r.seq = p[2] /\ r.at = 0 /\ r.run = LegacyRun[p[1]]
        BY <4>1, OldFields
      <4>3. p[1] \in Legacy /\ p[2] \in 1..LegacyLen[p[1]] /\ LegacyLen[p[1]] \in Nat
        BY OldEventsArePairs
      <4> QED BY <4>2, <4>3, StoreAssumption
    <3> QED BY <3>2, <3>3, RowsAre DEF IInv, StoreInv
  <2>4. failures \in 0..refused
    <3>1. Cardinality(Uncounted) \in Nat
      BY FS_CardinalityType DEF IInv, StoreInv, HealthInv
    <3> QED BY <3>1 DEF IInv, StoreInv, HealthInv
  <2>5. StoreTypeOK
    BY <2>3, <2>4 DEF StoreTypeOK, IInv, StoreInv, SchemaInv, HealthInv
  <2> QED BY <2>1, <2>2, <2>5 DEF TypeOK
<1> QED BY <1>1, Invariance, PTL

\* persist_failures_total is the number of refused appends whenever no writer
\* is between the refusal of its transaction and the counting of it: no failure
\* is lost or counted twice, although the health record follows later.
THEOREM FailuresAreCounted == Spec => []FailuresCounted
<1>1. IInv => FailuresCounted
  <2> SUFFICES ASSUME IInv, \A w \in Writers : report[w] \in {"none", "ok", "counted"}
               PROVE  failures = refused
    BY DEF FailuresCounted
  <2>1. Uncounted = {}
    BY DEF Uncounted
  <2>2. Cardinality(Uncounted) = 0
    BY <2>1, FS_EmptySet
  <2> QED BY <2>2 DEF IInv, StoreInv, HealthInv
<1> QED BY <1>1, Invariance, PTL

-----------------------------------------------------------------------------
(* The theorem about steps: what is stored is kept.                        *)

\* A deletion of executions takes whole ones.
LEMMA GoneWhole ==
  ASSUME NEW S, NEW gone, NEW r \in S, r \notin Without(S, gone)
  PROVE  r.exec \in gone /\ Of(Without(S, gone), r.exec) = {}
BY DEF Without, Of

\* An execution goes for its age only if it is complete.
LEMMA ExpiredIsComplete ==
  ASSUME NEW S, NEW aged \in {{}} \union {Expired(S, cutoff) : cutoff \in 0..now + 1},
         NEW x \in aged
  PROVE  Complete(S, x)
<1>1. PICK cutoff \in 0..now + 1 : aged = Expired(S, cutoff)
  OBVIOUS
<1> QED BY <1>1 DEF Expired

LEMMA MinOfTwo ==
  ASSUME NEW a \in Nat, NEW b \in Nat, b <= a
  PROVE  Min({a, b}) = b
<1>1. \E x \in {a, b} : \A y \in {a, b} : x <= y
  OBVIOUS
<1>2. Min({a, b}) \in {a, b} /\ \A y \in {a, b} : Min({a, b}) <= y
  BY <1>1, Zenon DEF Min
<1>3. Min({a, b}) <= b
  BY <1>2
<1> QED BY <1>2, <1>3

\* No execution goes for its number while there are no more than may be kept.
LEMMA NoneOutnumbered ==
  ASSUME NEW S, IsFiniteSet(Stored(S)), Cardinality(Stored(S)) <= KeepRuns,
         NEW D \in Outnumbered(S)
  PROVE  D = {}
<1> DEFINE T == Stored(S)
<1>1. /\ D \in SUBSET T
      /\ Cardinality(T \ D) = Min({KeepRuns, Cardinality(T)})
  BY DEF Outnumbered
<1>2. IsFiniteSet(T) /\ Cardinality(T) <= KeepRuns
  OBVIOUS
<1> HIDE DEF T
<1>3. Cardinality(T) \in Nat /\ KeepRuns \in Nat
  BY <1>2, FS_CardinalityType, StoreAssumption
<1>4. Cardinality(T \ D) = Cardinality(T)
  BY <1>1, <1>2, <1>3, MinOfTwo
<1>5. T \ D = T
  <2>1. T \ D \in SUBSET T
    OBVIOUS
  <2> QED BY <2>1, <1>2, <1>4, FS_Subset
<1> QED BY <1>1, <1>5

LEMMA FewerStored ==
  ASSUME NEW S, IsFiniteSet(S), NEW gone
  PROVE  /\ IsFiniteSet(Stored(Without(S, gone)))
         /\ Cardinality(Stored(Without(S, gone))) <= Cardinality(Stored(S))
<1> DEFINE T == {r.exec : r \in S}
<1>1. IsFiniteSet(T)
  <2> DEFINE f == [r \in S |-> r.exec]
  <2>1. T = {f[r] : r \in S}
    OBVIOUS
  <2> HIDE DEF f, T
  <2> QED BY <2>1, ImageFinite
<1>2. Stored(S) = T /\ Stored(Without(S, gone)) \in SUBSET T
  BY DEF Stored, Without
<1> QED BY <1>1, <1>2, FS_Subset

\* What a step that deletes something may delete.
Kept ==
  \A r \in rows :
      \/ r \in rows'
      \/ /\ Of(rows', r.exec) = {}
         /\ (console' = console /\ Cardinality(Stored(rows)) <= KeepRuns)
              => Complete(rows, r.exec)

LEMMA RetentionIsKept ==
  ASSUME IsFiniteSet(rows), ApplyRetention
  PROVE  Kept
<1>1. PICK aged \in {{}} \union {Expired(rows, cutoff) : cutoff \in 0..now + 1} :
        \E extra \in {{}} \union Outnumbered(Without(rows, aged)) :
          rows' = Without(rows, aged \union extra)
  BY DEF ApplyRetention
<1>2. PICK extra \in {{}} \union Outnumbered(Without(rows, aged)) :
        rows' = Without(rows, aged \union extra)
  BY <1>1
<1>3. SUFFICES ASSUME NEW r \in rows, r \notin rows'
               PROVE  /\ Of(rows', r.exec) = {}
                      /\ Cardinality(Stored(rows)) <= KeepRuns => Complete(rows, r.exec)
  BY DEF Kept
<1>4. r.exec \in aged \union extra /\ Of(rows', r.exec) = {}
  BY <1>2, <1>3, GoneWhole
<1>5. ASSUME Cardinality(Stored(rows)) <= KeepRuns
      PROVE  Complete(rows, r.exec)
  <2>1. /\ IsFiniteSet(Stored(Without(rows, aged)))
        /\ Cardinality(Stored(Without(rows, aged))) <= Cardinality(Stored(rows))
    BY FewerStored
  <2>2. /\ Cardinality(Stored(Without(rows, aged))) \in Nat
        /\ Cardinality(Stored(rows)) \in Nat /\ KeepRuns \in Nat
    <3>1. Without(rows, {}) = rows
      BY DEF Without
    <3>2. IsFiniteSet(Stored(rows))
      BY <3>1, FewerStored
    <3> QED BY <2>1, <3>2, FS_CardinalityType, StoreAssumption
  <2>3. Cardinality(Stored(Without(rows, aged))) <= KeepRuns
    BY <1>5, <2>1, <2>2
  <2>4. extra = {}
    BY <1>2, <2>1, <2>3, NoneOutnumbered
  <2> QED BY <1>1, <1>4, <2>4, ExpiredIsComplete
<1> QED BY <1>4, <1>5

LEMMA DeletionIsKept ==
  ASSUME DeleteEvents
  PROVE  Kept
<1>1. rows' = Without(rows, {console.exec})
  BY DEF DeleteEvents
<1>2. console.pc = "found" /\ console'.pc = "idle"
  BY DEF DeleteEvents, Idle
<1>3. console' # console
  BY <1>2
<1> QED BY <1>1, <1>3, GoneWhole DEF Kept

\* At the current schema a migration has nothing left to do.
LEMMA NoMigration ==
  ASSUME version = 3, NEW p \in Openers, ReadVersion(p) \/ MigrateToTwo(p) \/ MigrateToThree(p)
  PROVE  rows' = rows
BY DEF ReadVersion, MigrateToTwo, MigrateToThree, Migrate

\* A run's own steps keep every row and the schema.
LEMMA RunsOnlyAdd ==
  ASSUME IInv, NEW t \in Tasks, RunStep(t)
  PROVE  rows \subseteq rows' /\ version' = version
<1>1. CASE Start(t) \/ Request(t) \/ Unregister(t) \/ (Waiting(t) /\ UNCHANGED <<store, at>>)
  BY <1>1 DEF Start, Request, Unregister, store
<1>2. CASE Announce(t) \/ Dispatch(t) \/ Proceed(t) \/ Finish(t)
  BY <1>2, EventsAreTrue
<1> QED BY <1>1, <1>2 DEF RunStep

LEMMA StepIsKept ==
  ASSUME IInv, [Next]_desktop, version = 3
  PROVE  Kept
<1>1. IsFiniteSet(rows)
  BY DEF IInv, StoreInv, RowsInv, Sound
<1>2. CASE rows \subseteq rows'
  BY <1>2 DEF Kept
<1>3. CASE \E t \in Tasks : RunStep(t)
  BY <1>2, <1>3, RunsOnlyAdd
<1>4. CASE UNCHANGED store
  BY <1>2, <1>4 DEF store
<1>5. CASE StoreStep /\ UNCHANGED <<approvals, at>>
  <2>1. CASE ApplyRetention
    BY <1>1, <2>1, RetentionIsKept
  <2>2. CASE DeleteEvents
    BY <2>2, DeletionIsKept
  <2>3. CASE \E p \in Openers : ReadVersion(p) \/ MigrateToTwo(p) \/ MigrateToThree(p)
    BY <1>2, <2>3, NoMigration
  <2>4. CASE \E e \in Execs : \E k \in 1..Len(log[e]), twist \in {"same", "altered", "foreign"} :
               Import(e, k, twist)
    BY <1>2, <1>5, <2>4, ImportKeeps DEF IInv
  <2>5. CASE \E w \in Writers : RecordSuccess(w) \/ CountFailure(w) \/ MarkUnhealthy(w)
    BY <1>2, <2>5 DEF RecordSuccess, CountFailure, MarkUnhealthy
  <2>6. CASE \/ \E run \in Runs, op \in {"export", "delete"} : Resolve(run, op)
             \/ CountEvents \/ ReadEvents
    BY <1>2, <2>6 DEF Resolve, CountEvents, ReadEvents
  <2> QED BY <1>5, <2>1, <2>2, <2>3, <2>4, <2>5, <2>6 DEF StoreStep
<1> QED BY <1>3, <1>4, <1>5 DEF Next, desktop

\* A row without the identity its schema gave it.
Erased(r) == [r EXCEPT !.exec = NoId]

LEMMA ErasedOnce ==
  ASSUME NEW r, NEW x
  PROVE  Erased([r EXCEPT !.exec = x]) = Erased(r)
BY DEF Erased

\* Only a phase of a migration changes the schema, and it keeps every row.
LEMMA MigrationIsKept ==
  ASSUME NEW p \in Openers, MigrateToTwo(p) \/ MigrateToThree(p), version' # version
  PROVE  {Erased(r) : r \in rows'} = {Erased(r) : r \in rows}
<1>1. CASE rows' = {[r EXCEPT !.exec = ColonOf(r)] : r \in rows}
  <2> DEFINE New(r) == [r EXCEPT !.exec = ColonOf(r)]
  <2>1. \A r \in rows : Erased(New(r)) = Erased(r)
    BY ErasedOnce
  <2>2. rows' = {New(r) : r \in rows}
    BY <1>1
  <2> HIDE DEF New
  <2> QED BY <2>1, <2>2
<1>2. CASE rows' = {[r EXCEPT !.exec = PrefixedOf(r)] : r \in rows}
  <2> DEFINE New(r) == [r EXCEPT !.exec = PrefixedOf(r)]
  <2>1. \A r \in rows : Erased(New(r)) = Erased(r)
    BY ErasedOnce
  <2>2. rows' = {New(r) : r \in rows}
    BY <1>2
  <2> HIDE DEF New
  <2> QED BY <2>1, <2>2
<1> QED BY <1>1, <1>2 DEF MigrateToTwo, MigrateToThree, Migrate

LEMMA VersionsChange ==
  ASSUME IInv, [Next]_desktop, version' # version
  PROVE  {Erased(r) : r \in rows'} = {Erased(r) : r \in rows}
<1>1. ~ \E t \in Tasks : RunStep(t)
  BY RunsOnlyAdd
<1>2. ~ UNCHANGED store
  BY DEF store
<1>3. StoreStep
  BY <1>1, <1>2 DEF Next, desktop
<1>4. \E p \in Openers : MigrateToTwo(p) \/ MigrateToThree(p)
  BY <1>3 DEF StoreStep, ReadVersion, ApplyRetention, Import, RecordSuccess, CountFailure,
     MarkUnhealthy, Resolve, CountEvents, ReadEvents, DeleteEvents
<1> QED BY <1>4, MigrationIsKept

\* A stored event never changes and goes only with its whole execution: an
\* execution that is not complete is deleted by a console, or by retention when
\* there are more than it keeps, and a migration keeps every event of every
\* trace, whichever processes open the database and however they interleave.
THEOREM RowsStay == Spec => RowsAreKept
<1>1. IInv /\ [Next]_desktop =>
        [version = 3 =>
          \A r \in rows :
              \/ r \in rows'
              \/ /\ Of(rows', r.exec) = {}
                 /\ (console' = console /\ Cardinality(Stored(rows)) <= KeepRuns)
                      => Complete(rows, r.exec)]_store
  BY StepIsKept DEF Kept
<1>2. IInv /\ [Next]_desktop =>
        [version' # version =>
          {[r EXCEPT !.exec = NoId] : r \in rows'} = {[r EXCEPT !.exec = NoId] : r \in rows}]_store
  BY VersionsChange DEF Erased
<1>3. Spec => [][Next]_desktop
  BY PTL DEF Spec
<1>4. Spec => DeletionsAreWhole
  BY <1>1, <1>3, Invariance, PTL DEF DeletionsAreWhole
<1>5. Spec => MigrationKeepsTraces
  BY <1>2, <1>3, Invariance, PTL DEF MigrationKeepsTraces
<1> QED BY <1>4, <1>5 DEF RowsAreKept
=============================================================================
