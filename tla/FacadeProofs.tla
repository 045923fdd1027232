----------------------------- MODULE FacadeProofs -----------------------------
(***************************************************************************)
(* What holds of the facade for any instances, callers and threads.        *)
(*                                                                         *)
(* What VRE.check leaves behind: the metrics may lose counts but never     *)
(* make one up, checks that meet nothing are counted exactly, and the      *)
(* trace file holds what was asked outside the suppress() blocks, each     *)
(* entry on a line of its own.                                             *)
(*                                                                         *)
(* What the freeze and the gate guarantee: a grounded verdict shows the    *)
(* whole transitive closure, so the trace the gate walks has every         *)
(* APPLIES_TO relatum the store had between the concepts; the verdict is   *)
(* turned into that fact at the moment of the check, and the invariant     *)
(* carries it to the run.                                                  *)
(***************************************************************************)
EXTENDS Check, Guard, GroundingProofs

-----------------------------------------------------------------------------
(* VRE.check: the counts *)

Kinds == {"ok", "failed"}

MetricsType ==
  /\ metrics \in [Ids -> Counts]
  /\ ran \in [Ids -> Counts]
  /\ DOMAIN check = Threads
  /\ \A c \in Threads : check[c].op = "write" => \A i \in DOMAIN check[c].counts : check[c].counts[i] \in Counts
  /\ \A f \in copies : f.prim \in Primitive /\ WellFormed(f.prim) /\ f.counts \in Counts

\* The threads whose check of i is in ran and not yet in any count.
Waiting(i, k) ==
  {c \in Threads : /\ check[c].op = "read"
                   /\ i \in check[c].targets
                   /\ One(i \in check[c].blamed) = k}

\* The counts of i that are in the row, or may come into it.
Values(i, k) ==
  {metrics[i][k]}
    \cup {check[c].counts[i][k] : c \in {d \in Threads : check[d].op = "write" /\ i \in DOMAIN check[d].counts}}
    \cup {f.counts[k] : f \in {g \in copies : g.prim.id = i}}

\* Any such count leaves room in ran for the checks that still wait.
Bounded(i, k) == \A n \in Values(i, k) : n + Cardinality(Waiting(i, k)) <= ran[i][k]

CountInv == MetricsType /\ \A i \in Ids, k \in Kinds : Bounded(i, k)

\* A check adds one to one of the two counts.
LEMMA CountedType ==
  ASSUME NEW old \in Counts, NEW i, NEW B
  PROVE  /\ Counted(old, i \in B) \in Counts
         /\ \A k \in Kinds : Counted(old, i \in B)[k] = IF One(i \in B) = k THEN old[k] + 1 ELSE old[k]
BY DEF Counted, Counts, One, Kinds

\* The values are natural numbers, and so is the number of those that wait.
LEMMA ValuesType ==
  ASSUME MetricsType, NEW i \in Ids, NEW k \in Kinds
  PROVE  /\ Values(i, k) \subseteq Nat /\ ran[i][k] \in Nat
         /\ IsFiniteSet(Waiting(i, k)) /\ Cardinality(Waiting(i, k)) \in Nat
<1>1. \A n \in Counts : n[k] \in Nat
  BY DEF Counts, Kinds
<1>2. metrics[i] \in Counts /\ ran[i] \in Counts
  BY DEF MetricsType
<1>3. Values(i, k) \subseteq Nat
  BY <1>1, <1>2 DEF Values, MetricsType
<1>4. Waiting(i, k) \in SUBSET Threads
  BY DEF Waiting
<1>5. IsFiniteSet(Waiting(i, k))
  BY <1>4, ThreadsAssumption, FS_Subset
<1> QED BY <1>1, <1>2, <1>3, <1>5, FS_CardinalityType

\* A step that only moves counts about, or takes them away.
LEMMA MovingKeeps ==
  ASSUME CountInv, NEW i \in Ids, NEW k \in Kinds, ran' = ran,
         Values(i, k)' \subseteq Values(i, k) \cup {0},
         Waiting(i, k)' \subseteq Waiting(i, k)
  PROVE  Bounded(i, k)'
<1>1. /\ Values(i, k) \subseteq Nat /\ ran[i][k] \in Nat
      /\ IsFiniteSet(Waiting(i, k)) /\ Cardinality(Waiting(i, k)) \in Nat
  BY ValuesType DEF CountInv
<1>2. /\ IsFiniteSet(Waiting(i, k)') /\ Cardinality(Waiting(i, k)') \in Nat
      /\ Cardinality(Waiting(i, k)') <= Cardinality(Waiting(i, k))
  BY <1>1, FS_Subset, FS_CardinalityType
<1>3. \A n \in Values(i, k) : n + Cardinality(Waiting(i, k)) <= ran[i][k]
  BY DEF CountInv, Bounded
<1>4. metrics[i][k] \in Values(i, k)
  BY DEF Values
<1>5. Cardinality(Waiting(i, k)) <= ran[i][k]
  BY <1>1, <1>3, <1>4
<1>6. ASSUME NEW n \in Values(i, k)' PROVE n + Cardinality(Waiting(i, k)') <= ran[i][k]
  <2>1. CASE n \in Values(i, k)
    BY <1>1, <1>2, <1>3, <2>1
  <2>2. CASE n = 0
    BY <1>1, <1>2, <1>5, <2>2
  <2> QED BY <1>6, <2>1, <2>2
<1> QED BY <1>6 DEF Bounded

\* A grounding is in ran at once, and waits to be counted.
LEMMA GroundKeepsCounts ==
  ASSUME CountInv, NEW c \in Threads, NEW q, NEW m, Ground(c, q, m)
  PROVE  CountInv'
<1> DEFINE R == Roots(graph, q)
           B == GapPrimitiveIds(graph, q, m)
           step == [op |-> "read", targets |-> R, blamed |-> B]
<1>1. /\ check[c] = Idle /\ check' = [check EXCEPT ![c] = step]
      /\ metrics' = metrics /\ copies' = copies
  BY DEF Ground, Goto
<1>2. \A i \in Ids : (\E p \in Gaps(graph, q, m) : p.kind # "EXISTENCE" /\ p.id = i) <=> i \in B
  BY DEF GapPrimitiveIds
<1>3. ran' = [i \in Ids |-> IF i \notin R THEN ran[i]
                ELSE Counted(ran[i], \E p \in Gaps(graph, q, m) : p.kind # "EXISTENCE" /\ p.id = i)]
  BY DEF Ground
<1> HIDE DEF R, B
<1>4. \A i \in Ids : ran'[i] = IF i \notin R THEN ran[i] ELSE Counted(ran[i], i \in B)
  BY <1>2, <1>3 DEF Counted, One
<1>5. \A i \in Ids : ran[i] \in Counts
  BY DEF CountInv, MetricsType
<1>6. \A i \in Ids, k \in Kinds :
        ran'[i][k] = IF i \in R /\ One(i \in B) = k THEN ran[i][k] + 1 ELSE ran[i][k]
  <2> TAKE i \in Ids, k \in Kinds
  <2>1. Counted(ran[i], i \in B)[k] = IF One(i \in B) = k THEN ran[i][k] + 1 ELSE ran[i][k]
    BY <1>5 DEF Counted, Counts, One, Kinds
  <2> QED BY <1>4, <2>1
<1>7. DOMAIN check' = Threads /\ check'[c] = step /\ \A d \in Threads \ {c} : check'[d] = check[d]
  BY <1>1 DEF CountInv, MetricsType
<1>8. step.op = "read" /\ step.targets = R /\ step.blamed = B /\ check[c].op = "idle"
  BY <1>1 DEF Idle
<1> HIDE DEF step
<1>9. MetricsType'
  <2>1. ran' \in [Ids -> Counts]
    <3>1. \A i \in Ids : ran'[i] \in Counts
      <4> TAKE i \in Ids
      <4>1. Counted(ran[i], i \in B) \in Counts
        BY <1>5, CountedType
      <4> QED BY <1>4, <1>5, <4>1
    <3> QED BY <1>3, <3>1
  <2> QED BY <1>1, <1>7, <1>8, <2>1 DEF CountInv, MetricsType
<1>10. ASSUME NEW i \in Ids, NEW k \in Kinds PROVE Bounded(i, k)'
  <2>1. Values(i, k)' = Values(i, k)
    BY <1>1, <1>7, <1>8 DEF Values
  <2>2. Waiting(i, k)' = IF i \in R /\ One(i \in B) = k THEN Waiting(i, k) \cup {c} ELSE Waiting(i, k)
    BY <1>7, <1>8 DEF Waiting
  <2>3. c \notin Waiting(i, k)
    BY <1>8 DEF Waiting
  <2>4. /\ Values(i, k) \subseteq Nat /\ ran[i][k] \in Nat
        /\ IsFiniteSet(Waiting(i, k)) /\ Cardinality(Waiting(i, k)) \in Nat
    BY ValuesType DEF CountInv
  <2>5. Cardinality(Waiting(i, k) \cup {c}) = Cardinality(Waiting(i, k)) + 1
    BY <2>3, <2>4, FS_AddElement
  <2>6. \A n \in Values(i, k) : n + Cardinality(Waiting(i, k)) <= ran[i][k]
    BY DEF CountInv, Bounded
  <2> QED BY <1>6, <2>1, <2>2, <2>4, <2>5, <2>6 DEF Bounded
<1> QED BY <1>9, <1>10 DEF CountInv

\* The counts that are read stop waiting as they are added to.
LEMMA ReadKeepsCounts ==
  ASSUME CountInv, DOMAIN graph \subseteq Ids, NEW c \in Threads, BatchRead(c)
  PROVE  CountInv'
<1> DEFINE found == check[c].targets \cap DOMAIN graph
           blamed == check[c].blamed
           counts == [i \in found |-> Counted(metrics[i], i \in blamed)]
           step == [op |-> "write", counts |-> counts]
<1>1. /\ check[c].op = "read" /\ check' = [check EXCEPT ![c] = step]
      /\ metrics' = metrics /\ copies' = copies /\ ran' = ran
  BY DEF BatchRead, Goto
<1>2. \A i \in Ids : metrics[i] \in Counts
  BY DEF CountInv, MetricsType
<1>3. found \subseteq Ids
  OBVIOUS
<1>4. DOMAIN counts = found /\ \A i \in found : counts[i] = Counted(metrics[i], i \in blamed)
  OBVIOUS
<1> HIDE DEF counts
<1>5. step.op = "write" /\ step.counts = counts
  OBVIOUS
<1>6. ASSUME NEW i \in found
      PROVE  /\ counts[i] \in Counts
             /\ \A k \in Kinds :
                  counts[i][k] = IF One(i \in blamed) = k THEN metrics[i][k] + 1 ELSE metrics[i][k]
  <2> HIDE DEF blamed
  <2>1. metrics[i] \in Counts /\ counts[i] = Counted(metrics[i], i \in blamed)
    BY <1>2, <1>3, <1>4
  <2> QED BY <2>1 DEF Counted, Counts, One, Kinds
<1>7. \A i \in found, k \in Kinds : counts[i][k] = IF One(i \in blamed) = k THEN metrics[i][k] + 1 ELSE metrics[i][k]
  BY <1>6
<1>8. DOMAIN check' = Threads /\ check'[c] = step /\ \A d \in Threads \ {c} : check'[d] = check[d]
  BY <1>1 DEF CountInv, MetricsType
<1> HIDE DEF step, found
<1>9. MetricsType'
  BY <1>1, <1>4, <1>5, <1>6, <1>8 DEF CountInv, MetricsType
<1>10. ASSUME NEW i \in Ids, NEW k \in Kinds PROVE Bounded(i, k)'
  <2>1. Values(i, k)' \subseteq Values(i, k) \cup (IF i \in found THEN {counts[i][k]} ELSE {})
    BY <1>1, <1>4, <1>5, <1>8 DEF Values
  <2>2. Waiting(i, k)' = Waiting(i, k) \ {c}
    BY <1>5, <1>8 DEF Waiting
  <2>3. metrics[i][k] \in Values(i, k)
    BY DEF Values
  <2>4. CASE i \in found /\ One(i \in blamed) = k
    <3>1. c \in Waiting(i, k)
      BY <1>1, <2>4 DEF Waiting, found
    <3>2. /\ Values(i, k) \subseteq Nat /\ ran[i][k] \in Nat
          /\ IsFiniteSet(Waiting(i, k)) /\ Cardinality(Waiting(i, k)) \in Nat
      BY ValuesType DEF CountInv
    <3>3. Cardinality(Waiting(i, k) \ {c}) = Cardinality(Waiting(i, k)) - 1
      BY <3>1, <3>2, FS_RemoveElement
    <3>4. \A n \in Values(i, k) : n + Cardinality(Waiting(i, k)) <= ran[i][k]
      BY DEF CountInv, Bounded
    <3>5. \A n \in Values(i, k)' : n \in Values(i, k) \/ n = metrics[i][k] + 1
      BY <1>7, <2>1, <2>4
    <3> QED BY <1>1, <2>2, <2>3, <3>2, <3>3, <3>4, <3>5 DEF Bounded
  <2>5. CASE ~(i \in found /\ One(i \in blamed) = k)
    <3>1. Values(i, k)' \subseteq Values(i, k)
      BY <1>7, <2>1, <2>3, <2>5
    <3> QED BY <1>1, <2>2, <3>1, MovingKeeps
  <2> QED BY <2>4, <2>5
<1> QED BY <1>9, <1>10 DEF CountInv

\* A thread that writes its counts, gives them up or has been traced.
LEMMA LeavingKeepsCounts ==
  ASSUME CountInv, NEW c \in Threads, NEW step, Goto(c, step), step.op \notin {"read", "write"},
         ran' = ran, copies' = copies, metrics' \in [Ids -> Counts],
         \A i \in Ids : \/ metrics'[i] = metrics[i]
                        \/ /\ check[c].op = "write" /\ i \in DOMAIN check[c].counts
                           /\ metrics'[i] = check[c].counts[i]
  PROVE  CountInv'
<1>1. DOMAIN check' = Threads /\ check'[c] = step /\ \A d \in Threads \ {c} : check'[d] = check[d]
  BY DEF Goto, CountInv, MetricsType
<1>2. MetricsType'
  BY <1>1 DEF CountInv, MetricsType
<1>3. ASSUME NEW i \in Ids, NEW k \in Kinds PROVE Bounded(i, k)'
  <2>1. Values(i, k)' \subseteq Values(i, k) \cup {0}
    BY <1>1 DEF Values
  <2>2. Waiting(i, k)' \subseteq Waiting(i, k)
    BY <1>1 DEF Waiting
  <2> QED BY <2>1, <2>2, MovingKeeps
<1> QED BY <1>2, <1>3 DEF CountInv

\* What authors do to the counts: they take them away, copy them or bring a
\* copy back.
AuthorMoves ==
  /\ check' = check /\ ran' = ran
  /\ metrics' \in [Ids -> Counts]
  /\ \A i \in Ids : \/ metrics'[i] \in {metrics[i], NoCounts}
                    \/ \E f \in copies : f.prim.id = i /\ metrics'[i] = f.counts
  /\ \A f \in copies' \ copies : /\ f.prim \in Primitive /\ WellFormed(f.prim)
                                 /\ f.counts = metrics[f.prim.id]
  /\ Disturb \/ UNCHANGED <<graph, metrics, serial>>

\* Such a step keeps the counts within the checks.
LEMMA AuthorKeepsCounts ==
  ASSUME CountInv, AuthorMoves
  PROVE  CountInv'
<1>1. \A f \in copies' \ copies : f.prim.id \in Ids
  BY DEF AuthorMoves, Primitive
<1>2. MetricsType'
  BY <1>1 DEF CountInv, MetricsType, AuthorMoves
<1>3. ASSUME NEW i \in Ids, NEW k \in Kinds PROVE Bounded(i, k)'
  <2>1. NoCounts[k] = 0
    BY DEF NoCounts, Kinds
  <2>2. metrics'[i][k] \in Values(i, k) \cup {0}
    BY <2>1 DEF AuthorMoves, Values
  <2>3. \A f \in copies' : f.prim.id = i => f.counts[k] \in Values(i, k)
    BY DEF AuthorMoves, Values
  <2>4. check' = check /\ ran' = ran
    BY DEF AuthorMoves
  <2>5. Values(i, k)' \subseteq Values(i, k) \cup {0}
    BY <2>2, <2>3, <2>4 DEF Values
  <2>6. Waiting(i, k)' \subseteq Waiting(i, k)
    BY <2>4 DEF Waiting
  <2> QED BY <2>4, <2>5, <2>6, MovingKeeps
<1> QED BY <1>2, <1>3 DEF CountInv

\* A write of a row sets the counts of that row, or is refused.
LEMMA SetCountsMoves ==
  ASSUME CountInv, NEW i, NEW counts \in Counts, SetCounts(i, counts)
  PROVE  /\ metrics' \in [Ids -> Counts]
         /\ \A j \in Ids : metrics'[j] = metrics[j] \/ (j = i /\ metrics'[j] = counts)
BY DEF CountInv, MetricsType, SetCounts

\* The calls of authors move counts so, and keep the store's invariant.
LEMMA AuthorStepMoves ==
  ASSUME StoreInv, CountInv, AuthorStep
  PROVE  AuthorMoves /\ StoreInv'
<1>1. NoCounts \in Counts
  BY DEF NoCounts, Counts
<1>2. ASSUME NEW p \in Drafts, SaveFresh(p) \/ Upsert(p), Disturb, UNCHANGED <<check, copies, ran>>
      PROVE  AuthorMoves /\ StoreInv'
  <2>1. StoreInv'
    <3>1. SavePrimitive(p) \/ UpsertPrimitive(p)
      BY <1>2 DEF SaveFresh, Upsert
    <3> QED BY <3>1, NextStoreInv DEF Next
  <2>2. \E i : SetCounts(i, NoCounts)
    BY <1>2 DEF SaveFresh, Upsert
  <2>3. /\ metrics' \in [Ids -> Counts]
        /\ \A j \in Ids : metrics'[j] \in {metrics[j], NoCounts}
    BY <1>1, <2>2, SetCountsMoves
  <2> QED BY <1>2, <2>1, <2>3 DEF AuthorMoves
<1>3. ASSUME NEW i \in Ids, Delete(i), Disturb, UNCHANGED <<check, copies, ran>>
      PROVE  AuthorMoves /\ StoreInv'
  <2>1. StoreInv'
    BY <1>3, NextStoreInv DEF Delete, Next
  <2>2. metrics' = [metrics EXCEPT ![i] = NoCounts]
    BY <1>3 DEF Delete
  <2>3. /\ metrics' \in [Ids -> Counts]
        /\ \A j \in Ids : metrics'[j] \in {metrics[j], NoCounts}
    BY <1>1, <2>2 DEF CountInv, MetricsType
  <2> QED BY <1>3, <2>1, <2>3 DEF AuthorMoves
<1>4. ASSUME NEW i \in Amended, Fetch(i) PROVE AuthorMoves /\ StoreInv'
  <2>1. /\ i \in DOMAIN graph /\ copies = {} /\ copies' = {[prim |-> graph[i], counts |-> metrics[i]]}
        /\ UNCHANGED <<graph, result, metrics, check, ran, serial>>
    BY <1>4 DEF Fetch
  <2>2. graph[i] \in Primitive /\ graph[i].id = i /\ WellFormed(graph[i])
    BY <2>1 DEF StoreInv, TypeOK, IsGraph
  <2>3. StoreInv'
    BY <2>1, NextStoreInv DEF vars
  <2>4. metrics' \in [Ids -> Counts]
    BY <2>1 DEF CountInv, MetricsType
  <2>5. \A f \in copies' : f.prim = graph[i] /\ f.counts = metrics[i]
    BY <2>1
  <2> QED BY <2>1, <2>2, <2>3, <2>4, <2>5 DEF AuthorMoves
<1>5. ASSUME NEW f \in copies, SaveFetched(f) PROVE AuthorMoves /\ StoreInv'
  <2>1. f.prim \in Primitive /\ WellFormed(f.prim) /\ f.counts \in Counts
    BY DEF CountInv, MetricsType
  <2>2. /\ copies' = copies \ {f} /\ SavePrimitive(f.prim) /\ SetCounts(f.prim.id, f.counts)
        /\ Disturb /\ UNCHANGED <<check, ran>>
    BY <1>5 DEF SaveFetched
  <2>3. StoreInv'
    BY <2>1, <2>2, SaveStoreInv
  <2>4. /\ metrics' \in [Ids -> Counts]
        /\ \A j \in Ids : metrics'[j] = metrics[j] \/ (j = f.prim.id /\ metrics'[j] = f.counts)
    BY <2>1, <2>2, SetCountsMoves
  <2> QED BY <2>2, <2>3, <2>4 DEF AuthorMoves
<1> QED BY <1>2, <1>3, <1>4, <1>5 DEF AuthorStep

\* The steps of a check after its grounding.
LEMMA CountStepKeepsCounts ==
  ASSUME StoreInv, CountInv, NEW c \in Threads, CountStep(c)
  PROVE  CountInv'
<1>1. CASE BatchRead(c)
  BY <1>1, ReadKeepsCounts DEF StoreInv, TypeOK, IsGraph
<1> DEFINE trace == [op |-> "trace"]
<1>2. trace.op \notin {"read", "write"}
  OBVIOUS
<1>3. CASE BatchUpdate(c)
  <2>1. /\ check[c].op = "write" /\ Goto(c, trace) /\ ran' = ran /\ copies' = copies
        /\ metrics' = [i \in Ids |-> IF i \in DOMAIN check[c].counts \cap DOMAIN graph
                                     THEN check[c].counts[i] ELSE metrics[i]]
    BY <1>3 DEF BatchUpdate
  <2>2. metrics' \in [Ids -> Counts]
    BY <2>1 DEF CountInv, MetricsType
  <2>3. \A i \in Ids : \/ metrics'[i] = metrics[i]
                       \/ i \in DOMAIN check[c].counts /\ metrics'[i] = check[c].counts[i]
    BY <2>1
  <2> HIDE DEF trace
  <2> QED BY <1>2, <2>1, <2>2, <2>3, LeavingKeepsCounts
<1>4. CASE GiveUp(c)
  <2>1. Goto(c, trace) /\ ran' = ran /\ copies' = copies /\ metrics' = metrics
    BY <1>4 DEF GiveUp
  <2>2. metrics' \in [Ids -> Counts]
    BY <2>1 DEF CountInv, MetricsType
  <2> HIDE DEF trace
  <2> QED BY <1>2, <2>1, <2>2, LeavingKeepsCounts
<1> QED BY <1>1, <1>3, <1>4 DEF CountStep

\* Every step of a check, of a trace and of an author.
LEMMA NextKeepsCounts ==
  ASSUME StoreInv, CountInv, [CheckNext]_checkVars
  PROVE  StoreInv' /\ CountInv'
<1>1. ASSUME UNCHANGED metricsVars PROVE StoreInv' /\ CountInv'
  <2>1. StoreInv'
    BY <1>1, NextStoreInv DEF metricsVars, vars
  <2>2. UNCHANGED <<metrics, check, copies, ran>>
    BY <1>1 DEF metricsVars
  <2>3. CountInv'
    BY <2>2 DEF CountInv, MetricsType, Bounded, Values, Waiting
  <2> QED BY <2>1, <2>3
<1>2. ASSUME NEW c \in Threads, ThreadStep(c) PROVE StoreInv' /\ CountInv'
  <2>1. CASE StartCheck(c)
    <3>1. PICK q \in Queries, m \in Floors : Ground(c, q, m)
      BY <2>1 DEF StartCheck
    <3>2. StoreInv'
      BY <3>1, NextStoreInv DEF Ground, vars
    <3> QED BY <3>1, <3>2, GroundKeepsCounts
  <2>2. CASE UpdateMetrics(c)
    <3>1. StoreInv'
      BY <2>2, NextStoreInv DEF UpdateMetrics, CountStep, BatchRead, BatchUpdate, GiveUp, vars
    <3> QED BY <2>2, <3>1, CountStepKeepsCounts DEF UpdateMetrics
  <2>3. CASE TraceCheck(c)
    <3>1. Goto(c, Idle) /\ UNCHANGED <<graph, result, metrics, copies, ran>>
      BY <2>3 DEF TraceCheck
    <3>2. StoreInv'
      BY <3>1, NextStoreInv DEF vars
    <3>3. metrics' \in [Ids -> Counts]
      BY <3>1 DEF CountInv, MetricsType
    <3>4. Idle.op \notin {"read", "write"}
      BY DEF Idle
    <3> QED BY <3>1, <3>2, <3>3, <3>4, LeavingKeepsCounts
  <2>4. CASE WriteTrace(c) \/ SuppressStep(c)
    BY <1>1, <2>4 DEF WriteTrace, SuppressStep
  <2> QED BY <1>2, <2>1, <2>2, <2>3, <2>4 DEF ThreadStep
<1>3. CASE AuthorStep
  BY <1>3, AuthorStepMoves, AuthorKeepsCounts
<1> QED BY <1>1, <1>2, <1>3 DEF CheckNext, checkVars

-----------------------------------------------------------------------------
(* Checks that meet nothing *)

\* A thread between its grounding and the read of the counts, and one between
\* the read and the write: what is counted, with what it is about to add, is
\* what has run.
ReadsExactly(c) ==
  /\ check[c].op = "read"
  /\ check[c].targets \subseteq DOMAIN graph
  /\ \A i \in Ids : ran[i] = IF i \in check[c].targets THEN Counted(metrics[i], i \in check[c].blamed)
                             ELSE metrics[i]

WritesExactly(c) ==
  /\ check[c].op = "write"
  /\ DOMAIN check[c].counts \subseteq DOMAIN graph
  /\ \A i \in Ids : ran[i] = IF i \in DOMAIN check[c].counts THEN check[c].counts[i] ELSE metrics[i]

Alone(c) == \A d \in Threads \ {c} : check[d].op \notin {"read", "write"}

SerialInv ==
  serial => \/ ~Counting /\ metrics = ran
            \/ \E c \in Threads : Alone(c) /\ (ReadsExactly(c) \/ WritesExactly(c))

\* A grounding that meets nothing leaves its thread alone with the counts.
LEMMA GroundKeepsSerial ==
  ASSUME CountInv, SerialInv, NEW c \in Threads, NEW q, NEW m, Ground(c, q, m)
  PROVE  SerialInv'
<1> SUFFICES ASSUME serial' PROVE Alone(c)' /\ ReadsExactly(c)'
  BY DEF SerialInv
<1> DEFINE R == Roots(graph, q)
           B == GapPrimitiveIds(graph, q, m)
           step == [op |-> "read", targets |-> R, blamed |-> B]
<1>1. /\ check' = [check EXCEPT ![c] = step] /\ graph' = graph
      /\ metrics' = metrics /\ serial /\ ~Counting
      /\ ran' = [i \in Ids |-> IF i \notin R THEN ran[i]
                  ELSE Counted(ran[i], \E p \in Gaps(graph, q, m) : p.kind # "EXISTENCE" /\ p.id = i)]
  BY DEF Ground, Goto
<1>2. \A i \in Ids : (\E p \in Gaps(graph, q, m) : p.kind # "EXISTENCE" /\ p.id = i) <=> i \in B
  BY DEF GapPrimitiveIds
<1>3. R \subseteq DOMAIN graph
  BY DEF Roots
<1>4. metrics = ran
  BY <1>1 DEF SerialInv, Counting, ReadsExactly, WritesExactly
<1> HIDE DEF R, B
<1>5. \A i \in Ids : ran'[i] = IF i \in R THEN Counted(metrics'[i], i \in B) ELSE metrics'[i]
  BY <1>1, <1>2, <1>4 DEF Counted, One
<1>6. check'[c] = step /\ \A d \in Threads \ {c} : check'[d] = check[d]
  BY <1>1 DEF CountInv, MetricsType
<1>7. step.op = "read" /\ step.targets = R /\ step.blamed = B
  OBVIOUS
<1> HIDE DEF step
<1>8. ReadsExactly(c)'
  BY <1>1, <1>3, <1>5, <1>6, <1>7 DEF ReadsExactly
<1> QED BY <1>1, <1>6, <1>8 DEF Counting, Alone

\* The read and the write of the thread that is alone with the counts.
LEMMA CountStepKeepsSerial ==
  ASSUME CountInv, SerialInv, NEW c \in Threads, CountStep(c)
  PROVE  SerialInv'
<1> SUFFICES ASSUME serial' PROVE SerialInv'
  BY DEF SerialInv
<1>1. DOMAIN check = Threads /\ metrics \in [Ids -> Counts] /\ ran \in [Ids -> Counts]
  BY DEF CountInv, MetricsType
<1>2. check[c].op \in {"read", "write"} /\ serial /\ (BatchRead(c) \/ BatchUpdate(c))
  BY DEF CountStep, BatchRead, BatchUpdate, GiveUp
<1>3. Alone(c) /\ (ReadsExactly(c) \/ WritesExactly(c))
  <2>1. Counting
    BY <1>2 DEF Counting
  <2>2. PICK d \in Threads : Alone(d) /\ (ReadsExactly(d) \/ WritesExactly(d))
    BY <1>2, <2>1 DEF SerialInv
  <2>3. d = c
    BY <1>2, <2>2 DEF Alone
  <2> QED BY <2>2, <2>3
<1>4. CASE BatchRead(c)
  <2> DEFINE found == check[c].targets \cap DOMAIN graph
             counts == [i \in found |-> Counted(metrics[i], i \in check[c].blamed)]
             step == [op |-> "write", counts |-> counts]
  <2>1. /\ check' = [check EXCEPT ![c] = step]
        /\ metrics' = metrics /\ ran' = ran /\ graph' = graph /\ check[c].op = "read"
    BY <1>4 DEF BatchRead, Goto
  <2>2. ReadsExactly(c) /\ found = check[c].targets
    BY <1>3, <2>1 DEF ReadsExactly, WritesExactly
  <2>3. DOMAIN counts = found /\ \A i \in found : counts[i] = Counted(metrics[i], i \in check[c].blamed)
    OBVIOUS
  <2> HIDE DEF counts, found
  <2>4. \A i \in Ids : ran[i] = IF i \in found THEN counts[i] ELSE metrics[i]
    BY <2>2, <2>3 DEF ReadsExactly
  <2>5. step.op = "write" /\ step.counts = counts
    OBVIOUS
  <2> HIDE DEF step
  <2>6. check'[c] = step /\ \A d \in Threads \ {c} : check'[d] = check[d]
    BY <1>1, <2>1
  <2>7. found \subseteq DOMAIN graph
    BY DEF found
  <2>8. WritesExactly(c)'
    BY <2>1, <2>3, <2>4, <2>5, <2>6, <2>7 DEF WritesExactly
  <2>9. Alone(c)'
    BY <1>3, <2>6 DEF Alone
  <2> QED BY <2>8, <2>9 DEF SerialInv
<1>5. CASE BatchUpdate(c)
  <2> DEFINE trace == [op |-> "trace"]
  <2>1. /\ check[c].op = "write" /\ check' = [check EXCEPT ![c] = trace] /\ ran' = ran
        /\ metrics' = [i \in Ids |-> IF i \in DOMAIN check[c].counts \cap DOMAIN graph
                                     THEN check[c].counts[i] ELSE metrics[i]]
    BY <1>5 DEF BatchUpdate, Goto
  <2>2. WritesExactly(c)
    BY <1>3, <2>1 DEF ReadsExactly
  <2>3. \A i \in Ids : metrics'[i] = ran[i]
    BY <2>1, <2>2 DEF WritesExactly
  <2>4. metrics' = ran
    BY <1>1, <2>1, <2>3
  <2>5. trace.op = "trace"
    OBVIOUS
  <2> HIDE DEF trace
  <2>6. ~Counting'
    BY <1>1, <1>3, <2>1, <2>5 DEF Counting, Alone
  <2> QED BY <2>1, <2>4, <2>6 DEF SerialInv
<1> QED BY <1>2, <1>4, <1>5

\* An author that meets no count and no check finds no counts to change.
LEMMA AuthorKeepsSerial ==
  ASSUME CountInv, SerialInv, AuthorMoves
  PROVE  SerialInv'
<1> SUFFICES ASSUME serial' PROVE SerialInv'
  BY DEF SerialInv
<1>1. check' = check /\ ran' = ran
  BY DEF AuthorMoves
<1>2. CASE UNCHANGED <<graph, metrics, serial>>
  BY <1>1, <1>2 DEF SerialInv, Counting, Alone, ReadsExactly, WritesExactly
<1>3. CASE Disturb
  <2>1. serial /\ ~Counting /\ \A i \in Ids : ran[i] = NoCounts
    BY <1>3 DEF Disturb
  <2>2. metrics = ran
    BY <2>1 DEF SerialInv, Counting, ReadsExactly, WritesExactly
  <2>3. ASSUME NEW i \in Ids, NEW f \in copies, f.prim.id = i PROVE f.counts = NoCounts
    <3>1. f.counts \in Counts
      BY DEF CountInv, MetricsType
    <3>2. ASSUME NEW k \in Kinds PROVE f.counts[k] = 0
      <4>1. f.counts[k] \in Values(i, k)
        BY <2>3 DEF Values
      <4>2. f.counts[k] + Cardinality(Waiting(i, k)) <= ran[i][k]
        BY <4>1 DEF CountInv, Bounded
      <4>3. ran[i][k] = 0
        BY <2>1 DEF NoCounts, Kinds
      <4>4. f.counts[k] \in Nat /\ Cardinality(Waiting(i, k)) \in Nat
        BY <4>1, ValuesType DEF CountInv
      <4> QED BY <4>2, <4>3, <4>4
    <3>3. f.counts.ok = 0 /\ f.counts.failed = 0
      BY <3>2 DEF Kinds
    <3> QED BY <3>1, <3>3 DEF Counts, NoCounts
  <2>4. \A i \in Ids : metrics'[i] = NoCounts
    BY <2>1, <2>2, <2>3 DEF AuthorMoves
  <2>5. metrics' = ran
    BY <2>1, <2>4 DEF AuthorMoves, CountInv, MetricsType
  <2> QED BY <1>1, <2>1, <2>5 DEF SerialInv, Counting
<1> QED BY <1>2, <1>3 DEF AuthorMoves

\* Every step of a check, of a trace and of an author.
LEMMA NextKeepsSerial ==
  ASSUME StoreInv, CountInv, SerialInv, [CheckNext]_checkVars
  PROVE  SerialInv'
<1>1. ASSUME UNCHANGED metricsVars PROVE SerialInv'
  BY <1>1 DEF metricsVars, SerialInv, Counting, Alone, ReadsExactly, WritesExactly
<1>2. ASSUME NEW c \in Threads, TraceCheck(c) PROVE SerialInv'
  <2>1. /\ check[c].op = "trace" /\ check'[c] = Idle /\ \A d \in Threads \ {c} : check'[d] = check[d]
        /\ UNCHANGED <<graph, metrics, ran, serial>>
    BY <1>2 DEF TraceCheck, Goto, CountInv, MetricsType
  <2>2. Idle.op = "idle"
    BY DEF Idle
  <2>3. CASE ~Counting
    BY <2>1, <2>2, <2>3 DEF SerialInv, Counting, Alone, ReadsExactly, WritesExactly
  <2>4. CASE Counting
    <3> SUFFICES ASSUME serial PROVE SerialInv'
      BY <2>1 DEF SerialInv
    <3>1. PICK d \in Threads : Alone(d) /\ (ReadsExactly(d) \/ WritesExactly(d))
      BY <2>4 DEF SerialInv
    <3>2. d # c
      BY <2>1, <3>1 DEF ReadsExactly, WritesExactly
    <3>3. Alone(d)' /\ (ReadsExactly(d)' \/ WritesExactly(d)')
      BY <2>1, <2>2, <3>1, <3>2 DEF Alone, ReadsExactly, WritesExactly
    <3> QED BY <3>3 DEF SerialInv
  <2> QED BY <2>3, <2>4
<1>3. ASSUME NEW c \in Threads, ThreadStep(c) PROVE SerialInv'
  <2>1. CASE StartCheck(c)
    BY <2>1, GroundKeepsSerial DEF StartCheck
  <2>2. CASE UpdateMetrics(c)
    BY <2>2, CountStepKeepsSerial DEF UpdateMetrics
  <2>3. CASE WriteTrace(c) \/ SuppressStep(c)
    BY <1>1, <2>3 DEF WriteTrace, SuppressStep
  <2> QED BY <1>2, <1>3, <2>1, <2>2, <2>3 DEF ThreadStep
<1>4. CASE AuthorStep
  BY <1>4, AuthorStepMoves, AuthorKeepsSerial
<1> QED BY <1>1, <1>3, <1>4 DEF CheckNext, checkVars

-----------------------------------------------------------------------------
(* The trace *)

TraceEntry == [number : Nat, inside : BOOLEAN]
Piece == [entry : TraceEntry, cut : BOOLEAN]
Block == [thread : Threads, found : BOOLEAN]

\* A thread has nothing to write, or one whole line.
TraceType ==
  /\ suppressed \in BOOLEAN /\ crossed \in BOOLEAN
  /\ blocks \in Seq(Block)
  /\ DOMAIN pending = Threads
  /\ \A t \in Threads : pending[t] = << >> \/ \E e \in TraceEntry : pending[t] = Pieces(e)
  /\ file \in Seq(Piece)
  /\ IsFiniteSet(asked) /\ asked \subseteq TraceEntry

\* Blocks left in order put back the flag of the block around them.
BlocksNest ==
  ~crossed => /\ suppressed <=> blocks # << >>
              /\ \A k \in 1..Len(blocks) : blocks[k].found <=> k > 1

Written == {file[k].entry : k \in DOMAIN file}
ToWrite == {e \in TraceEntry : \E t \in Threads : pending[t] = Pieces(e)}

\* What was asked outside is in the file, on its way or dropped.
Accounted == ~crossed => Written \cup dropped \cup ToWrite = {a \in asked : ~a.inside}

\* What was cut short was dropped.
CutsDropped == \A k \in DOMAIN file : file[k].cut => file[k].entry \in dropped

TraceInv == TraceType /\ BlocksNest /\ Accounted /\ CutsDropped

\* The one piece of a line.
LEMMA PiecesFacts ==
  ASSUME NEW e \in TraceEntry
  PROVE  /\ Pieces(e) # << >> /\ Tail(Pieces(e)) = << >>
         /\ Head(Pieces(e)) = [entry |-> e, cut |-> FALSE]
         /\ Head(Pieces(e)) \in Piece
         /\ \A f \in TraceEntry : Pieces(f) = Pieces(e) => f = e
<1> DEFINE piece(f) == [entry |-> f, cut |-> FALSE]
<1>1. \A f \in TraceEntry : piece(f).entry = f
  OBVIOUS
<1>2. piece(e) \in Piece
  BY DEF Piece
<1>3. \A f : Pieces(f) = <<piece(f)>>
  BY DEF Pieces
<1>4. Head(Pieces(e)) = piece(e) /\ Pieces(e) # << >>
  BY <1>3
<1>5. Tail(Pieces(e)) = << >>
  <2> HIDE DEF piece
  <2>1. Pieces(e) \in Seq(Piece) /\ Len(Pieces(e)) = 1
    <3>1. Pieces(e) = <<piece(e)>>
      BY <1>3
    <3>2. \A x \in Piece : <<x>> \in Seq(Piece) /\ Len(<<x>>) = 1
      OBVIOUS
    <3> QED BY <1>2, <3>1, <3>2
  <2>2. Tail(Pieces(e)) \in Seq(Piece) /\ Len(Tail(Pieces(e))) = 0
    BY <1>4, <2>1, HeadTailProperties
  <2> QED BY <2>2, EmptySeq
<1>6. \A f \in TraceEntry : Pieces(f) = Pieces(e) => f = e
  <2> HIDE DEF piece
  <2> QED BY <1>1, <1>3
<1> QED BY <1>2, <1>4, <1>5, <1>6

\* A piece more in the file.
LEMMA AppendedPiece ==
  ASSUME TraceType, NEW x \in Piece, file' = Append(file, x)
  PROVE  /\ file' \in Seq(Piece)
         /\ Written' = Written \cup {x.entry}
         /\ \A k \in DOMAIN file' : (k \in DOMAIN file /\ file'[k] = file[k]) \/ file'[k] = x
<1>1. file \in Seq(Piece)
  BY DEF TraceType
<1>2. /\ file' \in Seq(Piece) /\ Len(file') = Len(file) + 1
      /\ \A k \in 1..Len(file) : file'[k] = file[k]
      /\ file'[Len(file) + 1] = x
  BY <1>1, AppendProperties
<1>3. DOMAIN file = 1..Len(file) /\ DOMAIN file' = 1..(Len(file) + 1) /\ Len(file) \in Nat
  BY <1>1, <1>2
<1>4. DOMAIN file' = DOMAIN file \cup {Len(file) + 1}
  BY <1>3
<1>5. Written' = Written \cup {x.entry}
  BY <1>2, <1>3, <1>4 DEF Written
<1> QED BY <1>2, <1>3, <1>4, <1>5

\* A block less.
LEMMA RemovedBlock ==
  ASSUME NEW s \in Seq(Block), NEW k \in 1..Len(s)
  PROVE  /\ Seqs!RemoveAt(s, k) \in Seq(Block)
         /\ Len(Seqs!RemoveAt(s, k)) = Len(s) - 1
         /\ k = Len(s) => \A i \in 1..(Len(s) - 1) : Seqs!RemoveAt(s, k)[i] = s[i]
<1> DEFINE u == SubSeq(s, 1, k - 1)
           v == SubSeq(s, k + 1, Len(s))
<1>1. Len(s) \in Nat /\ k \in Nat /\ \A i \in 1..Len(s) : s[i] \in Block
  BY ElementOfSeq
<1>2. /\ u \in Seq(Block) /\ Len(u) = k - 1
      /\ \A i \in 1..(k - 1) : u[i] = s[i]
  <2>1. /\ u \in Seq(Block)
        /\ Len(u) = IF 1 <= k - 1 THEN k - 1 - 1 + 1 ELSE 0
        /\ \A i \in 1..(k - 1 - 1 + 1) : u[i] = s[1 + i - 1]
    BY <1>1, SubSeqProperties
  <2> QED BY <1>1, <2>1
<1>3. v \in Seq(Block) /\ Len(v) = Len(s) - k
  <2>1. /\ v \in Seq(Block)
        /\ Len(v) = IF k + 1 <= Len(s) THEN Len(s) - (k + 1) + 1 ELSE 0
    BY <1>1, SubSeqProperties
  <2> QED BY <1>1, <2>1
<1>4. Seqs!RemoveAt(s, k) = u \o v
  BY DEF Seqs!RemoveAt
<1> HIDE DEF u, v
<1>5. /\ u \o v \in Seq(Block) /\ Len(u \o v) = Len(u) + Len(v)
      /\ \A i \in 1..(Len(u) + Len(v)) : (u \o v)[i] = IF i <= Len(u) THEN u[i] ELSE v[i - Len(u)]
  BY <1>2, <1>3, ConcatProperties
<1> QED BY <1>1, <1>2, <1>3, <1>4, <1>5

\* Entering a block.
LEMMA EnterKeeps ==
  ASSUME TraceInv, NEW t \in Threads, Enter(t)
  PROVE  TraceInv'
<1> DEFINE block == [thread |-> t, found |-> suppressed]
<1>1. /\ blocks' = Append(blocks, block) /\ suppressed' = TRUE
      /\ UNCHANGED <<pending, file, asked, dropped, crossed>>
  BY DEF Enter
<1>2. blocks \in Seq(Block) /\ suppressed \in BOOLEAN
  BY DEF TraceInv, TraceType
<1>3. block \in Block /\ block.found = suppressed
  BY <1>2 DEF Block
<1> HIDE DEF block
<1>4. /\ blocks' \in Seq(Block) /\ blocks' # << >> /\ Len(blocks') = Len(blocks) + 1
      /\ \A k \in 1..Len(blocks) : blocks'[k] = blocks[k]
      /\ blocks'[Len(blocks) + 1] = block
  BY <1>1, <1>2, <1>3, AppendProperties
<1>5. TraceType'
  BY <1>1, <1>4 DEF TraceInv, TraceType
<1>6. BlocksNest'
  <2> SUFFICES ASSUME ~crossed' PROVE \A k \in 1..Len(blocks') : blocks'[k].found <=> k > 1
    BY <1>1, <1>4 DEF BlocksNest
  <2>1. (suppressed <=> blocks # << >>) /\ \A k \in 1..Len(blocks) : blocks[k].found <=> k > 1
    BY <1>1 DEF TraceInv, BlocksNest
  <2>2. Len(blocks) \in Nat /\ (blocks # << >> <=> Len(blocks) > 0)
    BY <1>2, EmptySeq
  <2>3. blocks'[Len(blocks) + 1].found <=> Len(blocks) + 1 > 1
    BY <1>3, <1>4, <2>1, <2>2
  <2> TAKE k \in 1..Len(blocks')
  <2>4. k \in 1..Len(blocks) \/ k = Len(blocks) + 1
    BY <1>4, <2>2
  <2> QED BY <1>4, <2>1, <2>3, <2>4
<1>7. Accounted' /\ CutsDropped'
  BY <1>1 DEF TraceInv, Accounted, CutsDropped, Written, ToWrite
<1> QED BY <1>5, <1>6, <1>7 DEF TraceInv

\* Leaving one.
LEMMA ExitKeeps ==
  ASSUME TraceInv, NEW t \in Threads, Exit(t)
  PROVE  TraceInv'
<1>1. PICK k \in DOMAIN blocks : Leave(t, k, blocks[k].found)
  BY DEF Exit
<1>2. /\ suppressed' = blocks[k].found /\ blocks' = Seqs!RemoveAt(blocks, k)
      /\ crossed' = (crossed \/ k # Len(blocks))
      /\ UNCHANGED <<pending, file, asked, dropped>>
  BY <1>1 DEF Leave
<1>3. blocks \in Seq(Block) /\ crossed \in BOOLEAN /\ k \in 1..Len(blocks)
  BY DEF TraceInv, TraceType
<1>4. blocks[k].found \in BOOLEAN
  <2>1. blocks[k] \in Block
    BY <1>3, ElementOfSeq
  <2> QED BY <2>1 DEF Block
<1>5. /\ blocks' \in Seq(Block) /\ Len(blocks') = Len(blocks) - 1
      /\ k = Len(blocks) => \A i \in 1..(Len(blocks) - 1) : blocks'[i] = blocks[i]
  BY <1>2, <1>3, RemovedBlock
<1>6. TraceType'
  BY <1>2, <1>3, <1>4, <1>5 DEF TraceInv, TraceType
<1>7. BlocksNest'
  <2> SUFFICES ASSUME ~crossed'
               PROVE  /\ suppressed' <=> blocks' # << >>
                      /\ \A i \in 1..Len(blocks') : blocks'[i].found <=> i > 1
    BY DEF BlocksNest
  <2>1. ~crossed /\ k = Len(blocks)
    BY <1>2
  <2>2. \A i \in 1..Len(blocks) : blocks[i].found <=> i > 1
    BY <2>1 DEF TraceInv, BlocksNest
  <2>3. Len(blocks) \in Nat
    BY <1>3
  <2>4. blocks' # << >> <=> Len(blocks') > 0
    BY <1>5, <1>3, EmptySeq
  <2>5. suppressed' <=> Len(blocks) > 1
    BY <1>2, <1>3, <2>1, <2>2
  <2>6. \A i \in 1..Len(blocks') : i \in 1..Len(blocks) /\ blocks'[i] = blocks[i]
    BY <1>5, <2>1, <2>3
  <2> QED BY <1>5, <2>2, <2>3, <2>4, <2>5, <2>6
<1>8. Accounted' /\ CutsDropped'
  BY <1>2 DEF TraceInv, Accounted, CutsDropped, Written, ToWrite
<1> QED BY <1>6, <1>7, <1>8 DEF TraceInv

\* A check is asked: outside, and not suppressed, its line is to be written.
LEMMA WriteCheckKeeps ==
  ASSUME TraceInv, NEW t \in Threads, WriteCheck(t)
  PROVE  TraceInv'
<1> DEFINE todo == IF suppressed THEN << >> ELSE Pieces(Entry)
<1>1. /\ pending[t] = << >> /\ asked' = asked \cup {Entry}
      /\ pending' = [pending EXCEPT ![t] = todo]
      /\ UNCHANGED <<suppressed, blocks, file, dropped, crossed>>
  BY DEF WriteCheck, Outside
<1>2. Entry \in TraceEntry /\ (Entry.inside <=> blocks # << >>)
  BY FS_CardinalityType DEF Entry, TraceEntry, TraceInv, TraceType
<1>3. pending'[t] = todo /\ \A d \in Threads \ {t} : pending'[d] = pending[d]
  BY <1>1 DEF TraceInv, TraceType
<1>4. TraceType'
  <2>1. IsFiniteSet(asked')
    BY <1>1, FS_AddElement DEF TraceInv, TraceType
  <2>2. todo = << >> \/ \E e \in TraceEntry : todo = Pieces(e)
    BY <1>2
  <2> HIDE DEF todo
  <2> QED BY <1>1, <1>2, <1>3, <2>1, <2>2 DEF TraceInv, TraceType
<1>5. Accounted'
  <2> SUFFICES ASSUME ~crossed'
               PROVE  Written' \cup dropped' \cup ToWrite' = {a \in asked' : ~a.inside}
    BY DEF Accounted
  <2>1. Written \cup dropped \cup ToWrite = {a \in asked : ~a.inside} /\ (suppressed <=> blocks # << >>)
    BY <1>1 DEF TraceInv, Accounted, BlocksNest
  <2>2. Written' = Written /\ dropped' = dropped
    BY <1>1 DEF Written
  <2>3. CASE suppressed
    <3>1. \A d \in Threads : pending'[d] = pending[d]
      BY <1>1, <1>3, <2>3
    <3>2. ToWrite' = ToWrite
      BY <3>1 DEF ToWrite
    <3> QED BY <1>1, <1>2, <2>1, <2>2, <2>3, <3>2
  <2>4. CASE ~suppressed
    <3>1. pending'[t] = Pieces(Entry)
      BY <1>3, <2>4
    <3>2. \A e \in TraceEntry : Pieces(e) = Pieces(Entry) => e = Entry
      BY <1>2, PiecesFacts
    <3>3. \A e \in TraceEntry : Pieces(e) # << >>
      BY PiecesFacts
    <3>4. ToWrite' = ToWrite \cup {Entry}
      BY <1>1, <1>2, <1>3, <3>1, <3>2, <3>3 DEF ToWrite
    <3> QED BY <1>1, <1>2, <2>1, <2>2, <2>4, <3>4
  <2> QED BY <2>3, <2>4
<1>6. BlocksNest' /\ CutsDropped'
  BY <1>1 DEF TraceInv, BlocksNest, CutsDropped
<1> QED BY <1>4, <1>5, <1>6 DEF TraceInv

\* A line leaves the thread that has it: into the file, cut short, or nowhere.
LEMMA LineLeaves ==
  ASSUME TraceInv, NEW t \in Threads, NEW e \in TraceEntry, pending[t] = Pieces(e),
         pending' = [pending EXCEPT ![t] = << >>],
         UNCHANGED <<suppressed, blocks, asked, crossed>>,
         \/ file' = Append(file, Head(Pieces(e))) /\ dropped' = dropped
         \/ /\ file' \in {file, Append(file, [Head(Pieces(e)) EXCEPT !.cut = TRUE])}
            /\ dropped' = dropped \cup {e}
  PROVE  TraceInv'
<1> DEFINE whole == [entry |-> e, cut |-> FALSE]
           part == [whole EXCEPT !.cut = TRUE]
<1>1. whole \in Piece /\ whole.entry = e /\ ~whole.cut
  BY DEF Piece
<1>2. Head(Pieces(e)) = whole
  BY PiecesFacts
<1> HIDE DEF whole
<1>3. part \in Piece /\ part.entry = e
  BY <1>1 DEF Piece
<1> HIDE DEF part
<1>4. \/ file' = Append(file, whole) /\ dropped' = dropped
      \/ file' = file /\ dropped' = dropped \cup {e}
      \/ file' = Append(file, part) /\ dropped' = dropped \cup {e}
  BY <1>2 DEF part
<1>5. /\ file' \in Seq(Piece)
      /\ Written' \cup dropped' = Written \cup dropped \cup {e}
      /\ CutsDropped'
  <2>1. TraceType /\ file \in Seq(Piece) /\ CutsDropped
    BY DEF TraceInv, TraceType
  <2>2. CASE file' = Append(file, whole) /\ dropped' = dropped
    BY <1>1, <1>3, <2>1, <2>2, AppendedPiece DEF CutsDropped
  <2>3. CASE file' = file /\ dropped' = dropped \cup {e}
    BY <2>1, <2>3 DEF CutsDropped, Written
  <2>4. CASE file' = Append(file, part) /\ dropped' = dropped \cup {e}
    BY <1>1, <1>3, <2>1, <2>4, AppendedPiece DEF CutsDropped
  <2> QED BY <1>4, <2>2, <2>3, <2>4
<1>6. DOMAIN pending' = Threads /\ pending'[t] = << >> /\ \A d \in Threads \ {t} : pending'[d] = pending[d]
  BY DEF TraceInv, TraceType
<1>7. TraceType'
  BY <1>5, <1>6 DEF TraceInv, TraceType
<1>8. ToWrite' \subseteq ToWrite /\ ToWrite \subseteq ToWrite' \cup {e} /\ e \in ToWrite
  <2>1. \A f \in TraceEntry : Pieces(f) = Pieces(e) => f = e
    BY PiecesFacts
  <2>2. \A f \in TraceEntry : Pieces(f) # << >>
    BY PiecesFacts
  <2> QED BY <1>6, <2>1, <2>2 DEF ToWrite
<1>9. Accounted'
  BY <1>5, <1>8 DEF TraceInv, Accounted
<1> QED BY <1>5, <1>7, <1>9 DEF TraceInv, BlocksNest

\* The writer writes the line, or runs out of space.
LEMMA WriteKeeps ==
  ASSUME TraceInv, NEW t \in Threads, WriteLine(t) \/ RunOutOfSpace(t)
  PROVE  TraceInv'
<1>1. PICK e \in TraceEntry : pending[t] = Pieces(e)
  BY DEF WriteLine, RunOutOfSpace, TraceInv, TraceType
<1>2. Head(Pieces(e)) = [entry |-> e, cut |-> FALSE] /\ Tail(Pieces(e)) = << >>
  BY PiecesFacts
<1>3. Head(Pieces(e)).entry = e
  BY <1>2
<1>4. CASE WriteLine(t)
  BY <1>1, <1>2, <1>4, LineLeaves DEF WriteLine
<1>5. CASE RunOutOfSpace(t)
  BY <1>1, <1>3, <1>5, LineLeaves DEF RunOutOfSpace
<1> QED BY <1>4, <1>5

\* Every step of a check, of a trace and of an author.
LEMMA NextKeepsTrace ==
  ASSUME TraceInv, [CheckNext]_checkVars
  PROVE  TraceInv'
<1>1. ASSUME UNCHANGED traceVars PROVE TraceInv'
  BY <1>1 DEF traceVars, TraceInv, TraceType, BlocksNest, Accounted, CutsDropped, Written, ToWrite
<1>2. ASSUME NEW c \in Threads, ThreadStep(c) PROVE TraceInv'
  <2>1. CASE StartCheck(c) \/ UpdateMetrics(c)
    BY <1>1, <2>1 DEF StartCheck, UpdateMetrics
  <2>2. CASE TraceCheck(c)
    BY <2>2, WriteCheckKeeps DEF TraceCheck
  <2>3. CASE WriteTrace(c)
    BY <2>3, WriteKeeps DEF WriteTrace
  <2>4. CASE SuppressStep(c)
    BY <2>4, EnterKeeps, ExitKeeps DEF SuppressStep
  <2> QED BY <1>2, <2>1, <2>2, <2>3, <2>4 DEF ThreadStep
<1> QED BY <1>1, <1>2 DEF CheckNext, checkVars

-----------------------------------------------------------------------------
(* Theorems *)

CheckInv == StoreInv /\ CountInv /\ SerialInv /\ TraceInv

\* Before the first check nothing has run, been asked or been written.
LEMMA InitCheckInv == CheckInit => CheckInv
<1> SUFFICES ASSUME CheckInit PROVE CheckInv
  OBVIOUS
<1>1. StoreInv
  BY InitStoreInv DEF CheckInit, MetricsInit
<1>2. NoCounts \in Counts
  BY DEF NoCounts, Counts
<1>3. /\ metrics = [i \in Ids |-> NoCounts] /\ ran = [i \in Ids |-> NoCounts] /\ copies = {}
      /\ DOMAIN check = Threads /\ \A c \in Threads : check[c].op = "idle"
  BY DEF CheckInit, MetricsInit, Idle
<1>4. MetricsType
  BY <1>2, <1>3 DEF MetricsType
<1>5. ASSUME NEW i \in Ids, NEW k \in Kinds PROVE Bounded(i, k)
  <2>1. Waiting(i, k) = {} /\ \A n \in Values(i, k) : n = metrics[i][k]
    BY <1>3 DEF Waiting, Values
  <2>2. metrics[i][k] = 0 /\ ran[i][k] = 0
    BY <1>3 DEF NoCounts, Kinds
  <2>3. Cardinality({}) = 0
    BY FS_EmptySet
  <2> QED BY <2>1, <2>2, <2>3 DEF Bounded
<1>6. SerialInv
  BY <1>3 DEF SerialInv, Counting
<1>7. TracesInit(Threads)
  BY DEF CheckInit
<1>8. TraceType
  BY <1>7, EmptySeq, FS_EmptySet DEF TracesInit, TraceType
<1>9. BlocksNest /\ CutsDropped
  BY <1>7 DEF TracesInit, BlocksNest, CutsDropped
<1>10. Accounted
  <2>1. \A e \in TraceEntry : Pieces(e) # << >>
    BY PiecesFacts
  <2> QED BY <1>7, <2>1 DEF TracesInit, Accounted, Written, ToWrite
<1> QED BY <1>1, <1>4, <1>5, <1>6, <1>8, <1>9, <1>10 DEF CheckInv, CountInv, TraceInv

\* The parts of the invariant hold together: the counts need the rows to be
\* stored under their own id, and the counts that meet nothing need every copy
\* to be within what has run.
THEOREM CheckInvariant == CheckSpec => []CheckInv
<1>1. CheckInv /\ [CheckNext]_checkVars => CheckInv'
  BY NextKeepsCounts, NextKeepsSerial, NextKeepsTrace DEF CheckInv
<1> QED BY InitCheckInv, <1>1, PTL DEF CheckSpec

\* Overlapping checks, stale copies, deletes and failed updates may lose
\* counts; they never make one up.
THEOREM CheckNeverOvercounts == CheckSpec => []NeverOvercounted
<1>1. CheckInv => NeverOvercounted
  <2> SUFFICES ASSUME CheckInv, NEW i \in Ids
               PROVE  metrics[i].ok <= ran[i].ok /\ metrics[i].failed <= ran[i].failed
    BY DEF NeverOvercounted
  <2>1. ASSUME NEW k \in Kinds PROVE metrics[i][k] <= ran[i][k]
    <3>1. metrics[i][k] \in Values(i, k)
      BY DEF Values
    <3>2. metrics[i][k] + Cardinality(Waiting(i, k)) <= ran[i][k]
      BY <3>1 DEF CheckInv, CountInv, Bounded
    <3>3. metrics[i][k] \in Nat /\ ran[i][k] \in Nat /\ Cardinality(Waiting(i, k)) \in Nat
      BY <3>1, ValuesType DEF CheckInv, CountInv
    <3> QED BY <3>2, <3>3
  <2> QED BY <2>1 DEF Kinds
<1> QED BY <1>1, CheckInvariant, PTL

\* Checks that overlap neither each other nor a write are all counted.
THEOREM CheckCountsExactly == CheckSpec => []SerialCountsExact
<1>1. CheckInv => SerialCountsExact
  BY DEF CheckInv, SerialInv, SerialCountsExact, Counting, ReadsExactly, WritesExactly
<1> QED BY <1>1, CheckInvariant, PTL

\* While blocks are left in the reverse order of their entry, the trace is of
\* exactly the checks made outside them.
THEOREM CheckTracesOutside == CheckSpec => []SuppressedExactlyInside
<1>1. CheckInv => SuppressedExactlyInside
  <2> SUFFICES ASSUME CheckInv, ~crossed, \A t \in DOMAIN pending : Outside(t)
               PROVE  {file[k].entry : k \in DOMAIN file} \cup dropped = {a \in asked : ~a.inside}
    BY DEF SuppressedExactlyInside
  <2>1. \A e \in TraceEntry : Pieces(e) # << >>
    BY PiecesFacts
  <2>2. ToWrite = {}
    BY <2>1 DEF ToWrite, Outside, CheckInv, TraceInv, TraceType
  <2> QED BY <2>2 DEF CheckInv, TraceInv, Accounted, Written
<1> QED BY <1>1, CheckInvariant, PTL

\* Whatever other threads write, an entry written whole is alone on its line,
\* or follows what a full disk left of one that was dropped.
THEOREM CheckLinesAreEntries == CheckSpec => []LinesAreEntries
<1>1. CheckInv => LinesAreEntries
  <2> SUFFICES ASSUME CheckInv, NEW k \in 2..Len(file), file[k - 1].cut
               PROVE  file[k - 1].entry \in dropped
    BY DEF LinesAreEntries
  <2>1. k - 1 \in DOMAIN file
    BY DEF CheckInv, TraceInv, TraceType
  <2> QED BY <2>1 DEF CheckInv, TraceInv, CutsDropped
<1> QED BY <1>1, CheckInvariant, PTL

-----------------------------------------------------------------------------
(* The policy gate and the guard *)

\* The trace of a grounded check has the edge of every placement that the
\* subgraph has.
LEMMA TraceKeepsEdges ==
  ASSUME IsGraph(graph), NEW q, NEW m, Grounded(graph, q, m), NEW p, Concerns(p, graph, q)
  PROVE  Placed(Trace(graph, q), p)
<1> DEFINE s == sub(q)
           F == Frontier(s, roots(q))
           V == VisibleEdges(s)
           t == Trace(graph, q)
<1>0. PICK i \in HoldersOf(s, p.source), j \in HoldersOf(s, p.target) : \E r \in s[i].relata :
        r.rel_type = "APPLIES_TO" /\ r.target = j /\ r.source_depth = p.depth
  BY DEF Concerns, Placed, sub
<1>1. PICK r \in s[i].relata :
        r.rel_type = "APPLIES_TO" /\ r.target = j /\ r.source_depth = p.depth
  BY <1>0
<1>2. i \in DOMAIN s /\ j \in DOMAIN s /\ s[i].name = p.source /\ s[j].name = p.target
  BY DEF HoldersOf
<1> DEFINE e == [source |-> i, relatum |-> r]
<1>3. e \in Edges(s)
  BY <1>2 DEF Edges
<1>4. e \in V /\ i \in F
  BY <1>3, NothingGated, FrontierIsClosure DEF visible, LeavingOf
<1>5. Known(s, i) >= r.source_depth
  BY <1>4 DEF VisibleEdges
<1>6. j \in F
  <2>1. e \in visible(q) /\ e.relatum.target = j
    BY <1>1, <1>3, NothingGated, FrontierIsClosure
  <2> QED BY <2>1, FrontierClosed
<1>7. r.source_depth <= Known(s, i)
  <2>1. Known(s, i) \in Level \cup {None}
    BY ContiguousMaxChain DEF Known, ContiguousMaxDepth
  <2>2. r.source_depth \in Level
    <3>1. i \in Collected(graph, q) /\ r \in graph[i].relata /\ i \in DOMAIN graph
      BY <1>2, SubgraphRows DEF sub
    <3> QED BY <3>1 DEF IsGraph, Primitive, Relatum
  <2> QED BY <1>5, <2>1, <2>2 DEF Level, None
<1>8. /\ DOMAIN t = F
      /\ \A k \in F : /\ t[k].name = s[k].name
                      /\ t[k].relata = {w \in s[k].relata : w.source_depth <= Known(s, k) /\ w.target \in F}
  BY DEF Trace, sub, roots
<1> HIDE DEF s, F, t
<1>9. i \in HoldersOf(t, p.source) /\ j \in HoldersOf(t, p.target)
  BY <1>2, <1>4, <1>6, <1>8 DEF HoldersOf
<1>10. r \in t[i].relata
  BY <1>1, <1>4, <1>6, <1>7, <1>8
<1> QED BY <1>1, <1>9, <1>10 DEF Placed, t

-----------------------------------------------------------------------------
(* The inductive invariant *)

\* The two tables differ by placements that met another of their key, and so do
\* the registrations under way.
RegistryInv ==
  /\ byKey \subseteq byEdge
  /\ byEdge \subseteq byKey \cup overlapping
  /\ \A p \in byEdge : \E o \in byKey : o.key = p.key
  /\ \A p \in underWay : \A o \in byKey \cup underWay : o.key = p.key /\ o # p => o \in overlapping

\* Whatever registers beside an instance that validates overlaps it; what is
\* then enforced besides was validated; and once the instance is built nothing
\* is registered until the registry is cleared.
VreInv(v) ==
  /\ vre[v].state \in {"validating", "frozen", "built"} =>
       /\ underWay \subseteq overlapping
       /\ vre[v].checked => byEdge \ overlapping \subseteq vre[v].validated
  /\ vre[v].state \in {"frozen", "built"} => frozen
  /\ vre[v].state = "built" =>
       /\ {p.key : p \in byEdge \ overlapping} \subseteq vre[v].keys
       /\ vre[v].keys \subseteq {p.key : p \in byEdge}

\* What a call knows of the store it was checked on.
CallInv(c) ==
  /\ call[c].op = "checked" =>
       (Grounded(call[c].at, call[c].query, call[c].floor) =>
          \A p \in Placements : Concerns(p, call[c].at, call[c].query)
                                  => Placed(Trace(call[c].at, call[c].query), p))
  /\ call[c].op \in {"passed", "pending"} =>
       /\ \A p \in call[c].fired : p.confirm
       /\ call[c].owed \subseteq call[c].asked

GuardInv ==
  /\ StoreInv
  /\ byEdge \subseteq Placements /\ underWay \subseteq Placements
  /\ DOMAIN vre = Vres /\ DOMAIN call = Callers
  /\ RegistryInv
  /\ \A v \in Vres : VreInv(v)
  /\ \A c \in Callers : CallInv(c)

\* Looking the placements up: those in the table are validated, those under way
\* overlap the construction.
LEMMA ListPlacementsKeeps ==
  ASSUME GuardInv, NEW v \in Vres, ListPlacements(v)
  PROVE  RegistryInv' /\ \A w \in Vres : VreInv(w)'
<1>1. /\ UNCHANGED <<byKey, byEdge, frozen, underWay>>
      /\ overlapping' = overlapping \cup underWay
  BY DEF ListPlacements, tables
<1>2. /\ vre'[v].state = "validating" /\ vre'[v].checked = vre[v].checked
      /\ vre'[v].validated = {p \in byKey : vre[v].checked}
      /\ \A w \in Vres \ {v} : vre'[w] = vre[w]
  BY DEF ListPlacements, SetVre, GuardInv
<1>3. RegistryInv'
  BY <1>1 DEF GuardInv, RegistryInv
<1>4. VreInv(v)'
  BY <1>1, <1>2 DEF VreInv, GuardInv, RegistryInv
<1>5. ASSUME NEW w \in Vres \ {v} PROVE VreInv(w)'
  <2>1. VreInv(w)
    BY DEF GuardInv
  <2> QED BY <1>1, <1>2, <2>1 DEF VreInv
<1> QED BY <1>3, <1>4, <1>5

\* The other steps of a construction leave the tables alone.
LEMMA ConstructionKeeps ==
  ASSUME GuardInv, NEW v \in Vres,
         \/ \E expect, validate \in BOOLEAN : Construct(v, expect, validate)
         \/ Validate(v) \/ Freeze(v) \/ CacheKeys(v)
  PROVE  RegistryInv' /\ \A w \in Vres : VreInv(w)'
<1>1. /\ UNCHANGED <<byKey, byEdge, underWay, overlapping>> /\ (frozen => frozen')
      /\ \A w \in Vres \ {v} : vre'[w] = vre[w]
  BY DEF Construct, Validate, Freeze, CacheKeys, registry, tables, SetVre, GuardInv
<1>2. RegistryInv'
  BY <1>1 DEF GuardInv, RegistryInv
<1>3. ASSUME NEW w \in Vres \ {v} PROVE VreInv(w)'
  <2>1. VreInv(w)
    BY DEF GuardInv
  <2> QED BY <1>1, <2>1 DEF VreInv
<1>4. VreInv(v)
  BY DEF GuardInv
<1>5. VreInv(v)'
  <2>1. CASE \E expect, validate \in BOOLEAN : Construct(v, expect, validate)
    <3>1. vre'[v].state = "counted"
      BY <2>1 DEF Construct, SetVre, GuardInv
    <3> QED BY <3>1 DEF VreInv
  <2>2. CASE Validate(v)
    <3>1. vre[v].state = "validating"
      BY <2>2 DEF Validate
    <3>2. PICK todo : vre'[v] = Unbuilt \/ vre'[v] = [vre[v] EXCEPT !.todo = todo]
      BY <2>2 DEF Validate, SetVre, GuardInv
    <3>3. CASE vre'[v] = Unbuilt
      BY <3>3 DEF VreInv, Unbuilt
    <3>4. CASE vre'[v] = [vre[v] EXCEPT !.todo = todo]
      <4>1. /\ vre'[v].state = vre[v].state /\ vre'[v].checked = vre[v].checked
            /\ vre'[v].validated = vre[v].validated
        BY <3>4
      <4> QED BY <1>1, <1>4, <3>1, <4>1 DEF VreInv
    <3> QED BY <3>2, <3>3, <3>4
  <2>3. CASE Freeze(v)
    <3>1. /\ vre'[v].state = "frozen" /\ vre'[v].checked = vre[v].checked
          /\ vre'[v].validated = vre[v].validated /\ frozen' /\ vre[v].state = "validating"
      BY <2>3 DEF Freeze, SetVre, GuardInv
    <3> QED BY <1>1, <1>4, <3>1 DEF VreInv
  <2>4. CASE CacheKeys(v)
    <3>1. /\ vre'[v].state = "built" /\ vre'[v].checked = vre[v].checked
          /\ vre'[v].validated = vre[v].validated /\ vre[v].state = "frozen"
          /\ vre'[v].keys = {p.key : p \in byKey}
      BY <2>4 DEF CacheKeys, SetVre, GuardInv
    <3>2. byKey \subseteq byEdge /\ byEdge \ overlapping \subseteq byKey
      BY DEF GuardInv, RegistryInv
    <3> QED BY <1>1, <1>4, <3>1, <3>2 DEF VreInv
  <2> QED BY <2>1, <2>2, <2>3, <2>4
<1> QED BY <1>2, <1>3, <1>5

\* Instances keep the invariant.
LEMMA VreStepKeeps ==
  ASSUME GuardInv, NEW v \in Vres, VreStep(v)
  PROVE  GuardInv'
<1>1. UNCHANGED vars /\ call' = call /\ byEdge' = byEdge /\ underWay' = underWay /\ DOMAIN vre' = Vres
  BY DEF VreStep, Construct, ListPlacements, Validate, Freeze, CacheKeys, registry, tables, SetVre, GuardInv
<1>2. StoreInv'
  BY <1>1, NextStoreInv DEF GuardInv
<1>3. \A c \in Callers : CallInv(c)'
  BY <1>1 DEF GuardInv, CallInv
<1>4. RegistryInv' /\ \A w \in Vres : VreInv(w)'
  BY ListPlacementsKeeps, ConstructionKeeps DEF VreStep
<1> QED BY <1>1, <1>2, <1>3, <1>4 DEF GuardInv

\* The checks of a registration let in a key that is used by nothing but rivals.
LEMMA RegisterKeeps ==
  ASSUME GuardInv, NEW p \in Placements, Register(p)
  PROVE  RegistryInv' /\ underWay' \subseteq Placements /\ \A v \in Vres : VreInv(v)'
<1>1. /\ p \notin underWay /\ ~frozen /\ underWay' = underWay \cup {p}
      /\ overlapping' = (overlapping \ {p}) \cup Met(p)
      /\ UNCHANGED <<byKey, byEdge, frozen, vre>>
  BY DEF Register
<1>2. \A o \in byKey : o.key # p.key
  BY DEF Register, KeyUnused
<1>3. p \notin byEdge
  BY <1>2 DEF GuardInv, RegistryInv
<1>4. \A o \in underWay : o.key = p.key => {o, p} \subseteq overlapping'
  BY <1>1 DEF Met, Rivals
<1>5. overlapping \ {p} \subseteq overlapping'
  BY <1>1
<1>6. RegistryInv'
  <2>1. byEdge \subseteq byKey \cup overlapping'
    BY <1>3, <1>5 DEF GuardInv, RegistryInv
  <2>2. ASSUME NEW u \in underWay', NEW o \in byKey \cup underWay', o.key = u.key, o # u
        PROVE  o \in overlapping'
    <3>1. CASE u = p
      BY <1>1, <1>2, <1>4, <2>2, <3>1
    <3>2. CASE u # p /\ o = p
      BY <1>1, <1>4, <2>2, <3>2
    <3>3. CASE u # p /\ o # p
      BY <1>1, <1>5, <2>2, <3>3 DEF GuardInv, RegistryInv
    <3> QED BY <3>1, <3>2, <3>3
  <2> QED BY <1>1, <2>1, <2>2 DEF GuardInv, RegistryInv
<1>7. ASSUME NEW v \in Vres PROVE VreInv(v)'
  <2>1. VreInv(v)
    BY DEF GuardInv
  <2>2. vre[v].state \notin {"frozen", "built"}
    BY <1>1, <2>1 DEF VreInv
  <2>3. CASE vre[v].state = "validating"
    <3>1. p \in overlapping'
      BY <1>1, <2>3 DEF Met
    <3>2. overlapping \subseteq overlapping'
      BY <1>5, <3>1
    <3> QED BY <1>1, <2>1, <2>2, <2>3, <3>1, <3>2 DEF VreInv
  <2>4. CASE vre[v].state # "validating"
    BY <1>1, <2>2, <2>4 DEF VreInv
  <2> QED BY <2>3, <2>4
<1> QED BY <1>1, <1>6, <1>7 DEF GuardInv

\* The insertion drops from the table by key only a rival.
LEMMA InsertKeeps ==
  ASSUME GuardInv, NEW p \in Placements, Insert(p)
  PROVE  RegistryInv' /\ underWay' \subseteq Placements /\ \A v \in Vres : VreInv(v)'
<1>1. /\ p \in underWay /\ underWay' = underWay \ {p} /\ byEdge' = byEdge \cup {p}
      /\ byKey' = {o \in byKey : o.key # p.key} \cup {p}
      /\ UNCHANGED <<frozen, overlapping, vre>>
  BY DEF Insert
<1>2. \A o \in byKey : o.key = p.key /\ o # p => o \in overlapping
  BY <1>1 DEF GuardInv, RegistryInv
<1>3. RegistryInv'
  <2>1. byKey' \subseteq byEdge'
    BY <1>1 DEF GuardInv, RegistryInv
  <2>2. byEdge' \subseteq byKey' \cup overlapping
    BY <1>1, <1>2 DEF GuardInv, RegistryInv
  <2>3. ASSUME NEW q \in byEdge' PROVE \E o \in byKey' : o.key = q.key
    <3>1. CASE q.key = p.key
      BY <1>1, <3>1
    <3>2. CASE q.key # p.key
      <4>1. PICK o \in byKey : o.key = q.key
        BY <1>1, <3>2 DEF GuardInv, RegistryInv
      <4> QED BY <1>1, <3>2, <4>1
    <3> QED BY <3>1, <3>2
  <2>4. byKey' \cup underWay' \subseteq byKey \cup underWay /\ underWay' \subseteq underWay
    BY <1>1
  <2>5. \A u \in underWay' : \A o \in byKey' \cup underWay' : o.key = u.key /\ o # u => o \in overlapping'
    BY <1>1, <2>4 DEF GuardInv, RegistryInv
  <2> QED BY <1>1, <2>1, <2>2, <2>3, <2>5 DEF RegistryInv
<1>4. ASSUME NEW v \in Vres PROVE VreInv(v)'
  <2>1. VreInv(v)
    BY DEF GuardInv
  <2>2. CASE vre[v].state \in {"validating", "frozen", "built"}
    <3>1. p \in overlapping /\ underWay' \subseteq overlapping
      BY <1>1, <2>1, <2>2 DEF VreInv
    <3>2. byEdge' \ overlapping = byEdge \ overlapping
      BY <1>1, <3>1
    <3> QED BY <1>1, <2>1, <3>1, <3>2 DEF VreInv
  <2>3. CASE vre[v].state \notin {"validating", "frozen", "built"}
    BY <1>1, <2>3 DEF VreInv
  <2> QED BY <2>2, <2>3
<1> QED BY <1>1, <1>3, <1>4 DEF GuardInv

\* Registration and teardown keep the invariant.
LEMMA RegistryStepKeeps ==
  ASSUME GuardInv, RegistryStep
  PROVE  GuardInv'
<1>1. StoreInv' /\ call' = call
  <2>1. UNCHANGED <<vars, call>>
    BY DEF RegistryStep, Register, Insert, ClearRegistry
  <2> QED BY <2>1, NextStoreInv DEF GuardInv
<1>2. \A c \in Callers : CallInv(c)'
  BY <1>1 DEF GuardInv, CallInv
<1>3. CASE ClearRegistry
  <2>1. /\ byKey' = {} /\ byEdge' = {} /\ overlapping' = underWay /\ underWay' = underWay
        /\ DOMAIN vre' = Vres
        /\ \A v \in Vres : vre'[v] = IF vre[v].state \in {"frozen", "built"} THEN Outlived ELSE vre[v]
    BY <1>3 DEF ClearRegistry
  <2>2. RegistryInv'
    BY <2>1 DEF RegistryInv
  <2>3. ASSUME NEW v \in Vres PROVE VreInv(v)'
    <3>1. vre'[v].state \notin {"frozen", "built"}
      BY <2>1 DEF Outlived
    <3> QED BY <2>1, <3>1 DEF VreInv
  <2> QED BY <1>1, <1>2, <2>1, <2>2, <2>3 DEF GuardInv
<1>4. CASE \E p \in Placements : Register(p) \/ Insert(p)
  <2>1. PICK p \in Placements : Register(p) \/ Insert(p)
    BY <1>4
  <2>2. RegistryInv' /\ underWay' \subseteq Placements /\ \A v \in Vres : VreInv(v)'
    BY <2>1, RegisterKeeps, InsertKeeps
  <2>3. vre' = vre /\ byEdge' \subseteq byEdge \cup {p}
    BY <2>1 DEF Register, Insert
  <2> QED BY <1>1, <1>2, <2>2, <2>3 DEF GuardInv
<1> QED BY <1>3, <1>4 DEF RegistryStep

\* The steps of a guarded call keep the invariant.
LEMMA CallStepKeeps ==
  ASSUME GuardInv, NEW c \in Callers, CallStep(c)
  PROVE  GuardInv'
<1>1. /\ UNCHANGED <<vars, byKey, byEdge, frozen, underWay, overlapping, vre>>
      /\ DOMAIN call' = Callers
      /\ \A d \in Callers \ {c} : call'[d] = call[d]
  BY DEF CallStep, StartCall, BlockUngrounded, Evaluate, Confirm, Decline, Finish, SetCall, GuardInv,
     registry, tables
<1>2. StoreInv' /\ RegistryInv' /\ \A v \in Vres : VreInv(v)'
  <2>1. StoreInv'
    BY <1>1, NextStoreInv DEF GuardInv
  <2> QED BY <1>1, <2>1 DEF GuardInv, RegistryInv, VreInv
<1>3. \A d \in Callers \ {c} : CallInv(d)'
  BY <1>1 DEF GuardInv, CallInv
<1>4. CallInv(c)'
  <2>0. CASE call'[c] = NoCall
    BY <2>0 DEF CallInv, NoCall
  <2>1. ASSUME NEW v \in Vres, NEW q \in Queries, NEW m \in Floors, NEW card \in Cardinalities,
               StartCall(c, v, q, m, card)
        PROVE  CallInv(c)'
    <3>1. call'[c] = [op |-> "checked", at |-> graph, query |-> q, floor |-> m, card |-> card]
      BY <2>1 DEF StartCall, SetCall, GuardInv
    <3>2. IsGraph(graph)
      BY DEF GuardInv, StoreInv, TypeOK
    <3>3. Grounded(graph, q, m) => \A p \in Placements : Concerns(p, graph, q) => Placed(Trace(graph, q), p)
      BY <3>2, TraceKeepsEdges
    <3> QED BY <3>1, <3>3 DEF CallInv
  <2>2. CASE Evaluate(c)
    <3> DEFINE heard == Asked(Trace(call[c].at, call[c].query), call[c].card)
               due == {p \in byEdge : Concerns(p, call[c].at, call[c].query) /\ Applicable(p, call[c].card)}
    <3>1. PICK fired \in SUBSET heard :
            call'[c] = [op |-> IF fired = {} THEN "passed"
                               ELSE IF HardBlocks(fired) # {} THEN "blocked" ELSE "pending",
                        owed |-> due, asked |-> heard, fired |-> fired]
      BY <2>2 DEF Evaluate, SetCall, GuardInv
    <3>2. due \subseteq heard
      BY <2>2 DEF Evaluate, GuardInv, CallInv, Asked
    <3>3. call'[c].op \in {"passed", "pending"} => \A p \in fired : p.confirm
      BY <3>1 DEF HardBlocks
    <3> HIDE DEF heard, due
    <3> QED BY <3>1, <3>2, <3>3 DEF CallInv
  <2>3. CASE Confirm(c)
    <3>1. call'[c] = [call[c] EXCEPT !.op = "passed"] /\ call[c].op = "pending"
      BY <2>3 DEF Confirm, SetCall, GuardInv
    <3> QED BY <3>1 DEF GuardInv, CallInv
  <2>4. BlockUngrounded(c) \/ Decline(c) \/ Finish(c) => call'[c] = NoCall
    BY DEF BlockUngrounded, Decline, Finish, SetCall, GuardInv
  <2> QED BY <2>0, <2>1, <2>2, <2>3, <2>4 DEF CallStep
<1> QED BY <1>1, <1>2, <1>3, <1>4 DEF GuardInv

\* Every step keeps the invariant; authors touch neither registry nor calls.
LEMMA GuardNextKeeps ==
  ASSUME GuardInv, [GuardNext]_guardVars
  PROVE  GuardInv'
<1>1. CASE AuthorsWrite \/ UNCHANGED guardVars
  <2>1. UNCHANGED gvars /\ [Next]_vars
    BY <1>1 DEF AuthorsWrite, guardVars
  <2>2. StoreInv'
    BY <2>1, NextStoreInv DEF GuardInv
  <2>3. UNCHANGED <<byKey, byEdge, frozen, underWay, overlapping, vre, call>>
    BY <2>1 DEF gvars, registry, tables
  <2> QED BY <2>2, <2>3 DEF GuardInv, RegistryInv, VreInv, CallInv
<1> QED BY <1>1, RegistryStepKeeps, VreStepKeeps, CallStepKeeps DEF GuardNext

-----------------------------------------------------------------------------
(* Theorems *)

\* The invariant holds for any placements, instances, callers and drafts.
THEOREM GuardInvariant == GuardSpec => []GuardInv
<1>1. GuardInit => GuardInv
  <2> SUFFICES ASSUME GuardInit PROVE GuardInv
    OBVIOUS
  <2>1. StoreInv
    BY InitStoreInv DEF GuardInit
  <2> QED BY <2>1 DEF GuardInit, GuardInv, RegistryInv, VreInv, CallInv, Unbuilt, NoCall
<1>2. GuardInv /\ [GuardNext]_guardVars => GuardInv'
  BY GuardNextKeeps
<1> QED BY <1>1, <1>2, PTL DEF GuardSpec

\* From its freeze to a teardown an instance enforces what it validated, and
\* its traces name what it enforces, but for registrations that overlapped a
\* construction.
THEOREM GuardValidated == GuardSpec => []EnforcedWasValidated
<1>1. GuardInv => EnforcedWasValidated
  BY DEF GuardInv, VreInv, EnforcedWasValidated
<1> QED BY <1>1, GuardInvariant, PTL

\* A guarded tool runs only past every policy on the concepts it declares.
THEOREM GuardRuns == GuardSpec => []RunsPastEveryPolicy
<1>1. GuardInv => RunsPastEveryPolicy
  BY DEF GuardInv, CallInv, RunsPastEveryPolicy
<1> QED BY <1>1, GuardInvariant, PTL

=============================================================================
