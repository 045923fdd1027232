------------------------------- MODULE Metrics -------------------------------
(***************************************************************************)
(* The grounding metrics of the primitives: MetricsManager reads the       *)
(* counts, adds to them in the process and writes them back, in two calls  *)
(* of the repository after the check.  The counts are a column of the row, *)
(* so every save of the primitive writes them too.                         *)
(***************************************************************************)
EXTENDS GroundedStore

CONSTANTS
  Threads,    \* the callers of VRE.check
  Amended     \* the primitives that callers read, amend and save

ASSUME AmendedAssumption == Amended \subseteq Ids

ASSUME ThreadsAssumption == IsFiniteSet(Threads)

VARIABLES
  metrics,   \* the counts of each row; no metrics is no counts
  check,     \* where each thread is in VRE.check
  copies,    \* primitives callers read and may save again, with their counts
  ran,       \* history: the checks that resolved each primitive as a root
  serial     \* history: no check has met another one, a write or a failure

metricsVars == <<graph, result, metrics, check, copies, ran, serial>>

Counts == [ok : Nat, failed : Nat]
NoCounts == [ok |-> 0, failed |-> 0]

Idle == [op |-> "idle"]

MetricsInit ==
  /\ Init
  /\ metrics = [i \in Ids |-> NoCounts]
  /\ check = [c \in Threads |-> Idle]
  /\ copies = {}
  /\ ran = [i \in Ids |-> NoCounts]
  /\ serial = TRUE

Goto(c, step) == check' = [check EXCEPT ![c] = step]

One(blamed) == IF blamed THEN "failed" ELSE "ok"

\* Metrics with one more check that blames the primitive, or does not.
Counted(old, blamed) == [old EXCEPT ![One(blamed)] = @ + 1]

\* Fault: every root is blamed for any gap.
BlamedTogether(g, q, m) == IF Grounded(g, q, m) THEN {} ELSE Roots(g, q)

\* gap_primitive_ids: what each gap is about, of a relational one its target.
GapPrimitiveIds(g, q, m) == {p.id : p \in {x \in Gaps(g, q, m) : x.kind # "EXISTENCE"}}

Counting == \E c \in Threads : check[c].op \in {"read", "write"}

-----------------------------------------------------------------------------
(* VRE.check: ground, then update_grounding *)

\* The grounding; the roots of the trace are the targets of the update.
Ground(c, q, m) ==
  /\ check[c] = Idle
  /\ Goto(c, [op |-> "read", targets |-> Roots(graph, q), blamed |-> GapPrimitiveIds(graph, q, m)])
  /\ ran' = [i \in Ids |-> IF i \notin Roots(graph, q) THEN ran[i]
       ELSE Counted(ran[i], \E p \in Gaps(graph, q, m) : p.kind # "EXISTENCE" /\ p.id = i)]
  /\ serial' = (serial /\ ~Counting)
  /\ UNCHANGED <<graph, result, metrics, copies>>

\* batch_read_metrics: rows that are gone are not counted.
BatchRead(c) ==
  /\ check[c].op = "read"
  /\ LET found == check[c].targets \cap DOMAIN graph
     IN  Goto(c, [op |-> "write",
                  counts |-> [i \in found |-> Counted(metrics[i], i \in check[c].blamed)]])
  /\ UNCHANGED <<graph, result, metrics, copies, ran, serial>>

\* batch_update_metrics: an UPDATE of a row that is gone changes nothing.
BatchUpdate(c) ==
  /\ check[c].op = "write"
  /\ metrics' = [i \in Ids |-> IF i \in DOMAIN check[c].counts \cap DOMAIN graph
                               THEN check[c].counts[i] ELSE metrics[i]]
  /\ Goto(c, [op |-> "trace"])
  /\ UNCHANGED <<graph, result, copies, ran, serial>>

\* Either call fails: a warning in the log, the check answers all the same.
GiveUp(c) ==
  /\ check[c].op \in {"read", "write"}
  /\ Goto(c, [op |-> "trace"])
  /\ serial' = FALSE
  /\ UNCHANGED <<graph, result, metrics, copies, ran>>

-----------------------------------------------------------------------------
(* The authors and the learning engine save whole rows *)

\* A new row has the counts of the primitive it was made from.
SetCounts(i, counts) ==
  metrics' = IF result' = "ok" THEN [metrics EXCEPT ![i] = counts] ELSE metrics

\* A write that finds counts, or a check under way, takes part in them.
Disturb == serial' = (serial /\ ~Counting /\ \A i \in Ids : ran[i] = NoCounts)

\* A primitive made by an author has no metrics, and takes those of the row it
\* replaces away.
SaveFresh(p) == SavePrimitive(p) /\ SetCounts(p.id, NoCounts)

Upsert(p) == UpsertPrimitive(p) /\ SetCounts(Canonical(graph, p).id, NoCounts)

Delete(i) == DeletePrimitive(i) /\ metrics' = [metrics EXCEPT ![i] = NoCounts]

\* A caller reads a primitive (one at a time) ...
Fetch(i) ==
  /\ copies = {}
  /\ i \in DOMAIN graph
  /\ copies' = {[prim |-> graph[i], counts |-> metrics[i]]}
  /\ UNCHANGED <<graph, result, metrics, check, ran, serial>>

\* ... and saves it later, as learn_gap does, with the counts it had then.
SaveFetched(f) ==
  /\ copies' = copies \ {f}
  /\ SavePrimitive(f.prim)
  /\ SetCounts(f.prim.id, f.counts)
  /\ Disturb
  /\ UNCHANGED <<check, ran>>

AuthorStep ==
  \/ /\ \/ \E p \in Drafts : SaveFresh(p) \/ Upsert(p)
        \/ \E i \in Ids : Delete(i)
     /\ Disturb
     /\ UNCHANGED <<check, copies, ran>>
  \/ \E i \in Amended : Fetch(i)
  \/ \E f \in copies : SaveFetched(f)

CountStep(c) == BatchRead(c) \/ BatchUpdate(c) \/ GiveUp(c)

-----------------------------------------------------------------------------

\* Counts may be lost, but none is made up: whatever checks, saves of stale
\* copies, deletes and failed updates overlap, a primitive has no more
\* groundings than the checks that found it sound and no more failures than
\* those whose gaps were about it.
NeverOvercounted ==
  \A i \in Ids : metrics[i].ok <= ran[i].ok /\ metrics[i].failed <= ran[i].failed

\* Checks that overlap neither each other nor a write are all counted, each for
\* exactly the roots it resolved and against exactly those its gaps are about.
SerialCountsExact == serial /\ ~Counting => metrics = ran

=============================================================================
