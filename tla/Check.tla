-------------------------------- MODULE Check --------------------------------
(***************************************************************************)
(* VRE.check, whole: the grounding, the update of the metrics and the      *)
(* trace, one after the other, by several threads on one instance, with    *)
(* authors writing to the store and suppress() blocks open around them.    *)
(***************************************************************************)
EXTENDS Metrics, Tracing

CONSTANT MaxChecks    \* bound: checks of all threads

ASSUME MaxChecksAssumption == MaxChecks \in Nat

checkVars == <<metricsVars, traceVars>>

CheckInit == MetricsInit /\ TracesInit(Threads)

\* A thread between calls.
Free(c) == check[c] = Idle /\ Outside(c)

UnderWay == {c \in Threads : check[c] # Idle}

StartCheck(c) ==
  /\ Free(c)
  /\ Cardinality(asked) + Cardinality(UnderWay) < MaxChecks
  /\ \E q \in Queries, m \in Floors : Ground(c, q, m)
  /\ UNCHANGED traceVars

UpdateMetrics(c) == CountStep(c) /\ UNCHANGED traceVars

\* The counts are written, or were given up: the check is traced.
TraceCheck(c) ==
  /\ check[c].op = "trace"
  /\ Goto(c, Idle)
  /\ WriteCheck(c)
  /\ UNCHANGED <<graph, result, metrics, copies, ran, serial>>

WriteTrace(c) == (WriteLine(c) \/ RunOutOfSpace(c)) /\ UNCHANGED metricsVars

SuppressStep(c) ==
  /\ Free(c)
  /\ Enter(c) \/ Exit(c)
  /\ UNCHANGED metricsVars

ThreadStep(c) ==
  \/ StartCheck(c) \/ UpdateMetrics(c) \/ TraceCheck(c) \/ WriteTrace(c)
  \/ SuppressStep(c)

CheckNext ==
  \/ \E c \in Threads : ThreadStep(c)
  \/ AuthorStep /\ UNCHANGED traceVars

CheckSpec == CheckInit /\ [][CheckNext]_checkVars

=============================================================================
