------------------------------- MODULE Seeders -------------------------------
(***************************************************************************)
(* The seed scripts as programs over the repository: a run binds each      *)
(* concept to the primitive it just saved, cites the ids of those in later *)
(* relata, and may die between any two calls, be started again, and find   *)
(* that somebody else deleted what it relies on.                           *)
(***************************************************************************)
EXTENDS Grounding, FiniteSets

CONSTANTS
  Running,    \* the scripts users start: names of Script
  MaxRuns,    \* bound: runs started
  MaxEdits    \* bound: deletes by others

GapDemo == INSTANCE SeedGaps
Domain  == INSTANCE SeedFilesystem

\* scripts/seed_gaps.py, seeders/seed_filesystem.py, scripts/clear_graph.py
Script == [gaps |-> GapDemo!main, filesystem |-> Domain!main, clear |-> <<GapDemo!Clear>>]

\* The concepts of the scripts are names.
ASSUME NamesAssumption ==
  /\ IsFiniteSet(Names)
  /\ \A s \in DOMAIN Script : \A k \in DOMAIN Script[s] :
       Script[s][k].op # "clear" => Script[s][k].name \in Names

ASSUME BoundsAssumption == MaxRuns \in Nat

ASSUME RunningAssumption == Running \subseteq DOMAIN Script

\* A uuid is the concept it was made for and a number: every run makes new ones.
ASSUME UuidsAssumption == Ids = Names \X (1..MaxRuns)

VARIABLES
  graph,     \* the committed rows
  run,       \* the current or last run: its script, its next step (0 when it ended), its variables
  runs,      \* the runs started
  edits,     \* the deletes so far
  outcome,   \* "running", "done", "died", or what refused the last save of the run
  before,    \* history: the graph as the current or last run found it
  alone      \* history: nobody else wrote since it started

vars == <<graph, run, runs, edits, outcome, before, alone>>

NoRun == [script |-> "none", step |-> 0, bound |-> << >>]

IsRunning == run.step # 0

Init ==
  /\ graph = << >>
  /\ run = NoRun
  /\ runs = 0
  /\ edits = 0
  /\ outcome = "none"
  /\ before = << >>
  /\ alone = TRUE

-----------------------------------------------------------------------------
(* save_primitive on a graph of twenty concepts: what SaveResult answers,  *)
(* the cycle check as the search it is                                     *)

\* The nodes reached from S along succ, ring by ring.  On a finite graph it is
\* ReachFrom, see ReachedIsReachFrom in SeedersProofs.
Reached(S, succ) ==
  LET D == DOMAIN succ
      grow[T \in SUBSET D] ==
        LET ring == ((UNION {succ[i] : i \in T}) \cap D) \ T
        IN  IF ring = {} THEN T ELSE grow[T \cup ring]
  IN  grow[S \cap D]

Answer(g, p) ==
  IF NameTaken(g, p) THEN "name_taken"
  ELSE IF p.id \in Reached(TransitiveTargets(p), TransitiveSucc(Unlinked(g, p))) THEN "cyclic"
  ELSE IF Dangles(g, p) THEN "dangling"
  ELSE "ok"

-----------------------------------------------------------------------------
(* A run *)

Step == Script[run.script][run.step]

Bound(n) == run.bound[n]

\* The relata of a step, their targets looked up in the variables.
Cited(relata) ==
  {[rel_type |-> r.rel_type, source_depth |-> r.source_depth,
    target |-> Bound(r.target).id, target_depth |-> r.target_depth] : r \in relata}

\* Fault: the relata of the object are replaced, not extended.
RewiredAlone(s) == [Bound(s.name) EXCEPT !.relata = Cited(s.relata)]

\* The object built by an earlier step, with more relata.
Rewired(s) == [Bound(s.name) EXCEPT !.relata = @ \cup Cited(s.relata)]

Built(s) ==
  IF s.new THEN [id |-> <<s.name, runs>>, name |-> s.name, depths |-> s.depths,
                 relata |-> Cited(s.relata)]
  ELSE Rewired(s)

\* Fault: an upsert does not look the name up.
AsBuilt(g, s) == Built(s)

\* What is saved: upsert_primitive takes over the id of the holder of the name.
Canonical(g, s) ==
  LET holders == HoldersOf(g, s.name)
  IN  IF s.op = "upsert" /\ holders # {}
      THEN [Built(s) EXCEPT !.id = CHOOSE i \in holders : TRUE] ELSE Built(s)

End(how) == run' = [run EXCEPT !.step = 0, !.bound = << >>] /\ outcome' = how

\* The variables after a step; the last one ends the run.
Proceed(bound) ==
  IF run.step = Len(Script[run.script]) THEN End("done")
  ELSE run' = [run EXCEPT !.step = @ + 1, !.bound = bound] /\ UNCHANGED outcome

Begin(s) ==
  /\ ~IsRunning
  /\ runs < MaxRuns
  /\ runs' = runs + 1
  /\ run' = [script |-> s, step |-> 1, bound |-> << >>]
  /\ outcome' = "running"
  /\ before' = graph
  /\ alone' = TRUE
  /\ UNCHANGED <<graph, edits>>

ClearStep ==
  /\ IsRunning
  /\ Step.op = "clear"
  /\ graph' = Without(graph, DOMAIN graph)
  /\ Proceed(run.bound)
  /\ UNCHANGED <<runs, edits, before, alone>>

\* A refused save raises, and ends the script where it is.
SaveStep ==
  /\ IsRunning
  /\ Step.op # "clear"
  /\ LET p == Canonical(graph, Step)
         answer == Answer(graph, p)
     IN  IF answer = "ok"
         THEN /\ graph' = Saved(graph, p)
              /\ Proceed([n \in DOMAIN run.bound \cup {p.name} |->
                            IF n = p.name THEN p ELSE run.bound[n]])
         ELSE End(answer) /\ UNCHANGED graph
  /\ UNCHANGED <<runs, edits, before, alone>>

Die ==
  /\ IsRunning
  /\ End("died")
  /\ UNCHANGED <<graph, runs, edits, before, alone>>

\* Another client deletes a primitive.
DeleteByOther(i) ==
  /\ edits < MaxEdits
  /\ i \in DOMAIN graph
  /\ graph' = Without(graph, {i})
  /\ edits' = edits + 1
  /\ alone' = FALSE
  /\ UNCHANGED <<run, runs, outcome, before>>

RunStep == ClearStep \/ SaveStep

Next ==
  \/ \E s \in Running : Begin(s)
  \/ RunStep \/ Die
  \/ \E i \in DOMAIN graph : DeleteByOther(i)

Spec == Init /\ [][Next]_vars

-----------------------------------------------------------------------------
(* What a script declares, told from its steps alone *)

StepsOf(s, n) == {k \in DOMAIN Script[s] : Script[s][k].op # "clear" /\ Script[s][k].name = n}

DeclaredNames(s) == {n \in Names : StepsOf(s, n) # {}}

DeclaredDepths(s, n) == Script[s][CHOOSE k \in StepsOf(s, n) : Script[s][k].new].depths

DeclaredRelata(s, n) == UNION {Script[s][k].relata : k \in StepsOf(s, n)}

\* The relata of a row by the name of their target.
RelataByName(g, i) == {[r EXCEPT !.target = g[r.target].name] : r \in g[i].relata}

\* The graph says of the concepts of s what s declares, and nothing else.
Matches(g, s) == \A n \in DeclaredNames(s) : \E i \in HoldersOf(g, n) :
  g[i].depths = DeclaredDepths(s, n) /\ RelataByName(g, i) = DeclaredRelata(s, n)

Completed(s) == run.script = s /\ outcome = "done" /\ alone

-----------------------------------------------------------------------------
(* Properties *)

\* A script that ran to its end alone leaves what it declares, whatever graph
\* it found: fresh, seeded before, by the other script, or half seeded by runs
\* that died at any step.
CompletedIsDeclared == \A s \in {"gaps", "filesystem"} : Completed(s) => Matches(graph, s)

\* No such graph makes the repository refuse a save of a script: names are not
\* taken twice, the relata of an earlier run close no cycle with those of this
\* one, and what is cited is there.
NeverRefused == alone => outcome \notin {"name_taken", "cyclic", "dangling"}

\* "Idempotent - re-running preserves existing primitive ids by name": at no
\* step of the filesystem seeder is a primitive gone or renamed that it found.
IdsPreserved ==
  run.script = "filesystem" /\ alone =>
    \A i \in DOMAIN before : i \in DOMAIN graph /\ graph[i].name = before[i].name

\* README.md: "Fully grounded filesystem domain - 20 primitives, all at D3+ with
\* complete relata": both ends of every relatum are as deep as it asks.
FullyGrounded ==
  Completed("filesystem") =>
    /\ \A i \in DOMAIN graph : ContiguousMaxDepth(graph[i]) >= 3
    /\ \A e \in Edges(graph) :
         /\ ContiguousMaxDepth(graph[e.source]) >= e.relatum.source_depth
         /\ ContiguousMaxDepth(graph[e.relatum.target]) >= e.relatum.target_depth

\* The gaps of a query, each with the concept it is about.
Blamed(q) ==
  {<<p.kind, IF p.kind = "EXISTENCE" THEN p.name ELSE graph[p.id].name>> : p \in Gaps(graph, q, None)}

\* What seed_gaps.py prints when it is done: the gaps of each query, whom they
\* blame, and the depths scripts/README.md tells.  Where delete and create lead
\* nowhere the engine names them, the smaller side; scripts/README.md names the
\* file or the directory.
DemoGaps ==
  Completed("gaps") =>
    /\ Grounded(graph, <<"list", "directory">>, None)
    /\ Blamed(<<"read", "file">>) = {<<"RELATIONAL", "file">>}
    /\ \A p \in Gaps(graph, <<"read", "file">>, None) :
         graph[p.source].name = "read" /\ p.required = 2 /\ p.current = 1
    /\ \A n \in {"file", "directory"} :
         /\ Blamed(<<"delete", n>>) = {<<"REACHABILITY", "delete">>}
         /\ Blamed(<<"create", n>>) = {<<"DEPTH", "create">>, <<"REACHABILITY", "create">>}
         /\ \A p \in Gaps(graph, <<"create", n>>, None) :
              p.kind = "DEPTH" => p.required = 3 /\ p.current = 1

=============================================================================
