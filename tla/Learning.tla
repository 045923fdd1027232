------------------------------ MODULE Learning ------------------------------
(***************************************************************************)
(* The learning loop: integrators ground a query, hold the gaps it         *)
(* reported, have candidates proposed and approved, and hand them one by   *)
(* one to learn_gap.  learn_gap reads the live primitive, validates the    *)
(* candidate against it, and saves the amended copy in a transaction of    *)
(* its own; between the check and the call, and between the read and the   *)
(* save, authors and other learners may write.                             *)
(***************************************************************************)
EXTENDS GroundedStore

CONSTANTS
  Learners,
  InitialGraphs,   \* graphs authors left in the store
  NewIds,          \* the ids uuid4 gives to learned concepts
  EdgeProposals,   \* the edges a candidate for a reachability gap may place
  Serialized,      \* TRUE: the integrator lets no write in between read and save
  Cooperative,     \* TRUE: candidates follow the template and join roots
  MaxEdits         \* bound on the saves and deletes of authors

ASSUME LearningAssumption ==
  /\ Serialized \in BOOLEAN /\ Cooperative \in BOOLEAN /\ MaxEdits \in Nat
  /\ NewIds \subseteq Ids
  /\ EdgeProposals \subseteq [source : Names, target : Names, rel_type : RelationType,
                              source_depth : Level, target_depth : Level]

ASSUME InitialGraphsAssumption ==
  \A g \in InitialGraphs :
    /\ IsGraph(g) /\ AcyclicGraph(g)
    /\ \A i \in DOMAIN g : \A r \in g[i].relata : r.target \in DOMAIN g
    /\ \A i, j \in DOMAIN g : g[i].name = g[j].name => i = j

VARIABLES
  asked,   \* per learner, the query and floor it last checked
  held,    \* per learner, the gaps of that check it still means to fill
  call,    \* per learner, the learn_gap call between its read and its save
  last,    \* per learner, the last answered call: its gap and the answer
  edits    \* how often authors have written

lvars == <<asked, held, call, last, edits>>
allvars == <<vars, lvars>>

NoCall == [open |-> FALSE]
Unanswered == [answer |-> "none"]

LearningInit ==
  /\ graph \in InitialGraphs /\ result = "ok"
  /\ asked = [l \in Learners |-> << >>]
  /\ held = [l \in Learners |-> {}]
  /\ call = [l \in Learners |-> NoCall]
  /\ last = [l \in Learners |-> Unanswered]
  /\ edits = 0

\* No other learn_gap call is between its read and its save.
MayWrite(l) == Serialized => \A k \in Learners \ {l} : ~call[k].open

-----------------------------------------------------------------------------
(* Checking *)

\* vre.check: the integrator keeps some of the gaps it is shown.
Check(l, q, m) ==
  /\ held[l] = {} /\ ~call[l].open
  /\ \E kept \in (SUBSET Gaps(graph, q, m)) \ {{}} : held' = [held EXCEPT ![l] = kept]
  /\ asked' = [asked EXCEPT ![l] = <<q, m>>]
  /\ last' = [last EXCEPT ![l] = Unanswered]
  /\ UNCHANGED <<vars, call, edits>>

-----------------------------------------------------------------------------
(* learn_gap up to the save *)

\* learn_gap answers without a write: GapResolvedError, CandidateValidationError.
Answered(l, p, answer) ==
  /\ last' = [last EXCEPT ![l] = [answer |-> answer, gap |-> p]]
  /\ held' = [held EXCEPT ![l] = @ \ {p}]
  /\ UNCHANGED <<vars, asked, call, edits>>

\* learn_gap goes on to save the amended copy.
Proceeds(l, p, copy) ==
  /\ MayWrite(l)
  /\ call' = [call EXCEPT ![l] = [open |-> TRUE, gap |-> p, copy |-> copy]]
  /\ UNCHANGED <<vars, asked, held, last, edits>>

\* A candidate is the levels it proposes; sound means that each carries
\* properties and none is listed twice.
DepthFills(p) ==
  IF Cooperative THEN {[levels |-> p.missing, sound |-> TRUE]}
  ELSE [levels : SUBSET Level, sound : BOOLEAN]

\* Faults: levels that ground already may be filled again; and holes may stay.
ValidFillOver(fill, present, required) ==
  /\ fill.levels # {} /\ fill.sound
  /\ \A l \in fill.levels : l <= required
  /\ ContiguousMax(present \cup fill.levels) >= Highest(fill.levels)
ValidFillWithHoles(fill, present, required) ==
  /\ fill.levels # {} /\ fill.sound
  /\ \A l \in fill.levels : l <= required /\ l \notin present

\* _validate_depth_fill, against the levels the live primitive has.
ValidFill(fill, present, required) ==
  /\ fill.levels # {} /\ fill.sound
  /\ \A l \in fill.levels : l <= required /\ l \notin present
  /\ ContiguousMax(present \cup fill.levels) >= Highest(fill.levels)

\* Fault: the proposed records replace all records.
AppendedAlone(p, levels) ==
  [id |-> p.id, name |-> p.name, relata |-> p.relata,
   depths |-> [l \in Level |-> IF l \in levels THEN "learned" ELSE "absent"]]

\* _append_depths: the records at the proposed levels are replaced, with the
\* relata they had; the others stay.
Appended(p, levels) ==
  [id |-> p.id, name |-> p.name,
   depths |-> [l \in Level |-> IF l \in levels THEN "learned" ELSE p.depths[l]],
   relata |-> {r \in p.relata : r.source_depth \notin levels}]

\* _persist_depth_fill, for a depth gap and for the target of a relational gap.
LearnDepth(l, p) ==
  /\ p.kind \in {"DEPTH", "RELATIONAL"}
  /\ \E fill \in DepthFills(p) :
       LET i == p.id
           missing == i \notin DOMAIN graph
           resolved == ContiguousMaxDepth(graph[i]) >= p.required
           valid == ValidFill(fill, GroundingLevels(graph[i]), p.required)
       IN  \/ (fill.levels = {} \/ missing) /\ Answered(l, p, "invalid")
           \/ fill.levels # {} /\ ~missing /\ resolved /\ Answered(l, p, "resolved")
           \/ fill.levels # {} /\ ~missing /\ ~resolved /\ ~valid /\ Answered(l, p, "invalid")
           \/ ~missing /\ ~resolved /\ valid
                /\ Proceeds(l, p, Appended(graph[i], fill.levels))

\* uuid4: an id no row, no open call and no held gap knows.
Fresh(i) ==
  /\ i \in NewIds \ DOMAIN graph
  /\ \A l \in Learners : /\ call[l].open => call[l].copy.id # i
                         /\ \A p \in held[l] : p.kind # "EXISTENCE" => p.id # i

\* _persist_existence: D0 is implied, D1 proposed.
Learned(i, n) ==
  [id |-> i, name |-> n, relata |-> {},
   depths |-> [l \in Level |-> IF l \in {0, 1} THEN "learned" ELSE "absent"]]

LearnExistence(l, p) ==
  /\ p.kind = "EXISTENCE"
  /\ \/ HoldersOf(graph, p.name) # {} /\ Answered(l, p, "resolved")
     \/ HoldersOf(graph, p.name) = {} /\ ~Cooperative /\ Answered(l, p, "invalid")
     \/ /\ HoldersOf(graph, p.name) = {}
        /\ \E i \in NewIds : Fresh(i) /\ Proceeds(l, p, Learned(i, p.name))

\* The edges proposed for a reachability gap.  A cooperative integrator joins
\* the isolated root to one of the roots it is not connected to.
EdgeFills(l, p) ==
  IF Cooperative
  THEN LET q == asked[l][1]
           s == Subgraph(graph, q)
           R == Roots(graph, q)
           C == Component(s, FrontierVisible(s, R), p.id)
       IN  {c \in EdgeProposals : /\ c.source = p.name /\ c.rel_type \notin TransitiveTypes
                                  /\ \E j \in R \ C : graph[j].name = c.target}
  ELSE EdgeProposals

\* reachability_prerequisites: a depth gap for each end of the proposed edge
\* that is not deep enough, by the live primitives.
EdgePrerequisites(c) ==
  {DepthGap(graph, i, c.source_depth) :
     i \in {j \in HoldersOf(graph, c.source) : ContiguousMaxDepth(graph[j]) < c.source_depth}}
  \cup
  {DepthGap(graph, i, c.target_depth) :
     i \in {j \in HoldersOf(graph, c.target) : ContiguousMaxDepth(graph[j]) < c.target_depth}}

\* The integrator asks for them and means to fill them first.
Prerequisites(l, p) ==
  /\ p.kind = "REACHABILITY"
  /\ \E c \in EdgeFills(l, p) :
       /\ HoldersOf(graph, c.source) # {} /\ HoldersOf(graph, c.target) # {}
       /\ ~(EdgePrerequisites(c) \subseteq held[l])
       /\ held' = [held EXCEPT ![l] = @ \cup EdgePrerequisites(c)]
  /\ UNCHANGED <<vars, asked, call, last, edits>>

\* _persist_reachability: both names resolve, both ends are deep enough, and
\* the relatum joins the record at its source depth.  A cooperative integrator
\* waits until the prerequisites it asked for are filled.
LearnEdge(l, p) ==
  /\ p.kind = "REACHABILITY"
  /\ \E c \in EdgeFills(l, p) :
       LET S == HoldersOf(graph, c.source)
           T == HoldersOf(graph, c.target)
           ready == /\ p.name \in {c.source, c.target} /\ S # {} /\ T # {}
                    /\ EdgePrerequisites(c) = {}
           waits == Cooperative /\ S # {} /\ T # {} /\ EdgePrerequisites(c) # {}
       IN  \/ ~ready /\ ~waits /\ Answered(l, p, "invalid")
           \/ /\ ready
              /\ \E i \in S, j \in T :
                   Proceeds(l, p, [graph[i] EXCEPT !.relata = @ \cup
                     {[rel_type |-> c.rel_type, source_depth |-> c.source_depth,
                       target |-> j, target_depth |-> c.target_depth]}])

\* The integrator finds nothing to propose and leaves the gap.
Skip(l, p) ==
  /\ p.kind = "REACHABILITY" /\ EdgeFills(l, p) = {}
  /\ held' = [held EXCEPT ![l] = @ \ {p}]
  /\ UNCHANGED <<vars, asked, call, last, edits>>

Learn(l) ==
  /\ ~call[l].open
  /\ \E p \in held[l] : \/ LearnDepth(l, p) \/ LearnExistence(l, p) \/ LearnEdge(l, p)
                         \/ Prerequisites(l, p) \/ Skip(l, p)

-----------------------------------------------------------------------------
(* The save of learn_gap, and the authors *)

Persist(l) ==
  /\ call[l].open
  /\ SavePrimitive(call[l].copy)
  /\ last' = [last EXCEPT ![l] = [answer |-> result', gap |-> call[l].gap]]
  /\ held' = [held EXCEPT ![l] = @ \ {call[l].gap}]
  /\ call' = [call EXCEPT ![l] = NoCall]
  /\ UNCHANGED <<asked, edits>>

Author ==
  /\ edits < MaxEdits /\ edits' = edits + 1
  /\ Serialized => \A k \in Learners : ~call[k].open
  /\ \/ \E d \in Drafts : SavePrimitive(d) \/ UpsertPrimitive(d)
     \/ \E i \in Ids : DeletePrimitive(i)
  /\ UNCHANGED <<asked, held, call, last>>

LearnerStep(l) ==
  \/ \E q \in Queries, m \in Floors : Check(l, q, m)
  \/ Learn(l)
  \/ Persist(l)

\* The loop of learner l has something to do.
Busy(l) ==
  \/ call[l].open
  \/ held[l] # {}
  \/ \E q \in Queries, m \in Floors : Gaps(graph, q, m) # {}

\* All loops have ended.
Rest == (\A l \in Learners : ~Busy(l)) /\ UNCHANGED allvars

LearningNext == Author \/ Rest \/ \E l \in Learners : LearnerStep(l)

LearningSpec == LearningInit /\ [][LearningNext]_allvars

\* The integrator's loop is a while loop in a running process: it does not
\* stop for good while it has something to do.  This is weak fairness of
\* LearnerStep(l), with Busy(l) for the condition under which it is enabled:
\* that no state is a deadlock, all but Rest needing Busy, says it is.
LoopFair(l) == []<>(~Busy(l)) \/ []<><<LearnerStep(l)>>_allvars

LoopSpec == LearningSpec /\ \A l \in Learners : LoopFair(l)

-----------------------------------------------------------------------------
(* Properties *)

Answers == Results \cup {"none", "resolved", "invalid"}

\* Type invariant: an open call holds a primitive of the graph's type.
LearningTypeOK ==
  /\ TypeOK /\ edits \in 0..MaxEdits
  /\ \A l \in Learners :
       /\ call[l].open => call[l].copy \in Primitive /\ WellFormed(call[l].copy)
       /\ last[l].answer \in Answers

\* The save of learner l's call, as a step.
Persisted(l) == call[l].open /\ ~call'[l].open /\ result' = "ok"

\* What the graph knows, learning keeps: a level that grounds stays as it was
\* written and no relatum goes, however stale the gap, whatever levels the
\* candidate proposed.  ("Pre-existing grounding levels ... are left exactly
\* as authored.")
LearningKeepsKnowledge ==
  [][\A l \in Learners : Persisted(l) =>
       \A i \in DOMAIN graph :
         /\ i \in DOMAIN graph' /\ graph'[i].name = graph[i].name
         /\ graph[i].relata \subseteq graph'[i].relata
         /\ \A k \in GroundingLevels(graph[i]) : graph'[i].depths[k] = graph[i].depths[k]]_allvars

\* An accepted depth fill raises the contiguous depth of the primitive of its
\* gap, and authors no level above the depth the gap required.
FillsMakeProgress ==
  [][\A l \in Learners : Persisted(l) /\ call[l].gap.kind \in {"DEPTH", "RELATIONAL"} =>
       LET i == call[l].gap.id
       IN  /\ ContiguousMaxDepth(graph'[i]) > ContiguousMaxDepth(graph[i])
           /\ \A k \in Level : k > call[l].gap.required =>
                graph'[i].depths[k] = graph[i].depths[k]]_allvars

\* The gaps of learner l's query that are about the same primitive as p and
\* ask no more of it.
StillReported(l, p) ==
  {r \in Gaps(graph, asked[l][1], asked[l][2]) :
     /\ r.kind = p.kind
     /\ IF p.kind = "EXISTENCE" THEN r.name = p.name
        ELSE r.id = p.id /\ (p.kind # "REACHABILITY" => r.required <= p.required)}

\* GapResolvedError says "already done - re-ground and proceed": grounding the
\* same query again right away does not report the gap.
ResolvedIsDoneOnEveryGraph ==
  [][\A l \in Learners : last'[l].answer = "resolved" /\ last'[l] # last[l]
       => StillReported(l, last'[l].gap) = {}]_allvars

\* The same, on graphs without a bare level.
ResolvedIsDone ==
  [][\A l \in Learners : last'[l].answer = "resolved" /\ last'[l] # last[l] /\ NoBareLevel
       => StillReported(l, last'[l].gap) = {}]_allvars

\* With an integrator that fills what the template asks and joins what is
\* apart, and authors who stop editing, the loop ends: every query it works on
\* becomes grounded and stays so.
LoopConverges == <>[](\A q \in Queries, m \in Floors : Grounded(graph, q, m))

=============================================================================
