--------------------------- MODULE LearningProofs ---------------------------
(***************************************************************************)
(* The learning loop over the repository, for any number of learners, any  *)
(* candidates and any authors: the store's invariant survives every        *)
(* interleaving of reads and saves, and when the integrator serializes its *)
(* writers, as the trust model asks, learning never loses knowledge.       *)
(***************************************************************************)
EXTENDS Learning, GroundingProofs

-----------------------------------------------------------------------------
(* The amended copies are primitives *)

\* _append_depths keeps a primitive a primitive, its relata on recorded levels.
LEMMA AppendedPrimitive ==
  ASSUME NEW p \in Primitive, WellFormed(p), NEW L
  PROVE  /\ Appended(p, L) \in Primitive /\ WellFormed(Appended(p, L))
         /\ Appended(p, L).id = p.id /\ Appended(p, L).name = p.name
         /\ Appended(p, L).relata = {r \in p.relata : r.source_depth \notin L}
         /\ Appended(p, L).depths = [k \in Level |-> IF k \in L THEN "learned" ELSE p.depths[k]]
<1> DEFINE d == [k \in Level |-> IF k \in L THEN "learned" ELSE p.depths[k]]
           E == {r \in p.relata : r.source_depth \notin L}
<1>1. d \in [Level -> Content] /\ E \in SUBSET Relatum
  BY DEF Primitive, Content
<1>2. \A r \in E : d[r.source_depth] # "absent"
  BY DEF WellFormed, Primitive, Relatum
<1>3. Appended(p, L) = [id |-> p.id, name |-> p.name, depths |-> d, relata |-> E]
  BY DEF Appended
<1> HIDE DEF d, E
<1>4. Appended(p, L) \in Primitive /\ WellFormed(Appended(p, L))
  BY <1>1, <1>2, <1>3 DEF Primitive, WellFormed
<1>5. /\ Appended(p, L).id = p.id /\ Appended(p, L).name = p.name
      /\ Appended(p, L).relata = E /\ Appended(p, L).depths = d
  BY <1>3
<1> QED
  BY <1>4, <1>5 DEF d, E

\* The concept an existence candidate creates.
LEMMA LearnedPrimitive ==
  ASSUME NEW i \in Ids, NEW n \in Names
  PROVE  Learned(i, n) \in Primitive /\ WellFormed(Learned(i, n)) /\ Learned(i, n).id = i
<1>1. [k \in Level |-> IF k \in {0, 1} THEN "learned" ELSE "absent"] \in [Level -> Content]
  BY DEF Content
<1> QED
  BY <1>1 DEF Learned, Primitive, WellFormed

\* A level up to the contiguous maximum has a record.
LEMMA ChainRecorded ==
  ASSUME NEW p, NEW l \in Level, ~(ContiguousMaxDepth(p) < l)
  PROVE  p.depths[l] # "absent"
<1>1. /\ ContiguousMaxDepth(p) \in Level \cup {None}
      /\ 0..ContiguousMaxDepth(p) \subseteq GroundingLevels(p)
  BY ContiguousMaxChain DEF ContiguousMaxDepth
<1>2. l \in 0..ContiguousMaxDepth(p)
  BY <1>1 DEF Level, None
<1> QED
  BY <1>1, <1>2 DEF GroundingLevels, Grounds

-----------------------------------------------------------------------------
(* What a call that goes on to save holds, by the primitives it read *)

\* The copy keeps what the live primitive knows.
Keeps(copy) ==
  copy.id \in DOMAIN graph =>
    LET live == graph[copy.id]
    IN  /\ copy.name = live.name /\ live.relata \subseteq copy.relata
        /\ \A k \in GroundingLevels(live) : copy.depths[k] = live.depths[k]

\* The copy of a depth fill is deeper than the live primitive, as far as asked.
Deepens(p, copy) ==
  p.kind \in {"DEPTH", "RELATIONAL"} =>
    /\ p.id = copy.id /\ copy.id \in DOMAIN graph
    /\ \A r \in copy.relata : r.target \in DOMAIN graph
    /\ ContiguousMaxDepth(copy) > ContiguousMaxDepth(graph[copy.id])
    /\ \A k \in Level : k > p.required => copy.depths[k] = graph[copy.id].depths[k]

\* _validate_depth_fill lets only fills of holes through, and only fills that
\* lengthen the chain.
LEMMA DepthFillAmends ==
  ASSUME TypeOK, NoDangling, NEW p, p.id \in DOMAIN graph, p.required \in Level,
         NEW L \in SUBSET Level, NEW fill, fill.levels = L,
         ValidFill(fill, GroundingLevels(graph[p.id]), p.required)
  PROVE  LET copy == Appended(graph[p.id], L)
         IN  copy \in Primitive /\ WellFormed(copy) /\ Keeps(copy) /\ Deepens(p, copy)
<1> DEFINE live == graph[p.id]
           copy == Appended(live, L)
           present == GroundingLevels(live)
           h == Highest(L)
<1>1. live \in Primitive /\ WellFormed(live) /\ live.id = p.id
  BY DEF TypeOK, IsGraph
<1>2. /\ copy \in Primitive /\ WellFormed(copy)
      /\ copy.id = p.id /\ copy.name = live.name
      /\ copy.relata = {r \in live.relata : r.source_depth \notin L}
      /\ copy.depths = [k \in Level |-> IF k \in L THEN "learned" ELSE live.depths[k]]
  BY <1>1, AppendedPrimitive
<1>3. /\ L # {} /\ \A l \in L : l <= p.required /\ l \notin present
      /\ ContiguousMax(present \cup L) >= h
  BY DEF ValidFill
<1>4. present \subseteq Level /\ \A r \in live.relata : r.source_depth \in present
  BY <1>1 DEF GroundingLevels, Grounds, WellFormed, Primitive, Relatum
<1>5. copy.relata = live.relata
  BY <1>2, <1>3, <1>4
<1>6. Keeps(copy)
  BY <1>2, <1>3, <1>4, <1>5 DEF Keeps
<1>7. present \cup L \subseteq GroundingLevels(copy)
  <2> SUFFICES ASSUME NEW k \in present \cup L PROVE k \in GroundingLevels(copy)
    OBVIOUS
  <2>1. CASE k \in L
    BY <1>2, <2>1 DEF GroundingLevels, Grounds
  <2>2. CASE k \in present /\ k \notin L
    <3>1. k \in Level /\ Grounds(live, k) /\ copy.depths[k] = live.depths[k]
      BY <1>2, <1>4, <2>2 DEF GroundingLevels
    <3> QED
      BY <3>1, <1>5 DEF GroundingLevels, Grounds
  <2> QED
    BY <2>1, <2>2
<1>8. ContiguousMaxDepth(copy) > ContiguousMaxDepth(live)
  <2>1. h \in L /\ h \in Level /\ h \notin present
    BY <1>3, HighestLevel
  <2>2. /\ ContiguousMax(present) \in Level \cup {None}
        /\ 0..ContiguousMax(present) \subseteq present
    BY ContiguousMaxChain
  <2>3. ~(h <= ContiguousMax(present))
    BY <2>1, <2>2 DEF Level, None
  <2>4. /\ ContiguousMax(present \cup L) \in Level \cup {None}
        /\ 0..ContiguousMax(present \cup L) \subseteq present \cup L
    BY ContiguousMaxChain
  <2>5. 0..h \subseteq GroundingLevels(copy)
    BY <1>3, <1>7, <2>1, <2>4 DEF Level, None
  <2>6. h <= ContiguousMax(GroundingLevels(copy))
    BY <2>1, <2>5, ContiguousMaxGreatest
  <2>7. ContiguousMax(GroundingLevels(copy)) \in Level \cup {None}
    BY ContiguousMaxChain
  <2> HIDE DEF h, copy, present
  <2> QED
    BY <2>1, <2>2, <2>3, <2>6, <2>7 DEF ContiguousMaxDepth, Level, None, present
<1>9. \A r \in copy.relata : r.target \in DOMAIN graph
  BY <1>5 DEF NoDangling
<1>10. \A k \in Level : k > p.required => copy.depths[k] = live.depths[k]
  <2> TAKE k \in Level
  <2>1. k > p.required => k \notin L
    BY <1>3 DEF Level
  <2> QED
    BY <1>2, <2>1
<1>11. Deepens(p, copy)
  BY <1>2, <1>8, <1>9, <1>10 DEF Deepens
<1> QED
  BY <1>2, <1>6, <1>11

-----------------------------------------------------------------------------
(* The invariant of the loop *)

GapOK(p) ==
  /\ p.kind = "EXISTENCE" => p.name \in Names
  /\ p.kind \in {"DEPTH", "RELATIONAL"} => p.required \in Level /\ p.missing \subseteq Level

\* What holds whoever writes when.
RacingInv ==
  /\ LearningTypeOK /\ Acyclic /\ NoDangling /\ UniqueNames
  /\ DOMAIN held = Learners /\ DOMAIN call = Learners /\ DOMAIN last = Learners
  /\ \A l \in Learners : /\ \A p \in held[l] : GapOK(p)
                         /\ call[l].open => GapOK(call[l].gap)

\* What holds when the integrator serializes the writers: the one open call
\* still holds a copy of what the graph knows.
SerialInv ==
  Serialized =>
    /\ \A l, k \in Learners : call[l].open /\ call[k].open => l = k
    /\ \A l \in Learners : call[l].open =>
         Keeps(call[l].copy) /\ Deepens(call[l].gap, call[l].copy)

\* The gaps grounding reports name a concept or ask for a level.
LEMMA GapsOK ==
  ASSUME IsGraph(graph), NEW q \in Queries, NEW m \in Floors, NEW p \in Gaps(graph, q, m)
  PROVE  GapOK(p)
<1>1. ASSUME p.kind = "EXISTENCE" PROVE p.name \in Names
  <2>1. p \in ExistenceGaps(graph, q)
    BY <1>1, ExistenceGapKind
  <2>2. q \in Seq(Names)
    BY QueriesAssumption
  <2>3. Concepts(q) \subseteq Names
    BY <2>2 DEF Concepts
  <2> QED
    BY <2>1, <2>3 DEF ExistenceGaps
<1>2. ASSUME p.kind \in {"DEPTH", "RELATIONAL"} PROVE p.required \in Level /\ p.missing \subseteq Level
  <2>1. /\ p.required \in Level \cup {None} /\ Known(sub(q), p.id) < p.required
        /\ p.missing = MissingDepthLevels(GroundingLevels(sub(q)[p.id]), Known(sub(q), p.id), p.required)
    BY <1>2, GapDemand
  <2>2. p.required \in Level
    BY <2>1, KnownType DEF Level, None
  <2> QED
    BY <2>1, <2>2 DEF MissingDepthLevels
<1> QED
  BY <1>1, <1>2 DEF GapOK

-----------------------------------------------------------------------------
(* The steps of learn_gap up to its save *)

\* A step that leaves the graph and the open calls alone.
Quiet(l) ==
  /\ UNCHANGED <<graph, result, call, edits>>
  /\ \E H : (\A p \in H : GapOK(p)) /\ held' = [held EXCEPT ![l] = H]
  /\ \/ last' = last
     \/ \E a \in Answers : \E p : last' = [last EXCEPT ![l] = [answer |-> a, gap |-> p]]

\* A step that opens a call, with a sound copy.
Opens(l) ==
  \E p \in held[l], copy \in Primitive :
    /\ WellFormed(copy) /\ Keeps(copy) /\ Deepens(p, copy)
    /\ Proceeds(l, p, copy)

\* A refusal of learn_gap writes nothing.
LEMMA AnsweredQuiet ==
  ASSUME RacingInv, NEW l \in Learners, NEW p, NEW a \in Answers, Answered(l, p, a)
  PROVE  Quiet(l)
<1>1. \A r \in held[l] \ {p} : GapOK(r)
  BY DEF RacingInv
<1>2. held' = [held EXCEPT ![l] = held[l] \ {p}]
  BY DEF Answered
<1>3. UNCHANGED <<graph, result, call, edits>>
  BY DEF Answered, vars
<1>4. last' = [last EXCEPT ![l] = [answer |-> a, gap |-> p]]
  BY DEF Answered
<1>5. \E H : (\A r \in H : GapOK(r)) /\ held' = [held EXCEPT ![l] = H]
  BY <1>1, <1>2
<1> QED
  BY <1>3, <1>4, <1>5 DEF Quiet

\* _persist_depth_fill refuses, or goes on with a copy that fills holes.
LEMMA LearnDepthCases ==
  ASSUME RacingInv, NEW l \in Learners, NEW p \in held[l], LearnDepth(l, p)
  PROVE  Quiet(l) \/ Opens(l)
<1>1. PICK fill \in DepthFills(p) :
        \/ Answered(l, p, "invalid")
        \/ Answered(l, p, "resolved")
        \/ /\ p.id \in DOMAIN graph
           /\ ValidFill(fill, GroundingLevels(graph[p.id]), p.required)
           /\ Proceeds(l, p, Appended(graph[p.id], fill.levels))
  BY DEF LearnDepth
<1>2. "invalid" \in Answers /\ "resolved" \in Answers
  BY DEF Answers
<1>3. CASE Answered(l, p, "invalid") \/ Answered(l, p, "resolved")
  BY <1>2, <1>3, AnsweredQuiet
<1>4. CASE /\ p.id \in DOMAIN graph
           /\ ValidFill(fill, GroundingLevels(graph[p.id]), p.required)
           /\ Proceeds(l, p, Appended(graph[p.id], fill.levels))
  <2>1. TypeOK /\ NoDangling /\ p.required \in Level /\ p.missing \subseteq Level
    BY DEF RacingInv, LearningTypeOK, GapOK, LearnDepth
  <2>2. fill.levels \in SUBSET Level
    <3>1. \A k \in fill.levels : k \in Level
      <4>1. CASE ~Cooperative
        BY <4>1 DEF DepthFills
      <4>2. CASE Cooperative
        BY <4>2, <1>1, <1>4, <2>1 DEF DepthFills
      <4> QED
        BY <4>1, <4>2
    <3> QED
      BY <3>1
  <2>3. LET copy == Appended(graph[p.id], fill.levels)
        IN  copy \in Primitive /\ WellFormed(copy) /\ Keeps(copy) /\ Deepens(p, copy)
    BY <1>4, <2>1, <2>2, DepthFillAmends
  <2> QED
    BY <1>4, <2>3 DEF Opens
<1> QED
  BY <1>1, <1>3, <1>4

\* _persist_existence refuses, or goes on with a new primitive.
LEMMA LearnExistenceCases ==
  ASSUME RacingInv, NEW l \in Learners, NEW p \in held[l], LearnExistence(l, p)
  PROVE  Quiet(l) \/ Opens(l)
<1>1. "invalid" \in Answers /\ "resolved" \in Answers
  BY DEF Answers
<1>2. CASE Answered(l, p, "invalid") \/ Answered(l, p, "resolved")
  BY <1>1, <1>2, AnsweredQuiet
<1>3. CASE \E i \in NewIds : Fresh(i) /\ Proceeds(l, p, Learned(i, p.name))
  <2>1. PICK i \in NewIds : Fresh(i) /\ Proceeds(l, p, Learned(i, p.name))
    BY <1>3
  <2>2. i \in Ids /\ p.name \in Names /\ p.kind = "EXISTENCE"
    BY LearningAssumption DEF RacingInv, GapOK, LearnExistence
  <2>3. /\ Learned(i, p.name) \in Primitive /\ WellFormed(Learned(i, p.name))
        /\ Learned(i, p.name).id = i
    BY <2>2, LearnedPrimitive
  <2>4. Keeps(Learned(i, p.name)) /\ Deepens(p, Learned(i, p.name))
    BY <2>1, <2>2, <2>3 DEF Keeps, Deepens, Fresh
  <2> QED
    BY <2>1, <2>3, <2>4 DEF Opens
<1> QED
  BY <1>2, <1>3 DEF LearnExistence

\* _persist_reachability refuses, or goes on with one more relatum on a level
\* that has a record.
LEMMA LearnEdgeCases ==
  ASSUME RacingInv, NEW l \in Learners, NEW p \in held[l], LearnEdge(l, p)
  PROVE  Quiet(l) \/ Opens(l)
<1> DEFINE Edge(c, j) == [rel_type |-> c.rel_type, source_depth |-> c.source_depth,
                          target |-> j, target_depth |-> c.target_depth]
<1>1. CASE Answered(l, p, "invalid")
  <2>1. "invalid" \in Answers
    BY DEF Answers
  <2> QED
    BY <1>1, <2>1, AnsweredQuiet
<1>2. CASE \E c \in EdgeFills(l, p) :
             /\ EdgePrerequisites(c) = {}
             /\ \E i \in HoldersOf(graph, c.source), j \in HoldersOf(graph, c.target) :
                  Proceeds(l, p, [graph[i] EXCEPT !.relata = @ \cup {Edge(c, j)}])
  <2>1. PICK c \in EdgeFills(l, p) :
             /\ EdgePrerequisites(c) = {}
             /\ \E i \in HoldersOf(graph, c.source), j \in HoldersOf(graph, c.target) :
                  Proceeds(l, p, [graph[i] EXCEPT !.relata = @ \cup {Edge(c, j)}])
    BY <1>2
  <2>2. PICK i \in HoldersOf(graph, c.source), j \in HoldersOf(graph, c.target) :
          Proceeds(l, p, [graph[i] EXCEPT !.relata = @ \cup {Edge(c, j)}])
    BY <2>1
  <2> DEFINE live == graph[i]
             copy == [live EXCEPT !.relata = @ \cup {Edge(c, j)}]
  <2>3. c \in EdgeProposals
    BY DEF EdgeFills
  <2>4. /\ c.rel_type \in RelationType /\ c.source_depth \in Level /\ c.target_depth \in Level
    BY <2>3, LearningAssumption
  <2>5. /\ i \in DOMAIN graph /\ j \in DOMAIN graph /\ j \in Ids
        /\ live \in Primitive /\ live.id = i /\ WellFormed(live)
    BY <2>2 DEF HoldersOf, RacingInv, LearningTypeOK, TypeOK, IsGraph
  <2>6. live.depths[c.source_depth] # "absent"
    <3>1. ~(ContiguousMaxDepth(live) < c.source_depth)
      BY <2>1, <2>2 DEF EdgePrerequisites
    <3> QED
      BY <3>1, <2>4, ChainRecorded
  <2>7. Edge(c, j) \in Relatum /\ Edge(c, j).source_depth = c.source_depth
    BY <2>4, <2>5 DEF Relatum
  <2>8. /\ copy.id = i /\ copy.name = live.name /\ copy.depths = live.depths
        /\ copy.relata = live.relata \cup {Edge(c, j)}
    BY <2>5 DEF Primitive
  <2> HIDE DEF Edge
  <2>9. copy \in Primitive
    BY <2>5, <2>7 DEF Primitive
  <2>10. WellFormed(copy)
    BY <2>5, <2>6, <2>7, <2>8 DEF WellFormed
  <2>11. Keeps(copy)
    BY <2>5, <2>8 DEF Keeps
  <2>12. Deepens(p, copy)
    BY DEF Deepens, LearnEdge
  <2> QED
    BY <2>2, <2>9, <2>10, <2>11, <2>12 DEF Opens
<1> QED
  BY <1>1, <1>2 DEF LearnEdge

\* Whatever the kind of the gap: learn_gap writes nothing before its save, and
\* opens a call only with a copy that extends the row it read.
LEMMA LearnCases ==
  ASSUME RacingInv, NEW l \in Learners, Learn(l)
  PROVE  Quiet(l) \/ Opens(l)
<1>1. PICK p \in held[l] : \/ LearnDepth(l, p) \/ LearnExistence(l, p) \/ LearnEdge(l, p)
                           \/ Prerequisites(l, p) \/ Skip(l, p)
  BY DEF Learn
<1>2. CASE LearnDepth(l, p) \/ LearnExistence(l, p) \/ LearnEdge(l, p)
  BY <1>2, LearnDepthCases, LearnExistenceCases, LearnEdgeCases
<1>3. CASE Prerequisites(l, p)
  <2>1. PICK c \in EdgeFills(l, p) : held' = [held EXCEPT ![l] = held[l] \cup EdgePrerequisites(c)]
    BY <1>3 DEF Prerequisites
  <2>2. c.source_depth \in Level /\ c.target_depth \in Level
    <3>1. c \in EdgeProposals
      BY DEF EdgeFills
    <3> QED
      BY <3>1, LearningAssumption
  <2>3. \A r \in held[l] \cup EdgePrerequisites(c) : GapOK(r)
    <3>1. \A r \in held[l] : GapOK(r)
      BY DEF RacingInv
    <3>2. \A r \in EdgePrerequisites(c) : GapOK(r)
      BY <2>2 DEF EdgePrerequisites, DepthGap, MissingDepthLevels, GapOK
    <3> QED
      BY <3>1, <3>2
  <2> QED
    BY <1>3, <2>1, <2>3 DEF Quiet, Prerequisites, vars
<1>4. CASE Skip(l, p)
  <2>1. \A r \in held[l] \ {p} : GapOK(r)
    BY DEF RacingInv
  <2>2. /\ held' = [held EXCEPT ![l] = held[l] \ {p}] /\ last' = last
        /\ UNCHANGED <<graph, result, call, edits>>
    BY <1>4 DEF Skip, vars
  <2> QED
    BY <2>1, <2>2 DEF Quiet
<1> QED
  BY <1>1, <1>2, <1>3, <1>4

\* A check writes nothing, and the gaps it hands out are typed.
LEMMA CheckQuiet ==
  ASSUME RacingInv, NEW l \in Learners, NEW q \in Queries, NEW m \in Floors, Check(l, q, m)
  PROVE  /\ UNCHANGED <<graph, result, call, edits>>
         /\ \E H : (\A p \in H : GapOK(p)) /\ held' = [held EXCEPT ![l] = H]
         /\ last' = [last EXCEPT ![l] = Unanswered]
<1>1. IsGraph(graph)
  BY DEF RacingInv, LearningTypeOK, TypeOK
<1>2. PICK H \in (SUBSET Gaps(graph, q, m)) \ {{}} : held' = [held EXCEPT ![l] = H]
  BY DEF Check
<1>3. \A p \in H : GapOK(p)
  BY <1>1, GapsOK
<1> QED
  BY <1>2, <1>3 DEF Check, vars

-----------------------------------------------------------------------------
(* Every step keeps the invariants *)

\* The loop starts on a graph that authors left valid, with no open call.
LEMMA InitInv == LearningInit => RacingInv /\ SerialInv
<1> SUFFICES ASSUME LearningInit PROVE RacingInv /\ SerialInv
  OBVIOUS
<1>1. /\ TypeOK /\ Acyclic /\ NoDangling /\ UniqueNames
  BY InitialGraphsAssumption
  DEF LearningInit, TypeOK, Results, Acyclic, NoDangling, UniqueNames
<1>2. \A l \in Learners : ~call[l].open /\ held[l] = {} /\ last[l].answer \in Answers
  BY DEF LearningInit, NoCall, Unanswered, Answers
<1>3. edits \in 0..MaxEdits
  BY LearningAssumption DEF LearningInit
<1>4. DOMAIN held = Learners /\ DOMAIN call = Learners /\ DOMAIN last = Learners
  BY DEF LearningInit
<1> QED
  BY <1>1, <1>2, <1>3, <1>4 DEF RacingInv, LearningTypeOK, SerialInv

\* A step of learner l that leaves the graph and the calls alone.
LEMMA QuietInv ==
  ASSUME RacingInv, SerialInv, NEW l \in Learners,
         UNCHANGED <<graph, result, call, edits>>,
         NEW H, \A p \in H : GapOK(p), held' = [held EXCEPT ![l] = H],
         \/ last' = last
         \/ \E v : v.answer \in Answers /\ last' = [last EXCEPT ![l] = v]
  PROVE  RacingInv' /\ SerialInv'
<1>1. TypeOK' /\ Acyclic' /\ NoDangling' /\ UniqueNames'
  BY DEF RacingInv, LearningTypeOK, TypeOK, Acyclic, NoDangling, UniqueNames
<1>2. DOMAIN held' = Learners /\ DOMAIN call' = Learners /\ DOMAIN last' = Learners
  BY DEF RacingInv
<1>3. \A k \in Learners : \A p \in held'[k] : GapOK(p)
  BY DEF RacingInv
<1>4. \A k \in Learners : last'[k].answer \in Answers
  BY DEF RacingInv, LearningTypeOK
<1>5. SerialInv'
  BY DEF SerialInv, Keeps, Deepens
<1> QED
  BY <1>1, <1>2, <1>3, <1>4, <1>5 DEF RacingInv, LearningTypeOK, GapOK

\* A call is opened: its copy extends the row it was read from just now.
LEMMA OpensInv ==
  ASSUME RacingInv, SerialInv, NEW l \in Learners, Opens(l)
  PROVE  RacingInv' /\ SerialInv'
<1>1. PICK p \in held[l], copy \in Primitive :
        /\ WellFormed(copy) /\ Keeps(copy) /\ Deepens(p, copy)
        /\ Proceeds(l, p, copy)
  BY DEF Opens
<1>2. /\ UNCHANGED <<graph, result, held, last, edits>>
      /\ call' = [call EXCEPT ![l] = [open |-> TRUE, gap |-> p, copy |-> copy]]
  BY <1>1 DEF Proceeds, vars
<1>3. /\ DOMAIN call' = Learners
      /\ call'[l] = [open |-> TRUE, gap |-> p, copy |-> copy]
      /\ \A k \in Learners \ {l} : call'[k] = call[k]
  BY <1>2 DEF RacingInv
<1>4. GapOK(p)
  BY DEF RacingInv
<1>5. TypeOK' /\ Acyclic' /\ NoDangling' /\ UniqueNames'
  BY <1>2 DEF RacingInv, LearningTypeOK, TypeOK, Acyclic, NoDangling, UniqueNames
<1>6. \A k \in Learners : call'[k].open =>
        call'[k].copy \in Primitive /\ WellFormed(call'[k].copy) /\ GapOK(call'[k].gap)
  BY <1>1, <1>3, <1>4 DEF RacingInv, LearningTypeOK
<1>7. RacingInv'
  BY <1>2, <1>3, <1>5, <1>6 DEF RacingInv, LearningTypeOK, GapOK
<1>8. SerialInv'
  <2> SUFFICES ASSUME Serialized
               PROVE  /\ \A k, j \in Learners : call'[k].open /\ call'[j].open => k = j
                      /\ \A k \in Learners : call'[k].open =>
                           Keeps(call'[k].copy) /\ Deepens(call'[k].gap, call'[k].copy)
    BY <1>2 DEF SerialInv, Keeps, Deepens
  <2>1. \A k \in Learners \ {l} : ~call[k].open
    BY <1>1 DEF Proceeds, MayWrite
  <2>2. \A k \in Learners \ {l} : ~call'[k].open
    BY <1>3, <2>1
  <2>3. Keeps(call'[l].copy) /\ Deepens(call'[l].gap, call'[l].copy)
    BY <1>1, <1>3
  <2> QED
    BY <2>2, <2>3
<1> QED
  BY <1>7, <1>8

\* The save of learn_gap, however stale its copy.
LEMMA PersistInv ==
  ASSUME RacingInv, SerialInv, NEW l \in Learners, Persist(l)
  PROVE  RacingInv' /\ SerialInv'
<1> DEFINE copy == call[l].copy
<1>1. copy \in Primitive /\ WellFormed(copy) /\ SavePrimitive(copy)
  BY DEF Persist, RacingInv, LearningTypeOK
<1>2. StoreInv
  BY DEF RacingInv, LearningTypeOK, StoreInv
<1>3. StoreInv'
  BY <1>1, <1>2, SaveStoreInv
<1>4. /\ call' = [call EXCEPT ![l] = NoCall]
      /\ last' = [last EXCEPT ![l] = [answer |-> result', gap |-> call[l].gap]]
      /\ held' = [held EXCEPT ![l] = held[l] \ {call[l].gap}]
      /\ edits' = edits
  BY DEF Persist
<1>5. /\ ~call'[l].open /\ \A k \in Learners \ {l} : call'[k] = call[k]
      /\ DOMAIN call' = Learners /\ DOMAIN held' = Learners /\ DOMAIN last' = Learners
  BY <1>4 DEF RacingInv, NoCall
<1>6. \A k \in Learners : call'[k].open =>
        call'[k].copy \in Primitive /\ WellFormed(call'[k].copy) /\ GapOK(call'[k].gap)
  BY <1>5 DEF RacingInv, LearningTypeOK
<1>7. result' \in Results
  BY <1>3 DEF StoreInv, TypeOK
<1>8. \A k \in Learners : last'[k].answer \in Answers
  BY <1>4, <1>7 DEF RacingInv, LearningTypeOK, Answers
<1>9. \A k \in Learners : \A p \in held'[k] : GapOK(p)
  BY <1>4 DEF RacingInv
<1>10. RacingInv'
  BY <1>3, <1>4, <1>5, <1>6, <1>8, <1>9 DEF RacingInv, LearningTypeOK, StoreInv, GapOK
<1>11. SerialInv'
  <2> SUFFICES ASSUME Serialized PROVE \A k \in Learners : ~call'[k].open
    BY DEF SerialInv
  <2>1. \A k \in Learners \ {l} : ~call[k].open
    BY DEF SerialInv, Persist
  <2> QED
    BY <1>5, <2>1
<1> QED
  BY <1>10, <1>11

\* A write of an author.
LEMMA AuthorInv ==
  ASSUME RacingInv, SerialInv, Author
  PROVE  RacingInv' /\ SerialInv'
<1>1. StoreInv
  BY DEF RacingInv, LearningTypeOK, StoreInv
<1>2. Next
  BY DEF Author, Next
<1>3. StoreInv'
  BY <1>1, <1>2, NextStoreInv
<1>4. UNCHANGED <<held, call, last>> /\ edits' \in 0..MaxEdits
  <2>1. edits \in 0..MaxEdits /\ edits < MaxEdits /\ edits' = edits + 1
    BY DEF Author, RacingInv, LearningTypeOK
  <2> QED
    BY <2>1, LearningAssumption DEF Author
<1>5. RacingInv'
  BY <1>3, <1>4 DEF RacingInv, LearningTypeOK, StoreInv, GapOK
<1>6. SerialInv'
  <2> SUFFICES ASSUME Serialized PROVE \A k \in Learners : ~call'[k].open
    BY DEF SerialInv
  <2> QED
    BY <1>4 DEF Author
<1> QED
  BY <1>5, <1>6

\* Every step of the loop, and a stutter, keeps both invariants.
LEMMA StepInv == RacingInv /\ SerialInv /\ [LearningNext]_allvars => RacingInv' /\ SerialInv'
<1> SUFFICES ASSUME RacingInv, SerialInv, [LearningNext]_allvars
             PROVE  RacingInv' /\ SerialInv'
  OBVIOUS
<1>1. CASE Author
  BY <1>1, AuthorInv
<1>2. CASE UNCHANGED allvars
  BY <1>2 DEF allvars, lvars, vars, RacingInv, SerialInv, LearningTypeOK, TypeOK, Acyclic,
              NoDangling, UniqueNames, GapOK, Keeps, Deepens
<1>3. ASSUME NEW l \in Learners, LearnerStep(l) PROVE RacingInv' /\ SerialInv'
  <2>1. CASE \E q \in Queries, m \in Floors : Check(l, q, m)
    <3>1. /\ UNCHANGED <<graph, result, call, edits>>
          /\ \E H : (\A p \in H : GapOK(p)) /\ held' = [held EXCEPT ![l] = H]
          /\ last' = [last EXCEPT ![l] = Unanswered]
      BY <2>1, CheckQuiet
    <3>2. Unanswered.answer \in Answers
      BY DEF Unanswered, Answers
    <3> QED
      BY <3>1, <3>2, QuietInv
  <2>2. CASE Quiet(l)
    <3>1. \/ last' = last
          \/ \E v : v.answer \in Answers /\ last' = [last EXCEPT ![l] = v]
      <4>1. ASSUME NEW a \in Answers, NEW p, last' = [last EXCEPT ![l] = [answer |-> a, gap |-> p]]
            PROVE  \E v : v.answer \in Answers /\ last' = [last EXCEPT ![l] = v]
        <5>1. [answer |-> a, gap |-> p].answer = a
          OBVIOUS
        <5> QED
          BY <4>1, <5>1
      <4> QED
        BY <2>2, <4>1 DEF Quiet
    <3>2. /\ UNCHANGED <<graph, result, call, edits>>
          /\ \E H : (\A p \in H : GapOK(p)) /\ held' = [held EXCEPT ![l] = H]
      BY <2>2 DEF Quiet
    <3> QED
      BY <3>1, <3>2, QuietInv
  <2>3. CASE Opens(l)
    BY <2>3, OpensInv
  <2>4. CASE Persist(l)
    BY <2>4, PersistInv
  <2> QED
    BY <1>3, <2>1, <2>2, <2>3, <2>4, LearnCases DEF LearnerStep
<1> QED
  BY <1>1, <1>2, <1>3 DEF LearningNext, Rest

-----------------------------------------------------------------------------
(* What follows for every behaviour *)

\* Racing learners and authors keep the store's invariant and, when serialized,
\* never hold a copy that has lost something.
THEOREM LearningInvariant == LearningSpec => [](RacingInv /\ SerialInv)
BY InitInv, StepInv, PTL DEF LearningSpec

\* Open calls hold well-formed primitives and answers are known ones, for any
\* number of learners and any candidates.
THEOREM LearningTyped == LearningSpec => []LearningTypeOK
<1>1. RacingInv => LearningTypeOK
  BY DEF RacingInv
<1> QED
  BY <1>1, LearningInvariant, PTL

\* Learners and authors that race each other, with nothing to serialize them,
\* still never close a cycle, leave a relatum without a target or give a name
\* two primitives.
THEOREM LearningKeepsStore == LearningSpec => [](Acyclic /\ NoDangling /\ UniqueNames)
<1>1. RacingInv => Acyclic /\ NoDangling /\ UniqueNames
  BY DEF RacingInv
<1> QED
  BY <1>1, LearningInvariant, PTL

\* A grounded verdict is justified at every moment of the loop.
THEOREM LearningSound == LearningSpec => []VerdictSound
<1>1. RacingInv => VerdictSound
  BY StoreSound DEF RacingInv, StoreInv, LearningTypeOK
<1> QED
  BY <1>1, LearningInvariant, PTL

\* What a call saves replaces the row its copy was read from.
LEMMA PersistedSaves ==
  ASSUME RacingInv, [LearningNext]_allvars, NEW l \in Learners, Persisted(l)
  PROVE  /\ graph' = Saved(graph, call[l].copy)
         /\ call[l].copy \in Primitive
<1>1. Persist(l)
  <2>1. ~UNCHANGED call
    BY DEF Persisted
  <2>2. PICK k \in Learners : LearnerStep(k)
    BY <2>1 DEF LearningNext, Rest, Author, allvars, lvars
  <2>3. ~\E q \in Queries, m \in Floors : Check(k, q, m)
    BY <2>1 DEF Check
  <2>4. ~Learn(k)
    <3>1. ~Quiet(k)
      BY <2>1 DEF Quiet
    <3>2. ~Opens(k)
      <4> SUFFICES ASSUME NEW p, NEW copy, Proceeds(k, p, copy) PROVE FALSE
        BY DEF Opens
      <4>1. call' = [call EXCEPT ![k] = [open |-> TRUE, gap |-> p, copy |-> copy]]
        BY DEF Proceeds
      <4>2. call'[l] = call[l] \/ call'[l].open
        BY <4>1 DEF RacingInv
      <4> QED
        BY <4>2 DEF Persisted
    <3> QED
      BY <3>1, <3>2, LearnCases
  <2>5. Persist(k)
    BY <2>2, <2>3, <2>4 DEF LearnerStep
  <2>6. k = l
    BY <2>5 DEF Persist, Persisted, RacingInv
  <2> QED
    BY <2>5, <2>6
<1> QED
  BY <1>1 DEF Persist, Persisted, SavePrimitive, RacingInv, LearningTypeOK

\* When writers are serialized, learning loses nothing: an accepted call keeps
\* every level that grounded, as it was written, and every relatum.
THEOREM SerializedLearningKeepsKnowledge ==
  ASSUME Serialized PROVE LearningSpec => LearningKeepsKnowledge
<1> DEFINE Kept(i) ==
      /\ i \in DOMAIN graph' /\ graph'[i].name = graph[i].name
      /\ graph[i].relata \subseteq graph'[i].relata
      /\ \A k \in GroundingLevels(graph[i]) : graph'[i].depths[k] = graph[i].depths[k]
           Step == \A l \in Learners : Persisted(l) => \A i \in DOMAIN graph : Kept(i)
<1>1. RacingInv /\ SerialInv /\ [LearningNext]_allvars => Step
  <2> SUFFICES ASSUME RacingInv, SerialInv, [LearningNext]_allvars,
                      NEW l \in Learners, Persisted(l), NEW i \in DOMAIN graph
               PROVE  Kept(i)
    OBVIOUS
  <2> DEFINE copy == call[l].copy
  <2>1. graph' = Saved(graph, copy) /\ copy \in Primitive
    BY PersistedSaves
  <2>2. Keeps(copy)
    BY DEF SerialInv, Persisted
  <2>3. \A r \in graph[i].relata : r.target \in DOMAIN graph
    BY DEF RacingInv, NoDangling
  <2> HIDE DEF copy
  <2>4. CASE i # copy.id
    <3>1. graph'[i] = graph[i] /\ i \in DOMAIN graph'
      BY <2>1, <2>4 DEF Saved
    <3> QED
      BY <3>1
  <2>5. CASE i = copy.id
    <3>1. i \in DOMAIN graph' /\ graph'[i] = StoredRow(graph, copy)
      BY <2>1, <2>5 DEF Saved
    <3>2. /\ StoredRow(graph, copy).name = copy.name /\ StoredRow(graph, copy).depths = copy.depths
          /\ StoredRow(graph, copy).relata
               = {r \in copy.relata : r.target \in DOMAIN graph \cup {copy.id}}
      BY <2>1 DEF StoredRow, Primitive
    <3> QED
      BY <2>2, <2>3, <2>5, <3>1, <3>2 DEF Keeps
  <2> QED
    BY <2>4, <2>5
<1>2. LearningSpec => [][Step]_allvars
  BY <1>1, LearningInvariant, PTL DEF LearningSpec
<1> QED
  BY <1>2 DEF LearningKeepsKnowledge

\* When writers are serialized, an accepted depth fill deepens its primitive
\* and stays within the depth the gap required.
THEOREM SerializedFillsMakeProgress ==
  ASSUME Serialized PROVE LearningSpec => FillsMakeProgress
<1> DEFINE Deeper(l) ==
      LET i == call[l].gap.id
      IN  /\ ContiguousMaxDepth(graph'[i]) > ContiguousMaxDepth(graph[i])
          /\ \A k \in Level : k > call[l].gap.required => graph'[i].depths[k] = graph[i].depths[k]
           Step == \A l \in Learners :
                     Persisted(l) /\ call[l].gap.kind \in {"DEPTH", "RELATIONAL"} => Deeper(l)
<1>1. RacingInv /\ SerialInv /\ [LearningNext]_allvars => Step
  <2> SUFFICES ASSUME RacingInv, SerialInv, [LearningNext]_allvars, NEW l \in Learners,
                      Persisted(l), call[l].gap.kind \in {"DEPTH", "RELATIONAL"}
               PROVE  Deeper(l)
    OBVIOUS
  <2> DEFINE copy == call[l].copy
  <2>1. graph' = Saved(graph, copy) /\ copy \in Primitive
    BY PersistedSaves
  <2>2. Deepens(call[l].gap, copy)
    BY DEF SerialInv, Persisted
  <2>3. StoredRow(graph, copy) = copy
    BY <2>1, <2>2 DEF StoredRow, Deepens, Primitive
  <2>4. graph'[call[l].gap.id] = copy /\ call[l].gap.id = copy.id
    BY <2>1, <2>2, <2>3 DEF Saved, Deepens
  <2> QED
    BY <2>2, <2>4 DEF Deepens
<1>2. LearningSpec => [][Step]_allvars
  BY <1>1, LearningInvariant, PTL DEF LearningSpec
<1> QED
  BY <1>2 DEF FillsMakeProgress

-----------------------------------------------------------------------------
(* A gap that is refused as resolved *)

\* A learner that holds gaps holds those of a query it has checked.
AskedInv ==
  /\ DOMAIN asked = Learners
  /\ \A l \in Learners : held[l] # {} => asked[l][1] \in Queries /\ asked[l][2] \in Floors

\* Filling a held gap never changes what was asked.
LEMMA LearnKeepsAsked ==
  ASSUME RacingInv, NEW l \in Learners, Learn(l)
  PROVE  asked' = asked /\ \A k \in Learners : held'[k] # {} => held[k] # {}
<1>1. PICK p \in held[l] : \/ LearnDepth(l, p) \/ LearnExistence(l, p) \/ LearnEdge(l, p)
                           \/ Prerequisites(l, p) \/ Skip(l, p)
  BY DEF Learn
<1>2. asked' = asked
  BY <1>1 DEF LearnDepth, LearnExistence, LearnEdge, Prerequisites, Skip, Answered, Proceeds
<1>3. held' = held \/ \E H : held' = [held EXCEPT ![l] = H]
  BY LearnCases DEF Quiet, Opens, Proceeds
<1>4. \A k \in Learners : k # l => held'[k] = held[k]
  BY <1>3 DEF RacingInv
<1> QED
  BY <1>1, <1>2, <1>4

\* Every step keeps it.
LEMMA AskedStep == RacingInv /\ AskedInv /\ [LearningNext]_allvars => AskedInv'
<1> SUFFICES ASSUME RacingInv, AskedInv, [LearningNext]_allvars PROVE AskedInv'
  OBVIOUS
<1>1. CASE UNCHANGED <<asked, held>>
  BY <1>1 DEF AskedInv
<1>2. ASSUME NEW l \in Learners, LearnerStep(l) PROVE AskedInv'
  <2>1. ASSUME NEW q \in Queries, NEW m \in Floors, Check(l, q, m) PROVE AskedInv'
    <3>1. PICK H : held' = [held EXCEPT ![l] = H]
      BY <2>1 DEF Check
    <3>2. asked' = [asked EXCEPT ![l] = <<q, m>>]
      BY <2>1 DEF Check
    <3> QED
      BY <3>1, <3>2 DEF AskedInv, RacingInv
  <2>2. CASE Learn(l)
    BY <2>2, LearnKeepsAsked DEF AskedInv
  <2>3. CASE Persist(l)
    <3>1. asked' = asked /\ held' = [held EXCEPT ![l] = held[l] \ {call[l].gap}]
      BY <2>3 DEF Persist
    <3> QED
      BY <3>1 DEF AskedInv, RacingInv
  <2> QED
    BY <1>2, <2>1, <2>2, <2>3 DEF LearnerStep
<1> QED
  BY <1>1, <1>2 DEF LearningNext, Author, Rest, allvars, lvars

\* Every gap a learner holds comes from a query it asked.
LEMMA AskedInvariant == LearningSpec => []AskedInv
<1>1. LearningInit => AskedInv
  BY DEF LearningInit, AskedInv
<1> QED
  BY <1>1, AskedStep, LearningInvariant, PTL DEF LearningSpec

\* When the live primitive is as deep as a gap asks, the engine sees it so.
LEMMA DeepEnoughUnreported ==
  ASSUME StoreInv, NoBareLevel, NEW l, asked[l][1] \in Queries, asked[l][2] \in Floors,
         NEW p, p.kind \in {"DEPTH", "RELATIONAL"}, p.required \in Level, p.id \in DOMAIN graph,
         ContiguousMaxDepth(graph[p.id]) >= p.required
  PROVE  StillReported(l, p) = {}
<1> SUFFICES ASSUME NEW r \in StillReported(l, p) PROVE FALSE
  OBVIOUS
<1> DEFINE q == asked[l][1]
           m == asked[l][2]
<1>1. /\ r \in Gaps(graph, q, m) /\ r.kind \in {"DEPTH", "RELATIONAL"}
      /\ r.id = p.id /\ r.required <= p.required
  BY DEF StillReported
<1>2. IsGraph(graph)
  BY DEF StoreInv, TypeOK
<1>3. /\ r.id \in Collected(graph, q)
      /\ r.required \in Level \cup {None} /\ Known(sub(q), r.id) < r.required
  BY <1>1, <1>2, GapDemand
<1>4. ~GroundedTo(r.id, r.required)
  BY <1>3, MissingIsReal
<1>5. /\ ContiguousMaxDepth(graph[p.id]) \in Level \cup {None}
      /\ 0..ContiguousMaxDepth(graph[p.id]) \subseteq GroundingLevels(graph[p.id])
  BY ContiguousMaxChain DEF ContiguousMaxDepth
<1>6. 0..r.required \subseteq 0..ContiguousMaxDepth(graph[p.id])
  BY <1>1, <1>3, <1>5 DEF Level, None
<1> QED
  BY <1>1, <1>4, <1>5, <1>6 DEF GroundedTo, GroundingLevels

\* When the name of an existence gap has a holder, it is not reported.
LEMMA HeldNameUnreported ==
  ASSUME NEW l, NEW p, p.kind = "EXISTENCE", HoldersOf(graph, p.name) # {}
  PROVE  StillReported(l, p) = {}
<1> SUFFICES ASSUME NEW r \in StillReported(l, p) PROVE FALSE
  OBVIOUS
<1>1. r \in Gaps(graph, asked[l][1], asked[l][2]) /\ r.kind = "EXISTENCE" /\ r.name = p.name
  BY DEF StillReported
<1>2. r \in ExistenceGaps(graph, asked[l][1])
  BY <1>1, ExistenceGapKind
<1> QED
  BY <1>1, <1>2 DEF ExistenceGaps

\* An answer names its gap, and changes no other learner's.
LEMMA AnsweredLast ==
  ASSUME RacingInv, NEW k \in Learners, NEW l \in Learners, NEW p, NEW a, Answered(k, p, a),
         last'[l] # last[l]
  PROVE  k = l /\ last'[l].answer = a /\ last'[l].gap = p
<1>1. last' = [last EXCEPT ![k] = [answer |-> a, gap |-> p]]
  BY DEF Answered
<1>2. k = l
  BY <1>1
<1>3. last'[l] = [answer |-> a, gap |-> p]
  BY <1>1, <1>2 DEF RacingInv
<1> QED
  BY <1>2, <1>3

\* "resolved" is answered by learn_gap alone, for a gap that the live graph
\* has closed.
LEMMA ResolvedStep ==
  ASSUME RacingInv, AskedInv, NoBareLevel, [LearningNext]_allvars, NEW l \in Learners,
         last'[l].answer = "resolved", last'[l] # last[l]
  PROVE  StillReported(l, last'[l].gap) = {}
<1>1. PICK k \in Learners : LearnerStep(k)
  BY DEF LearningNext, Rest, Author, allvars, lvars
<1>2. ~\E q \in Queries, m \in Floors : Check(k, q, m)
  <2> SUFFICES ASSUME last' = [last EXCEPT ![k] = Unanswered] PROVE FALSE
    BY DEF Check
  <2> QED
    BY DEF Unanswered, RacingInv
<1>3. ~Persist(k)
  <2> SUFFICES ASSUME last' = [last EXCEPT ![k] = [answer |-> result', gap |-> call[k].gap]],
                      result' = SaveResult(graph, call[k].copy)
               PROVE  FALSE
    BY DEF Persist, SavePrimitive
  <2>1. last'[l] = [answer |-> result', gap |-> call[k].gap]
    BY DEF RacingInv
  <2>2. last'[l].answer = result'
    BY <2>1
  <2>3. result' # "resolved"
    BY DEF SaveResult
  <2> QED
    BY <2>2, <2>3
<1>4. PICK p \in held[k] : \/ LearnDepth(k, p) \/ LearnExistence(k, p) \/ LearnEdge(k, p)
                           \/ Prerequisites(k, p) \/ Skip(k, p)
  BY <1>1, <1>2, <1>3 DEF LearnerStep, Learn
<1>5. GapOK(p) /\ asked[k][1] \in Queries /\ asked[k][2] \in Floors
  BY DEF RacingInv, AskedInv
<1>6. StoreInv
  BY DEF RacingInv, StoreInv, LearningTypeOK
<1>7. CASE LearnDepth(k, p)
  <2>1. \/ Answered(k, p, "invalid")
        \/ /\ Answered(k, p, "resolved") /\ p.id \in DOMAIN graph
           /\ ContiguousMaxDepth(graph[p.id]) >= p.required
        \/ \E copy : Proceeds(k, p, copy)
    BY <1>7 DEF LearnDepth
  <2>2. /\ Answered(k, p, "resolved") /\ p.id \in DOMAIN graph
        /\ ContiguousMaxDepth(graph[p.id]) >= p.required
    BY <2>1, AnsweredLast DEF Proceeds
  <2>3. k = l /\ last'[l].gap = p
    BY <2>2, AnsweredLast
  <2> QED
    BY <1>5, <1>6, <1>7, <2>2, <2>3, DeepEnoughUnreported DEF LearnDepth, GapOK
<1>8. CASE LearnExistence(k, p)
  <2>1. \/ Answered(k, p, "invalid")
        \/ Answered(k, p, "resolved") /\ HoldersOf(graph, p.name) # {}
        \/ \E copy : Proceeds(k, p, copy)
    BY <1>8 DEF LearnExistence
  <2>2. Answered(k, p, "resolved") /\ HoldersOf(graph, p.name) # {}
    BY <2>1, AnsweredLast DEF Proceeds
  <2>3. k = l /\ last'[l].gap = p
    BY <2>2, AnsweredLast
  <2> QED
    BY <1>8, <2>2, <2>3, HeldNameUnreported DEF LearnExistence
<1>9. CASE LearnEdge(k, p)
  <2>1. Answered(k, p, "invalid") \/ \E copy : Proceeds(k, p, copy)
    BY <1>9 DEF LearnEdge
  <2> QED
    BY <2>1, AnsweredLast DEF Proceeds
<1>10. CASE Prerequisites(k, p) \/ Skip(k, p)
  BY <1>10 DEF Prerequisites, Skip
<1> QED
  BY <1>4, <1>7, <1>8, <1>9, <1>10

\* However learners and authors race: a gap learn_gap refuses as resolved is,
\* on a graph without a bare level, not reported by the query it came from.
THEOREM ResolvedGapsAreDone == LearningSpec => ResolvedIsDone
<1> DEFINE Done(l) == last'[l].answer = "resolved" /\ last'[l] # last[l] /\ NoBareLevel
                        => StillReported(l, last'[l].gap) = {}
           Step == \A l \in Learners : Done(l)
<1>1. RacingInv /\ AskedInv /\ [LearningNext]_allvars => Step
  BY ResolvedStep
<1>2. LearningSpec => [][Step]_allvars
  BY <1>1, LearningInvariant, AskedInvariant, PTL DEF LearningSpec
<1> QED
  BY <1>2 DEF ResolvedIsDone

=============================================================================
