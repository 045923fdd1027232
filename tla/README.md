# A verification development for VRE

VRE keeps an *epistemic graph*: concepts ("primitives") with knowledge at depth
levels D0..D4, and typed relata between them that say what depth of one concept
needs what depth of another. An agent may act only on concepts that are
*grounded*: the engine resolves the transitive closure of the concepts asked
for, reports what is missing as *gaps*, a learning loop fills the gaps with
approved candidates, and a guard lets a tool run only on grounded concepts and
past the policies placed on their relata. These modules model the program from
the statements of its backends to its seed scripts; TLC checks them on small
instances, and TLAPS proves the core for any instance. Paths below are relative
to `src/src/vre/` unless they begin with `src/`.

## The system and its parts

| part | code | state | operations | modules |
|---|---|---|---|---|
| graph model | `core/models.py` | none (data) | `grounds`, `contiguous_max`, `missing_depth_levels` | `DepthGraph` |
| repository | `core/backends/*.py` | rows of primitives and relata, schema version | save, upsert, delete, clear, reads, `resolve_subgraph`, metrics writes, opening | `DepthGraph`, `GraphStore`, `StoreTxn`, `Neo4jTxn`, `SchemaStamp`, `Metrics` |
| grounding | `core/grounding/engine.py` | none | `query`, `ground` | `Grounding`, `GroundedStore` |
| learning | `learning/*.py` | none of its own; the integrator holds the gaps | `learn_gap`, `reachability_prerequisites` | `Learning` |
| facade | `__init__.py` | repository, frozen registry, identity | construction, `check`, `check_policy` | `Check`, `Guard`, `Startup` |
| policy | `core/policy/*.py` | registered placements, frozen flag | register, freeze, clear, `evaluate` | `Guard` |
| guard | `guard.py` | none | check, policy, confirm, run the tool | `Guard` |
| metrics | `metrics.py` | counts on the rows | read, add, write back | `Metrics`, `Check` |
| tracing | `tracing.py` | `_suppressed`, one file of lines | write, suppress | `Tracing`, `Check` |
| identity | `identity/registry.py` | a JSON file | load, add, replace | `AgentRegistry`, `Startup` |
| seeders, scripts | `src/seeders`, `src/scripts` | none | sequences of saves, clear | `SeedSteps`, `SeedGaps`, `SeedFilesystem`, `Seeders` |
| errors | `core/errors.py` | none | none | not modelled: classes only |

How they interact. Authors (seeders, scripts, integrators) write the graph
through the repository, each call a transaction. `VRE.check` calls
`GroundingEngine.ground`, which reads one subgraph with `resolve_subgraph` and
computes gaps, verdict and trace from it without further reads; then it counts
the result in the metrics of the rows, and appends it to the trace file. An
integrator that gets gaps has candidates proposed and calls `learn_gap`, which
reads the *live* primitive, validates the candidate against it and writes the
amended copy with `save_primitive`. The policy gate and the guard work on the
trace of a check, never on the store. Nothing locks the store between any two of
these calls. A process opens the store (which stamps or compares its schema
version) and constructs instances, which fetch their identity from a file all
processes share and freeze the policy registry.

What is hard: writers that race between reads and saves; full replaces that must
not lose what other rows hold; verdicts computed on a frontier that must speak
for a whole closure; gaps and traces that go stale; a loop that must end;
statements of two connections in any order, failing, waiting, interrupted or
cut off; processes and machines that die between two steps; scripts that die in
the middle and run again. PROJECT.json lists each hazard at its line with the
properties that watch it.

What makes each part correct: the store keeps its rows well formed, acyclic,
without dangling relata and with unique names, and its statements amount to
whole calls; a verdict is justified by the stored graph and a gap is real;
learning never overwrites knowledge and its loop ends grounded; what is enforced
was validated unless its registration met a construction, and no tool runs past
a policy its check saw; counts are never
made up, trace lines never mixed up; an identity given out stays; a script that
ends leaves what it declares.

## Modules

### The graph and its store

**`DepthGraph`** holds the pure functions of the graph model and of a save. A
graph is a function from ids to primitives; a primitive has a depth function
and a set of relata, each with the level it hangs on, as in the relata table.
`Content` keeps what the code tells apart of a record: absent, without
properties, authored, learned. `ReachFrom` is the least closed set that the
recursive CTE, the variable-length Cypher path and the stack searches compute;
it has no recursion, so that proofs can use it. `SaveResult` is the answer of
`save_primitive` with its checks in the order of the code, `Saved` the rows it
commits; the constant `Backend` picks the treatment of a relatum to a missing
row (SQLite refuses, Neo4j skips it). Definitions marked *Fault* are plausible
bugs of the definition after them; each property is shown to catch one.

**`GraphStore`** is the repository as whole calls: `graph` and the `result` of
the last call; `SavePrimitive`, `UpsertPrimitive`, `DeletePrimitive`, `Clear`.
`Drafts` is whatever authors may hand in. It is the abstract specification of
the next two.

**`StoreTxn`** is `SQLiteRepository` statement by statement. `committed` and
`work` are the rows on disk and those the transaction sees, `lock` the one write
lock, `call` the statement each connection has come to. A save is `StartSave`
(BEGIN, no lock), `WriteRow` (INSERT .. ON CONFLICT, which takes the lock),
`DeleteOutgoing`, `CheckCycles`, `InsertRelatum` per relatum, `Commit`; a
refusal, `GiveUp` (busy timeout or any other `sqlite3.Error`) and `Crash` roll
back. `Interrupt` is an exception no `except` clause names, at any statement from
BEGIN on: it leaves the transaction `open` on the connection, with the lock or
still without. Inside it later deletes serve nobody (`AutoCommit`), a first read
fixes what all its reads see (`pinned`, `Pin`, `View`) until it writes, a write
after that needs that nobody has committed meanwhile, and its next BEGIN fails
and rolls back. The reads are `ListNames`, `StartFind`/`FetchOutgoing` and the
three SELECTs of `resolve_subgraph`, with the hydration. `ImplementsStore` is `GraphStore` with `graph <- committed`,
`result <- last`: `upsert_primitive`, which looks the name up before its
transaction begins, then saves under an id that may be out of date, which is one
of the drafts (`StoreDrafts`) of the abstract store.

**`Neo4jTxn`** is `Neo4jRepository.save_primitive` query by query: the MERGE, the
deletion of relationships, a query of the cycle check for each transitive
relatum (`CheckCycles`), a query for each relatum, which creates it (`Create`)
or, when its MATCH finds no target, does nothing and is not run again (`Skip`),
and the commit, with the retry of `execute_write` and saves and deletes by others
between any two. The server is external: committed reads, node locks on both ends
of a relationship, a unique index, deadlocks broken by rolling one transaction
back. Since a target may come after the query that missed it, a save need not
link all it could at its commit: `ImplementsStore` is refinement of `GraphStore`
on `PartialDrafts`, drafts that lack some of their relata, `LinksWhatStays` says
which may not be lacking (`stayed` remembers the nodes that were there all
through a transaction), and `ImplementsWholeStore` is refinement of `GraphStore`
on the drafts themselves, which holds under a condition on the scheduling only.

**`SchemaStamp`** opens a store: `ReadVersion` and `Stamp` are two statements on
SQLite, `MergeMarker` one on Neo4j.

### Grounding and learning

**`Grounding`** is `resolve_subgraph` and the engine: roots, collected subgraph,
visible and gated edges, frontier, the four kinds of gap, the anchor of the
reachability check, verdict and trace, as functions of graph, query and floor.

**`GroundedStore`** puts the engine over the store and states what verdicts mean.
`Justified` is the abstract specification of a verdict: it speaks of the stored
graph and the whole closure only, never of visibility, frontier or hydration.
`NoBareLevel` is the condition completeness needs, see the findings.

**`Learning`** adds integrators: `asked` and `held` (the last check and the gaps
still to fill), `call` (a `learn_gap` between its read and its save), `last`.
`LearnDepth`, `LearnExistence` and `LearnEdge` are the `_persist_*` methods up to
the save, `Persist` is the save, `Author` writes at any time. `Cooperative`
restricts candidates to what the template asks; otherwise they are arbitrary.
`Serialized` is the integrator's promise of `docs/trust-model.md:78` to
serialize writers.

### The facade and what hangs on it

**`Guard`** has the registry (its two tables `byKey` and `byEdge`, the flag
`frozen`), the instances built on it, and calls that go through check, gate,
confirmation and tool, with authors writing, code importing, and `clear()` in
between. A registration is its checks (`Register`: not frozen, key unused) and
then its insertions (`Insert`), a construction the count (`Construct`), the list
of placements (`ListPlacements`), the lookup of each (`Validate`), `Freeze` and
`CacheKeys`; nothing keeps the steps of the one out of the other. `overlapping`
remembers the placements whose registration met an instance that was validating,
a `clear()` or another one of its key. A callback is any function of its context,
so each policy that is asked may fire or not.

**`Metrics`** is the read-add-write of `update_grounding` beside saves that carry
a copy of old counts; **`Tracing`** the recorder: `suppress()` blocks over one
flag, lines appended in one write that a full disk may cut. **`Check`** composes
them: `VRE.check` grounds, counts and traces as separate steps of several
threads on one instance.

**`AgentRegistry`** is `get_or_create` from load to `os.replace`: temporary file,
fsync, rename, with processes that die and a power loss that takes back what the
directory had not yet written. **`Startup`** composes it with `SchemaStamp`:
processes that open the store, then ask for identities, then end, and take both
down.

### The scripts

**`SeedSteps`** is the vocabulary of a script; **`SeedGaps`** and
**`SeedFilesystem`** are the two seeders, step by step: every concept with its
levels and relata in the order of the source, the filesystem seeder with its
post-creation wiring. **`Seeders`** runs them (and `clear_graph.py`) on the
store: runs that bind what they saved, cite it, die anywhere and are started
again. Properties declare what a finished script leaves from its steps alone.

`GraphStoreProofs`, `StoreTxnProofs`, `Neo4jTxnProofs`, `GroundingProofs`,
`LearningProofs`, `FacadeProofs` (of `Guard` and `Check`), `StartupProofs` and
`SeedersProofs` hold the theorems, the modules `MC*` the instances.

### Abstractions

- A name is its fold key; case never matters to the code after folding.
- `depths` maps a level to its record: a primitive that lists a level twice
  cannot be expressed. Relata are a set: equal rows collapse.
- Provenance is authored or learned; metadata, display names, timestamps and
  wording are left out.
- Only in `StoreTxn` and `Neo4jTxn` is a repository call more than one step.
  That one step stands for its statements is what `ImplementsStore` says. The
  reads of `learn_gap` happen in one step with its validation.
- `uuid4` yields an id that nothing else holds.
- The trace leaves out the placeholder the engine makes for a missing concept.
- The anchor of the reachability check is the first of the largest components
  in query order, which is what `max` returns.
- A candidate that fails validation is answered and its gap dropped; the retry is
  a new call on a gap of the next check.
- An SQLite connection serves one thread, as `sqlite3` insists, so the calls of a
  connection do not overlap. After an interrupt its calls are answered inside
  the transaction left open; their answers are not part of the abstract store,
  and `last` does not change.
- All instances share one registry, as the default one is shared. The two
  insertions of a registration are one step.
- A line of the trace is one write, because it is smaller than the buffer of the
  file or goes out in one call; a full disk takes any part of it.
- After a power loss a file holds what was synced, and the name leads to what the
  directory on disk says; a renamed file that was not synced is torn.
- `Seeders` looks cycles up with a search (`Reached`), which is `ReachFrom` on
  every finite graph (`ReachedIsReachFrom`).

## Runs

Every bound is in the MC modules and the cfg files.

| run | instance | shows |
|---|---|---|
| `store_sqlite` | 3 ids, 3 names, 51 drafts | every order of saves, renames, upserts, deletes, clears keeps the invariants; other rows are left alone; a cycle refusal is a real cycle |
| `store_txn` | 2 connections that write, one also reads; 4 drafts that close a cycle, dangle, replace and take a name; interrupts at any statement | statements implement whole calls; the uncommitted is local to the lock holder; quiet reads are subgraphs, stale ones those of their transaction's first read; every call ends |
| `neo4j_overlap` | 2 clients, 6 drafts whose relata cross while names change hands | overlapping saves and deletes, retried or cut off, are whole calls but for relata whose target was not there all the time; no second node of a name, nothing dangles |
| `neo4j_racing` (violation) | 2 clients, drafts that could close a ring | overlapping saves commit a cycle |
| `verdicts` | 3 concepts, shallow, deep, with holes, bare; 10 queries, floors none and D1 | soundness, completeness, real gaps, order independence, monotonicity, trace |
| `learning_serialized` | 1 learner, any candidates, 1 author write between calls | learning keeps knowledge, fills make progress, "resolved" is true |
| `learning_converges` | 1 cooperative learner, 1 author write, up to 3 learned concepts | the loop ends grounded |
| `learning_bare` (violation) | a bare level | "already done", then reported again |
| `guard` | 2 instances, 1 caller, 2 placements, authors, teardown | what is enforced was validated, but for registrations that overlapped a construction; tools run only past the policies of their check |
| `check` | 2 threads, 2 checks, 2 nested blocks, an author, a stale copy | counts never made up, exact without overlap; traces complete and readable |
| `startup` | 2 processes of 2 builds, 2 keys, 3 new uuids, both backends | an open store matches; identities stay; the file is never partial |
| `seeders` | all 3 scripts, 20 concepts, 2 runs, 1 delete by others | finished scripts leave what they declare, refused by nothing |

Why the bounds are enough. Three primitives give a self-cycle, a cycle of two
and of three, and a bystander for each write; two names for an id give renames
onto a name in use. Levels are all five, but shapes stop at D2: the chain
arithmetic is the same above, and the proofs cover every level. Three concepts
give a root, a required one and one reached through it, so that gating, frontier
and relational gaps arise on paths of two edges. `MaxEdits` (author writes in a
loop or a script) is 1: one write makes a gap stale, and one takes away what a
script relies on. Two connections are all a lock can tell apart: who holds it
and who does not. `MaxSeen` 2 lets one commit fall into each read, and quiet
reads need none. `MaxChecks` 2 gives a pair that overlaps, `MaxNest` 2 blocks
that are nested or crossed; `Amended = {a}` is the concept whose copies are
saved with old counts. `MaxRuns` 2 gives every script any other, cut off
anywhere, as its past. Symmetry of interchangeable threads and instances is used
where only invariants are checked (`check`, `guard`); `guard` also compares its
states without `result`, which no step or property of it reads. Only `seeders`
checks without deadlock detection: when no run is left, the scripts have ended.

Fairness. `LoopSpec` says that a learner's loop does not stop for good while it
has something to do: a `while` loop in a live process. Nothing is assumed of
authors, nor of which gap or candidate is chosen. It is written as `LoopFair`
because `Busy` is cheaper for TLC than `ENABLED`; that every state with `Busy`
has a learner step is what the deadlock check of the run confirms, `Rest` being
the only other step. `FairSpec` of `StoreTxn` is weak fairness of the statements
of each connection, none of starting a call: a statement that was sent is
executed, or fails. The busy timeout (`GiveUp`) is such an end; without it a
writer that waits for a lock that is never freed would wait for ever, which is
what the mutant of `EveryCallAnswers` shows.

## Proofs

`tlapm` checks the eight proof modules from nothing.

*Store.* `StoreInv`, the conjunction of the four invariants, is inductive:
`NoDangling` and `UniqueNames` follow from the rows kept; `Acyclic` is stated
without a search (every nonempty set of primitives has one that requires none
of the others), and `SavedAcyclic` shows that the cycle check suffices: split a
set without an exit by what the proposed targets reach. The lemmas `ReachStart`,
`ReachClosed` and `ReachLeast` are all that is used of reachability. The
theorems hold for both backends and any drafts. `StoreRefusals`, by
`RefusedIsCyclic`, says that the check is exact.

*Statements.* `TxnRefinesStore`: for any connections, ids, names and drafts,
`StoreTxn` implements `GraphStore`. `TxnInv` is what makes it inductive: for
every statement between BEGIN and COMMIT it gives the rows of the transaction as
a function of the committed ones (`RowWritten`, `Unlinked`, `PartlySaved`), and
only the lock holder is past BEGIN. The commit then publishes exactly `Saved`,
the unique index, the cycle query and the foreign key refuse exactly what
`SaveResult` refuses, and everything else leaves the committed rows alone. `OpenInv` adds what an interrupted save leaves behind: its transaction is
no save under way, is held to one graph from its first read until it writes, and
no statement commits it; so who is not in one reads what is committed, which the
lookup of an upsert needs. `TxnTransactionIsLocal` follows from the same
invariants. Through the refinement the theorems of the store hold of what is on
disk (`TxnFileIsSound`). `TxnQuietReads` has an invariant of its own (`ReadInv`):
every row a read holds was a row of one of its `Sources`, the graphs on disk
while it ran or, in a transaction left open, the one it is held to. So a read
that saw one graph only answers with `Resolved` of that graph, and a primitive as
it stood there. Of reads in a transaction left open that has written nothing is
said: they see half a save.

*Neo4j.* `Neo4jInv` says that the node locks of two transactions are disjoint,
and that what a transaction matched is still there and the name it found free is
still free. From it `Neo4jUniqueNames` and `Neo4jNoDangling`, for any number of
clients and any drafts. The cycle check has no lock, so nothing of the kind holds
of it. `OneChecked` states what would be enough: no two transactions at once
between a query of their check and their commit. The code does not guarantee
that, and `neo4j_racing` shows what follows; the integrator who serializes
writers does. Under it, `CheckHolds` (the answer of the check is still right, and
no target that a query missed has come: by `ReachMonotone` and
`WithoutClosesNone` a concurrent delete closes no cycle) gives
`Neo4jRefinesStore`, implementation of the whole calls with nothing left out
(`ImplementsWholeStore`), and through it `Neo4jSerialAcyclic`. Another thing is
enough for calls that may leave out relata, and asks nothing of the scheduling: `DraftsOrdered`, that all the
transitive relata of the drafts the check may let through close no cycle
together, as those of a seed script do. Then every row lies within that order
(`OrderedInv`), no check that answers can be overtaken, and
`Neo4jOrderedRefinesStore` (`ImplementsStore`) and `Neo4jOrderedAcyclic` hold of
any number of overlapping clients. What they may leave out is bounded without any
condition: `StaysInv` says that a node that stayed so far is there and its
relatum made or still to do, which gives `Neo4jLinksWhatStays`. TLC checks that the drafts of `neo4j_overlap` are ordered,
for all that they cross, and those of `neo4j_racing` are not
(`CrossingIsOrdered`).

*Grounding.* `GroundingSound`: for any graph the store reaches, any query and
floor, a grounded verdict is justified. The step that needs an argument is
`FrontierIsClosure`: with no gap nothing on the frontier is gated, so the
frontier is closed and is the whole collected set; then every relatum of the
closure was looked at. Hydration only removes relata, so a level that grounds in
the subgraph grounds in the store. `FiniteIdsAssumption` is used for the anchor:
one of the roots comes first among those with the largest component.
`GroundingComplete` is the converse. It needs `NoBareLevel`: then hydration keeps
every level grounded (`KnownExact`), so what is justified shows no gap
(`JustifiedIsGrounded`). From the same lemmas `GapsReal`: each gap is an unmet
demand of the stored graph (`GapDemand`, kind by kind). `OrderIrrelevant` needs
that only the anchor looks at the order, and `NoConceptLaundered` that closures
grow with the query. For `TraceExact` the frontier of any verdict is shown closed
under the visible edges (`FrontierClosed`), whatever its gaps.

*Learning.* `RacingInv` (the store's invariant, well-formed open copies, typed
gaps) is inductive whatever the interleaving; `SerialInv` adds, when writers are
serialized, that at most one call is open and that its copy extends the live row.
From them: `LearningTyped`, `LearningKeepsStore`, `LearningSound`,
`SerializedLearningKeepsKnowledge`, `SerializedFillsMakeProgress`. The last two
rest on `DepthFillAmends`: what `_validate_depth_fill` lets through fills holes
only and lengthens the chain. `ResolvedGapsAreDone`, an action property, adds
in `AskedInv` that who holds gaps has asked a query of the engine. Racing
learners are not model-checked: their theorems cover any number of them.

*Guard.* `GuardInvariant` relates registry, instances and calls under way.
`RegistryInv` says that the tables agree but for `overlapping`, and `VreInv` what
each step of a construction knows of them: from the list on, whatever is
registered or on its way there and not listed is in `overlapping`, and after the
freeze nothing new gets past the checks. `GuardValidated` and `GuardRuns` follow
for any number of instances, callers and placements.

*Check.* A bound on the counts alone is not inductive, since a thread writes back
what it read some time ago and an author what it copied. `CountInv` bounds every
number that may still reach a row: the count in the row, in a pending write, in a
stale copy, each together with the threads that have yet to count, is at most
what ran. From it `CheckNeverOvercounts`. For `CheckCountsExactly`, `SerialInv`
says that as long as nothing overlapped, either every count is exact or the one
thread at work holds or has read the exact value. `TraceInv` accounts for every
traced check as written, dropped or about to be written, and says that open
blocks nest as long as none crossed: `CheckTracesOutside`, `CheckLinesAreEntries`.

*Startup.* `Startup` implements `AgentRegistry` (lemma `StartupRefinesAgents`),
so the theorems about the file (`AgentsNeverPartial`, `AgentsGivenIsFound`) carry
over to it; `StartupOpenMatches` is proved for any processes and builds.

*Seeders.* `SeedInv` relates the rows, the script and its variables, for any
number of runs, dying anywhere, and any deletes by others. The rows of all runs
fit together (`RowsFit`) because an id keeps the concept it was made for, so an
upsert of any run comes to the same row; what a run has bound is what its script
declared so far (`BoundAt`), and while nobody else writes the rows are what was
bound (`Kept`). `SeedCompletedIsDeclared` and `SeedIdsPreserved` read off from
it. `SeedNeverRefused` needs that no relatum of one run closes a cycle with those
of another: by `NothingCloses` a path of rows is a path of declared requirements.
`ReachedIsReachFrom` turns the search into the least closed set without an
induction principle: the least closed sets solve its equation, so the CHOOSE of
the recursive function has a value, and a largest set on which that value
differed would have no ring left. The theorems are about the three scripts as
they are, and how these are written is proved from their steps
(`ScriptsAreWritten`): a concept is new once, what is cited was bound, a script
that inserts clears first, and what a step requires is lower in rank, so that no
concept requires itself by what all declare (`NoneRequiresItself`). The
filesystem seeder never clears (`SeederUpserts`).

What the finished graphs are for grounding is proved as well. For
`SeedFullyGrounded`, every step of the filesystem seeder is deep enough for what
it relates (`SeederIsDeep`), and no row is ever of a concept outside the domain
(`DomainInvariant`; the demo's concepts are among them), so a graph that matches
the declaration is grounded throughout (`MatchedIsGrounded`). For `SeedDemoGaps`,
the rows the demo leaves are told one by one (`DemoLeavesRows`), and each of its
queries is resolved to its view of them (`DemoResolves`, `ViewEdges`,
`ViewGates`, `ViewFrontier`); the gaps then follow kind by kind, the reachability
gap from the components of the two roots: the action is alone in its own, the
entity has the path it requires beside it (`EntityIsJoined`), so the entity is
the anchor (`AnchorOfTwo`) and the action is named (`OneReachabilityGap`).

Assumptions: typed drafts, floors, proposals and placements; queries that are
sequences of names; finite sets of ids, names and threads; names that include
the scripts' concepts; uuids that are new; initial graphs of the loop that
satisfy the store's invariant; constants that differ where they must (`NoConn`,
`Nobody`, `Torn`).

Only model-checked: the liveness properties `LoopConverges` and
`EveryCallAnswers`, which are out of the prover's reach. Every safety property of
the runs that pass is a theorem, under the assumptions above and no others,
except that `ImplementsStore` of `Neo4jTxn` needs `DraftsOrdered`, and the two
theorems of serialized learners `Serialized`.

## Findings

Shown by a run:

1. `learning/engine.py:63` (`learning_bare`): `learn_gap` judges a gap by
   `find_by_id`, with all relata, grounding by `resolve_subgraph`, with those
   inside the query. On a record without properties that only APPLIES_TO or
   INCLUDES relata to concepts outside the query keep grounding, `learn_gap`
   answers `GapResolvedError` for ever, and the loop that follows the advice to
   "re-ground and proceed" never ends.
2. `core/backends/neo4j.py:298` (`neo4j_racing`): overlapping saves each pass the
   cycle check before the other commits, and together commit a cycle. The
   documentation leaves the serializing of writers to the integrator.

Other places where code and documentation part, met while modelling; the
conditions in the properties exclude them:

- On such a bare level the gap reported does not exist in the store
  (`core/backends/sqlite.py:610`); `GapsAreReal` and `VerdictComplete` need
  `NoBareLevel`. Verdicts stay sound.
- Neo4j skips relata to missing primitives without an error
  (`core/backends/neo4j.py:410`), where `repository.py:115` promises a full
  replace. `StoredRow` models it. Where saves overlap, the primitive need not
  even be missing at the commit: of a save of b that relates to c and a save of c
  that commits just after b's query, the row of b is committed without the
  relatum, and nobody is told. A whole call at the moment of that commit would
  have linked it; `ImplementsStore` allows it, `LinksWhatStays` limits it.
- A reachability edge is placed although the root is no longer isolated
  (`learning/engine.py:356`), against `docs/trust-model.md:78`.
- "The gap set shrinks" (`src/README.md:669`) is not so: a fill that makes gated
  relata visible may reveal more gaps. The loop converges all the same.
- `resolve_subgraph` on SQLite is three SELECTs outside a transaction
  (`repository.py:158`: "Single-query traversal"); with a commit in between, the
  answer is a graph no moment had. `QuietReadsAreSubgraphs` is about the rest.
- After an interrupted save, a delete on the connection answers True
  (`repository.py:125`) and is rolled back by the next save. Interrupted before
  its first write, the connection reads the store as of its next read until it
  writes (`core/backends/sqlite.py:349`); interrupted later, it reads half its
  save. `QuietReadsAreSubgraphs` says the former and excludes the latter.
- "Everything enforced was validated" (`core/policy/registry.py:90`) holds for
  whoever registers before constructing. A registration by another thread between
  the validation (`__init__.py:264`) and the freeze (275) is let through and
  enforced unvalidated, and one past its checks at the freeze may not be among
  the instance's keys; of two registrations of one key that cross, both are
  enforced and one is named. `EnforcedWasValidated` excludes just these
  (`overlapping`), and instances that outlive a `clear()`, which enforce whatever
  is registered next.
- An APPLIES_TO edge deleted after construction disarms its policy without a
  word (`docs/trust-model.md:74`: "fails loud at construction").
- Processes that register one key at once get different uuids
  (`identity/registry.py:35`: "Same key → same UUID on every call");
  `GivenIsFound` speaks of calls apart.
- Two builds that open a fresh SQLite file at once both stamp it
  (`repository.py:33`); `OpenMatches` excludes it as `raced`.
- `suppress()` blocks of two threads that cross leave the flag wrong
  (`tracing.py:113`); `SuppressedExactlyInside` excludes it as `crossed`.
- A line cut short by a full disk spoils the next one (`tracing.py:79`: "Each
  line is independently valid JSON"); `LinesAreEntries` allows just that.
- For `delete` and `create` on a file or a directory the reachability gap names
  the action, the root with the smaller component, and not the file or the
  directory (`src/scripts/README.md:57`-60). `DemoGaps` states what the engine
  names.
- A second run of the filesystem seeder takes relata away before it puts them
  back (`src/seeders/CONTRIBUTING.md:201`: "a no-op").

Without `Serialized` learning does lose knowledge: a copy read before an author's
write replaces what was written. The documentation assigns that to the
integrator, so it is a precondition here.

## Not modelled

Error classes; rendering, wording, metadata, timestamps, command lines; the
contents of a trace entry; what callbacks and tools do; Cypher's and SQLite's own
behaviour beyond locks, isolation and constraints; the variable limit of SQLite
(`core/backends/sqlite.py:611`), which no graph of a few concepts reaches; reads
of Neo4j, which are single queries; documents, tests, examples and build files.

What is left to prove: that `Metrics` and `Learning`, which save through
`GraphStore`, do so as `StoreTxn` does it, statement by statement; and that the
open calls of `Check` and `Guard` end, which is liveness.
