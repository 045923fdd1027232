-------------------------------- MODULE Guard --------------------------------
(***************************************************************************)
(* Policies and the guard: placements are registered on APPLIES_TO edges,  *)
(* VRE instances validate them against the store and freeze the registry,  *)
(* and guarded calls go through grounding, the policy gate and the         *)
(* confirmation of a human before the tool runs.  Authors write in between *)
(* any two steps: the gate reads the trace of the check, never the store.  *)
(*                                                                         *)
(* One registry, shared by all instances, as the module's default one is.  *)
(* Nothing holds a registration back while an instance is constructed.     *)
(***************************************************************************)
EXTENDS GroundedStore

CONSTANTS
  Placements,     \* the policies imported code may declare
  Vres,           \* the VRE instances of the process
  Callers,        \* threads that call guarded tools or check_policy
  Cardinalities,  \* the hints callers give
  Teardown        \* TRUE when clear() may be called

AnyCardinality == "any"    \* None: no hint, or a policy that always fires

Placement == [key : STRING, source : Names, target : Names, depth : Level,
              confirm : BOOLEAN, cardinality : STRING]

ASSUME PlacementsAssumption == Placements \subseteq Placement
ASSUME TeardownAssumption == Teardown \in BOOLEAN

VARIABLES
  byKey,        \* the registry's placements: those validated, counted and named
  byEdge,       \* those the gate finds
  frozen,       \* its flag
  underWay,     \* the register calls past their checks, in no table yet
  overlapping,  \* history: the placements whose registration met another of its
                \*   key, a clear() or an instance that was validating
  vre,          \* per instance, how far its construction has come
  call          \* per caller, the guarded call under way

tables == <<byKey, byEdge, frozen, underWay>>
registry == <<tables, overlapping>>
gvars == <<registry, vre, call>>
guardVars == <<vars, gvars>>

Unbuilt == [state |-> "unbuilt"]
Outlived == [state |-> "outlived"]    \* built before the registry was cleared
NoCall == [op |-> "idle"]

GuardInit ==
  /\ Init
  /\ byKey = {} /\ byEdge = {} /\ frozen = FALSE
  /\ underWay = {} /\ overlapping = {}
  /\ vre = [v \in Vres |-> Unbuilt]
  /\ call = [c \in Callers |-> NoCall]

-----------------------------------------------------------------------------
(* The registry *)

\* The other registrations of p's key under way, and those p now overlaps.
Rivals(p) == {o \in underWay : o.key = p.key}

Met(p) ==
  IF Rivals(p) # {} \/ \E v \in Vres : vre[v].state = "validating" THEN Rivals(p) \cup {p} ELSE {}

KeyUnused(p) == \A o \in byKey : o.key # p.key

\* Fault: the flag is not read.
RegisterAlways(p) ==
  /\ p \notin underWay
  /\ KeyUnused(p)
  /\ underWay' = underWay \cup {p}
  /\ overlapping' = (overlapping \ {p}) \cup Met(p)
  /\ UNCHANGED <<vars, byKey, byEdge, frozen, vre, call>>

\* register, its checks: refused once frozen, and for a key in use.
Register(p) ==
  /\ p \notin underWay
  /\ ~frozen
  /\ KeyUnused(p)
  /\ underWay' = underWay \cup {p}
  /\ overlapping' = (overlapping \ {p}) \cup Met(p)
  /\ UNCHANGED <<vars, byKey, byEdge, frozen, vre, call>>

\* Its insertions, into the table by key, where of two registrations of a key
\* the later one stays, and into the list of its edge.
Insert(p) ==
  /\ p \in underWay
  /\ underWay' = underWay \ {p}
  /\ byKey' = {o \in byKey : o.key # p.key} \cup {p}
  /\ byEdge' = byEdge \cup {p}
  /\ UNCHANGED <<vars, frozen, overlapping, vre, call>>

\* clear: everything is dropped and the registry open again.  Instances built
\* before live on with a gate on the registry as it is and an old list of keys.
ClearRegistry ==
  /\ Teardown
  /\ byKey' = {} /\ byEdge' = {} /\ frozen' = FALSE
  /\ overlapping' = underWay
  /\ vre' = [v \in Vres |-> IF vre[v].state \in {"frozen", "built"} THEN Outlived ELSE vre[v]]
  /\ UNCHANGED <<vars, underWay, call>>

-----------------------------------------------------------------------------
(* VRE.__init__ *)

\* The rows of g have the APPLIES_TO edge that p names, at its depth.
Placed(g, p) ==
  \E i \in HoldersOf(g, p.source), j \in HoldersOf(g, p.target) : \E r \in g[i].relata :
    r.rel_type = "APPLIES_TO" /\ r.target = j /\ r.source_depth = p.depth

SetVre(v, s) == vre' = [vre EXCEPT ![v] = s]

\* The count asserted by expect_policies; a wrong one raises, and changes nothing.
Construct(v, expect, validate) ==
  /\ vre[v] = Unbuilt
  /\ expect => Cardinality(byKey) = Cardinality(Placements)
  /\ SetVre(v, [state |-> "counted", checked |-> validate])
  /\ UNCHANGED <<vars, registry, call>>

\* iter_placements: the placements to look up; none with validate_policies=False.
ListPlacements(v) ==
  /\ vre[v].state = "counted"
  /\ LET found == {p \in byKey : vre[v].checked}
     IN  SetVre(v, [state |-> "validating", checked |-> vre[v].checked,
                    validated |-> found, todo |-> found])
  /\ overlapping' = overlapping \cup underWay
  /\ UNCHANGED <<vars, tables, call>>

\* _placement_gap of one placement, its lookups at one moment: an orphan makes
\* the constructor raise, and the registry stays open.
Validate(v) ==
  /\ vre[v].state = "validating"
  /\ \E p \in vre[v].todo :
       SetVre(v, IF Placed(graph, p) THEN [vre[v] EXCEPT !.todo = @ \ {p}] ELSE Unbuilt)
  /\ UNCHANGED <<vars, registry, call>>

\* freeze
Freeze(v) ==
  /\ vre[v].state = "validating"
  /\ vre[v].todo = {}
  /\ frozen' = TRUE
  /\ SetVre(v, [state |-> "frozen", checked |-> vre[v].checked, validated |-> vre[v].validated])
  /\ UNCHANGED <<vars, byKey, byEdge, underWay, overlapping, call>>

\* The keys cached for the traces; the gate keeps the registry itself.
CacheKeys(v) ==
  /\ vre[v].state = "frozen"
  /\ SetVre(v, [state |-> "built", checked |-> vre[v].checked, validated |-> vre[v].validated,
                keys |-> {p.key : p \in byKey}])
  /\ UNCHANGED <<vars, registry, call>>

-----------------------------------------------------------------------------
(* The gate *)

\* A policy with a cardinality is skipped only for a different hint.
Applicable(p, card) == AnyCardinality \in {p.cardinality, card} \/ p.cardinality = card

\* _collect_violations: the placements whose callback is asked, those on the
\* APPLIES_TO relata of the trace t.
Asked(t, card) == {p \in byEdge : Placed(t, p) /\ Applicable(p, card)}

\* Fault: what a human may confirm takes the hard blocks along.
HardBlocksUnlessPending(fired) ==
  {p \in fired : ~p.confirm /\ \A o \in fired : ~o.confirm}

HardBlocks(fired) == {p \in fired : ~p.confirm}

-----------------------------------------------------------------------------
(* vre_guard and check_policy *)

SetCall(c, s) == call' = [call EXCEPT ![c] = s] /\ UNCHANGED <<vars, registry, vre>>

\* vre.check: the grounding result is a picture of the store at this moment.
\* (Or the caller is an integrator that asks check_policy, without a tool.)
StartCall(c, v, q, m, card) ==
  /\ call[c] = NoCall
  /\ vre[v].state \in {"built", "outlived"}
  /\ SetCall(c, [op |-> "checked", at |-> graph, query |-> q, floor |-> m, card |-> card])

\* The concepts are not grounded: GuardBlock, or BLOCK from check_policy.
BlockUngrounded(c) ==
  /\ call[c].op = "checked"
  /\ ~Grounded(call[c].at, call[c].query, call[c].floor)
  /\ SetCall(c, NoCall)

\* The edge that p names is in the store, between primitives that the concepts
\* of the query bring in.
Concerns(p, g, q) == Placed(Subgraph(g, q), p)

\* Any of the callbacks asked may fire, by its result or by raising, and each one does
\* when there is no tool call.  (owed, history: the placements in force that
\* concern what was checked, whatever the trace shows of it.)
Evaluate(c) ==
  /\ call[c].op = "checked"
  /\ Grounded(call[c].at, call[c].query, call[c].floor)
  /\ LET asked == Asked(Trace(call[c].at, call[c].query), call[c].card)
         owed  == {p \in byEdge : Concerns(p, call[c].at, call[c].query) /\ Applicable(p, call[c].card)}
     IN  \E fired \in SUBSET asked :
           SetCall(c, [op |-> IF fired = {} THEN "passed"
                              ELSE IF HardBlocks(fired) # {} THEN "blocked" ELSE "pending",
                       owed |-> owed, asked |-> asked, fired |-> fired])

\* on_policy says yes; or it says no, raises, or there is none.
Confirm(c) == call[c].op = "pending" /\ SetCall(c, [call[c] EXCEPT !.op = "passed"])
Decline(c) == call[c].op = "pending" /\ SetCall(c, NoCall)

\* The tool has run, or the block was handed to the caller.
Finish(c) == call[c].op \in {"passed", "blocked"} /\ SetCall(c, NoCall)

-----------------------------------------------------------------------------

\* Authors write whenever they like.
AuthorsWrite == Next /\ UNCHANGED gvars

RegistryStep == ClearRegistry \/ \E p \in Placements : Register(p) \/ Insert(p)

VreStep(v) ==
  \/ \E expect, validate \in BOOLEAN : Construct(v, expect, validate)
  \/ ListPlacements(v) \/ Validate(v) \/ Freeze(v) \/ CacheKeys(v)

CallStep(c) ==
  \/ \E v \in Vres, q \in Queries, m \in Floors, card \in Cardinalities :
       StartCall(c, v, q, m, card)
  \/ BlockUngrounded(c) \/ Evaluate(c) \/ Confirm(c) \/ Decline(c) \/ Finish(c)

GuardNext ==
  \/ AuthorsWrite
  \/ RegistryStep
  \/ \E v \in Vres : VreStep(v)
  \/ \E c \in Callers : CallStep(c)

GuardSpec == GuardInit /\ [][GuardNext]_guardVars

-----------------------------------------------------------------------------
(* Properties *)

\* From the freeze to a teardown, whatever other instances and importers do, an
\* instance enforces what it validated, and its traces name what it enforces:
\* but for registrations that overlapped a construction, which the registry lets
\* through, and which are then enforced without having been validated.
\* (PolicyRegistry: "the freeze also upholds the invariant `everything enforced
\* was validated`"; it does so for whoever registers before constructing.)
EnforcedWasValidated ==
  \A v \in Vres : vre[v].state = "built" =>
    /\ vre[v].checked => byEdge \ overlapping \subseteq vre[v].validated
    /\ {p.key : p \in byEdge \ overlapping} \subseteq vre[v].keys
    /\ vre[v].keys \subseteq {p.key : p \in byEdge}

\* A guarded tool runs only past every policy in force on the concepts it
\* declares: each placement whose edge was in the store at the check was asked,
\* gated and hidden relata included, none that fired was a hard block.
RunsPastEveryPolicy ==
  \A c \in Callers : call[c].op = "passed" =>
    /\ \A p \in call[c].fired : p.confirm
    /\ call[c].owed \subseteq call[c].asked

=============================================================================
