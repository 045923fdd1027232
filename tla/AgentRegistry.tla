---------------------------- MODULE AgentRegistry ----------------------------
(***************************************************************************)
(* The agent registry: one JSON file, read and rewritten whole by every    *)
(* process that asks for an identity.  Processes may die between any two   *)
(* steps, and the machine may lose power: what the file holds then is what *)
(* had reached the disk.                                                   *)
(***************************************************************************)
EXTENDS Naturals, FiniteSets

CONSTANTS
  Procs,       \* the processes that share the file
  Keys,        \* registration keys
  Uuids,       \* bound: the uuids uuid4 may still produce, each once
  Nobody,      \* no identity
  Torn         \* a file that is no JSON object

ASSUME NobodyAssumption == Nobody \notin Uuids
ASSUME TornAssumption == Torn \notin [Keys -> Uuids \cup {Nobody}]

VARIABLES
  file,      \* agents.json as a process reads it: each key's agent_id
  flushed,   \* its data is on the disk
  disk,      \* what the name agents.json leads to after a power loss
  call,      \* where each process is in get_or_create
  minted,    \* history: the uuids produced
  given,     \* history: the agent_ids the callers were given for each key
  apart      \* history: no two calls overlapped, no power loss took a rename back

agentVars == <<file, flushed, disk, call, minted, given, apart>>

Idle == [op |-> "idle"]

NoEntries == [k \in Keys |-> Nobody]

Contents == [Keys -> Uuids \cup {Nobody}]

AgentsInit ==
  /\ file = NoEntries
  /\ flushed = TRUE
  /\ disk = NoEntries
  /\ call = [p \in Procs |-> Idle]
  /\ minted = {}
  /\ given = [k \in Keys |-> {}]
  /\ apart = TRUE

Goto(p, step) == call' = [call EXCEPT ![p] = step]

Give(k, u) == given' = [given EXCEPT ![k] = @ \cup {u}]

\* Fault: the new entry replaces the others.
OnlyAdded(g, k, u) == [NoEntries EXCEPT ![k] = u]

Added(g, k, u) == [g EXCEPT ![k] = u]

-----------------------------------------------------------------------------
(* get_or_create *)

\* _load, and the answer when the file has the key.
Hit(p, k) ==
  /\ call[p] = Idle
  /\ file # Torn
  /\ file[k] # Nobody
  /\ Give(k, file[k])
  /\ UNCHANGED <<file, flushed, disk, call, minted, apart>>

\* _load without the key: a new identity, added to the copy just read.
Miss(p, k) ==
  /\ call[p] = Idle
  /\ file # Torn
  /\ file[k] = Nobody
  /\ \E u \in Uuids \ minted :
       /\ minted' = minted \cup {u}
       /\ Goto(p, [op |-> "save", key |-> k, id |-> u, content |-> Added(file, k, u)])
  /\ apart' = (apart /\ \A q \in Procs : call[q] = Idle)
  /\ UNCHANGED <<file, flushed, disk, given>>

\* _save: the payload goes to a temporary file of this process alone.
WriteTemp(p) ==
  /\ call[p].op = "save"
  /\ Goto(p, [call[p] EXCEPT !.op = "written"])
  /\ UNCHANGED <<file, flushed, disk, minted, given, apart>>

\* os.fsync: the data of the temporary file is on the disk.
Flush(p) ==
  /\ call[p].op = "written"
  /\ Goto(p, [call[p] EXCEPT !.op = "flushed"])
  /\ UNCHANGED <<file, flushed, disk, minted, given, apart>>

\* Fault: no fsync before the rename.
ReplaceUnflushed(p) ==
  /\ call[p].op \in {"written", "flushed"}
  /\ file' = call[p].content
  /\ flushed' = (call[p].op = "flushed")
  /\ Goto(p, [call[p] EXCEPT !.op = "replaced"])
  /\ UNCHANGED <<disk, minted, given, apart>>

\* os.replace: every process reads the new file from now on; the directory
\* reaches the disk when the system writes it.
Replace(p) ==
  /\ call[p].op = "flushed"
  /\ file' = call[p].content
  /\ flushed' = TRUE
  /\ Goto(p, [call[p] EXCEPT !.op = "replaced"])
  /\ UNCHANGED <<disk, minted, given, apart>>

\* The new identity is the answer.
Return(p) ==
  /\ call[p].op = "replaced"
  /\ Give(call[p].key, call[p].id)
  /\ Goto(p, Idle)
  /\ UNCHANGED <<file, flushed, disk, minted, apart>>

\* OSError before the rename is RegistryError to the caller; a process that
\* dies leaves its temporary file behind.  Neither touches agents.json.
Abandon(p) ==
  /\ call[p] # Idle
  /\ Goto(p, Idle)
  /\ UNCHANGED <<file, flushed, disk, minted, given, apart>>

\* The system writes the directory.
WriteDirectory ==
  /\ disk' = IF flushed THEN file ELSE Torn
  /\ UNCHANGED <<file, flushed, call, minted, given, apart>>

\* Every process ends; the name leads to the file the directory on the disk says.
LosePower ==
  /\ file' = disk
  /\ flushed' = TRUE
  /\ call' = [p \in Procs |-> Idle]
  /\ apart' = (apart /\ disk = file)
  /\ UNCHANGED <<disk, minted, given>>

GetOrCreate(p) ==
  \/ \E k \in Keys : Hit(p, k) \/ Miss(p, k)
  \/ WriteTemp(p) \/ Flush(p) \/ Replace(p) \/ Return(p)

AgentsNext ==
  \/ \E p \in Procs : GetOrCreate(p) \/ Abandon(p)
  \/ WriteDirectory \/ LosePower

AgentsSpec == AgentsInit /\ [][AgentsNext]_agentVars

-----------------------------------------------------------------------------

\* get_by_id: the key whose identity has this uuid.
GetById(g, u) == {k \in Keys : g[k] = u}

\* "Same key -> same UUID on every call, even across restarts": what a caller was
\* ever given, get_by_id finds under that key alone and no later rewrite, crash
\* or power loss loses or changes it, as long as no two calls that create an
\* identity overlap and the directory reached the disk.
GivenIsFound ==
  apart => file # Torn /\ \A k \in Keys : \A u \in given[k] : GetById(file, u) = {k}

\* "This ensures agents.json is never left in a partial state": processes that
\* race, that die at any step and a machine that loses power at any step leave
\* a file that can be read.
NeverPartial == file # Torn /\ disk # Torn
=============================================================================
