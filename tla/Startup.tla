------------------------------- MODULE Startup -------------------------------
(***************************************************************************)
(* The processes of an integrator: each opens the store, then constructs   *)
(* VRE instances, which ask the agent registry for their identities.  A    *)
(* process may be closed or die at any step, and take both down.           *)
(***************************************************************************)
EXTENDS AgentRegistry, SchemaStamp

ASSUME ProcsAssumption == Procs = Openers

startupVars == <<agentVars, stampVars>>

StartupInit == AgentsInit /\ StampInit

OpenStore(p) == Open(p) /\ UNCHANGED agentVars

\* VRE(repository, agent_key): the repository is there before the instance.
Identify(p) == opener[p] = "open" /\ GetOrCreate(p) /\ UNCHANGED stampVars

\* RegistryError: the process goes on without the instance.
Refused(p) == call[p] # Idle /\ call[p].op # "replaced" /\ Abandon(p) /\ UNCHANGED stampVars

End(p) ==
  /\ opener[p] # "closed"
  /\ Close({p})
  /\ IF call[p] = Idle THEN UNCHANGED agentVars ELSE Abandon(p)

StartupNext ==
  \/ \E p \in Procs : OpenStore(p) \/ Identify(p) \/ Refused(p) \/ End(p)
  \/ WriteDirectory /\ UNCHANGED stampVars
  \/ LosePower /\ Close(Procs)

StartupSpec == StartupInit /\ [][StartupNext]_startupVars

=============================================================================
