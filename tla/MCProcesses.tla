----------------------------- MODULE MCProcesses -----------------------------
(***************************************************************************)
(* The processes around an agent process, for TLC: the threads that call   *)
(* it (AgentRpc), and Orca, which starts and replaces it for its clients.  *)
(* The two do not interact, so each behaviour is of one of them.           *)
(***************************************************************************)
EXTENDS AgentRpc, Orca

MCThreads == Callers \cup {Parent, Child, Handler}
MCNotes == {"agent_ready", "kill_agent", "rpc_pending", "rpc_done"}

VARIABLE system

procVars == <<system, vars, orcaVars>>

ProcInit == system \in {"rpc", "orca"} /\ Init /\ OrcaInit

RpcSystem(A) == system = "rpc" /\ A /\ UNCHANGED <<system, orcaVars>>
OrcaSystem(A) == system = "orca" /\ A /\ UNCHANGED <<system, vars>>

\* The fairness of AgentRpc's FairSpec and of OrcaFairSpec.
ProcSpec ==
  /\ ProcInit /\ [][RpcSystem(Next) \/ OrcaSystem(OrcaNext)]_procVars
  /\ \A c \in Callers : WF_procVars(RpcSystem(CallerStep(c)))
  /\ WF_procVars(RpcSystem(ParentStep)) /\ WF_procVars(RpcSystem(ChildStep))
  /\ WF_procVars(RpcSystem(HandlerStep))
  /\ \A th \in Threads : WF_procVars(RpcSystem(Call(th)))
  /\ WF_procVars(OrcaSystem(OrcaStep))
  /\ \A n \in Scheds : /\ WF_procVars(OrcaSystem(SchedAnnounces(n)))
                       /\ WF_procVars(OrcaSystem(SchedExits(n)))
  /\ \A c \in Clients : WF_procVars(OrcaSystem(ClientSends(c) \/ ClientDies(c)))
==============================================================================
