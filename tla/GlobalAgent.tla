------------------------------ MODULE GlobalAgent ------------------------------
(***************************************************************************)
(* What the agents of the centralized schedulers (fifo/centralized,        *)
(* shinjuku) have in common.  One agent, the one whose CPU is global_cpu_, *)
(* drains the global channel and schedules all CPUs; the others, the       *)
(* satellites, yield.  When CFS wants the global agent's CPU, the role is  *)
(* handed to the agent of another CPU.  All state of the scheduler is the  *)
(* global agent's; a CHECK that fails is recorded in `failed'.             *)
(***************************************************************************)
EXTENDS GlobalKernel, Queues

VARIABLES
  globalCpu,   \* global_cpu_
  pc,          \* what each agent does next
  target,      \* PickNextGlobalCPU's local `target'
  failed       \* the CHECK that aborted the process

loopVars == <<globalCpu, pc, target, failed>>

Available(c) == ~cfs[c]

NoFailure == [in |-> "none", task |-> NoTask]

\* Agent c is on its CPU and about to execute label l.
At(c, l) == failed = NoFailure /\ ast[c] = "running" /\ pc[c] = l

Goto(c, l) == pc' = [pc EXCEPT ![c] = l]

LoopInit ==
  /\ globalCpu = 0
  /\ pc = [c \in Cpus |-> "top"]
  /\ target = [c \in Cpus |-> 0]
  /\ failed = NoFailure

\* The top of AgentThread's loop: read the agent barrier, then find out
\* whether this is the global agent.
LoopTop(c) ==
  /\ At(c, "top")
  /\ stale' = [stale EXCEPT ![c] = FALSE]
  /\ Goto(c, IF c # globalCpu THEN "yield" ELSE IF cfs[c] THEN "move" ELSE "drain")
  /\ UNCHANGED <<taskVars, latchVars, ast, cfsVars, globalCpu, target, failed>>

\* A satellite yields its CPU; ESTALE makes it look again.
LocalYield(c) ==
  /\ At(c, "yield")
  /\ ast' = [ast EXCEPT ![c] = IF stale[c] THEN @ ELSE "sleeping"]
  /\ Goto(c, "top")
  /\ UNCHANGED <<taskVars, latchVars, stale, cfsVars, globalCpu, target, failed>>

\* PickNextGlobalCPU moves the role to another CPU that is available.
SetGlobalCPU(c, cpu) ==
  /\ cpu # globalCpu /\ Available(cpu)
  /\ globalCpu' = cpu
  /\ target' = [target EXCEPT ![c] = cpu]
  /\ Goto(c, "ping")

\* Mutant: the new global agent is not told.
PingGlobalNot(c) ==
  /\ At(c, "ping")
  /\ target' = [target EXCEPT ![c] = 0]
  /\ Goto(c, "top")
  /\ UNCHANGED <<kernelVars, globalCpu, failed>>

\* Mutant: the agent goes on with its iteration after handing over the role.
PingGlobalNoContinue(c) ==
  /\ At(c, "ping")
  /\ WakeAgent(target[c])
  /\ target' = [target EXCEPT ![c] = 0]
  /\ Goto(c, "drain")
  /\ UNCHANGED <<taskVars, latchVars, cfsVars, globalCpu, failed>>

\* The ping that makes the new global agent look.
PingGlobal(c) ==
  /\ At(c, "ping")
  /\ WakeAgent(target[c])
  /\ target' = [target EXCEPT ![c] = 0]
  /\ Goto(c, "top")
  /\ UNCHANGED <<taskVars, latchVars, cfsVars, globalCpu, failed>>
================================================================================
