----------------------------- MODULE GhostKernel -----------------------------
(***************************************************************************)
(* The ghOSt scheduling class of the kernel, as the agents of this         *)
(* repository see it through kernel/ghost_uapi.h, lib/ghost.h,             *)
(* lib/channel.cc and lib/enclave.cc.  The kernel itself is not part of    *)
(* the repository: every definition here is external and is read off the   *)
(* calls the agents make, the errors they expect and the messages they     *)
(* decode.                                                                 *)
(*                                                                         *)
(* A CPU has one agent and one message channel (fifo/per_cpu).  The agent  *)
(* has the highest priority on its CPU: when it is woken it takes the CPU  *)
(* from the ghOSt task that is running there.  A task runs on a CPU        *)
(* because a transaction of that CPU's agent was committed ("txn") or      *)
(* because the task that was running switched to it behind the agents'     *)
(* back ("switchto").                                                      *)
(***************************************************************************)
EXTENDS Integers, Sequences, FiniteSets

CONSTANTS
  Tasks,     \* the client threads
  NCpus,     \* the enclave's CPUs are 0 .. NCpus - 1
  Events,    \* which optional things the clients and CFS do (see AllEvents)
  MaxSeq,    \* bound: the largest message sequence number of a task
  MaxDisturb \* bound: how often CFS takes a CPU or a thread comes back to ghOSt

AllEvents == {"depart", "exit", "yield", "cfs", "switchto", "reenter", "deferrable"}

ASSUME KernelAssumption ==
  /\ NCpus \in Nat \ {0}
  /\ Events \subseteq AllEvents
  /\ MaxSeq \in Nat \ {0}
  /\ MaxDisturb \in Nat

Cpus == 0 .. NCpus - 1
NoCpu == -1
DefaultCpu == 0    \* owner of the enclave's default channel

VARIABLES
  kst,      \* scheduling state of each task
  oncpu,    \* CPU each task is on, or NoCpu (the status word's on_cpu bit)
  via,      \* how it got there
  ran,      \* has an agent ever put the task on a CPU?  (kept for SwitchTo)
  seq,      \* barrier of the task's status word
  assoc,    \* CPU whose channel the task's messages go to
  chan,     \* the channel of each CPU
  ast,      \* state of each CPU's agent thread
  stale,    \* did the agent barrier move since the agent last read it?
  rtla,     \* is the agent blocked with RTLA_ON_IDLE?
  boosted,  \* does CFS want the CPU (the agent's boosted_priority bit)?
  budget    \* how many of the MaxDisturb disturbances are left

taskVars  == <<kst, oncpu, via, ran>>
agentVars == <<ast, stale, rtla>>
cfsVars   == <<boosted, budget>>
kernelVars == <<taskVars, seq, assoc, chan, agentVars, cfsVars>>

MsgTypes == {"TASK_NEW", "TASK_WAKEUP", "TASK_BLOCKED", "TASK_YIELD",
             "TASK_PREEMPT", "TASK_SWITCHTO", "TASK_DEPARTED", "TASK_DEAD",
             "TASK_AFFINITY_CHANGED"}

\* flag is the payload's runnable (TASK_NEW), deferrable (TASK_WAKEUP) or
\* from_switchto (the others); cpu is the CPU the task was on.
Messages == [type : MsgTypes, task : Tasks, seq : Nat,
             flag : BOOLEAN, cpu : Cpus \cup {NoCpu}]

KernelTypeOK ==
  /\ kst \in [Tasks -> {"new", "blocked", "runnable", "dying", "dead", "departed"}]
  /\ oncpu \in [Tasks -> Cpus \cup {NoCpu}]
  /\ via \in [Tasks -> {"none", "txn", "switchto", "leaving"}]
  /\ ran \in [Tasks -> BOOLEAN]
  /\ seq \in [Tasks -> Nat]
  /\ assoc \in [Tasks -> Cpus]
  /\ chan \in [Cpus -> Seq(Messages)]
  /\ ast \in [Cpus -> {"running", "sleeping", "waking"}]
  /\ stale \in [Cpus -> BOOLEAN]
  /\ rtla \in [Cpus -> BOOLEAN]
  /\ boosted \in [Cpus -> BOOLEAN]
  /\ budget \in 0 .. MaxDisturb

KernelInit ==
  /\ kst = [t \in Tasks |-> "new"]
  /\ oncpu = [t \in Tasks |-> NoCpu]
  /\ via = [t \in Tasks |-> "none"]
  /\ ran = [t \in Tasks |-> FALSE]
  /\ seq = [t \in Tasks |-> 0]
  /\ assoc = [t \in Tasks |-> DefaultCpu]
  /\ chan = [c \in Cpus |-> <<>>]
  /\ ast = [c \in Cpus |-> "running"]
  /\ stale = [c \in Cpus |-> FALSE]
  /\ rtla = [c \in Cpus |-> FALSE]
  /\ boosted = [c \in Cpus |-> FALSE]
  /\ budget = MaxDisturb

Running(t) == kst[t] = "runnable" /\ via[t] \in {"txn", "switchto"}

InGhost(t) == kst[t] \in {"blocked", "runnable"}

(***************************************************************************)
(* Waking agents and producing messages.  A message and a ping both move   *)
(* the barrier of the agent they are for, so that a commit or a yield that *)
(* still names the old barrier fails with ESTALE.                          *)
(***************************************************************************)
Woken(s) == IF s = "sleeping" THEN "waking" ELSE s

WakeAgent(c) ==
  /\ ast' = [ast EXCEPT ![c] = Woken(@)]
  /\ stale' = [stale EXCEPT ![c] = TRUE]
  /\ UNCHANGED rtla

Produce(t, type, flag, cpu) ==
  /\ seq' = [seq EXCEPT ![t] = @ + 1]
  /\ chan' = [chan EXCEPT ![assoc[t]] =
                Append(@, [type |-> type, task |-> t, seq |-> seq[t] + 1,
                           flag |-> flag, cpu |-> cpu])]

\* The message of a task that is, or was, on a CPU, to the agent it is
\* associated with.
Report(t, type) ==
  /\ Produce(t, type, via[t] = "switchto", oncpu[t])
  /\ WakeAgent(assoc[t])

\* A SwitchTo target reports to an agent on another CPU, which may see the
\* message before the task has left this one.
LeaveCpu(t) ==
  IF via[t] = "switchto"
    THEN via' = [via EXCEPT ![t] = "leaving"] /\ UNCHANGED oncpu
    ELSE via' = [via EXCEPT ![t] = "none"] /\ oncpu' = [oncpu EXCEPT ![t] = NoCpu]

(***************************************************************************)
(* What client threads do.  `room' keeps enough sequence numbers for a     *)
(* running task to block at the end.                                       *)
(***************************************************************************)
Room(t, n) == seq[t] + n <= MaxSeq

KTaskNew(t, runnable) ==
  /\ \/ kst[t] = "new" /\ UNCHANGED budget
     \/ /\ "reenter" \in Events /\ kst[t] = "departed"
        /\ budget > 0 /\ budget' = budget - 1
  /\ kst' = [kst EXCEPT ![t] = IF runnable THEN "runnable" ELSE "blocked"]
  /\ ran' = [ran EXCEPT ![t] = FALSE]
  /\ assoc' = [assoc EXCEPT ![t] = DefaultCpu]
  /\ seq' = [seq EXCEPT ![t] = 1]
  /\ chan' = [chan EXCEPT ![DefaultCpu] =
                Append(@, [type |-> "TASK_NEW", task |-> t, seq |-> 1,
                           flag |-> runnable, cpu |-> NoCpu])]
  /\ WakeAgent(DefaultCpu)
  /\ UNCHANGED <<oncpu, via, boosted>>

KWakeup(t, deferrable) ==
  /\ kst[t] = "blocked" /\ Room(t, 3)
  /\ deferrable => "deferrable" \in Events
  /\ kst' = [kst EXCEPT ![t] = "runnable"]
  /\ Produce(t, "TASK_WAKEUP", deferrable, NoCpu)
  /\ WakeAgent(assoc[t])
  /\ UNCHANGED <<oncpu, via, ran, assoc, cfsVars>>

KBlock(t) ==
  /\ Running(t)
  /\ kst' = [kst EXCEPT ![t] = "blocked"]
  /\ Report(t, "TASK_BLOCKED")
  /\ LeaveCpu(t)
  /\ UNCHANGED <<ran, assoc, cfsVars>>

KYield(t) ==
  /\ "yield" \in Events /\ Running(t) /\ Room(t, 3)
  /\ Report(t, "TASK_YIELD")
  /\ LeaveCpu(t)
  /\ UNCHANGED <<kst, ran, assoc, cfsVars>>

\* A client thread exits: it blocks for the last time, then it is reaped.
KExit(t) ==
  /\ "exit" \in Events /\ Running(t)
  /\ kst' = [kst EXCEPT ![t] = "dying"]
  /\ Report(t, "TASK_BLOCKED")
  /\ LeaveCpu(t)
  /\ UNCHANGED <<ran, assoc, cfsVars>>

KDead(t) ==
  /\ kst[t] = "dying" /\ oncpu[t] = NoCpu
  /\ kst' = [kst EXCEPT ![t] = "dead"]
  /\ Report(t, "TASK_DEAD")
  /\ UNCHANGED <<oncpu, via, ran, assoc, cfsVars>>

\* sched_setscheduler() moves the thread out of ghOSt, whatever it is doing.
KDepart(t) ==
  /\ "depart" \in Events /\ InGhost(t)
  /\ kst' = [kst EXCEPT ![t] = "departed"]
  /\ Report(t, "TASK_DEPARTED")
  /\ oncpu' = [oncpu EXCEPT ![t] = NoCpu]
  /\ via' = [via EXCEPT ![t] = "none"]
  /\ UNCHANGED <<ran, assoc, cfsVars>>

\* Thread a blocks and hands its CPU to the blocked thread b.  Only the first
\* switch of a chain produces a message, and it wakes nobody.
KSwitchTo(a, b) ==
  /\ "switchto" \in Events /\ a # b
  /\ Running(a)
  /\ kst[b] = "blocked" /\ oncpu[b] = NoCpu /\ ran[b] /\ Room(b, 3)
  /\ kst' = [kst EXCEPT ![a] = "blocked", ![b] = "runnable"]
  /\ oncpu' = [oncpu EXCEPT ![a] = NoCpu, ![b] = oncpu[a]]
  /\ via' = [via EXCEPT ![a] = "none", ![b] = "switchto"]
  /\ IF via[a] = "txn"
       THEN /\ Produce(a, "TASK_SWITCHTO", FALSE, oncpu[a])
            /\ stale' = [stale EXCEPT ![assoc[a]] = TRUE]
       ELSE UNCHANGED <<seq, chan, stale>>
  /\ UNCHANGED <<ran, assoc, ast, rtla, cfsVars>>

\* The last task of a SwitchTo chain finally leaves the CPU.
KFinishSwitch(t) ==
  /\ via[t] = "leaving"
  /\ via' = [via EXCEPT ![t] = "none"]
  /\ oncpu' = [oncpu EXCEPT ![t] = NoCpu]
  /\ UNCHANGED <<kst, ran, seq, assoc, chan, agentVars, cfsVars>>

(***************************************************************************)
(* What happens on a CPU.                                                  *)
(***************************************************************************)

\* A woken agent gets its CPU.  The task it had put there just stops running
\* and no message says so; a SwitchTo target is reported as preempted.
KAgentSwitchIn(c) ==
  /\ ast[c] = "waking"
  /\ rtla' = [rtla EXCEPT ![c] = FALSE]
  /\ oncpu' = [t \in Tasks |-> IF oncpu[t] = c THEN NoCpu ELSE oncpu[t]]
  /\ via' = [t \in Tasks |-> IF oncpu[t] = c THEN "none" ELSE via[t]]
  /\ \/ /\ \E t \in Tasks : 
             /\ oncpu[t] = c /\ via[t] = "switchto"
             /\ Produce(t, "TASK_PREEMPT", TRUE, c)
             /\ ast' = [[ast EXCEPT ![assoc[t]] = Woken(@)] EXCEPT ![c] = "running"]
             /\ stale' = [stale EXCEPT ![assoc[t]] = TRUE]
     \/ /\ \A t \in Tasks : ~(oncpu[t] = c /\ via[t] = "switchto")
        /\ ast' = [ast EXCEPT ![c] = "running"]
        /\ UNCHANGED <<seq, chan, stale>>
  /\ UNCHANGED <<kst, ran, assoc, cfsVars>>

\* CFS takes CPU c, preempting the ghOSt task that is running there, if any.
KCfsArrive(c) ==
  /\ "cfs" \in Events /\ budget > 0 /\ ~boosted[c]
  /\ budget' = budget - 1
  /\ boosted' = [boosted EXCEPT ![c] = TRUE]
  /\ \/ /\ \E t \in Tasks : /\ Running(t) /\ oncpu[t] = c /\ Room(t, 3)
                            /\ Report(t, "TASK_PREEMPT")
                            /\ LeaveCpu(t)
     \/ /\ \A t \in Tasks : ~(Running(t) /\ oncpu[t] = c)
        /\ UNCHANGED <<oncpu, via, seq, chan, agentVars>>
  /\ UNCHANGED <<kst, ran, assoc>>

\* CPU c goes idle again: an agent blocked with RTLA_ON_IDLE gets it back.
KCfsLeave(c) ==
  /\ boosted[c]
  /\ boosted' = [boosted EXCEPT ![c] = FALSE]
  /\ ast' = [ast EXCEPT ![c] = IF rtla[c] THEN Woken(@) ELSE @]
  /\ UNCHANGED <<taskVars, seq, assoc, chan, stale, rtla, budget>>

KernelNext ==
  \/ \E t \in Tasks, b \in BOOLEAN : KTaskNew(t, b) \/ KWakeup(t, b)
  \/ \E t \in Tasks : \/ KBlock(t) \/ KYield(t) \/ KExit(t) \/ KDead(t)
                      \/ KDepart(t) \/ KFinishSwitch(t)
  \/ \E a, b \in Tasks : KSwitchTo(a, b)
  \/ \E c \in Cpus : KAgentSwitchIn(c) \/ KCfsArrive(c) \/ KCfsLeave(c)

(***************************************************************************)
(* The system calls of the agents.                                         *)
(***************************************************************************)

\* Can AssociateTask(t, barrier) succeed?  ENOENT: the task has left ghOSt;
\* ESTALE: a message was produced since.
AssociateOk(t, barrier) == InGhost(t) /\ seq[t] = barrier

\* The outcome of a local transaction of CPU c for task t.
TxnState(c, t, barrier) ==
  IF ~InGhost(t)              THEN "TARGET_NOT_FOUND"
  ELSE IF stale[c]            THEN "AGENT_STALE"
  ELSE IF seq[t] # barrier    THEN "TARGET_STALE"
  ELSE IF oncpu[t] # NoCpu    THEN "TARGET_ONCPU"
  ELSE IF kst[t] # "runnable" THEN "TARGET_NOT_RUNNABLE"
  ELSE IF boosted[c]          THEN "CPU_UNAVAIL"
  ELSE "COMPLETE"

\* A local transaction committed: the task runs, the agent is off the CPU
\* until it is woken.
RunTask(c, t) ==
  /\ oncpu' = [oncpu EXCEPT ![t] = c]
  /\ via' = [via EXCEPT ![t] = "txn"]
  /\ ran' = [ran EXCEPT ![t] = "switchto" \in Events]
  /\ ast' = [ast EXCEPT ![c] = "sleeping"]

\* The agent blocks in ghost_run() with nothing to run.  With RTLA_ON_IDLE
\* and an idle CPU it comes straight back.
BlockAgent(c, onIdle) ==
  /\ ast' = [ast EXCEPT ![c] = IF onIdle /\ ~boosted[c] THEN "waking" ELSE "sleeping"]
  /\ rtla' = [rtla EXCEPT ![c] = onIdle]
==============================================================================
