----------------------------- MODULE GlobalKernel -----------------------------
(***************************************************************************)
(* The kernel as a centralized scheduler sees it: all messages go to one   *)
(* channel, which a global agent polls, and the global agent runs tasks on *)
(* other CPUs with remote transactions.  The kernel is not part of the     *)
(* repository: every definition here is external and is read off the       *)
(* status words, transaction states and messages that the global           *)
(* schedulers use and off what their comments expect.                      *)
(*                                                                         *)
(* A committed transaction latches its task: the CPU switches to it a      *)
(* little later, and until then the task that was running there is still   *)
(* on_cpu and may block, yield or leave.  A task preempted by a            *)
(* transaction is not reported; one that CFS or an agent takes the CPU     *)
(* from is.                                                                *)
(***************************************************************************)
EXTENDS Integers, Sequences, FiniteSets

CONSTANTS
  Tasks,      \* the client threads
  NoTask,     \* nullptr
  NCpus,      \* the enclave's CPUs are 0 .. NCpus - 1
  Events,     \* which optional things happen (see AllEvents)
  MaxDisturb  \* bound: how often a task is woken, yields or leaves ghOSt, CFS
              \* takes a CPU, a time slice ends or a task is given to a CPU whose
              \* agent has not yielded yet

AllEvents == {"depart", "exit", "yield", "cfs"}

ASSUME GlobalKernelAssumption ==
  /\ NoTask \notin Tasks
  /\ NCpus \in Nat \ {0, 1}
  /\ Events \subseteq AllEvents
  /\ MaxDisturb \in Nat

Cpus == 0 .. NCpus - 1
NoCpu == -1

VARIABLES
  kst,      \* scheduling state of each task
  oncpu,    \* CPU each task is on, or NoCpu (the status word's on_cpu bit)
  seq,      \* barrier of the task's status word
  chan,     \* the global channel
  latched,  \* task each CPU is about to switch to
  resched,  \* is the CPU about to switch?
  ast,      \* state of each CPU's agent thread
  stale,    \* did the agent barrier move since the agent last read it?
  cfs,      \* does CFS want the CPU (no cpu_avail; boosted_priority of an agent)?
  budget    \* how many of the MaxDisturb disturbances are left

taskVars   == <<kst, oncpu, seq, chan>>
latchVars  == <<latched, resched>>
agentVars  == <<ast, stale>>
cfsVars    == <<cfs, budget>>
kernelVars == <<taskVars, latchVars, agentVars, cfsVars>>

MsgTypes == {"TASK_NEW", "TASK_WAKEUP", "TASK_BLOCKED", "TASK_YIELD",
             "TASK_PREEMPT", "TASK_DEPARTED", "TASK_DEAD"}

\* flag is the payload's runnable (TASK_NEW) or deferrable (TASK_WAKEUP).
Messages == [type : MsgTypes, task : Tasks, seq : Nat, flag : BOOLEAN]

KernelTypeOK ==
  /\ kst \in [Tasks -> {"new", "blocked", "runnable", "dying", "dead", "departed"}]
  /\ oncpu \in [Tasks -> Cpus \cup {NoCpu}]
  /\ seq \in [Tasks -> Nat]
  /\ chan \in Seq(Messages)
  /\ latched \in [Cpus -> Tasks \cup {NoTask}]
  /\ resched \in [Cpus -> BOOLEAN]
  /\ ast \in [Cpus -> {"running", "sleeping", "waking"}]
  /\ stale \in [Cpus -> BOOLEAN]
  /\ cfs \in [Cpus -> BOOLEAN]
  /\ budget \in 0 .. MaxDisturb

KernelInit ==
  /\ kst = [t \in Tasks |-> "new"]
  /\ oncpu = [t \in Tasks |-> NoCpu]
  /\ seq = [t \in Tasks |-> 0]
  /\ chan = <<>>
  /\ latched = [c \in Cpus |-> NoTask]
  /\ resched = [c \in Cpus |-> FALSE]
  /\ ast = [c \in Cpus |-> "running"]
  /\ stale = [c \in Cpus |-> FALSE]
  /\ cfs = [c \in Cpus |-> FALSE]
  /\ budget = MaxDisturb

InGhost(t) == kst[t] \in {"blocked", "runnable"}
Running(t) == kst[t] = "runnable" /\ oncpu[t] # NoCpu
IsLatched(t) == \E c \in Cpus : latched[c] = t

\* The messages of tasks ts, one each, in this order.
ProduceAll(ts, type, flag) ==
  /\ seq' = [t \in Tasks |-> IF \E i \in 1 .. Len(ts) : ts[i] = t
                               THEN seq[t] + 1 ELSE seq[t]]
  /\ chan' = chan \o [i \in 1 .. Len(ts) |-> [type |-> type, task |-> ts[i],
                                              seq |-> seq[ts[i]] + 1, flag |-> flag]]

Produce(t, type, flag) == ProduceAll(<<t>>, type, flag)

\* The CPU forgets that it was to switch to t.
Unlatch(t) ==
  /\ latched' = [c \in Cpus |-> IF latched[c] = t THEN NoTask ELSE latched[c]]
  /\ UNCHANGED resched

LeaveCpu(t) == oncpu' = [oncpu EXCEPT ![t] = NoCpu]

(***************************************************************************)
(* What client threads do.                                                 *)
(***************************************************************************)

KTaskNew(t, runnable) ==
  /\ kst[t] = "new"
  /\ kst' = [kst EXCEPT ![t] = IF runnable THEN "runnable" ELSE "blocked"]
  /\ Produce(t, "TASK_NEW", runnable)
  /\ UNCHANGED <<oncpu, latchVars, agentVars, cfsVars>>

KWakeup(t, deferrable) ==
  /\ kst[t] = "blocked" /\ budget > 0
  /\ kst' = [kst EXCEPT ![t] = "runnable"]
  /\ budget' = budget - 1
  /\ Produce(t, "TASK_WAKEUP", deferrable)
  /\ UNCHANGED <<oncpu, latchVars, agentVars, cfs>>

KBlock(t) ==
  /\ Running(t)
  /\ kst' = [kst EXCEPT ![t] = "blocked"]
  /\ Produce(t, "TASK_BLOCKED", FALSE)
  /\ LeaveCpu(t)
  /\ UNCHANGED <<latchVars, agentVars, cfsVars>>

KYield(t) ==
  /\ "yield" \in Events /\ Running(t) /\ budget > 0
  /\ budget' = budget - 1
  /\ Produce(t, "TASK_YIELD", FALSE)
  /\ LeaveCpu(t)
  /\ UNCHANGED <<kst, latchVars, agentVars, cfs>>

\* A client thread exits: it blocks for the last time, then it is reaped.
KExit(t) ==
  /\ "exit" \in Events /\ Running(t)
  /\ kst' = [kst EXCEPT ![t] = "dying"]
  /\ Produce(t, "TASK_BLOCKED", FALSE)
  /\ LeaveCpu(t)
  /\ UNCHANGED <<latchVars, agentVars, cfsVars>>

KDead(t) ==
  /\ kst[t] = "dying"
  /\ kst' = [kst EXCEPT ![t] = "dead"]
  /\ Produce(t, "TASK_DEAD", FALSE)
  /\ UNCHANGED <<oncpu, latchVars, agentVars, cfsVars>>

\* sched_setscheduler() moves the thread out of ghOSt, whatever it is doing.
KDepart(t) ==
  /\ "depart" \in Events /\ InGhost(t) /\ budget > 0
  /\ budget' = budget - 1
  /\ kst' = [kst EXCEPT ![t] = "departed"]
  /\ Produce(t, "TASK_DEPARTED", FALSE)
  /\ LeaveCpu(t)
  /\ Unlatch(t)
  /\ UNCHANGED <<agentVars, cfs>>

(***************************************************************************)
(* What happens on a CPU.                                                  *)
(***************************************************************************)

\* CPU c switches to the task it has latched, or goes idle.
KSwitch(c) ==
  /\ resched[c] /\ ast[c] = "sleeping"
  /\ oncpu' = [t \in Tasks |-> IF latched[c] = t THEN c
                               ELSE IF oncpu[t] = c THEN NoCpu ELSE oncpu[t]]
  /\ latched' = [latched EXCEPT ![c] = NoTask]
  /\ resched' = [resched EXCEPT ![c] = FALSE]
  /\ UNCHANGED <<kst, seq, chan, agentVars, cfsVars>>

\* What CPU c runs, and then what it has latched.
Victims(c) ==
  LET on == {t \in Tasks : oncpu[t] = c} IN
  (IF on = {} THEN <<>> ELSE <<CHOOSE t \in on : TRUE>>)
    \o (IF latched[c] = NoTask THEN <<>> ELSE <<latched[c]>>)

\* CPU c is taken from ghOSt.
TakeCpu(c) ==
  /\ ProduceAll(Victims(c), "TASK_PREEMPT", FALSE)
  /\ oncpu' = [t \in Tasks |-> IF oncpu[t] = c THEN NoCpu ELSE oncpu[t]]
  /\ latched' = [latched EXCEPT ![c] = NoTask]
  /\ resched' = [resched EXCEPT ![c] = FALSE]

\* A woken agent gets its CPU.
KAgentSwitchIn(c) ==
  /\ ast[c] = "waking"
  /\ ast' = [ast EXCEPT ![c] = "running"]
  /\ TakeCpu(c)
  /\ UNCHANGED <<kst, stale, cfsVars>>

\* CFS wants CPU c.  An agent that is running there only sees its
\* boosted_priority bit.
KCfsArrive(c) ==
  /\ "cfs" \in Events /\ budget > 0 /\ ~cfs[c]
  /\ cfs' = [cfs EXCEPT ![c] = TRUE]
  /\ budget' = budget - 1
  /\ TakeCpu(c)
  /\ UNCHANGED <<kst, agentVars>>

KCfsLeave(c) ==
  /\ cfs[c]
  /\ cfs' = [cfs EXCEPT ![c] = FALSE]
  /\ UNCHANGED <<taskVars, latchVars, agentVars, budget>>

KernelNext ==
  \/ \E t \in Tasks, b \in BOOLEAN : KTaskNew(t, b) \/ KWakeup(t, b)
  \/ \E t \in Tasks : KBlock(t) \/ KYield(t) \/ KExit(t) \/ KDead(t) \/ KDepart(t)
  \/ \E c \in Cpus : KSwitch(c) \/ KAgentSwitchIn(c) \/ KCfsArrive(c) \/ KCfsLeave(c)

(***************************************************************************)
(* The system calls of the agents.                                         *)
(***************************************************************************)

\* The outcome of a remote transaction for task t on CPU c.  The agent
\* barrier is not checked.
TxnState(c, t, barrier) ==
  IF ~InGhost(t)                              THEN "TARGET_NOT_FOUND"
  ELSE IF seq[t] # barrier                    THEN "TARGET_STALE"
  ELSE IF oncpu[t] # NoCpu \/ IsLatched(t)    THEN "TARGET_ONCPU"
  ELSE IF kst[t] # "runnable"                 THEN "TARGET_NOT_RUNNABLE"
  ELSE IF cfs[c]                              THEN "CPU_UNAVAIL"
  ELSE "COMPLETE"

\* The transaction is committed: CPU c will switch to t (NoTask: go idle).  A
\* task that was latched there before is preempted, and so is t itself when
\* the agent of CPU c is running there, which is one of the disturbances.
Latch(c, t) ==
  LET kept == IF ast[c] = "running" THEN NoTask ELSE t
      lost == {latched[c], t} \ {kept, NoTask}
  IN
  /\ kept # t => budget > 0
  /\ budget' = IF kept = t THEN budget ELSE budget - 1
  /\ latched' = [latched EXCEPT ![c] = kept]
  /\ resched' = [resched EXCEPT ![c] = TRUE]
  /\ ProduceAll(IF lost = {} THEN <<>> ELSE <<CHOOSE u \in lost : TRUE>>, "TASK_PREEMPT", FALSE)

WakeAgent(c) ==
  /\ ast' = [ast EXCEPT ![c] = IF @ = "sleeping" THEN "waking" ELSE @]
  /\ stale' = [stale EXCEPT ![c] = TRUE]
===============================================================================
