------------------------------ MODULE FifoPerCpu ------------------------------
(***************************************************************************)
(* The per-CPU FIFO scheduler, schedulers/fifo/per_cpu, on top of the      *)
(* message dispatch of lib/scheduler.h.  Every CPU has an agent that loops *)
(* over FifoScheduler::Schedule: read the agent barrier, drain the CPU's   *)
(* channel through the Task* handlers, then FifoSchedule: run a task with  *)
(* a local transaction or yield the CPU.                                   *)
(*                                                                         *)
(* The agents are threads of one process.  A handler that only touches a   *)
(* task of its own queue and its own run queue is one step.  Migrate hands *)
(* a task to another agent: each of its effects that the other agent can   *)
(* see is a step of its own.  A CHECK that fails aborts the process; the   *)
(* model records which handler and which task in `failed'.                 *)
(***************************************************************************)
EXTENDS GhostKernel, Queues

CONSTANT NoTask      \* nullptr

ASSUME FifoAssumption == NoTask \notin Tasks

VARIABLES
  known,       \* tasks the allocator holds
  run_state,   \* FifoTask::run_state
  tcpu,        \* FifoTask::cpu
  seqnum,      \* Task::seqnum
  prio_boost,  \* FifoTask::prio_boost
  current,     \* CpuState::current
  rq,          \* CpuState::run_queue
  nextCpu,     \* AssignCpu's static iterator, NCpus is end()
  pc,          \* what each agent does next
  next,        \* FifoSchedule's local `next'
  target,      \* Migrate's `cpu'
  onIdle,      \* FifoSchedule's local `flags'
  failed       \* the CHECK that aborted the process

fifoTaskVars == <<known, run_state, tcpu, seqnum, prio_boost>>
cpuVars == <<current, rq>>
localVars == <<next, target, onIdle>>
fifoVars == <<fifoTaskVars, cpuVars, nextCpu, pc, localVars, failed>>
vars == <<kernelVars, fifoVars>>

RunStates == {"kBlocked", "kRunnable", "kQueued", "kOnCpu"}

\* Whose CHECK fails; a FifoTask used after it was destroyed is one, too.
Checks == {"none", "Migrate", "TaskRunnable", "Enqueue", "Dequeue", "UseAfterFree",
           "Advance", "TaskBlocked", "TaskSwitchto", "TaskYield", "TaskPreempted",
           "TaskDead", "TaskDeparted", "CompleteRunRequest"}

NoFailure == [in |-> "none", task |-> NoTask]

\* AgentThread's loop and the steps of Schedule, FifoSchedule and Migrate.
Labels == {"top", "drain", "enqueue", "ping", "advance", "wait", "commit",
           "oncpu", "yield"}

TypeOK ==
  /\ KernelTypeOK
  /\ known \in SUBSET Tasks
  /\ run_state \in [Tasks -> RunStates]
  /\ tcpu \in [Tasks -> Cpus \cup {NoCpu}]
  /\ seqnum \in [Tasks -> Nat]
  /\ prio_boost \in [Tasks -> BOOLEAN]
  /\ current \in [Cpus -> Tasks \cup {NoTask}]
  /\ rq \in [Cpus -> Seq(Tasks)]
  /\ nextCpu \in 0 .. NCpus
  /\ pc \in [Cpus -> Labels]
  /\ next \in [Cpus -> Tasks \cup {NoTask}]
  /\ target \in [Cpus -> Cpus \cup {NoCpu}]
  /\ onIdle \in [Cpus -> BOOLEAN]
  /\ failed \in [in : Checks, task : Tasks \cup {NoTask}]

Init ==
  /\ KernelInit
  /\ known = {}
  /\ run_state = [t \in Tasks |-> "kBlocked"]
  /\ tcpu = [t \in Tasks |-> NoCpu]
  /\ seqnum = [t \in Tasks |-> 0]
  /\ prio_boost = [t \in Tasks |-> FALSE]
  /\ current = [c \in Cpus |-> NoTask]
  /\ rq = [c \in Cpus |-> <<>>]
  /\ nextCpu = NCpus
  /\ pc = [c \in Cpus |-> "top"]
  /\ next = [c \in Cpus |-> NoTask]
  /\ target = [c \in Cpus |-> NoCpu]
  /\ onIdle = [c \in Cpus |-> FALSE]
  /\ failed = NoFailure

-------------------------------------------------------------------------------
(* FifoRq.  The run queue is guarded by a mutex: each call is atomic.       *)

\* Enqueue's CHECKs on a task whose state is s and whose cpu is c.
EnqueueOk(s, c) == c >= 0 /\ s = "kRunnable"

-------------------------------------------------------------------------------
(* Program control.                                                         *)

\* Agent c is on its CPU and about to execute label l.
At(c, l) == failed = NoFailure /\ ast[c] = "running" /\ pc[c] = l

Goto(c, l) == pc' = [pc EXCEPT ![c] = l]

\* A CHECK fails while agent c handles task t: the agent process aborts.
Abort(handler, t) ==
  /\ failed' = [in |-> handler, task |-> t]
  /\ UNCHANGED <<kernelVars, fifoTaskVars, cpuVars, nextCpu, pc, localVars>>

\* The message DispatchMessage is working on.
Msg(c) == Head(chan[c])

Dispatching(c, type) ==
  /\ At(c, "drain") /\ chan[c] # <<>> /\ Msg(c).type = type
  /\ (type = "TASK_NEW") <=> (Msg(c).task \notin known)

Consume(c) == chan' = [chan EXCEPT ![c] = Tail(@)]

\* Task::Advance's CHECK_GT.
AdvanceOk(m) == m.seq > seqnum[m.task]

\* Mutant: DispatchMessage forgets the barrier of the message.
AdvanceNot(m) == m \in Messages /\ UNCHANGED seqnum

Advance(m) == seqnum' = [seqnum EXCEPT ![m.task] = m.seq]

\* A from_switchto message makes the handler ping the agent of the CPU that
\* the SwitchTo chain has given up.
PingChainCpu(m) ==
  IF m.flag THEN WakeAgent(m.cpu) ELSE UNCHANGED agentVars

-------------------------------------------------------------------------------
(* The message handlers.                                                    *)

\* TaskOffCpu's CHECKs, those of cpu_state_of() included.
OffCpuOk(t, from_switchto) ==
  /\ tcpu[t] >= 0
  /\ IF run_state[t] = "kOnCpu"
       THEN current[tcpu[t]] = t
       ELSE from_switchto /\ run_state[t] = "kBlocked"

\* Mutant: TaskOffCpu leaves a dangling current.
ClearCurrentNot(t) == t \in Tasks /\ current' = current

\* TaskOffCpu's effect on CpuState::current.
ClearCurrent(t) ==
  current' = IF run_state[t] = "kOnCpu"
               THEN [current EXCEPT ![tcpu[t]] = NoTask] ELSE current

\* A message for a gtid the allocator does not hold, or a TASK_NEW for one it
\* does: DispatchMessage returns early.
IgnoreMessage(c) ==
  /\ At(c, "drain") /\ chan[c] # <<>>
  /\ (Msg(c).type = "TASK_NEW") <=> (Msg(c).task \in known)
  /\ Consume(c)
  /\ UNCHANGED <<taskVars, seq, assoc, agentVars, cfsVars, fifoVars>>

\* Mutant: a task that is not runnable is not entered into the allocator.
TaskNewBlockedUnknown(c) ==
  LET m == Msg(c) IN
  /\ Dispatching(c, "TASK_NEW") /\ ~m.flag
  /\ Consume(c)
  /\ UNCHANGED <<taskVars, seq, assoc, agentVars, cfsVars, known, run_state, tcpu,
                 seqnum, prio_boost, cpuVars, nextCpu, pc, localVars, failed>>

\* A new task that is not runnable stays with the default agent until it
\* wakes up.
TaskNewBlocked(c) ==
  LET m == Msg(c) IN
  /\ Dispatching(c, "TASK_NEW") /\ ~m.flag
  /\ known' = known \cup {m.task}
  /\ Advance(m)
  /\ Consume(c)
  /\ UNCHANGED <<taskVars, seq, assoc, agentVars, cfsVars, run_state, tcpu,
                 prio_boost, cpuVars, nextCpu, pc, localVars, failed>>

\* Mutant: AssignCpu wraps one CPU too late.
AssignedCpuLate == IF nextCpu > NCpus THEN 0 ELSE nextCpu

\* AssignCpu: the next CPU, round robin.
AssignedCpu == IF nextCpu = NCpus THEN 0 ELSE nextCpu

\* AssignCpu and Migrate up to the association: from here on the messages of
\* the task go to the other agent, which can act on them.
AssignAndAssociate(c, t) ==
  /\ nextCpu' = AssignedCpu + 1
  /\ assoc' = [assoc EXCEPT ![t] = AssignedCpu]
  /\ target' = [target EXCEPT ![c] = AssignedCpu]
  /\ Goto(c, "enqueue")

TaskNewRunnable(c) ==
  LET m == Msg(c) IN
  /\ Dispatching(c, "TASK_NEW") /\ m.flag
  /\ \/ /\ AssociateOk(m.task, m.seq)
        /\ known' = known \cup {m.task}
        /\ run_state' = [run_state EXCEPT ![m.task] = "kRunnable"]
        /\ Advance(m)
        /\ AssignAndAssociate(c, m.task)
        /\ UNCHANGED <<taskVars, seq, chan, agentVars, cfsVars, tcpu, prio_boost,
                       cpuVars, next, onIdle, failed>>
     \/ ~AssociateOk(m.task, m.seq) /\ Abort("Migrate", m.task)

\* The wakeup of a task that has no CPU yet.
TaskRunnableMigrate(c) ==
  LET m == Msg(c) IN
  /\ Dispatching(c, "TASK_WAKEUP") /\ tcpu[m.task] < 0
  /\ \/ /\ run_state[m.task] = "kBlocked" /\ AssociateOk(m.task, m.seq)
        /\ run_state' = [run_state EXCEPT ![m.task] = "kRunnable"]
        /\ prio_boost' = [prio_boost EXCEPT ![m.task] = ~m.flag]
        /\ AssignAndAssociate(c, m.task)
        /\ UNCHANGED <<taskVars, seq, chan, agentVars, cfsVars, known, tcpu,
                       seqnum, cpuVars, next, onIdle, failed>>
     \/ run_state[m.task] # "kBlocked" /\ Abort("TaskRunnable", m.task)
     \/ ~AssociateOk(m.task, m.seq) /\ Abort("Migrate", m.task)

\* Migrate makes the task visible in the other run queue.
MigrateEnqueue(c) ==
  LET t == Msg(c).task IN
  /\ At(c, "enqueue")
  /\ \/ /\ t \in known /\ EnqueueOk(run_state[t], target[c])
        /\ tcpu' = [tcpu EXCEPT ![t] = target[c]]
        /\ run_state' = [run_state EXCEPT ![t] = "kQueued"]
        /\ rq' = [rq EXCEPT ![target[c]] = Pushed(@, t, prio_boost[t])]
        /\ Goto(c, "ping")
        /\ UNCHANGED <<kernelVars, known, seqnum, prio_boost, current, nextCpu,
                       localVars, failed>>
     \/ t \notin known /\ Abort("UseAfterFree", t)
     \/ ~EnqueueOk(run_state[t], target[c]) /\ Abort("Enqueue", t)

\* Mutant: Migrate does not ping the agent it gives the task to.
MigrateNoPing(c) ==
  /\ At(c, "ping")
  /\ Goto(c, "advance")
  /\ UNCHANGED <<kernelVars, fifoTaskVars, cpuVars, nextCpu, localVars, failed>>

MigratePing(c) ==
  /\ At(c, "ping")
  /\ WakeAgent(target[c])
  /\ Goto(c, "advance")
  /\ UNCHANGED <<taskVars, seq, assoc, chan, cfsVars, fifoTaskVars, cpuVars,
                 nextCpu, localVars, failed>>

\* Back in DispatchMessage after a handler that migrated the task: Advance,
\* which TASK_NEW does not need, and Consume.
AdvanceMigrated(c) ==
  LET m == Msg(c)  t == m.task IN
  /\ At(c, "advance")
  /\ \/ /\ m.type = "TASK_NEW" \/ (t \in known /\ AdvanceOk(m))
        /\ IF m.type = "TASK_NEW" THEN UNCHANGED seqnum ELSE Advance(m)
        /\ Consume(c)
        /\ target' = [target EXCEPT ![c] = NoCpu]
        /\ Goto(c, "drain")
        /\ UNCHANGED <<taskVars, seq, assoc, agentVars, cfsVars, known, run_state,
                       tcpu, prio_boost, cpuVars, nextCpu, next, onIdle, failed>>
     \/ m.type # "TASK_NEW" /\ t \notin known /\ Abort("UseAfterFree", t)
     \/ m.type # "TASK_NEW" /\ ~AdvanceOk(m) /\ Abort("Advance", t)

\* The wakeup of a task that has a CPU.
TaskRunnableEnqueue(c) ==
  LET m == Msg(c)  t == m.task IN
  /\ Dispatching(c, "TASK_WAKEUP") /\ tcpu[t] >= 0
  /\ \/ /\ run_state[t] = "kBlocked" /\ AdvanceOk(m)
        /\ run_state' = [run_state EXCEPT ![t] = "kQueued"]
        /\ prio_boost' = [prio_boost EXCEPT ![t] = ~m.flag]
        /\ rq' = [rq EXCEPT ![tcpu[t]] = Pushed(@, t, ~m.flag)]
        /\ Advance(m)
        /\ Consume(c)
        /\ UNCHANGED <<taskVars, seq, assoc, agentVars, cfsVars, known, tcpu,
                       current, nextCpu, pc, localVars, failed>>
     \/ run_state[t] # "kBlocked" /\ Abort("TaskRunnable", t)
     \/ ~AdvanceOk(m) /\ Abort("Advance", t)

\* Mutant: a task that goes off its CPU forgets the CPU it is assigned to.
OffCpuUnassign(c, to) ==
  LET m == Msg(c)  t == m.task IN
  /\ ClearCurrent(t)
  /\ run_state' = [run_state EXCEPT ![t] = to]
  /\ tcpu' = [tcpu EXCEPT ![t] = NoCpu]
  /\ Advance(m)
  /\ Consume(c)
  /\ UNCHANGED <<taskVars, seq, assoc, cfsVars, known, nextCpu, pc, localVars, failed>>

\* A message that takes the task off its CPU and leaves it in state `to'.
OffCpu(c, to) ==
  LET m == Msg(c)  t == m.task IN
  /\ ClearCurrent(t)
  /\ run_state' = [run_state EXCEPT ![t] = to]
  /\ Advance(m)
  /\ Consume(c)
  /\ UNCHANGED <<taskVars, seq, assoc, cfsVars, known, tcpu, nextCpu, pc,
                 localVars, failed>>

TaskBlocked(c) ==
  LET m == Msg(c)  t == m.task IN
  /\ Dispatching(c, "TASK_BLOCKED")
  /\ \/ /\ OffCpuOk(t, m.flag) /\ AdvanceOk(m)
        /\ OffCpu(c, "kBlocked")
        /\ PingChainCpu(m)
        /\ UNCHANGED <<rq, prio_boost>>
     \/ ~(OffCpuOk(t, m.flag) /\ AdvanceOk(m)) /\ Abort("TaskBlocked", t)

\* The task of a TASK_SWITCHTO is never at the end of a chain.
TaskSwitchto(c) ==
  LET m == Msg(c)  t == m.task IN
  /\ Dispatching(c, "TASK_SWITCHTO")
  /\ \/ /\ OffCpuOk(t, FALSE) /\ AdvanceOk(m)
        /\ OffCpu(c, "kBlocked")
        /\ UNCHANGED <<rq, prio_boost, agentVars>>
     \/ ~(OffCpuOk(t, FALSE) /\ AdvanceOk(m)) /\ Abort("TaskSwitchto", t)

TaskYield(c) ==
  LET m == Msg(c)  t == m.task IN
  /\ Dispatching(c, "TASK_YIELD")
  /\ \/ /\ OffCpuOk(t, m.flag) /\ AdvanceOk(m)
        /\ OffCpu(c, "kQueued")
        /\ rq' = [rq EXCEPT ![tcpu[t]] = Pushed(@, t, prio_boost[t])]
        /\ PingChainCpu(m)
        /\ UNCHANGED prio_boost
     \/ ~(OffCpuOk(t, m.flag) /\ AdvanceOk(m)) /\ Abort("TaskYield", t)

\* A preempted task goes to the front of the run queue.
TaskPreempted(c) ==
  LET m == Msg(c)  t == m.task IN
  /\ Dispatching(c, "TASK_PREEMPT")
  /\ \/ /\ OffCpuOk(t, m.flag) /\ AdvanceOk(m)
        /\ OffCpu(c, "kQueued")
        /\ prio_boost' = [prio_boost EXCEPT ![t] = TRUE]
        /\ rq' = [rq EXCEPT ![tcpu[t]] = Pushed(@, t, TRUE)]
        /\ PingChainCpu(m)
     \/ ~(OffCpuOk(t, m.flag) /\ AdvanceOk(m)) /\ Abort("TaskPreempted", t)

\* Mutant: the handlers of the last messages do not free the task.
FreeTaskNot(t) ==
  /\ run_state' = [run_state EXCEPT ![t] = "kBlocked"]
  /\ UNCHANGED <<known, tcpu, seqnum, prio_boost>>

\* FreeTask: the FifoTask is gone, its next incarnation starts afresh.
FreeTask(t) ==
  /\ known' = known \ {t}
  /\ run_state' = [run_state EXCEPT ![t] = "kBlocked"]
  /\ tcpu' = [tcpu EXCEPT ![t] = NoCpu]
  /\ seqnum' = [seqnum EXCEPT ![t] = 0]
  /\ prio_boost' = [prio_boost EXCEPT ![t] = FALSE]

TaskDead(c) ==
  LET t == Msg(c).task IN
  /\ Dispatching(c, "TASK_DEAD")
  /\ \/ /\ run_state[t] = "kBlocked"
        /\ FreeTask(t)
        /\ Consume(c)
        /\ UNCHANGED <<taskVars, seq, assoc, agentVars, cfsVars, cpuVars, nextCpu,
                       pc, localVars, failed>>
     \/ run_state[t] # "kBlocked" /\ Abort("TaskDead", t)

TaskDeparted(c) ==
  LET m == Msg(c)  t == m.task
      offcpu == run_state[t] = "kOnCpu" \/ m.flag
      queued == ~offcpu /\ run_state[t] = "kQueued"
      ok == IF offcpu THEN OffCpuOk(t, m.flag)
            ELSE IF queued THEN tcpu[t] >= 0 /\ InQueue(t, rq[tcpu[t]])
            ELSE run_state[t] = "kBlocked"
  IN
  /\ Dispatching(c, "TASK_DEPARTED")
  /\ \/ /\ ok
        /\ IF offcpu THEN ClearCurrent(t) ELSE UNCHANGED current
        /\ IF queued THEN rq' = [rq EXCEPT ![tcpu[t]] = Erased(@, t)]
                     ELSE UNCHANGED rq
        /\ PingChainCpu(m)
        /\ FreeTask(t)
        /\ Consume(c)
        /\ UNCHANGED <<taskVars, seq, assoc, cfsVars, nextCpu, pc, localVars, failed>>
     \/ ~ok /\ Abort("TaskDeparted", t)

-------------------------------------------------------------------------------
(* Schedule and FifoSchedule.                                               *)

\* Mutant: the agent barrier is read only once.
ReadBarrierOnce(c) ==
  /\ At(c, "top")
  /\ Goto(c, "drain")
  /\ UNCHANGED <<kernelVars, fifoTaskVars, cpuVars, nextCpu, localVars, failed>>

\* Schedule reads the agent barrier before it looks at the channel.
ReadBarrier(c) ==
  /\ At(c, "top")
  /\ stale' = [stale EXCEPT ![c] = FALSE]
  /\ Goto(c, "drain")
  /\ UNCHANGED <<taskVars, seq, assoc, chan, ast, rtla, cfsVars, fifoTaskVars,
                 cpuVars, nextCpu, localVars, failed>>

\* The channel is drained: choose what to run.  An agent whose priority is
\* boosted has to give the CPU back and runs nothing.
PickNext(c) ==
  /\ At(c, "drain") /\ chan[c] = <<>>
  /\ \/ /\ ~boosted[c] /\ current[c] # NoTask
        /\ next' = [next EXCEPT ![c] = current[c]]
        /\ Goto(c, "wait")
        /\ UNCHANGED <<run_state, rq, onIdle, failed>>
     \/ /\ ~boosted[c] /\ current[c] = NoTask /\ rq[c] # <<>>
        /\ IF run_state[Head(rq[c])] = "kQueued"
             THEN /\ next' = [next EXCEPT ![c] = Head(rq[c])]
                  /\ run_state' = [run_state EXCEPT ![Head(rq[c])] = "kRunnable"]
                  /\ rq' = [rq EXCEPT ![c] = Tail(@)]
                  /\ Goto(c, "wait")
                  /\ UNCHANGED failed
             ELSE /\ failed' = [in |-> "Dequeue", task |-> Head(rq[c])]
                  /\ UNCHANGED <<next, run_state, rq, pc>>
        /\ UNCHANGED onIdle
     \/ /\ boosted[c] \/ (current[c] = NoTask /\ rq[c] = <<>>)
        /\ onIdle' = [onIdle EXCEPT ![c] =
                        boosted[c] /\ (current[c] # NoTask \/ rq[c] # <<>>)]
        /\ Goto(c, "yield")
        /\ UNCHANGED <<next, run_state, rq, failed>>
  /\ UNCHANGED <<kernelVars, known, tcpu, seqnum, prio_boost, current, nextCpu, target>>

\* Spin until the last task of a SwitchTo chain is off its CPU.
WaitOffCpu(c) ==
  /\ At(c, "wait") /\ oncpu[next[c]] = NoCpu
  /\ Goto(c, "commit")
  /\ UNCHANGED <<kernelVars, fifoTaskVars, cpuVars, nextCpu, localVars, failed>>

\* Mutant: a message that arrives before the commit counts as an error.
UnexpectedStale(state) == state \in {"AGENT_STALE", "TARGET_NOT_RUNNABLE"}

\* CompleteRunRequest expects every failure of a commit but this one, which
\* is an error.
UnexpectedFailure(state) == state = "TARGET_NOT_RUNNABLE"

\* Open and Commit.
CommitTxn(c) ==
  LET t == next[c]  state == TxnState(c, t, seqnum[t]) IN
  /\ At(c, "commit")
  /\ \/ /\ state = "COMPLETE"
        /\ RunTask(c, t)
        /\ Goto(c, "oncpu")
        /\ UNCHANGED <<kst, seq, assoc, chan, stale, rtla, cfsVars, fifoTaskVars,
                       cpuVars, nextCpu, localVars, failed>>
     \/ UnexpectedFailure(state) /\ Abort("CompleteRunRequest", t)
     \/ /\ state # "COMPLETE" /\ ~UnexpectedFailure(state)
        /\ current' = [current EXCEPT ![c] = IF @ = t THEN NoTask ELSE @]
        /\ prio_boost' = [prio_boost EXCEPT ![t] = TRUE]
        /\ run_state' = [run_state EXCEPT ![t] = "kQueued"]
        /\ rq' = [rq EXCEPT ![c] = Pushed(@, t, TRUE)]
        /\ next' = [next EXCEPT ![c] = NoTask]
        /\ Goto(c, "top")
        /\ UNCHANGED <<kernelVars, known, tcpu, seqnum, nextCpu, target, onIdle, failed>>

\* The agent is back on its CPU after the task it ran; it only now records
\* that the task got oncpu.
TaskOnCpu(c) ==
  LET t == next[c] IN
  /\ At(c, "oncpu")
  /\ current' = [current EXCEPT ![c] = t]
  /\ run_state' = [run_state EXCEPT ![t] = "kOnCpu"]
  /\ tcpu' = [tcpu EXCEPT ![t] = c]
  /\ prio_boost' = [prio_boost EXCEPT ![t] = FALSE]
  /\ next' = [next EXCEPT ![c] = NoTask]
  /\ Goto(c, "top")
  /\ UNCHANGED <<kernelVars, known, seqnum, rq, nextCpu, target, onIdle, failed>>

\* ESTALE is not an error: the loop starts over.
LocalYield(c) ==
  /\ At(c, "yield")
  /\ \/ stale[c] /\ UNCHANGED <<ast, rtla>>
     \/ ~stale[c] /\ BlockAgent(c, onIdle[c])
  /\ onIdle' = [onIdle EXCEPT ![c] = FALSE]
  /\ Goto(c, "top")
  /\ UNCHANGED <<taskVars, seq, assoc, chan, stale, cfsVars, fifoTaskVars, cpuVars,
                 nextCpu, next, target, failed>>

-------------------------------------------------------------------------------
Handler(c) ==
  \/ IgnoreMessage(c) \/ TaskNewBlocked(c) \/ TaskNewRunnable(c)
  \/ TaskRunnableMigrate(c) \/ TaskRunnableEnqueue(c)
  \/ TaskBlocked(c) \/ TaskSwitchto(c) \/ TaskYield(c) \/ TaskPreempted(c)
  \/ TaskDead(c) \/ TaskDeparted(c)

AgentStep(c) ==
  \/ ReadBarrier(c) \/ Handler(c)
  \/ MigrateEnqueue(c) \/ MigratePing(c) \/ AdvanceMigrated(c)
  \/ PickNext(c) \/ WaitOffCpu(c) \/ CommitTxn(c) \/ TaskOnCpu(c) \/ LocalYield(c)

\* Once a CHECK has failed there is no agent left and nothing more to model.
KernelStep == failed = NoFailure /\ KernelNext /\ UNCHANGED fifoVars

Next == KernelStep \/ \E c \in Cpus : AgentStep(c)

Spec == Init /\ [][Next]_vars

\* Agents are threads at the highest priority: a woken agent gets its CPU and
\* a running one keeps executing.  A task that leaves a CPU does leave it, and
\* CFS does not keep a CPU forever.  FIFO never preempts, so a client thread
\* has to block at some point.
Fairness ==
  /\ \A c \in Cpus :
       /\ WF_vars(AgentStep(c))
       /\ WF_vars(failed = NoFailure /\ KAgentSwitchIn(c) /\ UNCHANGED fifoVars)
       /\ WF_vars(failed = NoFailure /\ KCfsLeave(c) /\ UNCHANGED fifoVars)
  /\ \A t \in Tasks :
       /\ WF_vars(failed = NoFailure /\ KBlock(t) /\ UNCHANGED fifoVars)
       /\ WF_vars(failed = NoFailure /\ KFinishSwitch(t) /\ UNCHANGED fifoVars)

FairSpec == Spec /\ Fairness
-------------------------------------------------------------------------------
(* Properties.                                                              *)

\* Messages of task t that no agent has consumed.
Drained(t) == \A c \in Cpus : \A i \in 1 .. Len(chan[c]) : chan[c][i].task # t

(***************************************************************************)
(* Every FifoTask is in exactly one place: a queued task is once in the    *)
(* run queue of its own CPU and nowhere else, an oncpu task is the current *)
(* of its own CPU, a task FifoSchedule holds in `next' is in no run queue, *)
(* and no run queue, current or next points to a task that FreeTask has    *)
(* destroyed.                                                              *)
(***************************************************************************)
QueuedOnce == \A c \in Cpus : NoRepeats(rq[c])

QueuesHoldQueued ==
  \A c \in Cpus, t \in Tasks : InQueue(t, rq[c]) =>
    t \in known /\ run_state[t] = "kQueued" /\ tcpu[t] = c

QueuedAreInQueue ==
  \A t \in Tasks : run_state[t] = "kQueued" =>
    tcpu[t] \in Cpus /\ InQueue(t, rq[tcpu[t]])

CurrentIsOnCpu ==
  \A c \in Cpus : current[c] # NoTask =>
    current[c] \in known /\ run_state[current[c]] = "kOnCpu" /\ tcpu[current[c]] = c

OnCpuIsCurrent ==
  \A t \in Tasks : run_state[t] = "kOnCpu" =>
    tcpu[t] \in Cpus /\ current[tcpu[t]] = t

NextIsHeld ==
  \A c \in Cpus : next[c] # NoTask =>
    /\ next[c] \in known /\ tcpu[next[c]] = c
    /\ IF current[c] = NoTask THEN run_state[next[c]] = "kRunnable"
                              ELSE next[c] = current[c]

RunqueueOK ==
  /\ QueuedOnce /\ QueuesHoldQueued /\ QueuedAreInQueue
  /\ CurrentIsOnCpu /\ OnCpuIsCurrent /\ NextIsHeld

(***************************************************************************)
(* Once the agents have consumed every message of a task, the FifoTask     *)
(* agrees with the kernel: its seqnum is the barrier of the status word    *)
(* (otherwise every commit would fail with TARGET_STALE), and its          *)
(* run_state is what the kernel thinks, a SwitchTo target counting as      *)
(* blocked.                                                                *)
(***************************************************************************)
ViewAgrees ==
  \A t \in known : Drained(t) =>
    /\ seqnum[t] = seq[t]
    /\ CASE run_state[t] = "kBlocked" -> kst[t] \in {"blocked", "dying"} \/ via[t] = "switchto"
         [] run_state[t] = "kQueued"  -> kst[t] = "runnable" /\ ~Running(t)
         [] OTHER                     -> kst[t] = "runnable" /\ via[t] # "switchto"

HeldAt(t, c) == InQueue(t, rq[c]) \/ current[c] = t \/ next[c] = t

(***************************************************************************)
(* No task is forgotten: a task that is in ghOSt and whose messages have   *)
(* all been consumed is held by the allocator (the early returns of        *)
(* DispatchMessage are for cases that "probably cannot happen"), and if it *)
(* is runnable it has a SwitchTo's CPU, or it is in a run queue, the       *)
(* current of a CPU or the `next' of a FifoSchedule: no handler, failed    *)
(* commit or preemption leaves it where no agent looks for it.             *)
(***************************************************************************)
NoTaskForgotten ==
  \A t \in Tasks : InGhost(t) /\ Drained(t) =>
    /\ t \in known
    /\ kst[t] = "runnable" /\ via[t] # "switchto" => \E c \in Cpus : HeldAt(t, c)

(***************************************************************************)
(* When a TASK_NEW finds that the allocator "already had task for gtid"    *)
(* (DispatchMessage), nothing has been corrupted: the thread has left      *)
(* ghOSt and come back, and the TASK_DEPARTED of the earlier incarnation   *)
(* is still unread in the channel of the agent it had been migrated to.    *)
(* This is so for the first thread that comes back: from the second return *)
(* on, messages of several incarnations, whose seqnums all start over, can *)
(* take the place of each other.                                           *)
(***************************************************************************)
OvertakenDeparture ==
  budget + 1 >= MaxDisturb => \A c \in Cpus :
    At(c, "drain") /\ chan[c] # <<>> /\ Msg(c).type = "TASK_NEW" /\ Msg(c).task \in known =>
      \E d \in Cpus \ {c} : \E i \in 1 .. Len(chan[d]) :
        chan[d][i].task = Msg(c).task /\ chan[d][i].type = "TASK_DEPARTED"

(***************************************************************************)
(* The CHECKs of the handlers, of FifoRq, of Migrate, of Advance and of    *)
(* CompleteRunRequest can only fail for a task that leaves ghOSt while the *)
(* default agent is handing it over to another CPU, and only for such a    *)
(* task is Advance, after the handler, a use of freed memory.              *)
(***************************************************************************)
ChecksHold ==
  failed # NoFailure =>
    /\ kst[failed.task] = "departed"
    /\ failed.in \in {"Migrate", "TaskDeparted", "UseAfterFree"}

(***************************************************************************)
(* No wakeup is lost: when every agent sleeps, a runnable task is on a     *)
(* CPU, or it waits in the run queue (or as the current) of a CPU that is  *)
(* busy with another task or with CFS, and in the latter case the agent    *)
(* has asked to be returned to when the CPU goes idle.                     *)
(***************************************************************************)
Busy(c) == (\E t \in Tasks : oncpu[t] = c) \/ (boosted[c] /\ rtla[c])

NoLostWakeup ==
  (failed = NoFailure /\ \A c \in Cpus : ast[c] = "sleeping") =>
    \A t \in Tasks : kst[t] = "runnable" =>
      \/ oncpu[t] # NoCpu
      \/ /\ t \in known /\ tcpu[t] \in Cpus /\ Busy(tcpu[t])
         /\ InQueue(t, rq[tcpu[t]]) \/ current[tcpu[t]] = t

(***************************************************************************)
(* AssignCpu is "implicitly thread-safe because it is only called from one *)
(* agent associated with the default queue": no other agent ever migrates. *)
(***************************************************************************)
OnlyDefaultAgentMigrates ==
  \A c \in Cpus \ {DefaultCpu} : pc[c] \notin {"enqueue", "ping", "advance"}

(***************************************************************************)
(* "There cannot be any more messages pending for this task after a        *)
(* MSG_TASK_WAKEUP (until the agent puts it oncpu) so it's safe to         *)
(* migrate" (TaskRunnable): when the default agent handles the wakeup of a *)
(* task that has no CPU yet, the association Migrate CHECKs succeeds.      *)
(***************************************************************************)
NothingPendingAfterWakeup ==
  \A c \in Cpus :
    Dispatching(c, "TASK_WAKEUP") /\ tcpu[Msg(c).task] < 0 =>
      AssociateOk(Msg(c).task, Msg(c).seq)

(***************************************************************************)
(* A runnable task is not starved: it eventually gets a CPU, unless it     *)
(* leaves ghOSt or a CHECK aborts the agents.                              *)
(***************************************************************************)
RunnableRuns ==
  \A t \in Tasks :
    kst[t] = "runnable" ~> Running(t) \/ kst[t] # "runnable" \/ failed # NoFailure
==============================================================================
