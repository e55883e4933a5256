----------------------------- MODULE CfsScheduler -----------------------------
(***************************************************************************)
(* The CFS scheduler, schedulers/cfs: one run queue per CPU, a migration   *)
(* queue per CPU for tasks that have to find another CPU, and load         *)
(* balancing by CPUs that are about to go idle.                            *)
(*                                                                         *)
(* The mutex of a CPU's run queue also guards the tasks associated with    *)
(* that CPU.  An agent holds its own mutex while it drains its channel     *)
(* (label "drain"); every other critical section is one step, so an agent  *)
(* that wants another one's mutex waits while that one drains.             *)
(*                                                                         *)
(* A run queue is a set: any of its tasks may have the smallest vruntime.  *)
(* Priorities and times are abstracted the same way, min_vruntime_ too, so *)
(* what UpdateMinVruntime reads from cs->current has no effect here.       *)
(* SwitchTo is left out: TaskSwitchto and the CHECKs on `current' do not   *)
(* support it.                                                             *)
(***************************************************************************)
EXTENDS GhostKernel

CONSTANTS
  NoTask,   \* nullptr
  CfsEvents \* which of these happen: "affinity", "tick", "balance"

ASSUME CfsAssumption ==
  /\ NoTask \notin Tasks /\ IsFiniteSet(Tasks)
  /\ "switchto" \notin Events
  /\ CfsEvents \subseteq {"affinity", "tick", "balance"}

VARIABLES
  allowed,      \* the kernel's affinity mask of each task
  tick,         \* is there a CPU_TICK in the channel?
  task,         \* the CfsTasks
  current,      \* CpuState::current
  rq,           \* CpuState::run_queue
  mq,           \* CpuState::migration_queue
  preempt_curr, \* CpuState::preempt_curr
  pc,           \* what each agent does next
  next,         \* CfsSchedule's local `next'
  todo,         \* MigrateTasks: what it has not tried yet
  target,       \* Migrate's `cpu', LoadBalanceEnv::src_cs
  imbalance,    \* LoadBalanceEnv::imbalance
  moving,       \* LoadBalanceEnv::tasks
  onIdle,       \* the flags of LocalYield
  failed        \* the CHECK that aborted the process

cpuVars == <<current, rq, mq, preempt_curr>>
balanceVars == <<target, imbalance, moving>>
localVars == <<next, todo, balanceVars, onIdle>>
cfsSchedVars == <<task, cpuVars, pc, localVars, failed>>
vars == <<kernelVars, allowed, tick, cfsSchedVars>>

States == {"kBlocked", "kRunnable", "kRunning", "kDone"}
OnRqs == {"kDequeued", "kQueued", "kMigrating"}
FreeTask == [known |-> FALSE, state |-> "kBlocked", on_rq |-> "kDequeued",
             cpu |-> NoCpu, seqnum |-> 0, cpu_affinity |-> {}]

CfsTasks == {FreeTask} \cup
  [known : {TRUE}, state : States, on_rq : OnRqs, cpu : Cpus, seqnum : Nat,
   cpu_affinity : SUBSET Cpus]

Labels == {"top", "drain", "migrate", "ping", "balance", "detach", "attach", "pickpulled",
           "picked", "commit", "yield"}

kMaxTasksToLoadBalance == 32
Least(a, b) == IF a < b THEN a ELSE b

Checks == {"none", "TaskRunnable", "HandleTaskDone", "TaskYield", "TaskBlocked",
           "TaskPreempted", "TaskAffinityChanged", "MigrateTasks", "CompleteRunRequest"}

NoFailure == [in |-> "none", task |-> NoTask]

TypeOK ==
  /\ KernelTypeOK
  /\ allowed \in [Tasks -> SUBSET Cpus]
  /\ tick \in [Cpus -> BOOLEAN]
  /\ task \in [Tasks -> CfsTasks]
  /\ current \in [Cpus -> Tasks \cup {NoTask}]
  /\ rq \in [Cpus -> SUBSET Tasks]
  /\ mq \in [Cpus -> SUBSET Tasks]
  /\ preempt_curr \in [Cpus -> BOOLEAN]
  /\ pc \in [Cpus -> Labels]
  /\ next \in [Cpus -> Tasks \cup {NoTask}]
  /\ todo \in [Cpus -> SUBSET Tasks]
  /\ target \in [Cpus -> Cpus]
  /\ imbalance \in [Cpus -> Nat]
  /\ moving \in [Cpus -> SUBSET Tasks]
  /\ onIdle \in [Cpus -> BOOLEAN]
  /\ failed \in [in : Checks, task : Tasks \cup {NoTask}]

Init ==
  /\ KernelInit
  /\ allowed = [t \in Tasks |-> Cpus]
  /\ tick = [c \in Cpus |-> FALSE]
  /\ task = [t \in Tasks |-> FreeTask]
  /\ current = [c \in Cpus |-> NoTask]
  /\ rq = [c \in Cpus |-> {}]
  /\ mq = [c \in Cpus |-> {}]
  /\ preempt_curr = [c \in Cpus |-> FALSE]
  /\ pc = [c \in Cpus |-> "top"]
  /\ next = [c \in Cpus |-> NoTask]
  /\ todo = [c \in Cpus |-> {}]
  /\ target = [c \in Cpus |-> 0]
  /\ imbalance = [c \in Cpus |-> 0]
  /\ moving = [c \in Cpus |-> {}]
  /\ onIdle = [c \in Cpus |-> FALSE]
  /\ failed = NoFailure

At(c, l) == failed = NoFailure /\ ast[c] = "running" /\ pc[c] = l

Goto(c, l) == pc' = [pc EXCEPT ![c] = l]

Abort(where, t) ==
  /\ failed' = [in |-> where, task |-> t]
  /\ UNCHANGED <<kernelVars, allowed, tick, task, cpuVars, pc, localVars>>

\* The mutex of CPU c's run queue is not held.
Unlocked(c) == pc[c] # "drain"

-------------------------------------------------------------------------------
(* Two more things the kernel does.                                         *)

\* sched_setaffinity().  A task that is running on a CPU it may no longer use
\* is preempted.
KSetAffinity(t, mask) ==
  LET evicted == Running(t) /\ oncpu[t] \notin mask
      msg(n, type) == [type |-> type, task |-> t, seq |-> seq[t] + n, flag |-> FALSE,
                       cpu |-> oncpu[t]]
  IN
  /\ "affinity" \in CfsEvents /\ budget > 0 /\ InGhost(t) /\ mask # allowed[t]
  /\ budget' = budget - 1
  /\ allowed' = [allowed EXCEPT ![t] = mask]
  /\ seq' = [seq EXCEPT ![t] = @ + IF evicted THEN 2 ELSE 1]
  /\ chan' = [chan EXCEPT ![assoc[t]] = @ \o <<msg(1, "TASK_AFFINITY_CHANGED")>>
                \o IF evicted THEN <<msg(2, "TASK_PREEMPT")>> ELSE <<>>]
  /\ IF evicted THEN LeaveCpu(t) ELSE UNCHANGED <<oncpu, via>>
  /\ WakeAgent(assoc[t])
  /\ UNCHANGED <<kst, ran, assoc, boosted, tick>>

\* The timer tick of a CPU that runs a ghOSt task is a message to its agent.
KTick(c) ==
  /\ "tick" \in CfsEvents /\ budget > 0 /\ ~tick[c]
  /\ \E t \in Tasks : oncpu[t] = c
  /\ budget' = budget - 1
  /\ tick' = [tick EXCEPT ![c] = TRUE]
  /\ WakeAgent(c)
  /\ UNCHANGED <<taskVars, seq, assoc, chan, boosted, allowed>>

-------------------------------------------------------------------------------
(* CfsTaskState: which transitions a debug build accepts.                   *)

ValidState(from, to) ==
  CASE to = "kBlocked"  -> from \in {"kRunning", "kBlocked"}
    [] to = "kRunnable" -> from \in {"kBlocked", "kRunning", "kRunnable"}
    [] to = "kRunning"  -> from \in {"kRunnable", "kRunning"}
    [] to = "kDone"     -> from \in {"kRunnable", "kBlocked", "kRunning"}

ValidOnRq(from, to) ==
  CASE to = "kDequeued"  -> from = "kQueued"
    [] to = "kQueued"    -> from \in {"kDequeued", "kMigrating"}
    [] to = "kMigrating" -> from \in {"kDequeued", "kQueued"}

Is(t, s) == task[t].state = s

Without(q, c, t) == [q EXCEPT ![c] = @ \ {t}]

With(q, c, t) == [q EXCEPT ![c] = @ \cup {t}]

-------------------------------------------------------------------------------
(* The message handlers.  They run with the agent's mutex held and assert   *)
(* that it is the mutex of the task's CPU.                                  *)

Msg(c) == Head(chan[c])

Dispatching(c, type) ==
  /\ At(c, "drain") /\ chan[c] # <<>> /\ Msg(c).type = type
  /\ (type = "TASK_NEW") <=> ~task[Msg(c).task].known

AdvanceOk(m) == m.seq > task[m.task].seqnum

\* The message is handled and consumed.
Handled(c) ==
  /\ chan' = [chan EXCEPT ![c] = Tail(@)]
  /\ UNCHANGED <<taskVars, seq, assoc, agentVars, cfsVars, allowed, tick, preempt_curr,
                 pc, localVars, failed>>

\* What SchedGetAffinity may find.  It fails if the thread does not exist any
\* more, and the scheduler falls back to all CPUs.
AffinityRead(t) == {allowed[t]} \cup IF InGhost(t) THEN {} ELSE {Cpus}

\* A runnable task has to find a CPU first, a blocked one waits here for its
\* wakeup.
TaskNew(c) ==
  LET m == Msg(c)  t == m.task IN
  /\ Dispatching(c, "TASK_NEW")
  /\ \E mask \in AffinityRead(t) : task' = [task EXCEPT ![t] =
       [known |-> TRUE, state |-> IF m.flag THEN "kRunnable" ELSE "kBlocked",
        on_rq |-> IF m.flag THEN "kMigrating" ELSE "kDequeued",
        cpu |-> c, seqnum |-> m.seq, cpu_affinity |-> mask]]
  /\ mq' = IF m.flag THEN With(mq, c, t) ELSE mq
  /\ UNCHANGED <<current, rq>>
  /\ Handled(c)

TaskRunnable(c) ==
  LET m == Msg(c)  t == m.task
      ok == /\ task[t].cpu = c /\ AdvanceOk(m) /\ ValidState(task[t].state, "kRunnable")
            /\ ValidOnRq(task[t].on_rq, "kMigrating")
  IN
  /\ Dispatching(c, "TASK_WAKEUP")
  /\ \/ /\ ok
        /\ task' = [task EXCEPT ![t].state = "kRunnable", ![t].on_rq = "kMigrating",
                                ![t].seqnum = m.seq]
        /\ current' = [current EXCEPT ![c] = IF @ = t THEN NoTask ELSE @]
        /\ mq' = With(mq, c, t)
        /\ UNCHANGED rq
        /\ Handled(c)
     \/ ~ok /\ Abort("TaskRunnable", t)

\* Mutant: the pending migration of the task is not cancelled.
HandleTaskDoneKeeps(c) ==
  LET t == Msg(c).task IN
  /\ Dispatching(c, "TASK_DEPARTED") \/ Dispatching(c, "TASK_DEAD")
  /\ task' = [task EXCEPT ![t] = IF current[c] = t THEN [@ EXCEPT !.state = "kDone"]
                                                   ELSE FreeTask]
  /\ rq' = IF current[c] = t THEN rq ELSE Without(rq, c, t)
  /\ UNCHANGED <<current, mq>>
  /\ Handled(c)

\* TaskDeparted and TaskDead.  The current task is freed later, by
\* PickNextTask.
HandleTaskDone(c) ==
  LET t == Msg(c).task
      ok == task[t].cpu = c /\ ValidState(task[t].state, "kDone")
  IN
  /\ Dispatching(c, "TASK_DEPARTED") \/ Dispatching(c, "TASK_DEAD")
  /\ \/ /\ ok
        /\ mq' = Without(mq, c, t)
        /\ task' = [task EXCEPT ![t] = IF current[c] = t THEN [@ EXCEPT !.state = "kDone"]
                                                         ELSE FreeTask]
        /\ rq' = IF current[c] = t THEN rq ELSE Without(rq, c, t)
        /\ UNCHANGED current
        /\ Handled(c)
     \/ ~ok /\ Abort("HandleTaskDone", t)

\* PutPrevTask for the current task t of CPU c: back into the run queue, or
\* on its way to another CPU if its affinity does not allow this one.
PutPrevTask(c, t, seqnum) ==
  LET stays == c \in task[t].cpu_affinity IN
  /\ current' = [current EXCEPT ![c] = NoTask]
  /\ task' = [task EXCEPT ![t].state = "kRunnable", ![t].seqnum = seqnum,
                          ![t].on_rq = IF stays THEN "kQueued" ELSE "kMigrating"]
  /\ rq' = IF stays THEN With(rq, c, t) ELSE Without(rq, c, t)
  /\ mq' = IF stays THEN mq ELSE With(mq, c, t)

OffCpuOk(c, m) ==
  /\ m.cpu = c /\ current[c] = m.task /\ AdvanceOk(m)
  /\ ValidState(task[m.task].state, "kRunnable")
  /\ ValidOnRq(task[m.task].on_rq, "kQueued")

TaskYield(c) ==
  LET m == Msg(c) IN
  /\ Dispatching(c, "TASK_YIELD")
  /\ \/ OffCpuOk(c, m) /\ PutPrevTask(c, m.task, m.seq) /\ Handled(c)
     \/ ~OffCpuOk(c, m) /\ Abort("TaskYield", m.task)

TaskPreempted(c) ==
  LET m == Msg(c) IN
  /\ Dispatching(c, "TASK_PREEMPT")
  /\ \/ OffCpuOk(c, m) /\ PutPrevTask(c, m.task, m.seq) /\ Handled(c)
     \/ ~OffCpuOk(c, m) /\ Abort("TaskPreempted", m.task)

\* The task stays the current one until PickNextTask or its wakeup.
TaskBlocked(c) ==
  LET m == Msg(c)  t == m.task
      ok == /\ m.cpu = c /\ current[c] = t /\ AdvanceOk(m)
            /\ ValidState(task[t].state, "kBlocked")
  IN
  /\ Dispatching(c, "TASK_BLOCKED")
  /\ \/ /\ ok
        /\ task' = [task EXCEPT ![t].state = "kBlocked", ![t].seqnum = m.seq]
        /\ UNCHANGED <<current, rq, mq>>
        /\ Handled(c)
     \/ ~ok /\ Abort("TaskBlocked", t)

\* Only a task that waits in the run queue of a wrong CPU has to move now.
HasToMove(c, t, mask) == c \notin mask /\ Is(t, "kRunnable") /\ task[t].on_rq # "kMigrating"

TaskAffinityChanged(c) ==
  LET m == Msg(c)  t == m.task
      ok == task[t].cpu = c /\ AdvanceOk(m)
  IN
  /\ Dispatching(c, "TASK_AFFINITY_CHANGED")
  /\ \/ /\ ok
        /\ \E mask \in AffinityRead(t) :
             /\ task' = [task EXCEPT ![t].cpu_affinity = mask, ![t].seqnum = m.seq,
                                     ![t].on_rq = IF HasToMove(c, t, mask) THEN "kMigrating" ELSE @]
             /\ rq' = IF HasToMove(c, t, mask) THEN Without(rq, c, t) ELSE rq
             /\ mq' = IF HasToMove(c, t, mask) THEN With(mq, c, t) ELSE mq
        /\ UNCHANGED current
        /\ Handled(c)
     \/ ~ok /\ Abort("TaskAffinityChanged", t)

\* The time slice of the current task may have ended.
CpuTick(c) ==
  /\ At(c, "drain") /\ tick[c]
  /\ tick' = [tick EXCEPT ![c] = FALSE]
  /\ \/ current[c] # NoTask /\ preempt_curr' = [preempt_curr EXCEPT ![c] = TRUE]
     \/ UNCHANGED preempt_curr
  /\ UNCHANGED <<kernelVars, allowed, task, current, rq, mq, pc, localVars, failed>>

-------------------------------------------------------------------------------
(* Schedule: read the barrier, drain the channel, MigrateTasks.             *)

ReadBarrier(c) ==
  /\ At(c, "top")
  /\ stale' = [stale EXCEPT ![c] = FALSE]
  /\ Goto(c, "drain")
  /\ UNCHANGED <<taskVars, seq, assoc, chan, ast, rtla, cfsVars, allowed, tick, task,
                 cpuVars, localVars, failed>>

\* The channel is empty: the mutex is released.
DrainDone(c) ==
  /\ At(c, "drain") /\ chan[c] = <<>> /\ ~tick[c]
  /\ todo' = [todo EXCEPT ![c] = mq[c]]
  /\ Goto(c, "migrate")
  /\ UNCHANGED <<kernelVars, allowed, tick, task, cpuVars, next, balanceVars, onIdle, failed>>

\* The CPUs that SelectTaskRq may return: this one if it has nothing queued,
\* otherwise the least loaded one.  It takes the mutexes one after the other,
\* and the loads change while it looks.
SelectTaskRq(c, t) ==
  LET eligible == task[t].cpu_affinity IN
  IF eligible = {} \/ (c \in eligible /\ rq[c] = {}) THEN {c} ELSE eligible

MigrateOk(t) == task[t].known /\ task[t].on_rq = "kMigrating"

\* Migrate to the CPU the task is on.
MigrateHere(c, t) ==
  /\ c \in SelectTaskRq(c, t) /\ task[t].cpu = c
  /\ rq' = IF Is(t, "kRunnable") THEN With(rq, c, t) ELSE rq
  /\ task' = [task EXCEPT ![t].on_rq = IF Is(t, "kRunnable") THEN "kQueued" ELSE @]
  /\ mq' = Without(mq, c, t)
  /\ todo' = Without(todo, c, t)
  /\ UNCHANGED <<kernelVars, allowed, tick, current, preempt_curr, pc, next, balanceVars,
                 onIdle, failed>>

\* Migrate to CPU d, with d's mutex held from the association to the enqueue.
\* If the association fails, a message for the task has to be read first.
\* (The task leaves mq, which only this agent uses, when Migrate returns.)
MigrateTo(c, t, d) ==
  /\ d \in SelectTaskRq(c, t) /\ task[t].cpu # d /\ Unlocked(d)
  /\ todo' = Without(todo, c, t)
  /\ \/ /\ AssociateOk(t, task[t].seqnum)
        /\ assoc' = [assoc EXCEPT ![t] = d]
        /\ task' = [task EXCEPT ![t].cpu = d,
                                ![t].on_rq = IF Is(t, "kRunnable") THEN "kQueued" ELSE @]
        /\ rq' = IF Is(t, "kRunnable") THEN With(rq, d, t) ELSE rq
        /\ mq' = Without(mq, c, t)
        /\ target' = [target EXCEPT ![c] = d]
        /\ Goto(c, "ping")
        /\ UNCHANGED <<taskVars, seq, chan, agentVars, cfsVars>>
     \/ /\ ~AssociateOk(t, task[t].seqnum)
        /\ UNCHANGED <<kernelVars, task, rq, mq, target, pc>>
  /\ UNCHANGED <<allowed, tick, current, preempt_curr, next, imbalance, moving, onIdle, failed>>

\* MigrateTasks tries them one after the other.
MigrateTasks(c, t) ==
  /\ At(c, "migrate") /\ t \in todo[c]
  /\ \/ MigrateOk(t) /\ (MigrateHere(c, t) \/ \E d \in Cpus : MigrateTo(c, t, d))
     \/ ~MigrateOk(t) /\ Abort("MigrateTasks", t)

\* Mutant: the agent of the other CPU is not told.
PingCpuNot(c) ==
  /\ At(c, "ping")
  /\ target' = [target EXCEPT ![c] = 0]
  /\ Goto(c, "migrate")
  /\ UNCHANGED <<kernelVars, allowed, tick, task, cpuVars, next, todo, imbalance, moving,
                 onIdle, failed>>

PingCpu(c) ==
  /\ At(c, "ping")
  /\ WakeAgent(target[c])
  /\ target' = [target EXCEPT ![c] = 0]
  /\ Goto(c, "migrate")
  /\ UNCHANGED <<taskVars, seq, assoc, chan, cfsVars, allowed, tick, task, cpuVars, next,
                 todo, imbalance, moving, onIdle, failed>>

-------------------------------------------------------------------------------
(* CfsSchedule.                                                             *)

\* Mutant: a blocked task is put back too.
ReconciledBlocked(prev) ==
  IF prev = NoTask THEN task
  ELSE [task EXCEPT ![prev] =
          IF @.state = "kDone" THEN FreeTask
          ELSE [@ EXCEPT !.state = "kRunnable", !.on_rq = "kQueued"]]

\* What becomes of the previous task: freed, or back in the run queue.
Reconciled(prev) ==
  IF prev = NoTask THEN task
  ELSE [task EXCEPT ![prev] =
          CASE @.state = "kDone"    -> FreeTask
            [] @.state = "kBlocked" -> @
            [] OTHER -> [@ EXCEPT !.state = "kRunnable", !.on_rq = "kQueued"]]

\* The run queue of CPU c with it.
PutBack(c, prev) ==
  IF prev # NoTask /\ task[prev].state \in {"kRunnable", "kRunning"}
    THEN rq[c] \cup {prev} ELSE rq[c]

\* CFS wants the CPU: give up the current task and yield until the CPU is
\* idle again.
PrioBoost(c) ==
  LET prev == current[c] IN
  /\ At(c, "migrate") /\ todo[c] = {} /\ boosted[c]
  /\ task' = Reconciled(prev)
  /\ rq' = [rq EXCEPT ![c] = PutBack(c, prev)]
  /\ current' = [current EXCEPT ![c] = NoTask]
  /\ preempt_curr' = [preempt_curr EXCEPT ![c] = @ /\ prev = NoTask]
  /\ onIdle' = [onIdle EXCEPT ![c] = TRUE]
  /\ Goto(c, "yield")
  /\ UNCHANGED <<kernelVars, allowed, tick, mq, next, todo, balanceVars, failed>>

\* PickNextTask keeps the current task if nothing has happened to it.
KeepRunning(c) ==
  LET prev == current[c] IN
  /\ At(c, "migrate") /\ todo[c] = {} /\ ~boosted[c]
  /\ prev # NoTask /\ Is(prev, "kRunning") /\ ~preempt_curr[c]
  /\ next' = [next EXCEPT ![c] = prev]
  /\ Goto(c, "picked")
  /\ UNCHANGED <<kernelVars, allowed, tick, task, cpuVars, todo, balanceVars, onIdle, failed>>

\* The leftmost task t leaves the run queue q of CPU c and is returned.
Pick(c, q, tasks) ==
  \E t \in q :
    /\ task' = [tasks EXCEPT ![t].state = "kRunning", ![t].on_rq = "kDequeued"]
    /\ rq' = [rq EXCEPT ![c] = q \ {t}]
    /\ next' = [next EXCEPT ![c] = t]
    /\ Goto(c, "picked")

\* PickNextTask otherwise.  It returns `next', or nothing; cs->current stays
\* what it was, a task that has just been freed included.
PickNextTask(c) ==
  LET prev == current[c]  q == PutBack(c, prev) IN
  /\ At(c, "migrate") /\ todo[c] = {} /\ ~boosted[c]
  /\ ~(prev # NoTask /\ Is(prev, "kRunning") /\ ~preempt_curr[c])
  /\ preempt_curr' = [preempt_curr EXCEPT ![c] = FALSE]
  /\ \/ Pick(c, q, Reconciled(prev))
     \/ /\ q = {}
        /\ task' = Reconciled(prev)
        /\ Goto(c, IF "balance" \in CfsEvents THEN "balance" ELSE "picked")
        /\ UNCHANGED <<rq, next>>
  /\ UNCHANGED <<kernelVars, allowed, tick, current, mq, todo, balanceVars, onIdle, failed>>

\* ShouldWeBalance, FindBusiestQueue and CalculateImbalance read the sizes of
\* the run queues without locks.
LoadBalance(c) ==
  LET size(d) == Cardinality(rq[d])
      n(d) == (size(d) - size(c)) \div 2
  IN
  /\ At(c, "balance")
  /\ \/ \E d \in Cpus \ {c} :
          /\ rq[c] = {} /\ n(d) >= 1
          /\ \A e \in Cpus : size(e) <= size(d)
          /\ target' = [target EXCEPT ![c] = d]
          /\ imbalance' = [imbalance EXCEPT ![c] = Least(n(d), kMaxTasksToLoadBalance)]
          /\ Goto(c, "detach")
     \/ /\ rq[c] # {} \/ \A d \in Cpus : n(d) < 1
        /\ Goto(c, "picked")
        /\ UNCHANGED <<target, imbalance>>
  /\ UNCHANGED <<kernelVars, allowed, tick, task, cpuVars, next, todo, moving, onIdle, failed>>

\* Mutant: tasks are pulled whose messages have not been read.
CanMigrateStale(t, c) == c \in task[t].cpu_affinity /\ InGhost(t)

\* CanMigrateTask, which also associates the task with the new channel.
CanMigrateTask(t, c) == c \in task[t].cpu_affinity /\ AssociateOk(t, task[t].seqnum)

\* A pull ends at `imbalance' tasks, and leaves the last one to the source.
Pulls(c, src, n) == Least(Least(imbalance[c], n), IF rq[src] = {} THEN 0 ELSE Cardinality(rq[src]) - 1)

\* DetachTasks pulls up to `imbalance' tasks, with the mutex of the source held.
DetachTasks(c) ==
  LET src == target[c]
      can == {t \in rq[src] : CanMigrateTask(t, c)}
  IN
  /\ At(c, "detach") /\ Unlocked(src)
  /\ \E pulled \in SUBSET can :
       /\ Cardinality(pulled) = Pulls(c, src, Cardinality(can))
       /\ moving' = [moving EXCEPT ![c] = pulled]
       /\ rq' = [rq EXCEPT ![src] = @ \ pulled]
       /\ assoc' = [t \in Tasks |-> IF t \in pulled THEN c ELSE assoc[t]]
       /\ task' = [t \in Tasks |-> IF t \in pulled
                     THEN [task[t] EXCEPT !.cpu = c, !.on_rq = "kDequeued"] ELSE task[t]]
       /\ Goto(c, IF pulled = {} THEN "picked" ELSE "attach")
  /\ target' = [target EXCEPT ![c] = 0]
  /\ imbalance' = [imbalance EXCEPT ![c] = 0]
  /\ UNCHANGED <<taskVars, seq, chan, agentVars, cfsVars, allowed, tick, current, mq,
                 preempt_curr, next, todo, onIdle, failed>>

AttachTasks(c) ==
  /\ At(c, "attach")
  /\ rq' = [rq EXCEPT ![c] = @ \cup moving[c]]
  /\ task' = [t \in Tasks |-> IF t \in moving[c] THEN [task[t] EXCEPT !.on_rq = "kQueued"]
                                                 ELSE task[t]]
  /\ moving' = [moving EXCEPT ![c] = {}]
  /\ Goto(c, "pickpulled")
  /\ UNCHANGED <<kernelVars, allowed, tick, current, mq, preempt_curr, next, todo, target,
                 imbalance, onIdle, failed>>

\* NewIdleBalance picks one of the tasks it has pulled.
NewIdleBalance(c) ==
  /\ At(c, "pickpulled")
  /\ \/ Pick(c, rq[c], task)
     \/ rq[c] = {} /\ Goto(c, "picked") /\ UNCHANGED <<task, rq, next>>
  /\ UNCHANGED <<kernelVars, allowed, tick, current, mq, preempt_curr, todo, balanceVars, onIdle,
                 failed>>

\* Only now is cs->current what has been picked.
SetCurrent(c) ==
  /\ At(c, "picked")
  /\ current' = [current EXCEPT ![c] = next[c]]
  /\ Goto(c, IF next[c] = NoTask THEN "yield" ELSE "commit")
  /\ UNCHANGED <<kernelVars, allowed, tick, task, rq, mq, preempt_curr, localVars, failed>>

\* Wait until the task is off its CPU, then commit.  If the commit fails the
\* task stays the current one and the messages will tell.
Commit(c) ==
  LET t == next[c]  state == TxnState(c, t, task[t].seqnum) IN
  /\ At(c, "commit") /\ oncpu[t] = NoCpu
  /\ \/ /\ state = "COMPLETE"
        /\ RunTask(c, t)
        /\ next' = [next EXCEPT ![c] = NoTask]
        /\ Goto(c, "top")
        /\ UNCHANGED <<kst, seq, assoc, chan, stale, rtla, cfsVars, failed>>
     \/ /\ state \notin {"COMPLETE", "TARGET_NOT_RUNNABLE"}
        /\ next' = [next EXCEPT ![c] = NoTask]
        /\ Goto(c, "top")
        /\ UNCHANGED <<kernelVars, failed>>
     \/ /\ state = "TARGET_NOT_RUNNABLE"
        /\ failed' = [in |-> "CompleteRunRequest", task |-> t]
        /\ UNCHANGED <<kernelVars, next, pc>>
  /\ UNCHANGED <<allowed, tick, task, cpuVars, todo, balanceVars, onIdle>>

LocalYield(c) ==
  /\ At(c, "yield")
  /\ \/ stale[c] /\ UNCHANGED <<ast, rtla>>
     \/ ~stale[c] /\ BlockAgent(c, onIdle[c])
  /\ onIdle' = [onIdle EXCEPT ![c] = FALSE]
  /\ Goto(c, "top")
  /\ UNCHANGED <<taskVars, seq, assoc, chan, stale, cfsVars, allowed, tick, task, cpuVars,
                 next, todo, balanceVars, failed>>

-------------------------------------------------------------------------------
Handler(c) ==
  \/ TaskNew(c) \/ TaskRunnable(c) \/ HandleTaskDone(c) \/ TaskYield(c)
  \/ TaskPreempted(c) \/ TaskBlocked(c) \/ TaskAffinityChanged(c) \/ CpuTick(c)

AgentStep(c) ==
  \/ ReadBarrier(c) \/ Handler(c) \/ DrainDone(c)
  \/ \E t \in Tasks : MigrateTasks(c, t)
  \/ PingCpu(c) \/ PrioBoost(c) \/ KeepRunning(c) \/ PickNextTask(c)
  \/ LoadBalance(c) \/ DetachTasks(c) \/ AttachTasks(c) \/ NewIdleBalance(c)
  \/ SetCurrent(c) \/ Commit(c) \/ LocalYield(c)

KernelStep ==
  /\ failed = NoFailure
  /\ \/ KernelNext /\ UNCHANGED <<allowed, tick>>
     \/ \E t \in Tasks, mask \in SUBSET Cpus \ {{}} : KSetAffinity(t, mask)
     \/ \E c \in Cpus : KTick(c)
  /\ UNCHANGED cfsSchedVars

Next == KernelStep \/ \E c \in Cpus : AgentStep(c)

Spec == Init /\ [][Next]_vars
-------------------------------------------------------------------------------
(* Properties.                                                              *)

(***************************************************************************)
(* "A non-blocked task can be either on run_queue or migration_queue but   *)
(* cannot be on the both queues" (CpuState): every task that is not        *)
(* blocked is in exactly one place, a run queue, a migration queue, the    *)
(* current of a CPU or the hands of a load balancer, and it is the place   *)
(* that its states and its cpu name.  No queue holds a freed task.         *)
(* Between PickNextTask and the assignment of cs->current, `next' counts,  *)
(* and cs->current is out of date (see CurrentIsAlive).                    *)
(***************************************************************************)
Picking == {"balance", "detach", "attach", "pickpulled", "picked"}

Chosen == [c \in Cpus |-> IF pc[c] \in Picking THEN next[c] ELSE current[c]]

Places(t) ==
  {<<"rq", c>> : c \in {d \in Cpus : t \in rq[d]}}
    \cup {<<"mq", c>> : c \in {d \in Cpus : t \in mq[d]}}
    \cup {<<"current", c>> : c \in {d \in Cpus : Chosen[d] = t}}
    \cup {<<"moving", c>> : c \in {d \in Cpus : t \in moving[d]}}

PlaceOf(t) ==
  LET r == task[t] IN
  IF ~r.known THEN {} ELSE
  CASE r.state \in {"kRunning", "kDone"}                      -> {<<"current", r.cpu>>}
    [] r.state = "kBlocked"                                   -> Places(t) \cap {<<"current", r.cpu>>}
    [] r.state = "kRunnable" /\ r.on_rq = "kQueued"           -> {<<"rq", r.cpu>>}
    [] r.state = "kRunnable" /\ r.on_rq = "kMigrating"        -> {<<"mq", r.cpu>>}
    [] OTHER                                                  -> {<<"moving", r.cpu>>}

RunqueueOK == TypeOK /\ \A t \in Tasks : Places(t) = PlaceOf(t)

(***************************************************************************)
(* cs->current is a task that exists: CpuState is reconciled "with the     *)
(* messaging relating to prev" before UpdateMinVruntime, which             *)
(* dereferences it.                                                        *)
(***************************************************************************)
CurrentIsAlive == \A c \in Cpus : current[c] # NoTask => task[current[c]].known

(***************************************************************************)
(* No CHECK of a message handler, of MigrateTasks or of a commit fails:    *)
(* the messages about a task arrive at the agent that holds the mutex of   *)
(* the task's CPU, and the changes of state they ask for are ones that     *)
(* CfsTaskState accepts, however migrations and load balancing race with   *)
(* wakeups and departures.  (The changes of state by PickNextTask,         *)
(* PutPrevTask, Migrate and the load balancer start from the states that   *)
(* RunqueueOK gives the tasks of a queue; they are not tested here.)       *)
(***************************************************************************)
ChecksHold == failed = NoFailure

(***************************************************************************)
(* Once the messages of a task have been read, the scheduler agrees with   *)
(* the kernel.                                                             *)
(***************************************************************************)
Drained(t) == \A c \in Cpus : \A i \in 1 .. Len(chan[c]) : chan[c][i].task # t

ViewAgrees ==
  \A t \in Tasks : InGhost(t) /\ Drained(t) =>
    /\ task[t].known
    /\ task[t].seqnum = seq[t]
    /\ task[t].cpu_affinity = allowed[t]
    /\ Is(t, "kBlocked") <=> kst[t] = "blocked"

(***************************************************************************)
(* No wakeup is lost: when all agents sleep, a runnable task is on a CPU,  *)
(* or it waits at a CPU that is busy with another task or with CFS.        *)
(***************************************************************************)
Busy(c) == (\E t \in Tasks : oncpu[t] = c) \/ (boosted[c] /\ rtla[c])

NoLostWakeup ==
  (failed = NoFailure /\ \A c \in Cpus : ast[c] = "sleeping") =>
    \A t \in Tasks : kst[t] = "runnable" =>
      oncpu[t] # NoCpu \/ (task[t].known /\ Busy(task[t].cpu))
==============================================================================
