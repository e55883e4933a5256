# A TLA+ verification of ghost-userspace

ghOSt lets user-space processes schedule threads. The kernel's ghOSt class
sends *messages* about threads through channels; *agent* threads in user space
read them and answer with *transactions* ("run this thread on that CPU"). The
repository holds the library the agents are built on (`lib/`), a family of
schedulers (`schedulers/`), what clients and agents share (`shared/`), BPF
schedulers and tools (`bpf/`, `third_party/bpf/`), a supervisor that swaps
schedulers at run time (`orca/`), and workloads (`experiments/`).

This directory holds TLA+ models of that code, TLC configurations that check
them on small instances, and TLAPS proofs for all values of the constants.
`PROJECT.json` lists components, runs, mutants, hazards, findings, theorems and,
for every definition that models code, the source lines it stands for.

Check a model: `tlc -config FifoPerCpu.cfg MCFifoPerCpu`.
Check a proof: `tlapm FifoPerCpuProofs.tla`.

## 1. Inventory

| Part | State | Operations | What is hard |
|---|---|---|---|
| `lib/channel` | ring of messages: uint32 head, tail, overflow | Peek, Consume, AssociateTask | wrap-around, full ring, association racing new messages |
| `lib/scheduler.h` | allocator gtid -> Task, each Task's seqnum | DispatchMessage, Advance, DiscoverTasks | messages for unknown or freed tasks, incarnations of one gtid, restarts |
| `lib/enclave` | agents, CPUs, run requests, agent_online | Ready, Attach/Detach, Open/Commit/Abort, sync groups, LocalYield, Ping, PrepareToExit | stale barriers, partial failure of a group commit, hand-over between processes |
| `lib/agent` | per agent four Notifications and a thread; AgentProcess: shared blob | StartBegin/Complete, TerminateBegin/Complete, Rpc | start and stop protocols, lost pings, re-used Notifications |
| `lib/base` | Notification word, futex, ForkedProcess table | Notify, WaitForNotification, Reset, fork, SIGCHLD | lost wakeups |
| `schedulers/fifo/per_cpu` | run queue and current per CPU; per task run_state, cpu, prio_boost | seven message handlers, Migrate, FifoSchedule | one agent per CPU, a task handed from one agent to another, SwitchTo, CFS preemption |
| `schedulers/fifo/centralized` | one run queue, current per CPU, yielding tasks | handlers, GlobalSchedule, PickNextGlobalCPU | preempting a remote task, commits that fail, handing over the global CPU |
| `schedulers/cfs` | vruntime-ordered run queue, migration queue, idle load balancing | handlers, MigrateTasks, LoadBalance | lock order, migration while messages arrive |
| `schedulers/edf`, `shinjuku`, `sol` | global run queues, per-task scheduling parameters | handlers, GlobalSchedule, PrioTable updates, timeslices | stale parameters, asynchronous commits |
| `schedulers/biff`, `flux`, `cfs_bpf`, `orca` | BPF maps | BPF programs choose, agents only idle | per-CPU concurrency inside the kernel |
| `shared/prio_table` | sched_items under seqcounts, a stream of updated indices | MarkUpdatedIndex, NextUpdatedIndex, seqcount | unlocked reader and writers, overflow |
| `shared/fd_server` | socket, nonce, thread count | Serve, GetSharedFd | timeouts, concurrent limits |
| `orca` | current scheduler process, pending acknowledgements, metrics | SetScheduler, DetermineScheduler, metrics | acknowledgements matched to the wrong scheduler, crashes |
| `experiments`, `util`, `bpf/user`, topology, logging | workloads, tools | - | not core logic |

How the parts interact: the kernel writes a channel and moves the barrier of
the agent that owns it; the agent drains the channel through `DispatchMessage`
into its scheduler's handlers, then commits a transaction or yields, naming the
barrier it read *before* draining so that the kernel refuses (ESTALE) if it has
missed anything. Agents of one process share the schedulers' objects and ping
each other through the kernel. The main thread starts and stops them with
Notifications; a parent process controls the agent process with an RPC through
shared memory.

What makes each part correct: a task is in exactly one place and nothing points
to a freed one; the agents' view equals the kernel's once the messages are
consumed; no task and no wakeup is lost; no CHECK fails; every runnable task
runs; a waiter returns exactly when notified; start, RPC and termination
complete. The list of hazards in `PROJECT.json` names the lines where each of
these could go wrong.

## 2. Modules

| Module | Models |
|---|---|
| `GhostKernel` | the kernel as per-CPU agents see it (external): thread states, status words, channels, barriers, association, local transactions, yields, SwitchTo, CFS |
| `FifoPerCpu` | `schedulers/fifo/per_cpu` with `DispatchMessage`; extends `GhostKernel` |
| `CfsScheduler` | `schedulers/cfs`; extends `GhostKernel` |
| `GlobalKernel` | the kernel as a global agent sees it (external): one channel, remote transactions, CPUs that switch later |
| `GlobalAgent` | the agent loop of the centralized schedulers: who is global, yields, PickNextGlobalCPU's ping; extends `GlobalKernel` |
| `FifoCentralized` | `schedulers/fifo/centralized`; extends `GlobalAgent` |
| `Queues` | the std::deque run queue of the two FIFO schedulers |
| `ChannelRing` | `lib/channel`: the ring with wrapping indices and overflow |
| `PrioTable` | `shared/prio_table` and its reader, the orchestrators' RefreshSchedParams |
| `TaskDiscovery` | `lib/scheduler.h` DiscoverTasks, with the status words (external) |
| `Trigger` | abstract: what a Notification promises |
| `Notification` | `lib/base` Notification and Futex, one step per atomic access |
| `OneShotNotification` | Notifications used once, with the refinement mapping to `Trigger` |
| `AgentLifecycle` | `lib/agent`, `Enclave::Ready`: start, main loop, termination; extends `Notification` |
| `AgentRpc` | `AgentProcess` and its RPC; extends `Notification` |
| `Orca` | `orca/`: the server that runs and replaces schedulers |
| `QueueProofs` | lemmas about the operators of `Queues` |
| `NotifyProofs` | lemmas about a step inside a call of a `Notification`, as its users see it |
| `FifoPerCpuProofs` | theorems about `FifoPerCpu` (section 5) |
| `CfsProofs` | theorems about `CfsScheduler` |
| `FifoCentralizedProofs` | theorems about `FifoCentralized` |
| `SharedMemoryProofs` | theorems about the components of `MCSharedMemory` |
| `AgentLifecycleProofs` | theorems about `AgentLifecycle` |
| `ProcessProofs` | theorems about the components of `MCProcesses` |
| `MCFifoPerCpu`, `MCFifoCentralized`, `MCCfsScheduler`, `MCAgentLifecycle` | instances for TLC |
| `MCSharedMemory`, `MCProcesses` | instances that put independent components side by side: a variable `system` says which one a behaviour is about, and every property is about the variables of one |

### GhostKernel and FifoPerCpu

Kernel variables: `kst` (new, blocked, runnable, dying, dead, departed), `oncpu`
and `via` (where a task runs and why), `seq` (status-word barrier), `assoc`
(which channel), `chan`, and per agent `ast`, `stale` (the barrier moved since
it was read), `rtla`. Agent variables keep the names of the code: `run_state`,
`seqnum`, `prio_boost`, `current`, `rq`; `tcpu` is `FifoTask::cpu`, `known` the
allocator's map, `nextCpu` the static iterator of AssignCpu, `next`, `target`
and `onIdle` are locals of FifoSchedule and Migrate, and `failed` records the
CHECK that has aborted the process.

Granularity. A handler that touches only its own CPU's state is one action,
including the trailing Ping, Advance and Consume. Migrate is the one place
where two agents meet, and it is split: the association (from then on the other
agent may receive messages for the task), MigrateEnqueue, MigratePing, and the
Advance and Consume that DispatchMessage and Schedule do afterwards.
`task->cpu = ...` and the enqueue are one action: what the other agent could do
in between ends in the same CHECKs that the model already reaches one step
earlier. FifoSchedule is pick, spin on on_cpu, commit, and (when the agent is
back on its CPU) TaskOnCpu. A failed CHECK and the use of a freed task are
explicit outcomes of every action that has one.

Left out: metrics (`updateState`, `CollectMetric`, `deadTasks`, the Orca
messenger), DumpState, the `preempted` flag, which nothing in per_cpu reads.
SwitchTo targets are tasks that some agent has run before (`ran`): a
from_switchto message about a task whose cpu is still -1 would fail
cpu_state_of's CHECK_GE. Sequence numbers are small naturals; a task sends at
most MaxSeq messages, so 32-bit wrap-around is not reached.

### GlobalKernel, GlobalAgent and FifoCentralized

Only the global agent touches the scheduler's data, so a handler is one step.
GlobalSchedule is not: the clients run on between its looks at the status words
(`available`), its choices (`assigned`), its commits and the re-queueing of the
tasks that had to skip the round (Unyield, a task at a time). A commit latches the
task; the CPU switches a little later, and until then the task that ran there
may block, yield or leave. A task that a transaction preempts is queued by the
agent and not reported by the kernel. `task` holds the FifoTasks, `yielding` is
yielding_tasks_.

A time slice ends nondeterministically. PickNextGlobalCPU chooses any other
available CPU (the topology's order of preference is left out) and stays where
it is only if there is none: the counter `iterations_` that would make it move
for balance is never incremented in the source, so that branch is dead.

GlobalKernel has one channel and no re-entry, so that a TASK_NEW never finds its
task known and another message always does: the early returns of DispatchMessage
(`scheduler.h:552-570`), which FifoPerCpu models as IgnoreMessage, are out of
reach here and have no action.

### CfsScheduler

The mutex of a run queue also guards the tasks associated with that CPU. An
agent that drains its channel holds its own mutex for as long as it does; every
other critical section is one step. What happens between two critical sections
is visible: the migration queue between StartMigrateTask and MigrateTasks, and
the tasks that DetachTasks has taken and AttachTasks has not yet put down
(`moving`). A run queue is a set, any member of which may have the smallest
vruntime; that covers every order of vruntimes and weights. The sizes that the
load balancer reads without a lock are read in steps of their own.

PickNextTask does not touch `cs->current`: it returns `next`, and CfsSchedule
assigns it (SetCurrent) after NewIdleBalance, in which other agents run. Until
then `current` is still the previous task, which may be queued again, pulled to
another CPU or freed (finding 4); the task that belongs to the CPU is what was
picked (`Chosen`), and RunqueueOK is about that one. The CHECKs that the model
evaluates are those of the handlers, of MigrateTasks and of the commit; the
transitions that PickNextTask, PutPrevTask, Migrate and the load balancer make
start from the states that RunqueueOK gives the tasks of a queue. SchedGetAffinity
fails for a thread that no longer exists; a handler then takes all CPUs
(`AffinityRead`). The task that MigrateTasks has moved leaves the agent's own list
with the move and not after the ping: nobody else looks at that list.

Seen while modelling and not stated as properties: InsertTaskIntoRq may
move min_vruntime_ backwards; TaskSwitchto is not supported (the CHECKs on
`current` would fail), and so the model leaves out SwitchTo; and the comment before StartMigrateTask in
TaskAffinityChanged ("affinity will be honored at ...") does not hold in one
interleaving of two affinity changes with a migration: with the comment as an
invariant TLC finds a task queued outside its affinity.

### ChannelRing, PrioTable, TaskDiscovery

`ChannelRing` keeps the arithmetic: indices modulo IndexWrap, lengths modulo
LenWrap, a message that takes one or two slots, a MSG_NOP that fills up the end
of the array, drops at a full ring. The history variable `queue` is the FIFO
that the schedulers' modules assume.

`PrioTable` has one action per access to shared memory, of the clients and of
the agent: write_seqcount_begin, the fields, write_seqcount_end,
MarkUpdatedIndex with its retries, NextUpdatedIndex with the exchange of
scrape_all, and the copy under read_seqcount. An item has two fields so that a
torn copy can be told from a consistent one. Shinjuku's MakeEngineRunnable, by
which the agent itself sets an item's runnable flag outside the seqcount
(`shinjuku_orchestrator.cc:99-110`), is left out.

`TaskDiscovery` runs against a kernel that goes on: threads are woken, leave,
arrive and come back between any two steps of the scan. `past` and `confused`
record the history that the properties need. The result: the scan and the drain
of the default queue leave exactly the kernel's view, unless a thread was
associated through a status word of an earlier incarnation; and the process
aborts only because of a thread that was in ghOSt before, or that came and left
while the scan was under way. (In that case its status word is freed after
ENOENT or ESTALE while TASK_NEW and TASK_DEPARTED are still to be read, so that
FreeTask's CHECK fails; or an orphaned word and a live one of the same gtid give
"Already had task".)

### Notification, AgentLifecycle, AgentRpc

`op[th]` is where thread th is inside WaitForNotification or Notify, and on
which object. FUTEX_WAIT compares and sleeps atomically, may return for no
reason, and may be interrupted by a signal. On x86-64 a weak
compare-and-exchange fails only if the values differ. The second load that
Notify's CHECK makes is part of NotifyLoad: if the word becomes kNotified
between the two loads, the exchange fails and the next round fails the CHECK.

`AgentLifecycle` reduces scheduling to one client task per CPU that arrives,
is run, blocks or is interrupted; what counts is whether the agent sleeps and
whether its barrier is stale. `Orders` selects between the two loop orders in
the repository: FALSE is that of all schedulers
(`while (!Finished() || ...) Schedule()`), TRUE that of `tests/api_test.cc`,
which no scheduler has. Of agent_online only the older process's end is tracked;
that TerminateAgentTasks closes this process's own (PrepareToExit) is in AgentRpc.

`AgentRpc` numbers the requests; the response is a record of the request that
the code and the buffer belong to. Nothing in the code keeps Rpc() and
~AgentProcess apart, and nothing does in the model: a call may be under way or
begin while the child shuts down (UnsetFullAgent, GoOffline, DestroyFullAgent,
ExitChild), and a call on a deleted AgentProcess ends the behaviour (UseDeleted;
"this is racy", `fifo_agent.cc:86`). The RPC thread looks at full_agent_ twice
(LoadFullAgent, LoadFullAgentAgain). If the pointer is null the process crashes;
an object whose destructor has begun may still answer, and one that is destroyed
may answer anything. TerminateAgentTasks is the step DestroyFullAgent, which
nothing obliges to happen: finding 3 shows that it may not.

The comment in PrepareToExit says of an observer that sees agent_online closed and
then contacts the agent that it "must see IsOnline == false" (`enclave.cc:696-697`).
The RPC thread asks the FullAgent for that, but `full_agent_ = nullptr`
(`agent.h:620`) stores the null pointer before the destructor goes offline: such a
call dereferences it, and -ENODEV is the answer only to a call whose handler had
loaded the pointer before. Only programs that keep Rpc() and ~AgentProcess apart
are safe from this, and that is what HandlerUsesLiveAgent says.

### Orca

One thread around select(): a round serves the TCP socket (accept, recv_full,
set_scheduler), the UDP socket (metrics, DetermineScheduler) and the scheduler's
standard output, in this order, with the descriptors of the top of the round.
Schedulers are numbered in the order of their start. A scheduler may crash, a
client may die between connect and send.

What the run established about the acknowledgements: a client is acknowledged
for its own scheduler or a later one, with one exception, stated in
AckedWhenActive: in the round that serves it, a line of the scheduler that has
just been replaced is taken for that of the new one. A client waits forever only
if the last scheduler crashed before its line, or the server is stuck in
recv_full on a connection whose client died. Other observations: the read ends
of the pipes of replaced schedulers are never closed; SetScheduler does not
clear the analyzer, so metrics of the old scheduler count for the decision about
the next; with no metrics the variance is NaN, the comparison is false and
DetermineScheduler picks dFCFS. Waiting for the old scheduler (waitpid) rests on
its termination completing: see finding 3.

## 3. Runs

| Run | Instance | States | Shows |
|---|---|---|---|
| `fifo_percpu` | 2 CPUs, 2 tasks, 5 messages per task, all events but CFS and re-entry | 537 106 | RunqueueOK, ViewAgrees, NoTaskForgotten, ChecksHold, NoLostWakeup, OnlyDefaultAgentMigrates |
| `fifo_live` | 2 CPUs, 2 tasks, 4 messages, yields, CFS takes a CPU once | 135 072 | RunnableRuns under fairness |
| `fifo_again` | 2 CPUs, 2 tasks, 3 messages, one of them comes back to ghOSt once | 190 891 | OvertakenDeparture |
| `fifo_migrate`, `fifo_reenter` | departures, re-entry | violations | findings 1 and 2 |
| `fifo_centralized` | 2 CPUs, 2 tasks, 2 disturbances | 223 352 | RunqueueOK, ChecksHold, OneGlobalAgent, ViewAgrees, RunnableRuns |
| `cfs` | 2 CPUs, 2 tasks, 4 messages per task, affinity changes, ticks, balancing | 2 691 113 | RunqueueOK, ChecksHold, ViewAgrees, NoLostWakeup |
| `cfs_current` | the same | violation | finding 4 |
| `shared_memory` | 3 waiters and 2 Notifications; a ring of 8 slots; 2 clients, 3 items, 2 cells, 3 updates; 2 threads, 3 status words, 4 kernel steps | 646 929 | SleepersAreSeen, IsTrigger; PeeksOldest, DropIsNoticed; NoUpdateLost, NoTornCopy; DiscoveryAgrees, AbortsOnlyOnReentry |
| `lifecycle` | 2 agents, both loop orders | 51 647 | start and stop protocols, StartupCompletes, BarrierFirstTerminates |
| `lost_exit` | 2 agents, the schedulers' loop | violation | finding 3 |
| `processes` | RPC: 2 callers, 2 calls; Orca: 2 clients, 2 crashes, 2 metrics | 270 574 | AnswersOwnRequest, HandlerUsesLiveAgent, RpcReturns, ShutdownCompletes; OneSchedulerAtATime, AckedWhenActive, RequestsAnswered |

Bounds. Two CPUs give a default agent and one that is not; two tasks give a
busy CPU with a waiter, both ends of a SwitchTo and a round of AssignCpu that
wraps. Five messages are a TASK_NEW, a wakeup, a yield or preemption, a block and
a departure or death, with a backlog while an agent is away.
In the `fifo_*` runs of the per-CPU scheduler MaxDisturb bounds how often CFS takes a CPU or a thread
comes back to ghOSt. One return is what OvertakenDeparture is about: it tells
when DispatchMessage "already had task for gtid". With two returns even that is
lost: the seqnums of every incarnation start over, so that an association or a
message can be taken for that of a later one.

In `fifo_centralized` MaxDisturb bounds wakeups, yields, departures, arrivals of
CFS, ends of a time slice and tasks given to a CPU whose agent has not yielded
yet, all together; blocking and exiting are not bounded by it. Two are enough for
a preempted task to block or leave while its CPU switches, and for the global
CPU to be handed over and back. The safety properties were also checked with
three CPUs (2 634 833 states) and with three disturbances (1 315 574 states).
With two CPUs `cfs` has a busy and an idle one to balance, one CPU to migrate
from and one to; CFS takes a CPU away once.

The ring of 8 slots with indices modulo 16 wraps both; lengths {2, 3} of slots of
2 bytes, modulo 4, make a rounding in the narrow type overflow. Two cells for
three items and three updates make the stream overflow into scrape_all; one
retry lets a client find both cells taken. Three status words for two threads
hold a live and a stale one of the same gtid. In the RPC two calls, by
one caller or by two, re-use both Notifications, contend for the mutex and overlap
every step of the destructor (three calls, 522 446 states, were
checked as well, and the proofs are for any number); two
crashes let Orca lose the scheduler a client waits for and the one that replaces
it.

Symmetry is used in `cfs` only, over tasks, with invariants only. Deadlock
checking is off where the system may stop: the clients have used up their
messages, a CHECK has failed, the server waits for a client, or the process has
ended; the liveness properties and NoLostWakeup say what must have happened by
then. RunqueueOK of FifoCentralized and of CfsScheduler includes the module's
TypeOK; the other modules' TypeOK is there for the reader and for later proofs.

ChecksHold in `fifo_percpu` says precisely which CHECKs can fail and when (a
task that departs while it is being migrated); finding 1 says how it happens.
In `fifo_centralized` and `cfs` no CHECK that the model
evaluates fails at all.

Fairness. Agents have the highest priority on their CPU, so an agent that is on
its CPU keeps executing and a woken one gets it (weak fairness of AgentStep and
KAgentSwitchIn); a thread that leaves a CPU does leave it, and a CPU that has a
latched task switches to it (KSwitch); CFS does not keep a CPU forever; a client
thread blocks at some point. (For `fifo/per_cpu` this is needed because it never
preempts; in the bounded model of `fifo/centralized` because time slices end
only MaxDisturb times.) Threads inside a Notification keep running; nothing
obliges anybody to call Rpc or to destroy the AgentProcess, nor
TerminateAgentTasks to return. RpcReturns therefore excepts the calls that
~AgentProcess overtakes, and ShutdownCompletes says that ~AgentProcess returns
unless an RPC that overlaps it has ended the process or TerminateAgentTasks
never returns (finding 3): no RPC, however late, keeps kill_agent_ from the child.
In AgentLifecycle the
older process closes agent_online and its agents leave ("gone or in the act of
dying", `lib/agent.cc`). In Orca the loop runs on, a scheduler that does not
crash writes its line and exits on SIGINT, and a client that has connected sends
or dies; nothing obliges a client to connect or a scheduler to crash.

## 4. Findings

1. `fifo_migrate`: "so it's safe to migrate" (`fifo_scheduler.cc:138-140`) does
   not hold for a thread that leaves ghOSt after its first wakeup; the CHECK in
   Migrate aborts the agents. If the thread leaves between the association and the
   enqueue, a CHECK of TaskDeparted fails at the other agent; and if that agent
   has freed the task, the default agent's Advance (`scheduler.h:622`) writes to
   freed memory, against "the only agent task that is allowed to muck with Task is
   whoever handles the queue" (`enclave.cc:59-60`). These are the three failures
   that ChecksHold excepts; without one of the exceptions TLC finds its trace.
2. `fifo_reenter`: a thread that leaves and re-enters ghOSt can be forgotten
   when its TASK_NEW overtakes its TASK_DEPARTED on another channel. Re-entry
   also breaks RunqueueOK, ChecksHold and OnlyDefaultAgentMigrates: a message of
   the old incarnation, read by the agent the thread used to belong to, is
   applied to the new one.
3. `lost_exit`: every scheduler evaluates Finished() before it reads the agent
   barrier, so the ping of TerminateBegin can be lost and termination hangs.
4. `cfs_current`: PickNextTask frees a task that has left or died and leaves
   `cs->current` pointing to it ("points to the CfsTask that we most recently
   picked", `cfs_scheduler.h:408`) until `cfs_scheduler.cc:778`; UpdateMinVruntime
   dereferences it in between. The branch for a boosted agent clears it first.

## 5. Proofs

### FifoPerCpu

`FifoPerCpuProofs`: **TypeSafe**, `Spec => []TypeOK` for all constants. TypeOK is
not inductive: MigrateEnqueue uses `target[c]` and the head of the channel, the
commit uses `next[c]`. The strengthening ControlOK ties them to `pc`.

**RunqueueSafe** and **MigrationSafe**, from `Spec` and `"reenter" \notin Events`
(finding 2 and the run `fifo_reenter` show that the assumption is needed). The
inductive invariant is `TypeInv /\ PlaceInv /\ OwnerInv /\ MsgInv`:
PlaceInv is the place of every task, by run_state and by the agent's label;
OwnerInv says that a task that is known, has a CPU or is being handed over is
associated with exactly that CPU, so that only one agent touches it; MsgInv says
that a task's unread messages lie in the channel it is associated with, with
TASK_NEW first and a last message last, so that a handler finds the state it
CHECKs. One step per action shows that each part is preserved.

**ChecksSafe**, **ViewSafe** and **NobodyForgotten**, under the
same assumption. ChecksSafe says which CHECKs can fail, and only for a task that
has departed while it was migrated (Migrate, TaskDeparted and the use of a freed
task, finding 1); the others hold. The first two, and that
a task without unread messages is known, depend on each other: that a handler's CHECK holds
depends on which messages can arrive in which state of the task, and that on what
the agents have put on the CPUs. ViewInv, on top of the invariant above, says of
every *unread* message of a task (one that no agent has given effect to; the
message that Migrate works on is still in the channel but counts as read, and its
Advance comes last) that its number lies between the one the agents have seen
(Handled) and the status word's barrier, without a gap; that it may be the next
one to be handled in the state the task is in (MayBeNext), or that it may follow
the message before it (Follows); and that the last one, or without one the
agents' state, says what the kernel knows: blocked, runnable, on a CPU by a
transaction or by SwitchTo, gone. The lemmas follow the source: sending a message,
reading one, then one lemma per kernel step and per step of an agent.

**WakeupSafe** (NoLostWakeup) needs WakeInv, which is about sleeping: an agent
sleeps only in ghost_run(), with an empty channel but for TASK_SWITCHTO, which
wakes nobody; an agent that has found its channel empty and is about to yield or
commit has either a stale barrier or a channel that is still empty; an agent that
sleeps behind a task has that task on its CPU, or the SwitchTo chain it has
started, or the chain's last message is unread and its handler will ping; and an
agent that is about to yield, or sleeps without having been told to wait for CFS,
has nothing to run, or somebody is between the enqueue and the ping of Migrate
with this CPU as its target. A runnable task that is nowhere else is in
somebody's hands (InHands), from which NobodyForgotten takes its second half: a
runnable task without unread messages is in a run queue, current, or about to be
committed.

### FifoCentralized

`FifoCentralizedProofs`: **CentralRunqueueSafe**, **CentralChecksHold**,
**SingleGlobalAgent** and **CentralViewAgrees**, for any number of CPUs (two at
least), tasks and disturbances and all client events. None of the four
properties is inductive, and no two of them can be proved apart: that a CHECK
holds depends on what messages can arrive, that depends on what is on the CPUs,
and that on what the agent has committed. `FifoInv` is RunqueueOK and ChecksHold
with

- MsgInv: a task's unread messages are numbered without a gap from the seqnum
  the agent has seen to the status word's barrier; each one fits the state the
  agent will be in when it reads it (the first one fits the FifoTask, every
  other one the message before it); and the last one says what the kernel knows;
- CpuInv: a task that is on a CPU or latched has no unread message and is known
  and not kBlocked; a CPU has at most one of each; a CPU whose agent runs has
  none; and a kOnCpu task without unread messages is on its CPU, which is not
  about to switch, or latched there. This is where the kernel's silence about a
  task preempted by a transaction matters: the agent has queued it already;
- AgentInv: whoever drains, schedules or hands over is `globalCpu`; `available`
  and `assigned` are disjoint; the kRunnable tasks are exactly the current ones
  of the assigned CPUs; and outside GlobalSchedule a yielding task is off the
  CPUs and has not reported to have run, which is why TaskBlocked and the like
  never find it kYielding.

The lemmas follow the source: sending messages (SendKeepsMsgInv) and handling one
(HandleKeepsMsgInv), moving a task between queues (MoveKeepsRunqueue), then one
lemma per kernel step, handler and step of GlobalSchedule. Assign and the
successful Commit are the long ones, because two tasks change places at once.

### CfsScheduler

`CfsProofs`: **CfsRunqueueSafe**, **CfsChecksSafe**, **CfsViewSafe** and
**CfsWakeupSafe**, for any number of CPUs and tasks (finitely many), all CFS events
and all client events but "reenter" and "switchto" (CfsAssumption). The first three follow from one inductive
invariant (CfsInvariant), `CfsInv`, which is TypeOK and ChecksHold with

- MessageInv: the unread messages of a task lie in the channel of the CPU whose
  mutex guards it, in increasing order of their numbers from the seqnum in the
  CfsTask to the barrier of its status word, and lead step by step from the state
  the scheduler has it in to the state the kernel has it in (Chain): each one may
  come in the state that the one before it leaves. The affinity is right once no
  change of it is unread. MigrateTasks and the load balancer move a task only
  if the association succeeds, hence only with all its messages read, and that is
  how the messages stay in one channel;
- CpuInv: a task on a CPU is there by its agent's commit, and stays `current` and
  kRunning until that agent reads that it has left, whatever else it reads before;
- PlaceInv: each queue holds exactly the tasks whose state, on_rq and cpu say so;
- AgentInv: the locals of an agent by its label; what it is about to commit is its
  current task, and only between DetachTasks and AttachTasks does it hold tasks.

While an agent picks its next task, "current" in these means what it has picked
(Chosen), since cs->current is out of date, or freed, until SetCurrent.

CfsWakeupSafe adds WakeInv: an agent with an unread channel or a migration queue
that it has not taken over has a stale barrier; an agent that balances, is about to
yield or sleeps has an empty run queue, or a stale barrier, or a CPU that is taken,
or another agent has just moved a task to it and stands before the ping (Pinged).
An agent that gives up on a migration because the association failed leaves the
task queued, and there is an unread message that moved the barrier.

### Notification, PrioTable, ChannelRing, TaskDiscovery

`SharedMemoryProofs`: **NoWaiterLeftBehind** and **ImplementsTrigger**, for any
threads and objects. The invariant adds to SleepersAreSeen that a thread that is
about to sleep has been announced (the word is not kNoWaiter): the word never
returns to kNoWaiter while somebody waits. Every step is then a Set, Wait or
Return of `Trigger`, or a stutter.

**CopiesAreWhole** and **UpdatesArrive**, for any number of
clients, items and cells and any number of updates. WriteInv says that an odd
seqcount is a lock with exactly one holder; ReadInv what the agent may conclude
from a seqcount that has not changed since it looked; NewsInv, for every item
whose copy is out of date, where the news of it is: with a client that has not
finished its update, in a cell, in scrape_all, or ahead of the agent's scan. A
copy that is going to fail is of an item that will be announced again.

**RingIsQueue** and **DropsAreNoticed**, for any size of the ring, any width of the
indices and any lengths. The invariant (Layout) says that there are offsets from the
tail at which the messages of the abstract queue start, each right behind the one
before it or behind a MSG_NOP shorter than it, that their records in the ring are
intact, and that the last one ends at the head. Seen from the tail nothing wraps;
the array's and the indices' wrapping around is left to a few lemmas on %. DropInv
says that once a message has been dropped there is more in the ring than the agent
has in hand, so that the next Peek finds something and looks at the counter. RingAssumption states that lengths have fewer bits than
indices, as uint16_t and uint32_t do: otherwise a full ring could look empty.

**DiscoveryIsExact** and **DiscoveryIsSafe**, for any numbers of threads, status words
and kernel events. What the scheduler knows of a thread is right only once the
messages on their way have been read, so AgreeInv is about the chain from what it
knows through these messages to the truth: the first follows what is known, each
the one before it, and the last ends in the truth; a thread whose word the scan has
passed sends its messages here, and a dead word it has passed is one whose
TASK_DEPARTED is on its way. WordInv and CopyInv say what a status word, and a copy
of one that may be old, tell about its thread. CalmInv holds as long as no thread
has come back: a thread has one word, its TASK_DEPARTED is its last message, and a
word that was ESTALE once has a barrier that does not change any more, which is
why there is no second ESTALE.

### AgentLifecycle, AgentRpc

`NotifyProofs` sums up what a step inside a call can do (OpEffect): a wait goes on
or ends because the word is kNotified, a Notify() goes on, takes effect or ends,
and other threads are at most woken. The users of Notification have to show that
nobody notifies what is notified and that no mark of a waiter is wiped out.

`AgentLifecycleProofs`: **LifecycleChecks**, **DiscoveryFirst**, **JoinedFirst** and
**PingsAreSafe**, for any number of CPUs, with and without an older process and in
both orders of the loop. Each Notification of an Agent is notified once, by one
thread, and waited for at most once, by another, so NoteInv can say which ones are
notified by where the threads are: exactly those whose Notify() has begun, but for
the one that is still in its call. Whoever has begun to wait is still at it or has
been notified, and from that it follows where the notifier is. PlaceInv says what
an agent's place says of the enclave (attached, the older process gone), MainInv
what the main thread knows of the agents in its loops over them.

`ProcessProofs`: **RpcAnswersOwnRequest**, **RpcChecksHold** and
**RpcUsesLiveAgent**, for any number of callers and calls, those included that
overlap ~AgentProcess; the last one says that such an overlap is the only way in
which the RPC thread can meet a FullAgent that is gone. The two Notifications
are used again by every call, so PhaseInv says where the one outstanding request
is (rpc_pending_, the handler or rpc_done_, never two of them), OpInv which
thread may be in which call on which Notification meanwhile, OwnerInv that the
mutex has one holder, DataInv whose request and response the buffers hold, and
LifeInv how the start and the destructor order the threads. The main threads,
the handler and the callers are assumed to be different threads.

### Orca

**OneAtATime** and **AcksAreForTheirScheduler**, for any number of
clients, crashes and metrics. RoundInv bounds how old the descriptor is that
select() was given (the current scheduler's or, once the round has served a
client, its predecessor's), and ListenInv what those on the list wait for.

### What is left to TLC

TLC checked every one of these invariants on the run's instance before it was
proved, and FifoInv also on 7.7 million states of an instance with three CPUs and
three disturbances.

Only model-checked: all liveness (RunnableRuns, IsTrigger's fairness part,
StartupCompletes, BarrierFirstTerminates, RpcReturns, ShutdownCompletes,
RequestsAnswered), which is out of the prover's reach; OvertakenDeparture of
FifoPerCpu, which is about threads that come back, just what the proofs exclude.
Every other invariant that a passing run checks is a theorem. The findings'
runs are counterexamples. About threads that come back ("reenter") nothing is proved
for the per-CPU and the CFS scheduler; TLC checks the former (finding 2), and the run
of the latter leaves them out too.

## 6. Plan

Done: every module of section 2, every run of section 3, and a theorem for every
invariant but one. What would come next: a model of the Shinjuku scheduler, which
would extend `GlobalAgent` and bring per-class priorities and its orchestrator's
callbacks; synchronised group commits, once something other than the tests uses
them; and a statement of what the schedulers guarantee about threads that come back
to ghOSt, which needs a repair of finding 2 first.

## 7. Not modelled

Topology and sysfs parsing, logging, DumpState, trivial_status, command-line
handling, BPF loading, the user-space BPF tools, workloads and plots: input and
output without a protocol. Metrics: statistics that do not influence scheduling;
the profiler agent copies them without a lock while the other agents update them,
and sends them to Orca while it holds deadTasksMu_.

EDF, Shinjuku and Sol are global agents with the loop that `GlobalAgent` models;
what differs from the centralized FIFO is the order of the run queue (deadlines,
priorities, quality of service) and, in Sol, asynchronous commits whose outcome
only the kernel's source defines. The BPF schedulers run inside the kernel under
its locks. ForkedProcess: no caller installs an exit handler, and without one
the parent exits with its child. FdServer: one accept and one descriptor per
call, no protocol over several steps. Synchronised group commits have no caller
outside the tests. Orca's SIGINT handler and ingress hints.

Weak memory beyond what the atomics on x86-64 allow.

Four fifths of the lines of the repository (108 942 of 136 575) are
`kernel/vmlinux_ghost_5_11.h`, the type declarations that bpftool generates from
a kernel binary; there is nothing in them to model, and they dominate any share
of modelled lines.
