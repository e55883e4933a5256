---------------------------- MODULE FifoCentralized ----------------------------
(***************************************************************************)
(* The centralized FIFO scheduler, schedulers/fifo/centralized: one run    *)
(* queue and one global agent that handles the messages of all tasks and   *)
(* runs tasks on all other CPUs, with a preemption time slice.             *)
(*                                                                         *)
(* Nobody but the global agent touches the scheduler's data, so a handler  *)
(* is one step.  GlobalSchedule is several: between its looks at the       *)
(* status words, its choices and its commits the clients go on running.    *)
(* The result of a commit is handled in the step of the commit, which only *)
(* the agent itself could tell from a later one.                           *)
(***************************************************************************)
EXTENDS GlobalAgent

VARIABLES
  task,      \* the FifoTasks
  current,   \* CpuState::current
  rq,        \* run_queue_
  yielding,  \* yielding_tasks_
  available, \* GlobalSchedule's locals
  assigned

fifoVars == <<task, current, rq, yielding, available, assigned>>
vars == <<kernelVars, loopVars, fifoVars>>

RunStates == {"kBlocked", "kQueued", "kRunnable", "kOnCpu", "kYielding"}

Labels == {"top", "yield", "move", "ping", "drain", "pick", "commit"}

Checks == {"none", "TaskRunnable", "TaskDeparted", "TaskDead", "TaskBlocked",
           "TaskPreempted", "TaskYield", "Advance", "GlobalSchedule", "Dequeue",
           "CompleteRunRequest", "PickNextGlobalCPU"}

FifoTasks == [known : BOOLEAN, run_state : RunStates, cpu : Cpus \cup {NoCpu},
              seqnum : Nat, prio_boost : BOOLEAN, preempted : BOOLEAN]

NewFifoTask == [known |-> FALSE, run_state |-> "kBlocked", cpu |-> NoCpu,
                seqnum |-> 0, prio_boost |-> FALSE, preempted |-> FALSE]

TypeOK ==
  /\ KernelTypeOK
  /\ globalCpu \in Cpus
  /\ pc \in [Cpus -> Labels]
  /\ target \in [Cpus -> Cpus]
  /\ failed \in [in : Checks, task : Tasks \cup {NoTask}]
  /\ task \in [Tasks -> FifoTasks]
  /\ current \in [Cpus -> Tasks \cup {NoTask}]
  /\ rq \in Seq(Tasks)
  /\ yielding \in Seq(Tasks)
  /\ available \in SUBSET Cpus
  /\ assigned \in SUBSET Cpus

Init ==
  /\ KernelInit
  /\ LoopInit
  /\ task = [t \in Tasks |-> NewFifoTask]
  /\ current = [c \in Cpus |-> NoTask]
  /\ rq = <<>>
  /\ yielding = <<>>
  /\ available = {}
  /\ assigned = {}

\* A CHECK fails on behalf of task t.
Abort(where, t) ==
  /\ failed' = [in |-> where, task |-> t]
  /\ UNCHANGED <<kernelVars, globalCpu, pc, target, fifoVars>>

In(t, s) == task[t].run_state = s

-------------------------------------------------------------------------------
(* The run queue.                                                           *)

\* Does Enqueue put task t at the front?
Boosted(t) == task[t].prio_boost \/ task[t].preempted

\* Mutant: a task leaves the state machine but not the run queue.
DequeuedNot(q, t) == IF t \in Tasks THEN q ELSE q

\* RemoveFromRunqueue, for a task that is queued.
Dequeued(q, t) == IF In(t, "kQueued") THEN Erased(q, t) ELSE q

\* cpu_state_of's CHECKs.
CurrentOk(t) == task[t].cpu \in Cpus /\ current[task[t].cpu] = t

\* Mutant: the handlers leave a dangling current.
ClearedNot(t) == IF t \in Tasks THEN current ELSE current

\* CpuState::current without task t, if t is oncpu.
Cleared(t) == IF In(t, "kOnCpu") THEN [current EXCEPT ![task[t].cpu] = NoTask] ELSE current

-------------------------------------------------------------------------------
(* The message handlers.  DispatchMessage advances the seqnum afterwards.   *)

Msg == Head(chan)

\* The global agent c has a message of this type for a task it knows, or a
\* TASK_NEW for one it does not know.
Dispatching(c, type) ==
  /\ At(c, "drain") /\ chan # <<>> /\ Msg.type = type
  /\ (type = "TASK_NEW") <=> ~task[Msg.task].known

AdvanceOk == Msg.seq > task[Msg.task].seqnum

\* The message is handled and Consumed.
Handled ==
  /\ chan' = Tail(chan)
  /\ UNCHANGED <<kst, oncpu, seq, latchVars, agentVars, cfsVars, loopVars,
                 available, assigned>>

TaskNew(c) ==
  LET t == Msg.task IN
  /\ Dispatching(c, "TASK_NEW")
  /\ task' = [task EXCEPT ![t].known = TRUE, ![t].seqnum = Msg.seq,
                          ![t].run_state = IF Msg.flag THEN "kQueued" ELSE "kBlocked"]
  /\ rq' = IF Msg.flag THEN Append(rq, t) ELSE rq
  /\ UNCHANGED <<current, yielding>>
  /\ Handled

TaskRunnable(c) ==
  LET t == Msg.task  front == ~Msg.flag \/ task[t].preempted IN
  /\ Dispatching(c, "TASK_WAKEUP")
  /\ \/ /\ In(t, "kBlocked") /\ AdvanceOk
        /\ task' = [task EXCEPT ![t].run_state = "kQueued", ![t].prio_boost = ~Msg.flag,
                                ![t].seqnum = Msg.seq]
        /\ rq' = Pushed(rq, t, front)
        /\ UNCHANGED <<current, yielding>>
        /\ Handled
     \/ ~(In(t, "kBlocked") /\ AdvanceOk) /\ Abort("TaskRunnable", t)

\* A yielding task is put back into the run queue first.
TaskDeparted(c) ==
  LET t == Msg.task
      ok == IF In(t, "kOnCpu") THEN CurrentOk(t)
            ELSE In(t, "kYielding") \/ In(t, "kQueued") \/ In(t, "kBlocked")
  IN
  /\ Dispatching(c, "TASK_DEPARTED")
  /\ \/ /\ ok
        /\ yielding' = IF In(t, "kYielding") THEN Erased(yielding, t) ELSE yielding
        /\ current' = Cleared(t)
        /\ rq' = Dequeued(rq, t)
        /\ task' = [task EXCEPT ![t] = NewFifoTask]
        /\ Handled
     \/ ~ok /\ Abort("TaskDeparted", t)

TaskDead(c) ==
  LET t == Msg.task IN
  /\ Dispatching(c, "TASK_DEAD")
  /\ \/ /\ In(t, "kBlocked")
        /\ task' = [task EXCEPT ![t] = NewFifoTask]
        /\ UNCHANGED <<current, rq, yielding>>
        /\ Handled
     \/ ~In(t, "kBlocked") /\ Abort("TaskDead", t)

\* The task may be queued already: the agent has preempted it.
TaskBlocked(c) ==
  LET t == Msg.task
      ok == AdvanceOk /\ (In(t, "kQueued") \/ (In(t, "kOnCpu") /\ CurrentOk(t)))
  IN
  /\ Dispatching(c, "TASK_BLOCKED")
  /\ \/ /\ ok
        /\ current' = Cleared(t)
        /\ rq' = Dequeued(rq, t)
        /\ task' = [task EXCEPT ![t].run_state = "kBlocked", ![t].seqnum = Msg.seq]
        /\ UNCHANGED yielding
        /\ Handled
     \/ ~ok /\ Abort("TaskBlocked", t)

TaskPreempted(c) ==
  LET t == Msg.task
      ok == AdvanceOk /\ (In(t, "kQueued") \/ (In(t, "kOnCpu") /\ CurrentOk(t)))
  IN
  /\ Dispatching(c, "TASK_PREEMPT")
  /\ \/ /\ ok
        /\ current' = Cleared(t)
        /\ rq' = IF In(t, "kOnCpu") THEN Pushed(rq, t, TRUE) ELSE rq
        /\ task' = [task EXCEPT ![t].run_state = "kQueued", ![t].preempted = TRUE,
                                ![t].seqnum = Msg.seq]
        /\ UNCHANGED yielding
        /\ Handled
     \/ ~ok /\ Abort("TaskPreempted", t)

\* A task that yields skips one round of GlobalSchedule.
TaskYield(c) ==
  LET t == Msg.task
      ok == AdvanceOk /\ (In(t, "kQueued") \/ (In(t, "kOnCpu") /\ CurrentOk(t)))
  IN
  /\ Dispatching(c, "TASK_YIELD")
  /\ \/ /\ ok
        /\ current' = Cleared(t)
        /\ yielding' = IF In(t, "kOnCpu") THEN Append(yielding, t) ELSE yielding
        /\ task' = [task EXCEPT ![t].run_state = IF In(t, "kOnCpu") THEN "kYielding" ELSE @,
                                ![t].seqnum = Msg.seq]
        /\ UNCHANGED rq
        /\ Handled
     \/ ~ok /\ Abort("TaskYield", t)

-------------------------------------------------------------------------------
(* GlobalSchedule.                                                          *)

\* The channel is empty: which CPUs may be given a task?  Those that are
\* available and either idle or at the end of their task's time slice.
FindAvailable(c) ==
  /\ At(c, "drain") /\ chan = <<>>
  /\ \/ /\ current[globalCpu] = NoTask
        /\ \E expired \in SUBSET {d \in Cpus : current[d] # NoTask /\ Available(d)} :
             /\ Cardinality(expired) <= budget
             /\ budget' = budget - Cardinality(expired)
             /\ available' = {d \in Cpus : /\ d # globalCpu /\ Available(d)
                                           /\ current[d] = NoTask \/ d \in expired}
        /\ Goto(c, "pick")
        /\ UNCHANGED <<taskVars, latchVars, agentVars, cfs, globalCpu, target, failed,
                       task, current, rq, yielding, assigned>>
     \/ current[globalCpu] # NoTask /\ Abort("GlobalSchedule", current[globalCpu])

\* CpuList::Front.
Front(cpus) == CHOOSE d \in cpus : \A e \in cpus : d <= e

\* Is the task at the head of the run queue still on a CPU, or are there
\* messages of it that have not been read?
MustWait(t) == oncpu[t] # NoCpu \/ task[t].seqnum # seq[t]

\* The head of the run queue gets the first available CPU.  The task that
\* was running there goes back into the run queue.
Assign(c) ==
  /\ At(c, "pick") /\ available # {} /\ rq # <<>> /\ In(Head(rq), "kQueued")
  /\ ~MustWait(Head(rq))
  /\ LET t == Head(rq)  d == Front(available)  prev == current[d]
         runnable == [task EXCEPT ![t].run_state = "kRunnable"]
     IN
     /\ IF prev = NoTask
          THEN task' = runnable /\ rq' = Tail(rq)
          ELSE /\ task' = [runnable EXCEPT ![prev].run_state = "kQueued"]
               /\ rq' = Pushed(Tail(rq), prev, Boosted(prev))
     /\ current' = [current EXCEPT ![d] = t]
     /\ available' = available \ {d}
     /\ assigned' = assigned \cup {d}
  /\ UNCHANGED <<kernelVars, loopVars, yielding>>

\* The head of the run queue has to wait for the next round; Dequeue checks
\* that it is queued.
SkipThisRound(c) ==
  /\ At(c, "pick") /\ available # {} /\ rq # <<>>
  /\ \/ /\ In(Head(rq), "kQueued") /\ MustWait(Head(rq))
        /\ task' = [task EXCEPT ![Head(rq)].run_state = "kYielding"]
        /\ yielding' = Append(yielding, Head(rq))
        /\ rq' = Tail(rq)
        /\ UNCHANGED <<kernelVars, loopVars, current, available, assigned>>
     \/ ~In(Head(rq), "kQueued") /\ Abort("Dequeue", Head(rq))

PickDone(c) ==
  /\ At(c, "pick") /\ (available = {} \/ rq = <<>>)
  /\ available' = {}
  /\ Goto(c, "commit")
  /\ UNCHANGED <<kernelVars, globalCpu, target, failed, task, current, rq, yielding, assigned>>

\* Mutant: the result of the commit is not looked at.
FailedCommitRuns(d, t) ==
  /\ task' = [task EXCEPT ![t].run_state = "kOnCpu", ![t].cpu = d]
  /\ UNCHANGED <<rq, current>>

\* The task goes back to the front of the run queue.
FailedCommit(d, t) ==
  /\ task' = [task EXCEPT ![t].run_state = "kQueued", ![t].prio_boost = TRUE]
  /\ rq' = Pushed(rq, t, TRUE)
  /\ current' = [current EXCEPT ![d] = NoTask]

\* The transactions are committed CPU by CPU.
Commit(c) ==
  LET d == Front(assigned)  t == current[d]  state == TxnState(d, t, task[t].seqnum) IN
  /\ At(c, "commit") /\ assigned # {}
  /\ \/ /\ state = "COMPLETE"
        /\ Latch(d, t)
        /\ task' = [task EXCEPT ![t].run_state = "kOnCpu", ![t].cpu = d,
                                ![t].preempted = FALSE, ![t].prio_boost = FALSE]
        /\ assigned' = assigned \ {d}
        /\ UNCHANGED <<kst, oncpu, agentVars, cfs, loopVars, current, rq,
                       yielding, available>>
     \/ /\ state \notin {"COMPLETE", "TARGET_NOT_RUNNABLE"}
        /\ FailedCommit(d, t)
        /\ assigned' = assigned \ {d}
        /\ UNCHANGED <<kernelVars, loopVars, yielding, available>>
     \/ state = "TARGET_NOT_RUNNABLE" /\ Abort("CompleteRunRequest", t)

\* The tasks that had to skip this round are queued again, one after the
\* other.  (yielding_tasks_ is cleared after the last; nobody looks before.)
Unyield(c) ==
  LET t == Head(yielding) IN
  /\ At(c, "commit") /\ assigned = {} /\ yielding # <<>>
  /\ \/ /\ In(t, "kYielding")
        /\ task' = [task EXCEPT ![t].run_state = "kQueued"]
        /\ rq' = Pushed(rq, t, Boosted(t))
        /\ yielding' = Tail(yielding)
        /\ UNCHANGED <<kernelVars, loopVars, current, available, assigned>>
     \/ ~In(t, "kYielding") /\ Abort("GlobalSchedule", t)

ScheduleDone(c) ==
  /\ At(c, "commit") /\ assigned = {} /\ yielding = <<>>
  /\ Goto(c, "top")
  /\ UNCHANGED <<kernelVars, globalCpu, target, failed, fifoVars>>

-------------------------------------------------------------------------------
(* The hand-over of the global agent's role.                                *)

\* Which CPU is looked at first depends on the topology.  The agent goes on
\* where it is if there is no other CPU.  (iterations_ is never incremented.)
PickNextGlobalCPU(c) ==
  /\ At(c, "move")
  /\ \/ \E d \in Cpus :
          /\ SetGlobalCPU(c, d)
          /\ current[d] # NoTask => In(current[d], "kOnCpu")
          /\ UNCHANGED <<kernelVars, failed, fifoVars>>
     \/ \E d \in Cpus \ {globalCpu} :
          /\ Available(d) /\ current[d] # NoTask /\ ~In(current[d], "kOnCpu")
          /\ Abort("PickNextGlobalCPU", current[d])
     \/ /\ \A d \in Cpus \ {globalCpu} : ~Available(d)
        /\ Goto(c, "drain")
        /\ UNCHANGED <<kernelVars, globalCpu, target, failed, fifoVars>>

-------------------------------------------------------------------------------
Handler(c) ==
  \/ TaskNew(c) \/ TaskRunnable(c) \/ TaskDeparted(c) \/ TaskDead(c)
  \/ TaskBlocked(c) \/ TaskPreempted(c) \/ TaskYield(c)

AgentStep(c) ==
  \/ (LoopTop(c) \/ LocalYield(c) \/ PingGlobal(c)) /\ UNCHANGED fifoVars
  \/ PickNextGlobalCPU(c) \/ Handler(c)
  \/ FindAvailable(c) \/ Assign(c) \/ SkipThisRound(c) \/ PickDone(c)
  \/ Commit(c) \/ Unyield(c) \/ ScheduleDone(c)

KernelStep == failed = NoFailure /\ KernelNext /\ UNCHANGED <<loopVars, fifoVars>>

Next == KernelStep \/ \E c \in Cpus : AgentStep(c)

Spec == Init /\ [][Next]_vars

\* A running agent keeps executing and a woken one gets its CPU; a CPU does
\* switch to what it has latched.  CFS does not keep a CPU forever.  A client
\* thread blocks at some point: the time slice is infinite by default.
Fairness ==
  /\ \A c \in Cpus :
       /\ WF_vars(AgentStep(c))
       /\ WF_vars(failed = NoFailure /\ KSwitch(c) /\ UNCHANGED <<loopVars, fifoVars>>)
       /\ WF_vars(failed = NoFailure /\ KAgentSwitchIn(c) /\ UNCHANGED <<loopVars, fifoVars>>)
       /\ WF_vars(failed = NoFailure /\ KCfsLeave(c) /\ UNCHANGED <<loopVars, fifoVars>>)
  /\ \A t \in Tasks :
       WF_vars(failed = NoFailure /\ KBlock(t) /\ UNCHANGED <<loopVars, fifoVars>>)

FairSpec == Spec /\ Fairness
-------------------------------------------------------------------------------
(* Properties.                                                              *)

(***************************************************************************)
(* Every task is in one place: the run queue and yielding_tasks_ hold the  *)
(* queued and the yielding tasks, each once, and the current of a CPU is   *)
(* an oncpu task of that CPU or one that is about to be committed there.   *)
(***************************************************************************)
RunqueueOK ==
  /\ TypeOK
  /\ NoRepeats(rq) /\ NoRepeats(yielding)
  /\ \A t \in Tasks :
       /\ InQueue(t, rq) <=> In(t, "kQueued")
       /\ InQueue(t, yielding) <=> In(t, "kYielding")
       /\ In(t, "kOnCpu") => CurrentOk(t)
  /\ \A c \in Cpus : current[c] # NoTask =>
       /\ task[current[c]].known
       /\ \/ In(current[c], "kOnCpu") /\ task[current[c]].cpu = c
          \/ In(current[c], "kRunnable") /\ c \in assigned
  /\ \A c, d \in Cpus : current[c] = current[d] /\ current[c] # NoTask => c = d

(***************************************************************************)
(* No CHECK of the handlers, of the run queue, of GlobalSchedule or of the *)
(* hand-over fails.                                                        *)
(***************************************************************************)
ChecksHold == failed = NoFailure

(***************************************************************************)
(* The scheduler is single-threaded: whatever the timing of the hand-over, *)
(* at most one agent drains the channel or runs GlobalSchedule.            *)
(***************************************************************************)
OneGlobalAgent ==
  \A c, d \in {e \in Cpus : pc[e] \in {"drain", "pick", "commit", "move"}} : c = d

(***************************************************************************)
(* Once all messages of a task have been read, the scheduler knows what    *)
(* the task is doing: it is blocked exactly if it is kBlocked, and if it   *)
(* is oncpu then its CPU runs it or is about to.                           *)
(***************************************************************************)
Drained(t) == \A i \in 1 .. Len(chan) : chan[i].task # t

ViewAgrees ==
  \A t \in Tasks : task[t].known /\ Drained(t) =>
    /\ task[t].seqnum = seq[t]
    /\ In(t, "kBlocked") <=> kst[t] \in {"blocked", "dying"}
    /\ In(t, "kOnCpu") => oncpu[t] = task[t].cpu \/ latched[task[t].cpu] = t

(***************************************************************************)
(* A runnable task eventually runs, unless it leaves ghOSt.                *)
(***************************************************************************)
RunnableRuns ==
  \A t \in Tasks : kst[t] = "runnable" ~> Running(t) \/ kst[t] # "runnable"
================================================================================
