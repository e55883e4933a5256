--------------------------- MODULE FifoPerCpuProofs ---------------------------
(***************************************************************************)
(* The per-CPU FIFO scheduler, for every number of tasks and CPUs: its     *)
(* types; that a FifoTask is always in exactly one place; that only the    *)
(* default agent migrates; and what the agents know of the tasks.          *)
(***************************************************************************)
EXTENDS FifoPerCpu, QueueProofs

(***************************************************************************)
(* The type invariant is inductive together with the program control.      *)
(***************************************************************************)

Migrating == {"enqueue", "ping", "advance"}

\* An agent in the middle of Migrate works on the first message of its
\* channel; `next' is set from PickNext to the end of FifoSchedule.
ControlOK ==
  \A c \in Cpus :
    /\ pc[c] \in Migrating => chan[c] # <<>> /\ target[c] \in Cpus
    /\ next[c] # NoTask <=> pc[c] \in {"wait", "commit", "oncpu"}

TypeInv == TypeOK /\ ControlOK

-------------------------------------------------------------------------------
(***************************************************************************)
(* Types.                                                                  *)
(***************************************************************************)

\* Every message the kernel produces is a message, and channels only grow.
LEMMA ProduceTypes ==
  ASSUME KernelTypeOK, NEW t \in Tasks, NEW type \in MsgTypes, NEW flag \in BOOLEAN,
         NEW cpu \in Cpus \cup {NoCpu}, Produce(t, type, flag, cpu)
  PROVE  /\ seq' \in [Tasks -> Nat] /\ chan' \in [Cpus -> Seq(Messages)]
         /\ \A c \in Cpus : chan[c] # <<>> => chan'[c] # <<>>
<1> DEFINE m == [type |-> type, task |-> t, seq |-> seq[t] + 1, flag |-> flag, cpu |-> cpu]
<1>0. seq[t] + 1 \in Nat /\ assoc[t] \in Cpus /\ chan[assoc[t]] \in Seq(Messages)
  BY DEF KernelTypeOK
<1>1. m \in Messages
  BY <1>0 DEF Messages
<1>2. seq' = [seq EXCEPT ![t] = seq[t] + 1]
      /\ chan' = [chan EXCEPT ![assoc[t]] = Append(chan[assoc[t]], m)]
  BY DEF Produce
<1> HIDE DEF m
<1>3. Append(chan[assoc[t]], m) \in Seq(Messages) /\ Append(chan[assoc[t]], m) # <<>>
  BY <1>0, <1>1, AppendProperties
<1> QED BY <1>0, <1>2, <1>3 DEF KernelTypeOK

LEMMA WakeTypes ==
  ASSUME KernelTypeOK, NEW c, WakeAgent(c)
  PROVE  /\ ast' \in [Cpus -> {"running", "sleeping", "waking"}]
         /\ stale' \in [Cpus -> BOOLEAN] /\ rtla' \in [Cpus -> BOOLEAN]
  BY DEF KernelTypeOK, WakeAgent, Woken

\* The kernel keeps its types and takes no message out of a channel.
LEMMA KernelTypes ==
  ASSUME KernelTypeOK, KernelNext
  PROVE  /\ KernelTypeOK'
         /\ \A c \in Cpus : chan[c] # <<>> => chan'[c] # <<>>
<1> DEFINE Goal == /\ KernelTypeOK'
                   /\ \A c \in Cpus : chan[c] # <<>> => chan'[c] # <<>>
<1>1. ASSUME NEW t \in Tasks, NEW b \in BOOLEAN, KTaskNew(t, b) PROVE Goal
  <2> DEFINE m == [type |-> "TASK_NEW", task |-> t, seq |-> 1, flag |-> b, cpu |-> NoCpu]
  <2>1. m \in Messages /\ DefaultCpu \in Cpus
    BY KernelAssumption DEF Messages, MsgTypes, DefaultCpu, Cpus
  <2>2. chan' = [chan EXCEPT ![DefaultCpu] = Append(@, m)]
    BY <1>1 DEF KTaskNew
  <2> HIDE DEF m
  <2>a. chan \in [Cpus -> Seq(Messages)]
    BY DEF KernelTypeOK
  <2>b. /\ Append(chan[DefaultCpu], m) \in Seq(Messages)
        /\ Append(chan[DefaultCpu], m) # <<>>
    BY <2>1, <2>a, AppendProperties
  <2>3. /\ chan' \in [Cpus -> Seq(Messages)]
        /\ \A c \in Cpus : chan[c] # <<>> => chan'[c] # <<>>
    BY <2>1, <2>2, <2>a, <2>b
  <2>4. WakeAgent(DefaultCpu)
    BY <1>1 DEF KTaskNew
  <2>5. budget' \in 0 .. MaxDisturb
    BY <1>1, KernelAssumption DEF KTaskNew, KernelTypeOK
  <2> QED BY <1>1, <2>1, <2>3, <2>4, <2>5, WakeTypes DEF KTaskNew, KernelTypeOK
<1>2. ASSUME NEW t \in Tasks, NEW b \in BOOLEAN, KWakeup(t, b) PROVE Goal
  <2>1. Produce(t, "TASK_WAKEUP", b, NoCpu) /\ WakeAgent(assoc[t])
    BY <1>2 DEF KWakeup
  <2> QED BY <1>2, <2>1, ProduceTypes, WakeTypes DEF KWakeup, KernelTypeOK, cfsVars, MsgTypes
<1>3. ASSUME NEW t \in Tasks, NEW type \in MsgTypes, Report(t, type)
      PROVE  /\ seq' \in [Tasks -> Nat] /\ chan' \in [Cpus -> Seq(Messages)]
             /\ \A c \in Cpus : chan[c] # <<>> => chan'[c] # <<>>
             /\ ast' \in [Cpus -> {"running", "sleeping", "waking"}]
             /\ stale' \in [Cpus -> BOOLEAN] /\ rtla' \in [Cpus -> BOOLEAN]
  <2>1. /\ Produce(t, type, via[t] = "switchto", oncpu[t]) /\ WakeAgent(assoc[t])
        /\ oncpu[t] \in Cpus \cup {NoCpu}
    BY <1>3 DEF Report, KernelTypeOK
  <2> QED BY <2>1, ProduceTypes, WakeTypes
<1>4. ASSUME NEW t \in Tasks, LeaveCpu(t)
      PROVE  /\ oncpu' \in [Tasks -> Cpus \cup {NoCpu}]
             /\ via' \in [Tasks -> {"none", "txn", "switchto", "leaving"}]
  BY <1>4 DEF LeaveCpu, KernelTypeOK
<1>5. ASSUME NEW t \in Tasks, KBlock(t) PROVE Goal
  BY <1>3, <1>4, <1>5 DEF KBlock, KernelTypeOK, cfsVars, MsgTypes
<1>6. ASSUME NEW t \in Tasks, KYield(t) PROVE Goal
  BY <1>3, <1>4, <1>6 DEF KYield, KernelTypeOK, cfsVars, MsgTypes
<1>7. ASSUME NEW t \in Tasks, KExit(t) PROVE Goal
  BY <1>3, <1>4, <1>7 DEF KExit, KernelTypeOK, cfsVars, MsgTypes
<1>8. ASSUME NEW t \in Tasks, KDead(t) PROVE Goal
  BY <1>3, <1>8 DEF KDead, KernelTypeOK, cfsVars, MsgTypes
<1>9. ASSUME NEW t \in Tasks, KDepart(t) PROVE Goal
  BY <1>3, <1>9 DEF KDepart, KernelTypeOK, cfsVars, MsgTypes
<1>10. ASSUME NEW a \in Tasks, NEW b \in Tasks, KSwitchTo(a, b) PROVE Goal
  <2>1. CASE via[a] = "txn"
    <3>1. Produce(a, "TASK_SWITCHTO", FALSE, oncpu[a]) /\ oncpu[a] \in Cpus \cup {NoCpu}
      BY <1>10, <2>1 DEF KSwitchTo, KernelTypeOK
    <3> QED BY <1>10, <2>1, <3>1, ProduceTypes DEF KSwitchTo, KernelTypeOK, cfsVars, MsgTypes
  <2>2. CASE via[a] # "txn"
    BY <1>10, <2>2 DEF KSwitchTo, KernelTypeOK, cfsVars
  <2> QED BY <2>1, <2>2
<1>11. ASSUME NEW t \in Tasks, KFinishSwitch(t) PROVE Goal
  BY <1>11 DEF KFinishSwitch, KernelTypeOK, cfsVars, agentVars
<1>12. ASSUME NEW c \in Cpus, KAgentSwitchIn(c) PROVE Goal
  <2>1. /\ rtla' \in [Cpus -> BOOLEAN]
        /\ oncpu' \in [Tasks -> Cpus \cup {NoCpu}]
        /\ via' \in [Tasks -> {"none", "txn", "switchto", "leaving"}]
    BY <1>12 DEF KAgentSwitchIn, KernelTypeOK
  <2>2. CASE \A t \in Tasks : ~(oncpu[t] = c /\ via[t] = "switchto")
    BY <1>12, <2>1, <2>2 DEF KAgentSwitchIn, KernelTypeOK, cfsVars
  <2>3. ASSUME NEW t \in Tasks, oncpu[t] = c, via[t] = "switchto",
               Produce(t, "TASK_PREEMPT", TRUE, c),
               ast' = [[ast EXCEPT ![assoc[t]] = Woken(@)] EXCEPT ![c] = "running"],
               stale' = [stale EXCEPT ![assoc[t]] = TRUE]
        PROVE  Goal
    <3>1. /\ ast' \in [Cpus -> {"running", "sleeping", "waking"}]
          /\ stale' \in [Cpus -> BOOLEAN]
      BY <2>3 DEF KernelTypeOK, Woken
    <3>2. /\ seq' \in [Tasks -> Nat] /\ chan' \in [Cpus -> Seq(Messages)]
          /\ \A d \in Cpus : chan[d] # <<>> => chan'[d] # <<>>
      BY <2>3, ProduceTypes DEF MsgTypes
    <3> QED BY <1>12, <2>1, <3>1, <3>2 DEF KAgentSwitchIn, KernelTypeOK, cfsVars
  <2> QED BY <1>12, <2>2, <2>3 DEF KAgentSwitchIn
<1>13. ASSUME NEW c \in Cpus, KCfsArrive(c) PROVE Goal
  <2>1. budget' \in 0 .. MaxDisturb /\ boosted' \in [Cpus -> BOOLEAN]
    BY <1>13, KernelAssumption DEF KCfsArrive, KernelTypeOK
  <2>2. CASE \E t \in Tasks : Report(t, "TASK_PREEMPT") /\ LeaveCpu(t)
    BY <1>3, <1>4, <1>13, <2>1, <2>2 DEF KCfsArrive, KernelTypeOK, MsgTypes
  <2>3. CASE UNCHANGED <<oncpu, via, seq, chan, agentVars>>
    BY <1>13, <2>1, <2>3 DEF KCfsArrive, KernelTypeOK, agentVars
  <2> QED BY <1>13, <2>2, <2>3 DEF KCfsArrive
<1>14. ASSUME NEW c \in Cpus, KCfsLeave(c) PROVE Goal
  BY <1>14 DEF KCfsLeave, KernelTypeOK, taskVars, Woken
<1> QED BY <1>1, <1>2, <1>5, <1>6, <1>7, <1>8, <1>9, <1>10, <1>11, <1>12, <1>13, <1>14
        DEF KernelNext

\* The message at the head of a channel, and what is left behind it.
LEMMA MsgTypeOK ==
  ASSUME TypeOK, NEW c \in Cpus, chan[c] # <<>>
  PROVE  /\ Msg(c) \in Messages /\ Msg(c).task \in Tasks /\ Msg(c).seq \in Nat
         /\ Msg(c).type \in MsgTypes /\ Msg(c).flag \in BOOLEAN
         /\ Tail(chan[c]) \in Seq(Messages)
         /\ Msg(c) = chan[c][1] /\ Len(chan[c]) \in Nat /\ Len(chan[c]) >= 1
<1>1. chan[c] \in Seq(Messages)
  BY DEF TypeOK, KernelTypeOK
<1>2. /\ Msg(c) \in Messages /\ Tail(chan[c]) \in Seq(Messages)
      /\ Msg(c) = chan[c][1] /\ Len(chan[c]) \in Nat /\ Len(chan[c]) >= 1
  BY <1>1, TailFacts DEF Msg
<1> QED BY <1>2 DEF Messages

LEMMA ConsumeTypes ==
  ASSUME TypeOK, NEW c \in Cpus, chan[c] # <<>>, Consume(c)
  PROVE  /\ chan' \in [Cpus -> Seq(Messages)]
         /\ \A d \in Cpus : d # c => chan'[d] = chan[d]
<1>1. Tail(chan[c]) \in Seq(Messages)
  BY MsgTypeOK
<1> QED BY <1>1 DEF Consume, TypeOK, KernelTypeOK

LEMMA PingTypes ==
  ASSUME TypeOK, NEW m, PingChainCpu(m)
  PROVE  /\ ast' \in [Cpus -> {"running", "sleeping", "waking"}]
         /\ stale' \in [Cpus -> BOOLEAN] /\ rtla' \in [Cpus -> BOOLEAN]
  BY WakeTypes DEF PingChainCpu, TypeOK, KernelTypeOK, agentVars

LEMMA AbortTypes ==
  ASSUME TypeInv, NEW h \in Checks, NEW t \in Tasks, Abort(h, t)
  PROVE  TypeInv'
<1> USE DEF Abort, kernelVars, taskVars, agentVars, cfsVars, fifoTaskVars, cpuVars, localVars
<1>1. TypeOK'
  BY DEF TypeInv, TypeOK, KernelTypeOK, Messages
<1>2. ControlOK'
  BY DEF TypeInv, ControlOK
<1> QED BY <1>1, <1>2 DEF TypeInv

\* FifoRq::Enqueue on any CPU's run queue keeps the type of rq.
LEMMA EnqueueTypes ==
  ASSUME TypeOK, NEW c \in Cpus \cup {NoCpu}, NEW t \in Tasks, NEW b \in BOOLEAN,
         rq' = [rq EXCEPT ![c] = Pushed(@, t, b)]
  PROVE  rq' \in [Cpus -> Seq(Tasks)]
<1>1. \A d \in Cpus : Pushed(rq[d], t, b) \in Seq(Tasks)
  BY PushedFacts DEF TypeOK
<1> QED BY <1>1 DEF TypeOK

\* What a handler that takes the task off its CPU has in common.
LEMMA OffCpuTypes ==
  ASSUME TypeInv, NEW c \in Cpus, chan[c] # <<>>, At(c, "drain"), NEW to \in RunStates,
         OffCpu(c, to), prio_boost' \in [Tasks -> BOOLEAN],
         rq' \in [Cpus -> Seq(Tasks)],
         ast' \in [Cpus -> {"running", "sleeping", "waking"}],
         stale' \in [Cpus -> BOOLEAN], rtla' \in [Cpus -> BOOLEAN]
  PROVE  TypeInv'
<1> USE DEF TypeInv, taskVars, cfsVars, localVars, OffCpu, Advance, ClearCurrent
<1>1. /\ chan' \in [Cpus -> Seq(Messages)]
      /\ \A d \in Cpus : d # c => chan'[d] = chan[d]
  BY ConsumeTypes
<1>2. Msg(c).task \in Tasks /\ Msg(c).seq \in Nat
  BY MsgTypeOK
<1>3. TypeOK'
  BY <1>1, <1>2 DEF TypeOK, KernelTypeOK
<1>4. ControlOK'
  BY <1>1 DEF ControlOK, At, Migrating
<1> QED BY <1>3, <1>4

LEMMA HandlerTypes ==
  ASSUME TypeInv, NEW c \in Cpus, Handler(c)
  PROVE  TypeInv'
<1> DEFINE m == Msg(c)
<1> USE DEF TypeInv, kernelVars, taskVars, agentVars, cfsVars, fifoTaskVars, cpuVars,
            localVars, fifoVars
<1>1. At(c, "drain") /\ chan[c] # <<>>
  BY DEF Handler, IgnoreMessage, TaskNewBlocked, TaskNewRunnable, TaskRunnableMigrate,
         TaskRunnableEnqueue, TaskBlocked, TaskSwitchto, TaskYield, TaskPreempted,
         TaskDead, TaskDeparted, Dispatching
<1>2. /\ m.task \in Tasks /\ m.seq \in Nat /\ m.type \in MsgTypes /\ m.flag \in BOOLEAN
  BY <1>1, MsgTypeOK
<1>3. pc[c] = "drain"
  BY <1>1 DEF At
<1>4. ASSUME Consume(c)
      PROVE  /\ chan' \in [Cpus -> Seq(Messages)]
             /\ \A d \in Cpus : d # c => chan'[d] = chan[d]
  BY <1>1, <1>4, ConsumeTypes
<1>5. ASSUME NEW h \in Checks, Abort(h, m.task) PROVE TypeInv'
  BY <1>2, <1>5, AbortTypes
<1>6. ASSUME NEW b \in BOOLEAN, rq' = [rq EXCEPT ![tcpu[m.task]] = Pushed(@, m.task, b)]
      PROVE  rq' \in [Cpus -> Seq(Tasks)]
  <2>1. tcpu[m.task] \in Cpus \cup {NoCpu}
    BY <1>2 DEF TypeOK
  <2> QED BY <1>2, <1>6, <2>1, EnqueueTypes
<1>7. CASE IgnoreMessage(c)
  <2>1. TypeOK'
    BY <1>4, <1>7 DEF IgnoreMessage, TypeOK, KernelTypeOK
  <2>2. ControlOK'
    BY <1>3, <1>4, <1>7 DEF IgnoreMessage, ControlOK, Migrating
  <2> QED BY <2>1, <2>2
<1>8. CASE TaskNewBlocked(c)
  <2>1. TypeOK'
    BY <1>2, <1>4, <1>8 DEF TaskNewBlocked, Advance, TypeOK, KernelTypeOK
  <2>2. ControlOK'
    BY <1>3, <1>4, <1>8 DEF TaskNewBlocked, ControlOK, Migrating
  <2> QED BY <2>1, <2>2
<1>9. /\ AssignedCpu \in Cpus /\ AssignedCpu + 1 \in 0 .. NCpus
  BY KernelAssumption DEF TypeOK, AssignedCpu, Cpus
<1>10. CASE TaskNewRunnable(c)
  <2>1. CASE AssociateOk(m.task, m.seq)
    <3>0. /\ AssignAndAssociate(c, m.task) /\ Advance(m)
          /\ known' = known \cup {m.task}
          /\ run_state' = [run_state EXCEPT ![m.task] = "kRunnable"]
          /\ UNCHANGED <<taskVars, seq, chan, agentVars, cfsVars, tcpu, prio_boost,
                         cpuVars, next, onIdle, failed>>
      BY <1>10, <2>1 DEF TaskNewRunnable
    <3> HIDE DEF m
    <3>1. TypeOK'
      BY <1>2, <1>9, <3>0
      DEF AssignAndAssociate, Goto, Advance, TypeOK, KernelTypeOK, RunStates, Labels
    <3>2. ControlOK'
      BY <1>1, <1>3, <1>9, <3>0 DEF AssignAndAssociate, Goto, ControlOK, TypeOK, Migrating
    <3> QED BY <3>1, <3>2
  <2> QED BY <1>5, <1>10, <2>1 DEF TaskNewRunnable, Checks
<1>11. CASE TaskRunnableMigrate(c)
  <2>1. CASE run_state[m.task] = "kBlocked" /\ AssociateOk(m.task, m.seq)
    <3>0. /\ AssignAndAssociate(c, m.task)
          /\ run_state' = [run_state EXCEPT ![m.task] = "kRunnable"]
          /\ prio_boost' = [prio_boost EXCEPT ![m.task] = ~m.flag]
          /\ UNCHANGED <<taskVars, seq, chan, agentVars, cfsVars, known, tcpu,
                         seqnum, cpuVars, next, onIdle, failed>>
      BY <1>11, <2>1 DEF TaskRunnableMigrate
    <3> HIDE DEF m
    <3>1. TypeOK'
      BY <1>2, <1>9, <3>0
      DEF AssignAndAssociate, Goto, TypeOK, KernelTypeOK, RunStates, Labels
    <3>2. ControlOK'
      BY <1>1, <1>3, <1>9, <3>0 DEF AssignAndAssociate, Goto, ControlOK, TypeOK, Migrating
    <3> QED BY <3>1, <3>2
  <2> QED BY <1>5, <1>11, <2>1 DEF TaskRunnableMigrate, Checks
<1>12. CASE TaskRunnableEnqueue(c)
  <2>1. CASE run_state[m.task] = "kBlocked" /\ AdvanceOk(m)
    <3>1. rq' \in [Cpus -> Seq(Tasks)]
      BY <1>2, <1>6, <1>12, <2>1 DEF TaskRunnableEnqueue
    <3>0. /\ run_state' = [run_state EXCEPT ![m.task] = "kQueued"]
          /\ prio_boost' = [prio_boost EXCEPT ![m.task] = ~m.flag]
          /\ Advance(m) /\ Consume(c)
          /\ UNCHANGED <<taskVars, seq, assoc, agentVars, cfsVars, known, tcpu,
                         current, nextCpu, pc, localVars, failed>>
      BY <1>12, <2>1 DEF TaskRunnableEnqueue
    <3>2. TypeOK'
      <4> HIDE DEF m
      <4> QED BY <1>2, <1>4, <3>0, <3>1 DEF Advance, TypeOK, KernelTypeOK, RunStates
    <3>3. ControlOK'
      BY <1>3, <1>4, <1>12, <2>1 DEF TaskRunnableEnqueue, ControlOK, Migrating
    <3> QED BY <3>2, <3>3
  <2> QED BY <1>5, <1>12, <2>1 DEF TaskRunnableEnqueue, Checks
<1>13. CASE TaskBlocked(c)
  <2>1. CASE OffCpu(c, "kBlocked") /\ PingChainCpu(m) /\ UNCHANGED <<rq, prio_boost>>
    BY <1>1, <2>1, PingTypes, OffCpuTypes DEF RunStates, TypeOK
  <2> QED BY <1>5, <1>13, <2>1 DEF TaskBlocked, Checks
<1>14. CASE TaskSwitchto(c)
  <2>1. CASE OffCpu(c, "kBlocked") /\ UNCHANGED <<rq, prio_boost, agentVars>>
    BY <1>1, <2>1, OffCpuTypes DEF RunStates, TypeOK, KernelTypeOK
  <2> QED BY <1>5, <1>14, <2>1 DEF TaskSwitchto, Checks
<1>15. CASE TaskYield(c)
  <2>1. CASE /\ OffCpu(c, "kQueued") /\ PingChainCpu(m)
             /\ rq' = [rq EXCEPT ![tcpu[m.task]] = Pushed(@, m.task, prio_boost[m.task])]
             /\ UNCHANGED prio_boost
    <3>1. rq' \in [Cpus -> Seq(Tasks)]
      BY <1>2, <1>6, <2>1 DEF TypeOK
    <3> QED BY <1>1, <2>1, <3>1, PingTypes, OffCpuTypes DEF RunStates, TypeOK
  <2> QED BY <1>5, <1>15, <2>1 DEF TaskYield, Checks
<1>16. CASE TaskPreempted(c)
  <2>1. CASE /\ OffCpu(c, "kQueued") /\ PingChainCpu(m)
             /\ rq' = [rq EXCEPT ![tcpu[m.task]] = Pushed(@, m.task, TRUE)]
             /\ prio_boost' = [prio_boost EXCEPT ![m.task] = TRUE]
    <3>1. rq' \in [Cpus -> Seq(Tasks)] /\ prio_boost' \in [Tasks -> BOOLEAN]
      BY <1>6, <2>1 DEF TypeOK
    <3> QED BY <1>1, <2>1, <3>1, PingTypes, OffCpuTypes DEF RunStates, TypeOK
  <2> QED BY <1>5, <1>16, <2>1 DEF TaskPreempted, Checks
<1>17. CASE TaskDead(c)
  <2>1. CASE run_state[m.task] = "kBlocked"
    <3>0. /\ FreeTask(m.task) /\ Consume(c)
          /\ UNCHANGED <<taskVars, seq, assoc, agentVars, cfsVars, cpuVars, nextCpu,
                         pc, localVars, failed>>
      BY <1>17, <2>1 DEF TaskDead
    <3>1. TypeOK'
      <4> HIDE DEF m
      <4> QED BY <1>4, <3>0 DEF FreeTask, TypeOK, KernelTypeOK, RunStates
    <3>2. ControlOK'
      BY <1>3, <1>4, <1>17, <2>1 DEF TaskDead, ControlOK, Migrating
    <3> QED BY <3>1, <3>2
  <2> QED BY <1>5, <1>17, <2>1 DEF TaskDead, Checks
<1>18. CASE TaskDeparted(c)
  <2>1. CASE ~Abort("TaskDeparted", m.task)
    <3>0. ASSUME rq' = [rq EXCEPT ![tcpu[m.task]] = Erased(@, m.task)],
                 tcpu[m.task] >= 0, InQueue(m.task, rq[tcpu[m.task]])
          PROVE  rq' \in [Cpus -> Seq(Tasks)]
      <4>1. tcpu[m.task] \in Cpus /\ rq[tcpu[m.task]] \in Seq(Tasks)
        BY <1>2, <3>0 DEF TypeOK, NoCpu
      <4>2. Erased(rq[tcpu[m.task]], m.task) \in Seq(Tasks)
        BY <1>2, <3>0, <4>1, ErasedType
      <4> QED BY <3>0, <4>1, <4>2 DEF TypeOK
    <3>1. rq' \in [Cpus -> Seq(Tasks)]
      BY <1>18, <2>1, <3>0 DEF TaskDeparted, TypeOK
    <3>2. current' \in [Cpus -> Tasks \cup {NoTask}]
      BY <1>18, <2>1 DEF TaskDeparted, ClearCurrent, TypeOK
    <3>3. /\ ast' \in [Cpus -> {"running", "sleeping", "waking"}]
          /\ stale' \in [Cpus -> BOOLEAN] /\ rtla' \in [Cpus -> BOOLEAN]
      BY <1>18, <2>1, PingTypes DEF TaskDeparted
    <3>4. /\ FreeTask(m.task) /\ Consume(c)
          /\ UNCHANGED <<taskVars, seq, assoc, cfsVars, nextCpu, pc, localVars, failed>>
      BY <1>18, <2>1 DEF TaskDeparted
    <3>6. TypeOK'
      <4> HIDE DEF m
      <4> QED BY <1>4, <3>1, <3>2, <3>3, <3>4 DEF FreeTask, TypeOK, KernelTypeOK, RunStates
    <3>5. ControlOK'
      BY <1>3, <1>4, <1>18, <2>1 DEF TaskDeparted, ControlOK, Migrating
    <3> QED BY <3>5, <3>6
  <2> QED BY <1>5, <1>18, <2>1 DEF TaskDeparted, Checks
<1> QED BY <1>7, <1>8, <1>10, <1>11, <1>12, <1>13, <1>14, <1>15, <1>16, <1>17, <1>18
        DEF Handler

\* The steps of an agent that are not message handlers.
LEMMA AgentTypes ==
  ASSUME TypeInv, NEW c \in Cpus, AgentStep(c)
  PROVE  TypeInv'
<1> USE DEF TypeInv, kernelVars, taskVars, agentVars, cfsVars, fifoTaskVars, cpuVars,
            localVars, fifoVars
<1>1. CASE Handler(c)
  BY <1>1, HandlerTypes
<1>2. CASE ReadBarrier(c)
  <2>1. TypeOK'
    BY <1>2 DEF ReadBarrier, Goto, TypeOK, KernelTypeOK, Labels
  <2>2. ControlOK'
    BY <1>2 DEF ReadBarrier, Goto, At, TypeOK, ControlOK, Migrating
  <2> QED BY <2>1, <2>2
<1>3. ASSUME pc[c] \in Migrating
      PROVE  /\ chan[c] # <<>> /\ target[c] \in Cpus /\ next[c] = NoTask
             /\ Msg(c).task \in Tasks /\ Msg(c).seq \in Nat
  <2>1. chan[c] # <<>> /\ target[c] \in Cpus /\ next[c] = NoTask
    BY <1>3 DEF ControlOK, Migrating
  <2> QED BY <2>1, MsgTypeOK
<1>4. CASE MigrateEnqueue(c)
  <2> DEFINE t == Msg(c).task
  <2>1. pc[c] = "enqueue" /\ pc[c] \in Migrating
    BY <1>4 DEF MigrateEnqueue, At, Migrating
  <2>2. CASE t \in known /\ EnqueueOk(run_state[t], target[c])
    <3>1. /\ tcpu' = [tcpu EXCEPT ![t] = target[c]]
          /\ run_state' = [run_state EXCEPT ![t] = "kQueued"]
          /\ rq' = [rq EXCEPT ![target[c]] = Pushed(@, t, prio_boost[t])]
          /\ pc' = [pc EXCEPT ![c] = "ping"]
          /\ UNCHANGED <<kernelVars, known, seqnum, prio_boost, current, nextCpu,
                         localVars, failed>>
      BY <1>4, <2>2 DEF MigrateEnqueue, Goto
    <3> HIDE DEF t
    <3>2. t \in Tasks /\ prio_boost[t] \in BOOLEAN
      BY <1>3, <2>1 DEF TypeOK, t
    <3>3. rq' \in [Cpus -> Seq(Tasks)]
      BY <1>3, <2>1, <3>1, <3>2, EnqueueTypes
    <3>4. TypeOK'
      BY <1>3, <2>1, <3>1, <3>2, <3>3 DEF TypeOK, KernelTypeOK, RunStates, Labels
    <3>5. ControlOK'
      BY <2>1, <3>1 DEF TypeOK, ControlOK, Migrating
    <3> QED BY <3>4, <3>5
  <2>3. CASE ~(t \in known /\ EnqueueOk(run_state[t], target[c]))
    BY <1>3, <1>4, <2>1, <2>3, AbortTypes DEF MigrateEnqueue, Checks
  <2> QED BY <2>2, <2>3
<1>5. CASE MigratePing(c)
  <2>1. TypeOK'
    BY <1>5, WakeTypes DEF MigratePing, Goto, TypeOK, KernelTypeOK, Labels
  <2>2. ControlOK'
    BY <1>5 DEF MigratePing, Goto, At, TypeOK, ControlOK, Migrating
  <2> QED BY <2>1, <2>2
<1>6. CASE AdvanceMigrated(c)
  <2> DEFINE m == Msg(c)
  <2>1. pc[c] = "advance" /\ pc[c] \in Migrating
    BY <1>6 DEF AdvanceMigrated, At, Migrating
  <2>2. CASE m.type = "TASK_NEW" \/ (m.task \in known /\ AdvanceOk(m))
    <3>1. /\ seqnum' = seqnum \/ seqnum' = [seqnum EXCEPT ![m.task] = m.seq]
          /\ Consume(c)
          /\ target' = [target EXCEPT ![c] = NoCpu]
          /\ pc' = [pc EXCEPT ![c] = "drain"]
          /\ UNCHANGED <<taskVars, seq, assoc, agentVars, cfsVars, known, run_state,
                         tcpu, prio_boost, cpuVars, nextCpu, next, onIdle, failed>>
      BY <1>6, <2>2 DEF AdvanceMigrated, Advance, Goto
    <3> HIDE DEF m
    <3>2. /\ chan' \in [Cpus -> Seq(Messages)]
          /\ \A d \in Cpus : d # c => chan'[d] = chan[d]
      BY <1>3, <2>1, <3>1, ConsumeTypes
    <3>3. seqnum' \in [Tasks -> Nat]
      BY <1>3, <2>1, <3>1 DEF TypeOK, m
    <3>4. TypeOK'
      BY <3>1, <3>2, <3>3 DEF TypeOK, KernelTypeOK, Labels
    <3>5. ControlOK'
      BY <1>3, <2>1, <3>1, <3>2 DEF TypeOK, ControlOK, Migrating
    <3> QED BY <3>4, <3>5
  <2>3. CASE ~(m.type = "TASK_NEW" \/ (m.task \in known /\ AdvanceOk(m)))
    BY <1>3, <1>6, <2>1, <2>3, AbortTypes DEF AdvanceMigrated, Checks
  <2> QED BY <2>2, <2>3
<1>7. CASE PickNext(c)
  <2>1. /\ pc[c] = "drain" /\ next[c] = NoTask
        /\ UNCHANGED <<kernelVars, known, tcpu, seqnum, prio_boost, current, nextCpu,
                       target>>
    BY <1>7 DEF PickNext, At, ControlOK
  <2>2. /\ run_state' \in [Tasks -> RunStates] /\ rq' \in [Cpus -> Seq(Tasks)]
        /\ failed' \in [in : Checks, task : Tasks \cup {NoTask}]
        /\ onIdle' \in [Cpus -> BOOLEAN]
        /\ \/ /\ pc' = [pc EXCEPT ![c] = "wait"]
              /\ \E t \in Tasks : next' = [next EXCEPT ![c] = t]
           \/ pc' = [pc EXCEPT ![c] = "yield"] /\ next' = next
           \/ pc' = pc /\ next' = next
    <3>1. CASE ~boosted[c] /\ current[c] # NoTask
      BY <1>7, <3>1 DEF PickNext, Goto, TypeOK
    <3>2. CASE ~boosted[c] /\ current[c] = NoTask /\ rq[c] # <<>>
      <4>1. Head(rq[c]) \in Tasks /\ Tail(rq[c]) \in Seq(Tasks)
        BY <3>2, DequeuedFacts DEF TypeOK
      <4>2. CASE run_state[Head(rq[c])] = "kQueued"
        <5>1. /\ run_state' = [run_state EXCEPT ![Head(rq[c])] = "kRunnable"]
              /\ rq' = [rq EXCEPT ![c] = Tail(rq[c])] /\ UNCHANGED <<failed, onIdle>>
              /\ pc' = [pc EXCEPT ![c] = "wait"] /\ next' = [next EXCEPT ![c] = Head(rq[c])]
          BY <1>7, <3>2, <4>1, <4>2 DEF PickNext, Goto
        <5> QED BY <4>1, <5>1 DEF TypeOK, RunStates
      <4>3. CASE run_state[Head(rq[c])] # "kQueued"
        BY <1>7, <3>2, <4>1, <4>3 DEF PickNext, TypeOK, Checks
      <4> QED BY <4>2, <4>3
    <3>3. CASE boosted[c] \/ (current[c] = NoTask /\ rq[c] = <<>>)
      BY <1>7, <3>3 DEF PickNext, Goto, TypeOK, KernelTypeOK
    <3> QED BY <3>1, <3>2, <3>3
  <2>a. pc' \in [Cpus -> Labels] /\ next' \in [Cpus -> Tasks \cup {NoTask}]
    <3>1. pc \in [Cpus -> Labels] /\ next \in [Cpus -> Tasks \cup {NoTask}]
      BY DEF TypeOK
    <3>2. "wait" \in Labels /\ "yield" \in Labels
      BY DEF Labels
    <3> QED BY ONLY <2>2, <3>1, <3>2
  <2>3. TypeOK'
    BY <2>1, <2>2, <2>a DEF TypeOK, KernelTypeOK
  <2>4. ControlOK'
    BY <2>1, <2>2, FifoAssumption DEF TypeOK, ControlOK, Migrating
  <2> QED BY <2>3, <2>4
<1>8. CASE WaitOffCpu(c)
  <2>1. TypeOK'
    BY <1>8 DEF WaitOffCpu, Goto, TypeOK, KernelTypeOK, Labels
  <2>2. ControlOK'
    BY <1>8 DEF WaitOffCpu, Goto, At, TypeOK, ControlOK, Migrating
  <2> QED BY <2>1, <2>2
<1>9. CASE CommitTxn(c)
  <2> DEFINE t == next[c]
             state == TxnState(c, t, seqnum[t])
  <2>1. pc[c] = "commit" /\ t \in Tasks
    BY <1>9 DEF CommitTxn, UnexpectedFailure, At, ControlOK, TypeOK
  <2>2. CASE state = "COMPLETE"
    <3>1. /\ RunTask(c, t) /\ Goto(c, "oncpu")
          /\ UNCHANGED <<kst, seq, assoc, chan, stale, rtla, cfsVars, fifoTaskVars,
                         cpuVars, nextCpu, localVars, failed>>
      BY <1>9, <2>2 DEF CommitTxn, UnexpectedFailure
    <3>2. TypeOK'
      BY <2>1, <3>1 DEF RunTask, Goto, TypeOK, KernelTypeOK, Labels
    <3>3. ControlOK'
      BY <2>1, <3>1 DEF Goto, TypeOK, ControlOK, Migrating
    <3> QED BY <3>2, <3>3
  <2>3. CASE state = "TARGET_NOT_RUNNABLE"
    BY <1>9, <2>1, <2>3, AbortTypes DEF CommitTxn, UnexpectedFailure, Checks
  <2>4. CASE state \notin {"COMPLETE", "TARGET_NOT_RUNNABLE"}
    <3>1. /\ current' = [current EXCEPT ![c] = IF @ = t THEN NoTask ELSE @]
          /\ prio_boost' = [prio_boost EXCEPT ![t] = TRUE]
          /\ run_state' = [run_state EXCEPT ![t] = "kQueued"]
          /\ rq' = [rq EXCEPT ![c] = Pushed(@, t, TRUE)]
          /\ next' = [next EXCEPT ![c] = NoTask]
          /\ pc' = [pc EXCEPT ![c] = "top"]
          /\ UNCHANGED <<kernelVars, known, tcpu, seqnum, nextCpu, target, onIdle, failed>>
      BY <1>9, <2>4 DEF CommitTxn, UnexpectedFailure, Goto
    <3>2. rq' \in [Cpus -> Seq(Tasks)]
      <4> HIDE DEF t
      <4> QED BY <2>1, <3>1, EnqueueTypes
    <3>3. TypeOK'
      <4> HIDE DEF t
      <4> QED BY <2>1, <3>1, <3>2 DEF TypeOK, KernelTypeOK, Labels, RunStates
    <3>4. ControlOK'
      BY <2>1, <3>1 DEF TypeOK, ControlOK, Migrating
    <3> QED BY <3>3, <3>4
  <2> QED BY <2>2, <2>3, <2>4
<1>10. CASE TaskOnCpu(c)
  <2> DEFINE t == next[c]
  <2>1. pc[c] = "oncpu" /\ t \in Tasks
    BY <1>10 DEF TaskOnCpu, At, ControlOK, TypeOK
  <2>2. TypeOK'
    BY <1>10, <2>1 DEF TaskOnCpu, Goto, TypeOK, KernelTypeOK, Labels, RunStates
  <2>3. ControlOK'
    BY <1>10, <2>1 DEF TaskOnCpu, Goto, TypeOK, ControlOK, Migrating
  <2> QED BY <2>2, <2>3
<1>11. CASE LocalYield(c)
  <2>1. ast' \in [Cpus -> {"running", "sleeping", "waking"}] /\ rtla' \in [Cpus -> BOOLEAN]
    <3>1. CASE UNCHANGED <<ast, rtla>>
      BY <3>1 DEF TypeOK, KernelTypeOK
    <3>2. CASE BlockAgent(c, onIdle[c])
      <4>1. onIdle[c] \in BOOLEAN
        BY DEF TypeOK
      <4>2. rtla' = [rtla EXCEPT ![c] = onIdle[c]] /\ rtla \in [Cpus -> BOOLEAN]
        BY <3>2 DEF BlockAgent, TypeOK, KernelTypeOK
      <4>3. ast' \in [Cpus -> {"running", "sleeping", "waking"}]
        BY <3>2 DEF BlockAgent, TypeOK, KernelTypeOK
      <4> QED BY <4>1, <4>2, <4>3
    <3> QED BY <1>11, <3>1, <3>2 DEF LocalYield
  <2>2. TypeOK'
    BY <1>11, <2>1 DEF LocalYield, Goto, TypeOK, KernelTypeOK, Labels
  <2>3. ControlOK'
    BY <1>11 DEF LocalYield, Goto, At, TypeOK, ControlOK, Migrating
  <2> QED BY <2>2, <2>3
<1> QED BY <1>1, <1>2, <1>4, <1>5, <1>6, <1>7, <1>8, <1>9, <1>10, <1>11 DEF AgentStep

LEMMA InitTypes ==
  ASSUME Init
  PROVE  TypeInv
<1>1. TypeOK
  BY KernelAssumption
  DEF Init, KernelInit, TypeOK, KernelTypeOK, Cpus, DefaultCpu, NoFailure, Checks,
      RunStates, Labels
<1>2. ControlOK
  BY DEF Init, ControlOK, Migrating
<1> QED BY <1>1, <1>2 DEF TypeInv

LEMMA NextTypes ==
  ASSUME TypeInv, [Next]_vars
  PROVE  TypeInv'
<1>1. CASE KernelStep
  <2>1. /\ KernelTypeOK'
        /\ \A c \in Cpus : chan[c] # <<>> => chan'[c] # <<>>
        /\ UNCHANGED fifoVars
    BY <1>1, KernelTypes DEF KernelStep, TypeInv, TypeOK
  <2> USE DEF fifoVars, fifoTaskVars, cpuVars, localVars
  <2>2. TypeOK'
    BY <2>1 DEF TypeInv, TypeOK
  <2>3. ControlOK'
    BY <2>1 DEF TypeInv, ControlOK, TypeOK
  <2> QED BY <2>2, <2>3 DEF TypeInv
<1>2. CASE \E c \in Cpus : AgentStep(c)
  BY <1>2, AgentTypes
<1>3. CASE UNCHANGED vars
  <2> USE DEF vars, kernelVars, taskVars, agentVars, cfsVars, fifoVars, fifoTaskVars,
              cpuVars, localVars
  <2>1. TypeOK'
    BY <1>3 DEF TypeInv, TypeOK, KernelTypeOK
  <2>2. ControlOK'
    BY <1>3 DEF TypeInv, ControlOK
  <2> QED BY <2>1, <2>2 DEF TypeInv
<1> QED BY <1>1, <1>2, <1>3 DEF Next

(***************************************************************************)
(* Every reachable state of the scheduler and the kernel is well typed: in *)
(* particular FifoSchedule always has a task in `next' when it commits,    *)
(* Migrate always has a message and a target CPU, and no run queue holds   *)
(* the null task.                                                          *)
(***************************************************************************)
THEOREM TypeSafe == Spec => []TypeOK
<1>1. Init => TypeInv
  BY InitTypes
<1>2. TypeInv /\ [Next]_vars => TypeInv'
  BY NextTypes
<1>3. TypeInv => TypeOK
  BY DEF TypeInv
<1> QED BY <1>1, <1>2, <1>3, PTL DEF Spec
-------------------------------------------------------------------------------
(***************************************************************************)
(* The inductive invariant.  RunqueueOK is not inductive: a handler could  *)
(* take a task away from an agent that holds it in `next' if its message   *)
(* were in another agent's channel.  That it is not follows from where the *)
(* messages of a task are, and that changes when Migrate associates the    *)
(* task with another channel, which the kernel only does when there is no  *)
(* message behind the one Migrate handles.                                 *)
(***************************************************************************)

\* A FifoTask that does not exist has no state.
FreedIsBlank ==
  \A t \in Tasks \ known : run_state[t] = "kBlocked" /\ tcpu[t] = NoCpu

\* Between AssociateTask and Enqueue the task is in no agent's hands but the
\* default agent's, although its messages already go to another one.
InFlight ==
  \A c \in Cpus : pc[c] = "enqueue" =>
    LET t == Msg(c).task
    IN  /\ t \in known /\ run_state[t] = "kRunnable"
        /\ tcpu[t] = NoCpu /\ assoc[t] = target[c]

\* The messages of a task are in the channel of the agent it is associated
\* with, but for the one that is being handled by Migrate.
Routed ==
  \A c \in Cpus : \A i \in 1 .. Len(chan[c]) :
    assoc[chan[c][i].task] = c \/ (i = 1 /\ pc[c] \in Migrating)

\* A task is associated with the CPU it is assigned to, and with the default
\* CPU until it is assigned to one.
AssociatedToCpu ==
  \A t \in known :
    /\ tcpu[t] # NoCpu => assoc[t] = tcpu[t]
    /\ tcpu[t] = NoCpu /\ run_state[t] = "kBlocked" => assoc[t] = DefaultCpu

\* The messages of a task are in the order of their sequence numbers, none of
\* which is beyond the status word's.
InOrder ==
  \A c \in Cpus : \A i \in 1 .. Len(chan[c]) :
    /\ chan[c][i].seq <= seq[chan[c][i].task]
    /\ \A j \in 1 .. Len(chan[c]) :
         i < j /\ chan[c][i].task = chan[c][j].task => chan[c][i].seq < chan[c][j].seq

\* A TASK_NEW goes to the default agent; a thread that has never been in ghOSt
\* has left no trace.
NewTasks ==
  /\ \A c \in Cpus : \A i \in 1 .. Len(chan[c]) :
       chan[c][i].type = "TASK_NEW" => c = DefaultCpu
  /\ \A t \in Tasks : kst[t] = "new" => t \notin known /\ via[t] = "none" /\ Drained(t)

\* Where the tasks are.
PlaceInv == RunqueueOK /\ FreedIsBlank

\* Who may touch them.
OwnerInv == OnlyDefaultAgentMigrates /\ InFlight /\ AssociatedToCpu

\* Where their messages are.
MsgInv == Routed /\ InOrder /\ NewTasks

Inv == TypeInv /\ PlaceInv /\ OwnerInv /\ MsgInv

-------------------------------------------------------------------------------
(***************************************************************************)
(* Moving a task from one place to another.                                *)
(***************************************************************************)

\* A task that is not queued goes to the run queue of CPU k, and no agent
\* holds it any more.
LEMMA EnqueuePlaces ==
  ASSUME TypeOK, PlaceInv, NEW t \in known, NEW k \in Cpus,
         run_state[t] # "kQueued",
         \E b \in BOOLEAN : rq' = [rq EXCEPT ![k] = Pushed(@, t, b)],
         run_state' = [run_state EXCEPT ![t] = "kQueued"],
         tcpu'[t] = k, \A u \in Tasks : u # t => tcpu'[u] = tcpu[u], known' = known,
         \A d \in Cpus : current'[d] = IF current[d] = t THEN NoTask ELSE current[d],
         \A d \in Cpus : next'[d] = NoTask \/ (next'[d] = next[d] /\ next[d] # t)
  PROVE  PlaceInv'
<1> USE DEF PlaceInv, RunqueueOK
<1>1. /\ t \in Tasks /\ t # NoTask /\ rq[k] \in Seq(Tasks) /\ known \subseteq Tasks
      /\ run_state \in [Tasks -> RunStates] /\ tcpu \in [Tasks -> Cpus \cup {NoCpu}]
      /\ rq \in [Cpus -> Seq(Tasks)]
  BY FifoAssumption DEF TypeOK
<1>2. \A d \in Cpus : ~InQueue(t, rq[d])
  BY <1>1 DEF QueuesHoldQueued
<1>3. /\ \A u : InQueue(u, rq'[k]) <=> u = t \/ InQueue(u, rq[k])
      /\ NoRepeats(rq'[k])
      /\ \A d \in Cpus : d # k => rq'[d] = rq[d]
  BY <1>1, <1>2, PushedFacts DEF QueuedOnce
<1>4. QueuedOnce'
  BY <1>3 DEF QueuedOnce
<1>5. QueuesHoldQueued'
  BY <1>1, <1>2, <1>3 DEF QueuesHoldQueued
<1>6. QueuedAreInQueue'
  BY <1>1, <1>3 DEF QueuedAreInQueue
<1>7. CurrentIsOnCpu'
  BY <1>1 DEF CurrentIsOnCpu
<1>8. OnCpuIsCurrent'
  BY <1>1 DEF OnCpuIsCurrent
<1>9. NextIsHeld'
  BY <1>1 DEF NextIsHeld
<1>10. FreedIsBlank'
  BY <1>1 DEF FreedIsBlank
<1> QED BY <1>4, <1>5, <1>6, <1>7, <1>8, <1>9, <1>10

\* A task that no agent holds leaves its place, and perhaps ghOSt.
LEMMA DetachPlaces ==
  ASSUME TypeOK, PlaceInv, NEW t \in known,
         run_state' = [run_state EXCEPT ![t] = "kBlocked"],
         \A d \in Cpus : /\ NoRepeats(rq'[d])
                         /\ \A u : InQueue(u, rq'[d]) <=> u # t /\ InQueue(u, rq[d]),
         \A d \in Cpus : current'[d] = IF current[d] = t THEN NoTask ELSE current[d],
         \A d \in Cpus : next'[d] = next[d] /\ next[d] # t,
         \/ known' = known /\ tcpu' = tcpu
         \/ known' = known \ {t} /\ tcpu' = [tcpu EXCEPT ![t] = NoCpu]
  PROVE  PlaceInv'
<1> USE DEF PlaceInv, RunqueueOK
<1>1. /\ t \in Tasks /\ t # NoTask /\ known \subseteq Tasks
      /\ run_state \in [Tasks -> RunStates] /\ tcpu \in [Tasks -> Cpus \cup {NoCpu}]
  BY FifoAssumption DEF TypeOK
<1>2. \A u : u # t => (u \in known' <=> u \in known)
  OBVIOUS
<1>3. \A u \in Tasks : u # t => tcpu'[u] = tcpu[u] /\ run_state'[u] = run_state[u]
  BY <1>1
<1>4. QueuedOnce'
  BY DEF QueuedOnce
<1>5. QueuesHoldQueued'
  BY <1>1, <1>2, <1>3 DEF QueuesHoldQueued
<1>6. QueuedAreInQueue'
  BY <1>1, <1>3 DEF QueuedAreInQueue
<1>7. CurrentIsOnCpu'
  BY <1>1, <1>2, <1>3 DEF CurrentIsOnCpu
<1>8. OnCpuIsCurrent'
  BY <1>1, <1>3 DEF OnCpuIsCurrent
<1>9. NextIsHeld'
  BY <1>1, <1>2, <1>3 DEF NextIsHeld
<1>10. FreedIsBlank'
  BY <1>1, <1>2, <1>3 DEF FreedIsBlank
<1> QED BY <1>4, <1>5, <1>6, <1>7, <1>8, <1>9, <1>10

\* A blocked task that no agent holds becomes known or runnable.
LEMMA AwakenPlaces ==
  ASSUME TypeOK, PlaceInv, NEW t \in Tasks, run_state[t] = "kBlocked",
         NEW s \in {"kBlocked", "kRunnable"},
         known' = known \cup {t}, run_state' = [run_state EXCEPT ![t] = s],
         \A d \in Cpus : next[d] # t,
         UNCHANGED <<tcpu, rq, current, next>>
  PROVE  PlaceInv'
<1> USE DEF PlaceInv, RunqueueOK
<1>1. /\ t # NoTask /\ known \subseteq Tasks
      /\ run_state \in [Tasks -> RunStates] /\ tcpu \in [Tasks -> Cpus \cup {NoCpu}]
  BY FifoAssumption DEF TypeOK
<1>2. QueuedOnce' /\ QueuesHoldQueued'
  BY <1>1 DEF QueuedOnce, QueuesHoldQueued
<1>3. QueuedAreInQueue'
  BY <1>1 DEF QueuedAreInQueue
<1>4. CurrentIsOnCpu' /\ OnCpuIsCurrent'
  BY <1>1 DEF CurrentIsOnCpu, OnCpuIsCurrent, TypeOK
<1>5. NextIsHeld'
  BY <1>1 DEF NextIsHeld
<1>6. FreedIsBlank'
  BY <1>1 DEF FreedIsBlank
<1> QED BY <1>2, <1>3, <1>4, <1>5, <1>6

-------------------------------------------------------------------------------
(***************************************************************************)
(* Kernel steps.                                                           *)
(***************************************************************************)

\* The kernel produces message m of task t, which is not its first one.
Sent(t, m) ==
  /\ kst[t] # "new"
  /\ m \in Messages /\ m.task = t /\ m.type # "TASK_NEW" /\ m.seq = seq[t] + 1
  /\ seq' = [seq EXCEPT ![t] = m.seq]
  /\ chan' = [chan EXCEPT ![assoc[t]] = Append(@, m)]
  /\ assoc' = assoc

\* The kernel produces the TASK_NEW of task t.
Created(t, m) ==
  /\ kst[t] = "new" /\ kst'[t] # "new"
  /\ m \in Messages /\ m.task = t /\ m.seq = 1
  /\ seq' = [seq EXCEPT ![t] = 1]
  /\ chan' = [chan EXCEPT ![DefaultCpu] = Append(@, m)]
  /\ assoc' = [assoc EXCEPT ![t] = DefaultCpu]

\* No other step of the kernel touches the messages.
KernelEffect ==
  /\ \A t \in Tasks : kst'[t] = "new" => kst[t] = "new" /\ via'[t] = "none"
  /\ \/ UNCHANGED <<seq, chan, assoc>>
     \/ \E t \in Tasks, m \in Messages : Sent(t, m) \/ Created(t, m)

LEMMA ProduceSends ==
  ASSUME KernelTypeOK, NEW t \in Tasks, NEW type \in MsgTypes \ {"TASK_NEW"},
         NEW flag \in BOOLEAN, NEW cpu \in Cpus \cup {NoCpu}, Produce(t, type, flag, cpu),
         kst[t] # "new", assoc' = assoc
  PROVE  \E m \in Messages : Sent(t, m)
<1> DEFINE m == [type |-> type, task |-> t, seq |-> seq[t] + 1, flag |-> flag, cpu |-> cpu]
<1>1. seq[t] + 1 \in Nat
  BY DEF KernelTypeOK
<1>2. m \in Messages
  BY <1>1 DEF Messages
<1>3. Sent(t, m)
  BY <1>2 DEF Sent, Produce
<1> QED BY <1>2, <1>3

LEMMA ReportSends ==
  ASSUME KernelTypeOK, NEW t \in Tasks, NEW type \in MsgTypes \ {"TASK_NEW"},
         Report(t, type), kst[t] # "new", assoc' = assoc
  PROVE  \E m \in Messages : Sent(t, m)
<1>1. oncpu[t] \in Cpus \cup {NoCpu} /\ Produce(t, type, via[t] = "switchto", oncpu[t])
  BY DEF KernelTypeOK, Report
<1> QED BY <1>1, ProduceSends

LEMMA KernelEffects ==
  ASSUME KernelTypeOK, NewTasks, "reenter" \notin Events, KernelNext
  PROVE  KernelEffect
<1>0. /\ kst \in [Tasks -> {"new", "blocked", "runnable", "dying", "dead", "departed"}]
      /\ via \in [Tasks -> {"none", "txn", "switchto", "leaving"}]
      /\ \A t \in Tasks : kst[t] = "new" => via[t] = "none"
  BY DEF KernelTypeOK, NewTasks
<1>1. ASSUME NEW t \in Tasks, NEW b \in BOOLEAN, KTaskNew(t, b) PROVE KernelEffect
  <2> DEFINE m == [type |-> "TASK_NEW", task |-> t, seq |-> 1, flag |-> b, cpu |-> NoCpu]
  <2>1. m \in Messages
    BY DEF Messages, MsgTypes
  <2>2. Created(t, m)
    BY <1>0, <1>1, <2>1 DEF KTaskNew, Created
  <2>3. \A u \in Tasks : kst'[u] = "new" => kst[u] = "new" /\ via'[u] = "none"
    BY <1>0, <1>1 DEF KTaskNew
  <2> QED BY <2>1, <2>2, <2>3 DEF KernelEffect
<1>2. ASSUME NEW t \in Tasks, NEW b \in BOOLEAN, KWakeup(t, b) PROVE KernelEffect
  <2>1. \E m \in Messages : Sent(t, m)
    BY <1>2, ProduceSends DEF KWakeup, MsgTypes
  <2>2. \A u \in Tasks : kst'[u] = "new" => kst[u] = "new" /\ via'[u] = "none"
    BY <1>0, <1>2 DEF KWakeup
  <2> QED BY <2>1, <2>2 DEF KernelEffect
<1>3. ASSUME NEW t \in Tasks, KBlock(t) \/ KYield(t) \/ KExit(t) \/ KDead(t) \/ KDepart(t)
      PROVE  KernelEffect
  <2>1. \E m \in Messages : Sent(t, m)
    <3>1. kst[t] # "new"
      BY <1>3 DEF KBlock, KYield, KExit, KDead, KDepart, Running, InGhost
    <3>2. assoc' = assoc /\ \E type \in MsgTypes \ {"TASK_NEW"} : Report(t, type)
      BY <1>3 DEF KBlock, KYield, KExit, KDead, KDepart, MsgTypes
    <3> QED BY <3>1, <3>2, ReportSends
  <2>2. /\ \A u \in Tasks : kst'[u] = "new" => kst[u] = "new"
        /\ \A u \in Tasks : u # t => via'[u] = via[u]
        /\ kst'[t] # "new"
    BY <1>0, <1>3 DEF KBlock, KYield, KExit, KDead, KDepart, LeaveCpu, Running
  <2>3. \A u \in Tasks : kst'[u] = "new" => kst[u] = "new" /\ via'[u] = "none"
    BY <1>0, <2>2
  <2> QED BY <2>1, <2>3 DEF KernelEffect
<1>4. ASSUME NEW a \in Tasks, NEW b \in Tasks, KSwitchTo(a, b) PROVE KernelEffect
  <2>1. kst[a] # "new" /\ oncpu[a] \in Cpus \cup {NoCpu} /\ assoc' = assoc
    BY <1>4 DEF KSwitchTo, Running, KernelTypeOK
  <2>2. UNCHANGED <<seq, chan, assoc>> \/ \E m \in Messages : Sent(a, m)
    <3>1. CASE via[a] = "txn"
      <4>1. Produce(a, "TASK_SWITCHTO", FALSE, oncpu[a])
        BY <1>4, <3>1 DEF KSwitchTo
      <4> QED BY <2>1, <4>1, ProduceSends DEF MsgTypes
    <3>2. CASE via[a] # "txn"
      BY <1>4, <3>2 DEF KSwitchTo
    <3> QED BY <3>1, <3>2
  <2>3. \A u \in Tasks : kst'[u] = "new" => kst[u] = "new" /\ via'[u] = "none"
    BY <1>0, <1>4 DEF KSwitchTo
  <2> QED BY <2>2, <2>3 DEF KernelEffect
<1>5. ASSUME NEW t \in Tasks, KFinishSwitch(t) PROVE KernelEffect
  BY <1>0, <1>5 DEF KFinishSwitch, KernelEffect
<1>6. ASSUME NEW c \in Cpus, KAgentSwitchIn(c) PROVE KernelEffect
  <2>1. \A u \in Tasks : kst'[u] = "new" => kst[u] = "new" /\ via'[u] = "none"
    BY <1>0, <1>6 DEF KAgentSwitchIn
  <2>2. ASSUME NEW t \in Tasks, via[t] = "switchto", Produce(t, "TASK_PREEMPT", TRUE, c)
        PROVE  \E m \in Messages : Sent(t, m)
    <3>1. kst[t] # "new" /\ assoc' = assoc
      BY <1>0, <1>6, <2>2 DEF KAgentSwitchIn
    <3> QED BY <2>2, <3>1, ProduceSends DEF MsgTypes
  <2>3. UNCHANGED <<seq, chan, assoc>> \/ \E t \in Tasks, m \in Messages : Sent(t, m)
    BY <1>6, <2>2 DEF KAgentSwitchIn
  <2> QED BY <2>1, <2>3 DEF KernelEffect
<1>7. ASSUME NEW c \in Cpus, KCfsArrive(c) PROVE KernelEffect
  <2>1. ASSUME NEW t \in Tasks, Running(t), Report(t, "TASK_PREEMPT"), LeaveCpu(t)
        PROVE  KernelEffect
    <3>1. kst[t] # "new" /\ assoc' = assoc /\ kst' = kst
      BY <1>7, <2>1 DEF KCfsArrive, Running
    <3>2. \A u \in Tasks : u # t => via'[u] = via[u]
      BY <1>0, <2>1 DEF LeaveCpu
    <3>3. \E m \in Messages : Sent(t, m)
      BY <2>1, <3>1, ReportSends DEF MsgTypes
    <3>4. \A u \in Tasks : kst'[u] = "new" => kst[u] = "new" /\ via'[u] = "none"
      BY <1>0, <3>1, <3>2
    <3> QED BY <3>3, <3>4 DEF KernelEffect
  <2>2. CASE UNCHANGED <<oncpu, via, seq, chan, agentVars>>
    BY <1>0, <1>7, <2>2 DEF KCfsArrive, KernelEffect
  <2> QED BY <1>7, <2>1, <2>2 DEF KCfsArrive
<1>8. ASSUME NEW c \in Cpus, KCfsLeave(c) PROVE KernelEffect
  BY <1>0, <1>8 DEF KCfsLeave, KernelEffect, taskVars
<1> QED BY <1>1, <1>2, <1>3, <1>4, <1>5, <1>6, <1>7, <1>8 DEF KernelNext

\* A kernel step leaves the head of every non-empty channel alone.
LEMMA AppendKeepsHead ==
  ASSUME TypeOK, NEW k \in Cpus, NEW m \in Messages,
         chan' = [chan EXCEPT ![k] = Append(@, m)]
  PROVE  /\ \A c \in Cpus : chan[c] # <<>> => chan'[c] # <<>> /\ Head(chan'[c]) = Head(chan[c])
         /\ \A c \in Cpus : c # k => chan'[c] = chan[c]
         /\ Len(chan[k]) \in Nat /\ Len(chan'[k]) = Len(chan[k]) + 1
         /\ chan'[k][Len(chan[k]) + 1] = m
         /\ \A i \in 1 .. Len(chan[k]) : chan'[k][i] = chan[k][i]
<1>1. chan \in [Cpus -> Seq(Messages)]
  BY DEF TypeOK, KernelTypeOK
<1>2. chan'[k] = Append(chan[k], m) /\ \A c \in Cpus : c # k => chan'[c] = chan[c]
  BY <1>1
<1>3. /\ Len(chan[k]) \in Nat /\ Len(chan'[k]) = Len(chan[k]) + 1
      /\ chan'[k] \in Seq(Messages)
      /\ chan'[k][Len(chan[k]) + 1] = m
      /\ \A i \in 1 .. Len(chan[k]) : chan'[k][i] = chan[k][i]
  BY <1>1, <1>2, AppendFacts
<1>4. ASSUME chan[k] # <<>> PROVE chan'[k] # <<>> /\ Head(chan'[k]) = Head(chan[k])
  <2>1. chan[k][1] = chan'[k][1] /\ Len(chan'[k]) > 0
    BY <1>1, <1>3, <1>4, TailFacts
  <2>2. chan'[k] # <<>>
    BY <1>3, <2>1, EmptySeq
  <2> QED BY <1>1, <1>3, <1>4, <2>1, <2>2, TailFacts
<1> QED BY <1>2, <1>3, <1>4

LEMMA ChannelTypes ==
  ASSUME TypeOK, NEW c \in Cpus, NEW i \in 1 .. Len(chan[c])
  PROVE  chan[c][i].task \in Tasks /\ chan[c][i].seq \in Nat
<1>1. chan[c] \in Seq(Messages)
  BY DEF TypeOK, KernelTypeOK
<1>2. chan[c][i] \in Messages
  BY <1>1
<1> QED BY <1>2 DEF Messages

LEMMA KernelKeepsInv ==
  ASSUME Inv, "reenter" \notin Events, KernelStep, TypeInv'
  PROVE  Inv'
<1> USE DEF fifoVars, fifoTaskVars, cpuVars, localVars, Inv
<1>1. TypeOK /\ TypeOK' /\ KernelEffect /\ UNCHANGED fifoVars
  BY KernelEffects DEF KernelStep, TypeInv, TypeOK, MsgInv
<1>2. PlaceInv'
  BY <1>1 DEF PlaceInv, RunqueueOK, QueuedOnce, QueuesHoldQueued, QueuedAreInQueue,
              CurrentIsOnCpu, OnCpuIsCurrent, NextIsHeld, FreedIsBlank
<1>3. OnlyDefaultAgentMigrates'
  BY <1>1 DEF OwnerInv, OnlyDefaultAgentMigrates
<1>4. \A t \in Tasks : kst'[t] = "new" => kst[t] = "new" /\ via'[t] = "none"
  BY <1>1 DEF KernelEffect
<1>5. \A c \in Cpus : pc[c] = "enqueue" => chan[c] # <<>> /\ Msg(c).task \in Tasks
  BY <1>1, MsgTypeOK DEF TypeInv, ControlOK, Migrating
<1>6. CASE UNCHANGED <<seq, chan, assoc>>
  <2>1. InFlight' /\ AssociatedToCpu'
    BY <1>1, <1>6 DEF OwnerInv, InFlight, AssociatedToCpu, Msg
  <2>2. Routed' /\ InOrder' /\ NewTasks'
    BY <1>1, <1>4, <1>6 DEF MsgInv, Routed, InOrder, NewTasks, Drained
  <2> QED BY <1>2, <1>3, <2>1, <2>2 DEF OwnerInv, MsgInv
<1>7. ASSUME NEW t \in Tasks, NEW m \in Messages, Sent(t, m) PROVE Inv'
  <2> DEFINE k == assoc[t]
  <2>1. /\ k \in Cpus /\ chan' = [chan EXCEPT ![k] = Append(@, m)] /\ assoc' = assoc
        /\ seq[t] \in Nat /\ seq'[t] = seq[t] + 1 /\ m.seq = seq[t] + 1 /\ m.task = t
        /\ \A u \in Tasks : u # t => seq'[u] = seq[u]
        /\ kst[t] # "new" /\ m.type # "TASK_NEW"
    BY <1>1, <1>7 DEF Sent, TypeOK, KernelTypeOK
  <2> HIDE DEF k
  <2>2. /\ \A c \in Cpus : chan[c] # <<>> => chan'[c] # <<>> /\ Head(chan'[c]) = Head(chan[c])
        /\ \A c \in Cpus : c # k => chan'[c] = chan[c]
        /\ Len(chan[k]) \in Nat /\ Len(chan'[k]) = Len(chan[k]) + 1
        /\ chan'[k][Len(chan[k]) + 1] = m
        /\ \A i \in 1 .. Len(chan[k]) : chan'[k][i] = chan[k][i]
    BY <1>1, <2>1, AppendKeepsHead
  <2>3. InFlight' /\ AssociatedToCpu'
    BY <1>1, <1>5, <2>1, <2>2 DEF OwnerInv, InFlight, AssociatedToCpu, Msg
  <2>4. Routed'
    BY <1>1, <2>1, <2>2 DEF MsgInv, Routed, k
  <2>5. InOrder'
    <3>1. \A c \in Cpus : \A i \in 1 .. Len(chan[c]) : chan[c][i].task \in Tasks /\ chan[c][i].seq \in Nat
      BY <1>1, ChannelTypes
    <3>a. \A u \in Tasks : seq[u] \in Nat
      BY <1>1 DEF TypeOK, KernelTypeOK
    <3>2. \A u \in Tasks : seq[u] \in Nat /\ seq'[u] \in Nat /\ seq[u] <= seq'[u]
      BY <2>1, <3>a
    <3> SUFFICES ASSUME NEW c \in Cpus, NEW i \in 1 .. Len(chan'[c])
                 PROVE  /\ chan'[c][i].seq <= seq'[chan'[c][i].task]
                        /\ \A j \in 1 .. Len(chan'[c]) :
                             i < j /\ chan'[c][i].task = chan'[c][j].task
                               => chan'[c][i].seq < chan'[c][j].seq
      BY DEF InOrder
    <3>3. CASE c # k
      <4>1. chan'[c] = chan[c] /\ i \in 1 .. Len(chan[c])
        BY <2>2, <3>3
      <4>2. /\ chan[c][i].seq <= seq[chan[c][i].task]
            /\ \A j \in 1 .. Len(chan[c]) :
                 i < j /\ chan[c][i].task = chan[c][j].task
                   => chan[c][i].seq < chan[c][j].seq
        BY <4>1 DEF MsgInv, InOrder
      <4>3. chan[c][i].seq <= seq'[chan[c][i].task]
        BY <3>1, <3>2, <4>1, <4>2
      <4> QED BY <4>1, <4>2, <4>3
    <3>4. CASE c = k /\ i \in 1 .. Len(chan[k])
      <4>1. chan'[c][i] = chan[c][i] /\ chan[c][i].seq <= seq[chan[c][i].task]
        BY <2>2, <3>4 DEF MsgInv, InOrder
      <4>2. ASSUME NEW j \in 1 .. Len(chan'[c]), i < j, chan'[c][i].task = chan'[c][j].task
            PROVE  chan'[c][i].seq < chan'[c][j].seq
        <5>1. CASE j \in 1 .. Len(chan[k])
          BY <2>2, <3>4, <4>2, <5>1 DEF MsgInv, InOrder
        <5>2. CASE j = Len(chan[k]) + 1
          BY <2>1, <2>2, <3>1, <3>2, <3>4, <4>1, <4>2, <5>2
        <5> QED BY <2>2, <3>4, <5>1, <5>2
      <4> QED BY <3>1, <3>2, <3>4, <4>1, <4>2
    <3>5. CASE c = k /\ i = Len(chan[k]) + 1
      BY <2>1, <2>2, <3>5
    <3> QED BY <2>2, <3>3, <3>4, <3>5
  <2>6. NewTasks'
    BY <1>1, <1>4, <2>1, <2>2 DEF MsgInv, NewTasks, Drained
  <2> QED BY <1>2, <1>3, <2>3, <2>4, <2>5, <2>6 DEF OwnerInv, MsgInv
<1>8. ASSUME NEW t \in Tasks, NEW m \in Messages, Created(t, m) PROVE Inv'
  <2> DEFINE k == DefaultCpu
  <2>1. /\ k \in Cpus /\ chan' = [chan EXCEPT ![k] = Append(@, m)]
        /\ assoc'[t] = k /\ \A u \in Tasks : u # t => assoc'[u] = assoc[u] /\ seq'[u] = seq[u]
        /\ seq'[t] = 1 /\ m.seq = 1 /\ m.task = t
        /\ kst'[t] # "new" /\ t \notin known
        /\ Drained(t)
    BY <1>1, <1>8, KernelAssumption
    DEF Created, TypeOK, KernelTypeOK, DefaultCpu, Cpus, MsgInv, NewTasks
  <2>2. /\ \A c \in Cpus : chan[c] # <<>> => chan'[c] # <<>> /\ Head(chan'[c]) = Head(chan[c])
        /\ \A c \in Cpus : c # k => chan'[c] = chan[c]
        /\ Len(chan[k]) \in Nat /\ Len(chan'[k]) = Len(chan[k]) + 1
        /\ chan'[k][Len(chan[k]) + 1] = m
        /\ \A i \in 1 .. Len(chan[k]) : chan'[k][i] = chan[k][i]
    BY <1>1, <2>1, AppendKeepsHead
  <2> HIDE DEF k
  <2>3. InFlight'
    BY <1>1, <1>5, <2>1, <2>2 DEF OwnerInv, InFlight, Msg
  <2>4. AssociatedToCpu'
    BY <1>1, <2>1 DEF OwnerInv, AssociatedToCpu, TypeOK
  <2>5. \A c \in Cpus : \A i \in 1 .. Len(chan[c]) :
          chan[c][i].task \in Tasks /\ chan[c][i].seq \in Nat /\ chan[c][i].task # t
    BY <1>1, <2>1, ChannelTypes DEF Drained
  <2>6. Routed'
    BY <1>1, <2>1, <2>2, <2>5 DEF MsgInv, Routed
  <2>7. InOrder'
    <3> SUFFICES ASSUME NEW c \in Cpus, NEW i \in 1 .. Len(chan'[c])
                 PROVE  /\ chan'[c][i].seq <= seq'[chan'[c][i].task]
                        /\ \A j \in 1 .. Len(chan'[c]) :
                             i < j /\ chan'[c][i].task = chan'[c][j].task
                               => chan'[c][i].seq < chan'[c][j].seq
      BY DEF InOrder
    <3>1. CASE c # k
      <4>1. chan'[c] = chan[c] /\ i \in 1 .. Len(chan[c])
        BY <2>2, <3>1
      <4>2. /\ chan[c][i].seq <= seq[chan[c][i].task]
            /\ \A j \in 1 .. Len(chan[c]) :
                 i < j /\ chan[c][i].task = chan[c][j].task => chan[c][i].seq < chan[c][j].seq
        BY <4>1 DEF MsgInv, InOrder
      <4>3. seq'[chan[c][i].task] = seq[chan[c][i].task]
        BY <2>1, <2>5, <4>1
      <4> QED BY <4>1, <4>2, <4>3
    <3>2. CASE c = k /\ i \in 1 .. Len(chan[k])
      <4>1. \A j \in 1 .. Len(chan'[c]) : j \in 1 .. Len(chan[k]) \/ j = Len(chan[k]) + 1
        BY <2>2, <3>2
      <4> QED BY <2>1, <2>2, <2>5, <3>2, <4>1 DEF MsgInv, InOrder
    <3>3. CASE c = k /\ i = Len(chan[k]) + 1
      BY <2>1, <2>2, <3>3
    <3> QED BY <2>2, <3>1, <3>2, <3>3
  <2>8. NewTasks'
    <3>1. \A c \in Cpus : \A i \in 1 .. Len(chan'[c]) : chan'[c][i].type = "TASK_NEW" => c = DefaultCpu
      BY <2>2 DEF MsgInv, NewTasks, k
    <3>2. \A u \in Tasks : kst'[u] = "new" => Drained(u)'
      BY <1>4, <2>1, <2>2 DEF MsgInv, NewTasks, Drained
    <3> QED BY <1>1, <1>4, <3>1, <3>2 DEF MsgInv, NewTasks
  <2> QED BY <1>2, <1>3, <2>3, <2>4, <2>6, <2>7, <2>8 DEF OwnerInv, MsgInv
<1> QED BY <1>1, <1>6, <1>7, <1>8 DEF KernelEffect

-------------------------------------------------------------------------------
(***************************************************************************)
(* Agent steps.                                                            *)
(***************************************************************************)

\* The agent that handles a message of a task is the only one that may touch
\* the task: nobody holds it in `next' and nobody is handing it over, unless
\* it is runnable and has no CPU yet.
LEMMA HandlerOwnsTask ==
  ASSUME Inv, NEW c \in Cpus, pc[c] = "drain", chan[c] # <<>>, NEW t, t = Msg(c).task
  PROVE  /\ t \in Tasks /\ assoc[t] = c /\ kst[t] # "new"
         /\ tcpu[t] \in {c, NoCpu}
         /\ \A d \in Cpus : next[d] # t
         /\ \A d \in Cpus : pc[d] = "enqueue" /\ Msg(d).task = t =>
              t \in known /\ run_state[t] = "kRunnable" /\ tcpu[t] = NoCpu
<1> USE DEF Inv, TypeInv
<1>1. t \in Tasks /\ 1 \in 1 .. Len(chan[c]) /\ chan[c][1].task = t
  BY MsgTypeOK
<1>2. assoc[t] = c
  BY <1>1 DEF MsgInv, Routed, Migrating
<1>3. kst[t] # "new"
  BY <1>1 DEF MsgInv, NewTasks, Drained
<1>4. tcpu[t] \in {c, NoCpu}
  BY <1>1, <1>2 DEF OwnerInv, AssociatedToCpu, PlaceInv, FreedIsBlank
<1>5. \A d \in Cpus : next[d] # t
  <2>1. next[c] = NoTask
    BY DEF ControlOK
  <2>2. t # NoTask /\ c # NoCpu /\ \A d \in Cpus : d # NoCpu
    BY <1>1, FifoAssumption, KernelAssumption DEF Cpus, NoCpu
  <2> QED BY <1>4, <2>1, <2>2 DEF PlaceInv, RunqueueOK, NextIsHeld
<1>6. \A d \in Cpus : pc[d] = "enqueue" /\ Msg(d).task = t =>
        t \in known /\ run_state[t] = "kRunnable" /\ tcpu[t] = NoCpu
  BY DEF OwnerInv, InFlight
<1> QED BY <1>1, <1>2, <1>3, <1>4, <1>5, <1>6

\* Consuming a message that is not, or no longer, needed.
LEMMA ConsumeKeepsMsgs ==
  ASSUME Inv, NEW c \in Cpus, chan[c] # <<>>, Consume(c),
         pc' \in [Cpus -> Labels],
         \A d \in Cpus : d # c => pc'[d] = pc[d],
         UNCHANGED <<kst, via, seq, assoc>>,
         known' \subseteq known \cup {Msg(c).task}
  PROVE  MsgInv'
<1> USE DEF Inv, TypeInv
<1>1. chan \in [Cpus -> Seq(Messages)] /\ chan' = [chan EXCEPT ![c] = Tail(@)]
  BY DEF Consume, TypeOK, KernelTypeOK
<1>2. /\ \A d \in Cpus : d # c => chan'[d] = chan[d]
      /\ chan'[c] = Tail(chan[c])
      /\ chan[c] \in Seq(Messages)
  BY <1>1
<1>3. /\ Len(chan'[c]) = Len(chan[c]) - 1 /\ Len(chan[c]) \in Nat /\ Len(chan[c]) >= 1
      /\ \A i \in 1 .. Len(chan'[c]) : i + 1 \in 1 .. Len(chan[c]) /\ chan'[c][i] = chan[c][i + 1]
      /\ Msg(c) = chan[c][1]
  BY <1>2, TailFacts DEF Msg
<1>4. Routed'
  <2> SUFFICES ASSUME NEW d \in Cpus, NEW i \in 1 .. Len(chan'[d])
               PROVE  assoc[chan'[d][i].task] = d \/ (i = 1 /\ pc'[d] \in Migrating)
    BY DEF Routed
  <2>1. CASE d # c
    BY <1>2, <2>1 DEF MsgInv, Routed
  <2>2. CASE d = c
    <3>1. i + 1 \in 1 .. Len(chan[c]) /\ chan'[c][i] = chan[c][i + 1] /\ i + 1 # 1
      BY <1>3, <2>2
    <3> QED BY <2>2, <3>1 DEF MsgInv, Routed
  <2> QED BY <2>1, <2>2
<1>5. InOrder'
  <2> SUFFICES ASSUME NEW d \in Cpus, NEW i \in 1 .. Len(chan'[d])
               PROVE  /\ chan'[d][i].seq <= seq[chan'[d][i].task]
                      /\ \A j \in 1 .. Len(chan'[d]) :
                           i < j /\ chan'[d][i].task = chan'[d][j].task
                             => chan'[d][i].seq < chan'[d][j].seq
    BY DEF InOrder
  <2>1. CASE d # c
    <3>1. chan'[d] = chan[d] /\ i \in 1 .. Len(chan[d])
      BY <1>2, <2>1
    <3> QED BY <3>1 DEF MsgInv, InOrder
  <2>2. CASE d = c
    <3>1. i + 1 \in 1 .. Len(chan[c]) /\ chan'[c][i] = chan[c][i + 1]
      BY <1>3, <2>2
    <3>2. ASSUME NEW j \in 1 .. Len(chan'[c]), i < j, chan'[c][i].task = chan'[c][j].task
          PROVE  chan'[c][i].seq < chan'[c][j].seq
      <4>1. j + 1 \in 1 .. Len(chan[c]) /\ chan'[c][j] = chan[c][j + 1] /\ i + 1 < j + 1
        BY <1>3, <2>2, <3>2
      <4> QED BY <3>1, <3>2, <4>1 DEF MsgInv, InOrder
    <3> QED BY <2>2, <3>1, <3>2 DEF MsgInv, InOrder
  <2> QED BY <2>1, <2>2
<1>6. NewTasks'
  <2>1. \A d \in Cpus : \A i \in 1 .. Len(chan'[d]) : \E j \in 1 .. Len(chan[d]) : chan'[d][i] = chan[d][j]
    <3> SUFFICES ASSUME NEW d \in Cpus, NEW i \in 1 .. Len(chan'[d])
                 PROVE  \E j \in 1 .. Len(chan[d]) : chan'[d][i] = chan[d][j]
      OBVIOUS
    <3>1. CASE d # c
      BY <1>2, <3>1
    <3>2. CASE d = c
      <4>1. i + 1 \in 1 .. Len(chan[c]) /\ chan'[c][i] = chan[c][i + 1]
        BY <1>3, <3>2
      <4> QED BY <3>2, <4>1
    <3> QED BY <3>1, <3>2
  <2>2. \A t \in Tasks : kst[t] = "new" => t # Msg(c).task
    BY <1>3 DEF MsgInv, NewTasks, Drained
  <2> QED BY <2>1, <2>2 DEF MsgInv, NewTasks, Drained
<1> QED BY <1>4, <1>5, <1>6 DEF MsgInv

\* A step that leaves the messages, and who migrates, alone.
LEMMA QuietKeepsMsgs ==
  ASSUME Inv, UNCHANGED <<kst, seq, assoc, chan, known>>,
         \A t \in Tasks : kst[t] = "new" => via'[t] = via[t],
         \A d \in Cpus : pc[d] \in Migrating => pc'[d] \in Migrating
  PROVE  MsgInv'
<1> USE DEF Inv
<1>1. Routed'
  BY DEF MsgInv, Routed
<1>2. InOrder'
  BY DEF MsgInv, InOrder
<1>3. NewTasks'
  BY DEF MsgInv, NewTasks, Drained
<1> QED BY <1>1, <1>2, <1>3 DEF MsgInv

\* Migrate's AssociateTask succeeds only when the message it handles is the
\* last one of the task, so no message is left behind in the old channel.
LEMMA AssociateKeepsMsgs ==
  ASSUME Inv, NEW c \in Cpus, pc[c] = "drain", chan[c] # <<>>, NEW t, t = Msg(c).task,
         AssociateOk(t, Msg(c).seq), c = DefaultCpu,
         assoc' = [assoc EXCEPT ![t] = AssignedCpu], pc' = [pc EXCEPT ![c] = "enqueue"],
         UNCHANGED <<kst, via, seq, chan>>, known' = known \cup {t}
  PROVE  MsgInv'
<1> USE DEF Inv, TypeInv
<1>1. /\ t \in Tasks /\ assoc[t] = c /\ kst[t] # "new"
  BY HandlerOwnsTask
<1>2. /\ chan[c][1] = Msg(c) /\ Len(chan[c]) \in Nat /\ Len(chan[c]) >= 1
      /\ chan[c][1].seq = seq[t] /\ seq[t] \in Nat
  BY <1>1, MsgTypeOK DEF AssociateOk, TypeOK, KernelTypeOK
<1>3. \A d \in Cpus : \A i \in 1 .. Len(chan[d]) : chan[d][i].task = t => d = c /\ i = 1
  <2> SUFFICES ASSUME NEW d \in Cpus, NEW i \in 1 .. Len(chan[d]), chan[d][i].task = t
               PROVE  d = c /\ i = 1
    OBVIOUS
  <2>1. d = c
    <3>1. pc[d] \in Migrating => d = c
      BY DEF OwnerInv, OnlyDefaultAgentMigrates, Migrating
    <3> QED BY <1>1, <3>1 DEF MsgInv, Routed
  <2>2. chan[d][i].seq \in Nat /\ chan[d][i].seq <= seq[t]
    BY ChannelTypes DEF MsgInv, InOrder
  <2>3. 1 < i => chan[c][1].seq < chan[d][i].seq
    BY <1>2, <2>1 DEF MsgInv, InOrder
  <2> QED BY <1>2, <2>1, <2>2, <2>3
<1>4. Routed'
  <2>1. pc'[c] = "enqueue" /\ \A d \in Cpus : d # c => pc'[d] = pc[d]
    BY DEF TypeOK
  <2>2. \A u \in Tasks : u # t => assoc'[u] = assoc[u]
    BY DEF TypeOK, KernelTypeOK
  <2> SUFFICES ASSUME NEW d \in Cpus, NEW i \in 1 .. Len(chan[d])
               PROVE  assoc'[chan[d][i].task] = d \/ (i = 1 /\ pc'[d] \in Migrating)
    BY DEF Routed
  <2>3. CASE chan[d][i].task = t
    BY <1>3, <2>1, <2>3 DEF Migrating
  <2>4. CASE chan[d][i].task # t
    <3>1. assoc'[chan[d][i].task] = assoc[chan[d][i].task]
      BY <2>2, <2>4, ChannelTypes
    <3> QED BY <2>1, <3>1 DEF MsgInv, Routed, Migrating
  <2> QED BY <2>3, <2>4
<1>5. InOrder'
  BY DEF MsgInv, InOrder
<1>6. NewTasks'
  BY <1>1 DEF MsgInv, NewTasks, Drained
<1> QED BY <1>4, <1>5, <1>6 DEF MsgInv

\* A handler that consumes the message of a task changes nothing about who may
\* touch the others.
LEMMA HandlerKeepsOwners ==
  ASSUME Inv, NEW c \in Cpus, pc[c] = "drain", chan[c] # <<>>, NEW t, t = Msg(c).task,
         UNCHANGED <<pc, target, assoc>>,
         \A d \in Cpus : d # c => chan'[d] = chan[d],
         \A u \in Tasks \ {t} : /\ u \in known' <=> u \in known
                                /\ run_state'[u] = run_state[u] /\ tcpu'[u] = tcpu[u],
         known' \subseteq Tasks,
         ~(t \in known /\ run_state[t] = "kRunnable" /\ tcpu[t] = NoCpu),
         t \in known' =>
           /\ tcpu'[t] \in {c, NoCpu}
           /\ tcpu'[t] = NoCpu /\ run_state'[t] = "kBlocked" => c = DefaultCpu
  PROVE  OwnerInv'
<1> USE DEF Inv, TypeInv, OwnerInv
<1>1. /\ t \in Tasks /\ assoc[t] = c
      /\ \A d \in Cpus : pc[d] = "enqueue" => Msg(d).task # t
  BY HandlerOwnsTask
<1>2. OnlyDefaultAgentMigrates'
  BY DEF OnlyDefaultAgentMigrates
<1>3. AssociatedToCpu'
  BY <1>1 DEF AssociatedToCpu
<1>4. InFlight'
  <2> SUFFICES ASSUME NEW d \in Cpus, pc[d] = "enqueue"
               PROVE  LET u == Msg(d)'.task
                      IN  /\ u \in known' /\ run_state'[u] = "kRunnable"
                          /\ tcpu'[u] = NoCpu /\ assoc[u] = target[d]
    BY DEF InFlight
  <2>1. d # c /\ chan'[d] = chan[d] /\ chan[d] # <<>>
    BY DEF ControlOK, Migrating
  <2>2. Msg(d)' = Msg(d) /\ Msg(d).task \in Tasks \ {t}
    BY <1>1, <2>1, MsgTypeOK DEF Msg
  <2> QED BY <2>2 DEF InFlight
<1> QED BY <1>2, <1>3, <1>4

\* A CHECK that fails changes nothing but `failed'.
LEMMA AbortKeepsInv ==
  ASSUME Inv, NEW h, NEW t, Abort(h, t), TypeInv'
  PROVE  Inv'
<1> USE DEF Inv, Abort, kernelVars, taskVars, agentVars, cfsVars, fifoTaskVars, cpuVars,
            localVars
<1>1. MsgInv'
  BY QuietKeepsMsgs
<1>2. PlaceInv'
  BY DEF PlaceInv, RunqueueOK, QueuedOnce, QueuesHoldQueued, QueuedAreInQueue,
         CurrentIsOnCpu, OnCpuIsCurrent, NextIsHeld, FreedIsBlank
<1>3. OwnerInv'
  BY DEF OwnerInv, OnlyDefaultAgentMigrates, InFlight, AssociatedToCpu, Msg
<1> QED BY <1>1, <1>2, <1>3

\* TaskOffCpu, and what the handlers that call it do to the task.
LEMMA OffCpuKeepsInv ==
  ASSUME Inv, TypeInv', NEW c \in Cpus, pc[c] = "drain", chan[c] # <<>>,
         NEW t, t = Msg(c).task, t \in known, tcpu[t] >= 0,
         run_state[t] \in {"kOnCpu", "kBlocked"},
         ClearCurrent(t), Consume(c), NEW s \in {"kBlocked", "kQueued"},
         run_state' = [run_state EXCEPT ![t] = s],
         \/ s = "kBlocked" /\ rq' = rq
         \/ s = "kQueued" /\ \E b \in BOOLEAN : rq' = [rq EXCEPT ![tcpu[t]] = Pushed(@, t, b)],
         UNCHANGED <<taskVars, seq, assoc, known, tcpu, pc, localVars>>
  PROVE  Inv'
<1> USE DEF Inv, TypeInv, taskVars, localVars
<1>1. /\ t \in Tasks /\ assoc[t] = c /\ tcpu[t] \in {c, NoCpu}
      /\ \A d \in Cpus : next[d] # t
  BY HandlerOwnsTask
<1>2. tcpu[t] = c /\ tcpu[t] # NoCpu
  BY <1>1 DEF NoCpu
<1>3. MsgInv'
  BY ConsumeKeepsMsgs DEF TypeOK
<1>4. OwnerInv'
  <2>1. \A d \in Cpus : d # c => chan'[d] = chan[d]
    BY ConsumeTypes
  <2>2. /\ \A u \in Tasks \ {t} : run_state'[u] = run_state[u]
        /\ known' \subseteq Tasks
    BY DEF TypeOK
  <2> QED BY <1>2, <2>1, <2>2, HandlerKeepsOwners
<1>5. \A d \in Cpus : current'[d] = IF current[d] = t THEN NoTask ELSE current[d]
  BY <1>1, <1>2, FifoAssumption
  DEF ClearCurrent, TypeOK, PlaceInv, RunqueueOK, CurrentIsOnCpu, OnCpuIsCurrent
<1>6. CASE s = "kBlocked" /\ rq' = rq
  <2>1. \A d \in Cpus : /\ NoRepeats(rq'[d])
                        /\ \A u : InQueue(u, rq'[d]) <=> u # t /\ InQueue(u, rq[d])
    BY <1>1, <1>6 DEF PlaceInv, RunqueueOK, QueuedOnce, QueuesHoldQueued
  <2>2. PlaceInv'
    BY <1>1, <1>5, <1>6, <2>1, DetachPlaces
  <2> QED BY <1>3, <1>4, <2>2
<1>7. ASSUME NEW b \in BOOLEAN, s = "kQueued", rq' = [rq EXCEPT ![tcpu[t]] = Pushed(@, t, b)]
      PROVE  Inv'
  <2>1. tcpu'[t] = c /\ \A u \in Tasks : u # t => tcpu'[u] = tcpu[u]
    BY <1>2
  <2>2. /\ \E e \in BOOLEAN : rq' = [rq EXCEPT ![c] = Pushed(@, t, e)]
        /\ run_state' = [run_state EXCEPT ![t] = "kQueued"] /\ run_state[t] # "kQueued"
        /\ known' = known /\ \A d \in Cpus : next'[d] = next[d] /\ next[d] # t
    BY <1>1, <1>2, <1>7
  <2>3. TypeOK /\ PlaceInv /\ t \in known /\ c \in Cpus
    OBVIOUS
  <2>4. PlaceInv'
    BY ONLY <1>5, <2>1, <2>2, <2>3, EnqueuePlaces
  <2> QED BY <1>3, <1>4, <2>4
<1> QED BY <1>6, <1>7

LEMMA HandlerKeepsInv ==
  ASSUME Inv, TypeInv', NEW c \in Cpus, Handler(c)
  PROVE  Inv'
<1> DEFINE t == Msg(c).task
<1> USE DEF Inv, TypeInv
<1>1. pc[c] = "drain" /\ chan[c] # <<>>
  BY DEF Handler, IgnoreMessage, TaskNewBlocked, TaskNewRunnable, TaskRunnableMigrate,
         TaskRunnableEnqueue, TaskBlocked, TaskSwitchto, TaskYield, TaskPreempted,
         TaskDead, TaskDeparted, Dispatching, At
<1>2. /\ t \in Tasks /\ assoc[t] = c /\ kst[t] # "new" /\ tcpu[t] \in {c, NoCpu}
      /\ \A d \in Cpus : next[d] # t
      /\ \A d \in Cpus : pc[d] = "enqueue" /\ Msg(d).task = t =>
           t \in known /\ run_state[t] = "kRunnable" /\ tcpu[t] = NoCpu
  BY <1>1, HandlerOwnsTask
<1>3. Msg(c).flag \in BOOLEAN /\ Msg(c) = chan[c][1] /\ 1 \in 1 .. Len(chan[c])
  BY <1>1, MsgTypeOK
<1>4. ASSUME NEW type, Dispatching(c, type), type # "TASK_NEW" PROVE t \in known
  BY <1>4 DEF Dispatching
<1>5. \A d \in Cpus : Consume(c) /\ d # c => chan'[d] = chan[d]
  BY <1>1, ConsumeTypes
<1>6. known \in SUBSET Tasks /\ run_state \in [Tasks -> RunStates]
      /\ tcpu \in [Tasks -> Cpus \cup {NoCpu}] /\ pc \in [Cpus -> Labels]
  BY DEF TypeOK
<1>7. CASE IgnoreMessage(c)
  <2> USE DEF IgnoreMessage, taskVars, fifoVars, fifoTaskVars, cpuVars, localVars
  <2>1. MsgInv'
    BY <1>1, <1>6, <1>7, ConsumeKeepsMsgs
  <2>2. PlaceInv'
    BY <1>7 DEF PlaceInv, RunqueueOK, QueuedOnce, QueuesHoldQueued, QueuedAreInQueue,
                CurrentIsOnCpu, OnCpuIsCurrent, NextIsHeld, FreedIsBlank
  <2>3. OnlyDefaultAgentMigrates' /\ AssociatedToCpu'
    BY <1>7 DEF OwnerInv, OnlyDefaultAgentMigrates, AssociatedToCpu
  <2>4. InFlight'
    BY <1>1, <1>5, <1>7 DEF OwnerInv, InFlight, Msg
  <2> QED BY <2>1, <2>2, <2>3, <2>4 DEF OwnerInv
<1>8. ASSUME TaskNewBlocked(c) \/ TaskNewRunnable(c)
      PROVE  t \notin known /\ c = DefaultCpu /\ run_state[t] = "kBlocked" /\ tcpu[t] = NoCpu
  <2>1. t \notin known /\ Msg(c).type = "TASK_NEW"
    BY <1>8 DEF TaskNewBlocked, TaskNewRunnable, Dispatching
  <2> QED BY <1>2, <1>3, <2>1 DEF MsgInv, NewTasks, PlaceInv, FreedIsBlank
<1>9. CASE TaskNewBlocked(c)
  <2>1. /\ known' = known \cup {t} /\ Consume(c)
        /\ UNCHANGED <<taskVars, seq, assoc, run_state, tcpu, cpuVars, pc, localVars>>
    BY <1>9 DEF TaskNewBlocked
  <2> USE DEF taskVars, cpuVars, localVars
  <2>2. MsgInv'
    BY <1>1, <1>6, <2>1, ConsumeKeepsMsgs
  <2>3. PlaceInv'
    <3>1. run_state' = [run_state EXCEPT ![t] = "kBlocked"]
      BY <1>2, <1>6, <1>8, <1>9, <2>1
    <3> QED BY <1>2, <1>8, <1>9, <2>1, <3>1, AwakenPlaces
  <2>4. OwnerInv'
    BY <1>1, <1>2, <1>5, <1>6, <1>8, <1>9, <2>1, HandlerKeepsOwners
  <2> QED BY <2>2, <2>3, <2>4
<1>10. ASSUME t \notin known \/ tcpu[t] = NoCpu, run_state[t] = "kBlocked", c = DefaultCpu,
              AssociateOk(t, Msg(c).seq), AssignAndAssociate(c, t),
              known' = known \cup {t}, run_state' = [run_state EXCEPT ![t] = "kRunnable"],
              UNCHANGED <<taskVars, seq, chan, tcpu, cpuVars, next>>
       PROVE  Inv'
  <2> USE DEF taskVars, cpuVars
  <2>1. /\ assoc' = [assoc EXCEPT ![t] = AssignedCpu] /\ pc' = [pc EXCEPT ![c] = "enqueue"]
        /\ target' = [target EXCEPT ![c] = AssignedCpu]
    BY <1>10 DEF AssignAndAssociate, Goto
  <2>2. MsgInv'
    BY <1>1, <1>10, <2>1, AssociateKeepsMsgs
  <2>3. PlaceInv'
    BY <1>2, <1>10, AwakenPlaces
  <2>4. OnlyDefaultAgentMigrates'
    BY <1>10, <2>1 DEF OwnerInv, OnlyDefaultAgentMigrates, TypeOK
  <2>5. tcpu[t] = NoCpu
    BY <1>2, <1>10 DEF PlaceInv, FreedIsBlank
  <2>6. AssociatedToCpu'
    <3> SUFFICES ASSUME NEW u \in known'
                 PROVE  /\ tcpu[u] # NoCpu => assoc'[u] = tcpu[u]
                        /\ tcpu[u] = NoCpu /\ run_state'[u] = "kBlocked" => assoc'[u] = DefaultCpu
      BY <1>10 DEF AssociatedToCpu
    <3>1. CASE u = t
      <4>1. run_state'[t] = "kRunnable"
        BY <1>2, <1>6, <1>10
      <4> QED BY ONLY <2>5, <3>1, <4>1
    <3>2. CASE u # t
      <4>1. u \in known /\ AssociatedToCpu
        BY <1>2, <1>10, <3>2 DEF OwnerInv
      <4>2. u \in Tasks /\ assoc \in [Tasks -> Cpus] /\ run_state \in [Tasks -> RunStates]
        BY <1>6, <4>1 DEF TypeOK, KernelTypeOK
      <4>3. assoc'[u] = assoc[u] /\ run_state'[u] = run_state[u]
        BY ONLY <1>10, <2>1, <3>2, <4>2
      <4> QED BY ONLY <4>1, <4>3 DEF AssociatedToCpu
    <3> QED BY <3>1, <3>2
  <2>7. InFlight'
    <3>1. ASSUME NEW d \in Cpus, pc'[d] = "enqueue" PROVE d = c
      BY <1>10, <2>4, <3>1 DEF OnlyDefaultAgentMigrates
    <3>2. Msg(c)' = Msg(c) /\ target'[c] = AssignedCpu /\ assoc'[t] = AssignedCpu
      BY <1>2, <1>10, <2>1 DEF Msg, TypeOK, KernelTypeOK
    <3> QED BY <1>2, <1>6, <1>10, <2>5, <3>1, <3>2 DEF InFlight
  <2> QED BY <2>2, <2>3, <2>4, <2>6, <2>7 DEF OwnerInv
<1>11. CASE TaskNewRunnable(c)
  <2>1. CASE AssociateOk(t, Msg(c).seq)
    BY <1>8, <1>10, <1>11, <2>1 DEF TaskNewRunnable
  <2> QED BY <1>11, <2>1, AbortKeepsInv DEF TaskNewRunnable
<1>12. CASE TaskRunnableMigrate(c)
  <2>1. t \in known /\ tcpu[t] = NoCpu /\ known \cup {t} = known
    BY <1>2, <1>4, <1>12, KernelAssumption DEF TaskRunnableMigrate, Cpus
  <2>2. CASE run_state[t] = "kBlocked" /\ AssociateOk(t, Msg(c).seq)
    <3>1. c = DefaultCpu
      BY <1>2, <2>1, <2>2 DEF OwnerInv, AssociatedToCpu
    <3> QED BY <1>10, <1>12, <2>1, <2>2, <3>1 DEF TaskRunnableMigrate
  <2> QED BY <1>12, <2>2, AbortKeepsInv DEF TaskRunnableMigrate
<1>13. CASE TaskRunnableEnqueue(c)
  <2>1. t \in known /\ tcpu[t] >= 0
    BY <1>4, <1>13 DEF TaskRunnableEnqueue
  <2>2. CASE run_state[t] = "kBlocked" /\ AdvanceOk(Msg(c))
    <3>1. /\ run_state' = [run_state EXCEPT ![t] = "kQueued"]
          /\ rq' = [rq EXCEPT ![tcpu[t]] = Pushed(@, t, ~Msg(c).flag)]
          /\ Consume(c) /\ current' = current
          /\ UNCHANGED <<taskVars, seq, assoc, known, tcpu, pc, localVars>>
      BY <1>13, <2>2 DEF TaskRunnableEnqueue
    <3>2. ClearCurrent(t)
      BY <2>2, <3>1 DEF ClearCurrent
    <3> QED BY <1>1, <1>3, <2>1, <2>2, <3>1, <3>2, OffCpuKeepsInv
  <2> QED BY <1>13, <2>2, AbortKeepsInv DEF TaskRunnableEnqueue
<1>14. ASSUME NEW flag, OffCpuOk(t, flag)
       PROVE  tcpu[t] >= 0 /\ run_state[t] \in {"kOnCpu", "kBlocked"}
  BY <1>14 DEF OffCpuOk
<1>15. CASE TaskBlocked(c)
  <2>1. t \in known
    BY <1>4, <1>15 DEF TaskBlocked
  <2>2. CASE OffCpuOk(t, Msg(c).flag) /\ AdvanceOk(Msg(c))
    <3>1. /\ ClearCurrent(t) /\ run_state' = [run_state EXCEPT ![t] = "kBlocked"]
          /\ Consume(c) /\ rq' = rq
          /\ UNCHANGED <<taskVars, seq, assoc, known, tcpu, pc, localVars>>
      BY <1>15, <2>2 DEF TaskBlocked, OffCpu
    <3> QED BY <1>1, <1>14, <2>1, <2>2, <3>1, OffCpuKeepsInv
  <2> QED BY <1>15, <2>2, AbortKeepsInv DEF TaskBlocked
<1>16. CASE TaskSwitchto(c)
  <2>1. t \in known
    BY <1>4, <1>16 DEF TaskSwitchto
  <2>2. CASE OffCpuOk(t, FALSE) /\ AdvanceOk(Msg(c))
    <3>1. /\ ClearCurrent(t) /\ run_state' = [run_state EXCEPT ![t] = "kBlocked"]
          /\ Consume(c) /\ rq' = rq
          /\ UNCHANGED <<taskVars, seq, assoc, known, tcpu, pc, localVars>>
      BY <1>16, <2>2 DEF TaskSwitchto, OffCpu
    <3> QED BY <1>1, <1>14, <2>1, <2>2, <3>1, OffCpuKeepsInv
  <2> QED BY <1>16, <2>2, AbortKeepsInv DEF TaskSwitchto
<1>17. CASE TaskYield(c)
  <2>1. t \in known /\ prio_boost[t] \in BOOLEAN
    BY <1>2, <1>4, <1>17 DEF TaskYield, TypeOK
  <2>2. CASE OffCpuOk(t, Msg(c).flag) /\ AdvanceOk(Msg(c))
    <3>1. /\ ClearCurrent(t) /\ run_state' = [run_state EXCEPT ![t] = "kQueued"]
          /\ Consume(c) /\ rq' = [rq EXCEPT ![tcpu[t]] = Pushed(@, t, prio_boost[t])]
          /\ UNCHANGED <<taskVars, seq, assoc, known, tcpu, pc, localVars>>
      BY <1>17, <2>2 DEF TaskYield, OffCpu
    <3> QED BY <1>1, <1>14, <2>1, <2>2, <3>1, OffCpuKeepsInv
  <2> QED BY <1>17, <2>2, AbortKeepsInv DEF TaskYield
<1>18. CASE TaskPreempted(c)
  <2>1. t \in known
    BY <1>4, <1>18 DEF TaskPreempted
  <2>2. CASE OffCpuOk(t, Msg(c).flag) /\ AdvanceOk(Msg(c))
    <3>1. /\ ClearCurrent(t) /\ run_state' = [run_state EXCEPT ![t] = "kQueued"]
          /\ Consume(c) /\ rq' = [rq EXCEPT ![tcpu[t]] = Pushed(@, t, TRUE)]
          /\ UNCHANGED <<taskVars, seq, assoc, known, tcpu, pc, localVars>>
      BY <1>18, <2>2 DEF TaskPreempted, OffCpu
    <3> QED BY <1>1, <1>14, <2>1, <2>2, <3>1, OffCpuKeepsInv
  <2> QED BY <1>18, <2>2, AbortKeepsInv DEF TaskPreempted
<1>19. ASSUME t \in known, FreeTask(t), Consume(c),
              ~(run_state[t] = "kRunnable" /\ tcpu[t] = NoCpu),
              \A d \in Cpus : /\ NoRepeats(rq'[d])
                              /\ \A u : InQueue(u, rq'[d]) <=> u # t /\ InQueue(u, rq[d]),
              \A d \in Cpus : current'[d] = IF current[d] = t THEN NoTask ELSE current[d],
              UNCHANGED <<taskVars, seq, assoc, pc, localVars>>
       PROVE  Inv'
  <2> USE DEF taskVars, localVars
  <2>1. /\ known' = known \ {t} /\ run_state' = [run_state EXCEPT ![t] = "kBlocked"]
        /\ tcpu' = [tcpu EXCEPT ![t] = NoCpu]
    BY <1>19 DEF FreeTask
  <2>2. MsgInv'
    BY <1>1, <1>6, <1>19, <2>1, ConsumeKeepsMsgs
  <2>3. PlaceInv'
    BY <1>2, <1>19, <2>1, DetachPlaces
  <2>4. OwnerInv'
    BY <1>1, <1>2, <1>5, <1>6, <1>19, <2>1, HandlerKeepsOwners
  <2> QED BY <2>2, <2>3, <2>4
<1>20. run_state[t] # "kQueued" =>
         \A d \in Cpus : /\ NoRepeats(rq[d])
                         /\ \A u : InQueue(u, rq[d]) <=> u # t /\ InQueue(u, rq[d])
  BY <1>2 DEF PlaceInv, RunqueueOK, QueuedOnce, QueuesHoldQueued
<1>21. run_state[t] # "kOnCpu" => \A d \in Cpus : current[d] # t
  BY <1>2, FifoAssumption DEF PlaceInv, RunqueueOK, CurrentIsOnCpu
<1>22. CASE TaskDead(c)
  <2>1. t \in known
    BY <1>4, <1>22 DEF TaskDead
  <2>2. CASE run_state[t] = "kBlocked"
    <3>1. /\ FreeTask(t) /\ Consume(c) /\ rq' = rq /\ current' = current
          /\ UNCHANGED <<taskVars, seq, assoc, pc, localVars>>
      BY <1>22, <2>2 DEF TaskDead, cpuVars
    <3> QED BY <1>19, <1>20, <1>21, <2>1, <2>2, <3>1
  <2> QED BY <1>22, <2>2, AbortKeepsInv DEF TaskDead
<1>23. CASE TaskDeparted(c)
  <2> DEFINE offcpu == run_state[t] = "kOnCpu" \/ Msg(c).flag
             queued == ~offcpu /\ run_state[t] = "kQueued"
  <2>1. t \in known
    BY <1>4, <1>23 DEF TaskDeparted
  <2>2. CASE ~Abort("TaskDeparted", t)
    <3>1. /\ IF offcpu THEN ClearCurrent(t) ELSE current' = current
          /\ IF queued THEN rq' = [rq EXCEPT ![tcpu[t]] = Erased(@, t)] ELSE rq' = rq
          /\ FreeTask(t) /\ Consume(c)
          /\ UNCHANGED <<taskVars, seq, assoc, pc, localVars>>
      BY <1>23, <2>2 DEF TaskDeparted
    <3>2. IF offcpu THEN OffCpuOk(t, Msg(c).flag)
          ELSE IF queued THEN tcpu[t] >= 0 /\ InQueue(t, rq[tcpu[t]])
          ELSE run_state[t] = "kBlocked"
      BY <1>23, <2>2 DEF TaskDeparted
    <3>3. CASE offcpu
      <4>1. OffCpuOk(t, Msg(c).flag) /\ ClearCurrent(t) /\ rq' = rq
        BY <3>1, <3>2, <3>3
      <4>2. run_state[t] \in {"kOnCpu", "kBlocked"} /\ tcpu[t] >= 0
        BY <1>14, <4>1
      <4>3. \A d \in Cpus : current'[d] = IF current[d] = t THEN NoTask ELSE current[d]
        BY <1>2, <1>21, <4>1, <4>2, FifoAssumption
        DEF ClearCurrent, OffCpuOk, TypeOK, PlaceInv, RunqueueOK, CurrentIsOnCpu, NoCpu
      <4> QED BY <1>19, <1>20, <2>1, <3>1, <4>1, <4>2, <4>3
    <3>4. CASE queued
      <4>1. /\ tcpu[t] = c /\ InQueue(t, rq[c]) /\ rq' = [rq EXCEPT ![c] = Erased(@, t)]
            /\ current' = current
        BY <1>2, <3>1, <3>2, <3>4 DEF NoCpu
      <4>2. rq \in [Cpus -> Seq(Tasks)] /\ NoRepeats(rq[c])
        BY DEF TypeOK, PlaceInv, RunqueueOK, QueuedOnce
      <4>3. /\ \A u : InQueue(u, Erased(rq[c], t)) <=> u # t /\ InQueue(u, rq[c])
            /\ NoRepeats(Erased(rq[c], t))
        BY <1>2, <4>1, <4>2, ErasedFacts
      <4>4. rq'[c] = Erased(rq[c], t) /\ \A d \in Cpus : d # c => rq'[d] = rq[d]
        BY <4>1, <4>2
      <4>5. \A d \in Cpus : d # c => NoRepeats(rq[d]) /\ ~InQueue(t, rq[d])
        BY <1>2, <4>1 DEF PlaceInv, RunqueueOK, QueuedOnce, QueuesHoldQueued
      <4>6. \A d \in Cpus : /\ NoRepeats(rq'[d])
                            /\ \A u : InQueue(u, rq'[d]) <=> u # t /\ InQueue(u, rq[d])
        BY <4>3, <4>4, <4>5
      <4> QED BY <1>19, <1>21, <2>1, <3>1, <3>4, <4>1, <4>6
    <3>5. CASE ~offcpu /\ ~queued
      BY <1>19, <1>20, <1>21, <2>1, <3>1, <3>2, <3>5
    <3> QED BY <3>3, <3>4, <3>5
  <2> QED BY <1>23, <2>2, AbortKeepsInv DEF TaskDeparted
<1> QED BY <1>7, <1>9, <1>11, <1>12, <1>13, <1>15, <1>16, <1>17, <1>18, <1>22, <1>23
        DEF Handler

\* The hand-over of a task, and FifoSchedule.
LEMMA AgentKeepsInv ==
  ASSUME Inv, TypeInv', NEW c \in Cpus, AgentStep(c)
  PROVE  Inv'
<1> USE DEF Inv, TypeInv, kernelVars, taskVars, agentVars, cfsVars, fifoTaskVars, cpuVars,
            localVars, fifoVars
<1> DEFINE SamePlaces == UNCHANGED <<known, run_state, tcpu, rq, current, next>>
<1>1. CASE Handler(c)
  BY <1>1, HandlerKeepsInv
<1>2. ASSUME SamePlaces PROVE PlaceInv'
  BY <1>2 DEF PlaceInv, RunqueueOK, QueuedOnce, QueuesHoldQueued, QueuedAreInQueue,
              CurrentIsOnCpu, OnCpuIsCurrent, NextIsHeld, FreedIsBlank
<1>3. ASSUME UNCHANGED <<known, chan, assoc, target>>, NEW l \in Labels \ Migrating,
             pc' = [pc EXCEPT ![c] = l] \/ pc' = pc,
             \A u \in Tasks : tcpu'[u] = tcpu[u],
             \A u \in known : \/ run_state'[u] = run_state[u]
                              \/ run_state'[u] # "kBlocked" /\ tcpu[u] # NoCpu
      PROVE  OwnerInv'
  <2>1. OnlyDefaultAgentMigrates'
    BY <1>3 DEF OwnerInv, OnlyDefaultAgentMigrates, TypeOK, Migrating
  <2>2. AssociatedToCpu'
    BY <1>3 DEF OwnerInv, AssociatedToCpu, TypeOK
  <2>3. \A d \in Cpus : pc'[d] = "enqueue" => pc[d] = "enqueue"
    BY <1>3 DEF TypeOK, Migrating
  <2>4. InFlight'
    BY <1>3, <2>3 DEF OwnerInv, InFlight, Msg, TypeOK
  <2> QED BY <2>1, <2>2, <2>4 DEF OwnerInv
<1>4. CASE ReadBarrier(c) \/ WaitOffCpu(c) \/ LocalYield(c)
  <2>1. /\ SamePlaces /\ UNCHANGED <<kst, via, seq, assoc, chan, known, target>>
        /\ pc[c] \notin Migrating
        /\ \E l \in Labels \ Migrating : pc' = [pc EXCEPT ![c] = l]
    BY <1>4 DEF ReadBarrier, WaitOffCpu, LocalYield, Goto, At, Labels, Migrating
  <2>2. MsgInv'
    <3>1. \A d \in Cpus : pc[d] \in Migrating => pc'[d] \in Migrating
      BY <2>1 DEF TypeOK
    <3> QED BY <2>1, <3>1, QuietKeepsMsgs
  <2> QED BY <1>2, <1>3, <2>1, <2>2
<1>5. CASE MigrateEnqueue(c)
  <2> DEFINE t == Msg(c).task
  <2>1. /\ pc[c] = "enqueue" /\ chan[c] # <<>> /\ target[c] \in Cpus
        /\ t \in Tasks /\ t \in known /\ run_state[t] = "kRunnable"
        /\ tcpu[t] = NoCpu /\ assoc[t] = target[c] /\ c = DefaultCpu
    <3>1. pc[c] = "enqueue"
      BY <1>5 DEF MigrateEnqueue, At
    <3>2. chan[c] # <<>> /\ target[c] \in Cpus
      BY <3>1 DEF ControlOK, Migrating
    <3> QED BY <3>1, <3>2, MsgTypeOK DEF OwnerInv, InFlight, OnlyDefaultAgentMigrates
  <2>2. CASE EnqueueOk(run_state[t], target[c])
    <3>1. /\ tcpu' = [tcpu EXCEPT ![t] = target[c]]
          /\ run_state' = [run_state EXCEPT ![t] = "kQueued"]
          /\ rq' = [rq EXCEPT ![target[c]] = Pushed(@, t, prio_boost[t])]
          /\ pc' = [pc EXCEPT ![c] = "ping"]
          /\ UNCHANGED <<kernelVars, known, current, localVars>>
      BY <1>5, <2>1, <2>2 DEF MigrateEnqueue, Goto
    <3> HIDE DEF t
    <3>2. MsgInv'
      <4>1. \A d \in Cpus : pc[d] \in Migrating => pc'[d] \in Migrating
        BY <3>1 DEF TypeOK, Migrating
      <4> QED BY <3>1, <4>1, QuietKeepsMsgs
    <3>3. /\ t # NoTask /\ prio_boost[t] \in BOOLEAN
          /\ \A d \in Cpus : current[d] # t /\ next[d] # t
      <4>1. t # NoTask /\ prio_boost[t] \in BOOLEAN
        BY <2>1, FifoAssumption DEF TypeOK
      <4>2. \A d \in Cpus : d # NoCpu
        BY KernelAssumption DEF Cpus, NoCpu
      <4> QED BY <2>1, <4>1, <4>2 DEF PlaceInv, RunqueueOK, CurrentIsOnCpu, NextIsHeld
    <3>4. tcpu'[t] = target[c] /\ \A u \in Tasks : u # t => tcpu'[u] = tcpu[u]
      BY <2>1, <3>1 DEF TypeOK
    <3>5. PlaceInv'
      BY <2>1, <3>1, <3>3, <3>4, EnqueuePlaces
    <3>6. OnlyDefaultAgentMigrates'
      BY <2>1, <3>1 DEF OwnerInv, OnlyDefaultAgentMigrates, TypeOK
    <3>7. AssociatedToCpu'
      BY <2>1, <3>1 DEF OwnerInv, AssociatedToCpu, TypeOK
    <3>8. InFlight'
      BY <2>1, <3>1, <3>6 DEF InFlight, OnlyDefaultAgentMigrates, TypeOK
    <3> QED BY <3>2, <3>5, <3>6, <3>7, <3>8 DEF OwnerInv
  <2>3. CASE ~EnqueueOk(run_state[t], target[c])
    BY <1>5, <2>1, <2>3, AbortKeepsInv DEF MigrateEnqueue
  <2> QED BY <2>2, <2>3
<1>6. CASE MigratePing(c)
  <2>1. /\ SamePlaces /\ UNCHANGED <<kst, via, seq, assoc, chan, known, target>>
        /\ pc[c] = "ping" /\ pc' = [pc EXCEPT ![c] = "advance"]
    BY <1>6 DEF MigratePing, Goto, At
  <2>2. MsgInv'
    <3>1. \A d \in Cpus : pc[d] \in Migrating => pc'[d] \in Migrating
      BY <2>1 DEF TypeOK, Migrating
    <3> QED BY <2>1, <3>1, QuietKeepsMsgs
  <2>3. OnlyDefaultAgentMigrates'
    BY <2>1 DEF OwnerInv, OnlyDefaultAgentMigrates, TypeOK
  <2>4. AssociatedToCpu'
    BY <2>1 DEF OwnerInv, AssociatedToCpu
  <2>5. InFlight'
    BY <2>1 DEF OwnerInv, InFlight, Msg, TypeOK
  <2> QED BY <1>2, <2>1, <2>2, <2>3, <2>4, <2>5 DEF OwnerInv
<1>7. CASE AdvanceMigrated(c)
  <2>1. pc[c] = "advance" /\ chan[c] # <<>> /\ c = DefaultCpu
    BY <1>7 DEF AdvanceMigrated, At, ControlOK, Migrating, OwnerInv, OnlyDefaultAgentMigrates
  <2>2. CASE Msg(c).type = "TASK_NEW" \/ (Msg(c).task \in known /\ AdvanceOk(Msg(c)))
    <3>1. /\ Consume(c) /\ pc' = [pc EXCEPT ![c] = "drain"]
          /\ SamePlaces /\ UNCHANGED <<kst, via, seq, assoc>>
      BY <1>7, <2>2 DEF AdvanceMigrated, Goto
    <3>2. MsgInv'
      <4>1. pc' \in [Cpus -> Labels] /\ \A d \in Cpus : d # c => pc'[d] = pc[d]
        BY <3>1 DEF TypeOK
      <4> QED BY <2>1, <3>1, <4>1, ConsumeKeepsMsgs
    <3>3. OnlyDefaultAgentMigrates'
      BY <3>1 DEF OwnerInv, OnlyDefaultAgentMigrates, TypeOK
    <3>4. AssociatedToCpu'
      BY <3>1 DEF OwnerInv, AssociatedToCpu
    <3>5. InFlight'
      BY <2>1, <3>1, <3>3 DEF InFlight, OnlyDefaultAgentMigrates, TypeOK
    <3> QED BY <1>2, <3>1, <3>2, <3>3, <3>4, <3>5 DEF OwnerInv
  <2>3. CASE ~(Msg(c).type = "TASK_NEW" \/ (Msg(c).task \in known /\ AdvanceOk(Msg(c))))
    BY <1>7, <2>3, AbortKeepsInv DEF AdvanceMigrated
  <2> QED BY <2>2, <2>3
<1>8. ASSUME UNCHANGED <<kst, seq, assoc, chan, known>>, pc[c] \notin Migrating,
             \A t \in Tasks : kst[t] = "new" => via'[t] = via[t],
             \/ pc' = pc
             \/ \E l \in Labels : pc' = [pc EXCEPT ![c] = l]
      PROVE  MsgInv'
  <2>1. \A d \in Cpus : pc[d] \in Migrating => pc'[d] \in Migrating
    BY <1>8 DEF TypeOK
  <2> QED BY <1>8, <2>1, QuietKeepsMsgs
<1>9. CASE PickNext(c)
  <2>1. /\ pc[c] = "drain" /\ pc[c] \notin Migrating /\ next[c] = NoTask
        /\ UNCHANGED <<kernelVars, known, tcpu, current, target>>
    BY <1>9 DEF PickNext, At, ControlOK, Migrating
  <2>2. CASE ~boosted[c] /\ current[c] # NoTask
    <3>1. /\ next' = [next EXCEPT ![c] = current[c]] /\ UNCHANGED <<run_state, rq>>
          /\ pc' = [pc EXCEPT ![c] = "wait"]
      BY <1>9, <2>2 DEF PickNext, Goto
    <3>2. MsgInv' /\ OwnerInv'
      BY <1>3, <1>8, <2>1, <3>1 DEF Labels, Migrating
    <3>3. /\ QueuedOnce' /\ QueuesHoldQueued' /\ QueuedAreInQueue' /\ CurrentIsOnCpu'
          /\ OnCpuIsCurrent' /\ FreedIsBlank'
      BY <2>1, <3>1 DEF PlaceInv, RunqueueOK, QueuedOnce, QueuesHoldQueued,
           QueuedAreInQueue, CurrentIsOnCpu, OnCpuIsCurrent, FreedIsBlank
    <3>4. NextIsHeld'
      BY <2>1, <2>2, <3>1 DEF PlaceInv, RunqueueOK, NextIsHeld, CurrentIsOnCpu, TypeOK
    <3> QED BY <3>2, <3>3, <3>4 DEF PlaceInv, RunqueueOK
  <2>3. CASE ~boosted[c] /\ current[c] = NoTask /\ rq[c] # <<>>
    <3> DEFINE t == Head(rq[c])
    <3>1. /\ t \in Tasks /\ InQueue(t, rq[c])
          /\ \A u : InQueue(u, rq[c]) <=> u = t \/ InQueue(u, Tail(rq[c]))
          /\ NoRepeats(Tail(rq[c])) /\ ~InQueue(t, Tail(rq[c]))
      BY <2>3, DequeuedFacts DEF TypeOK, PlaceInv, RunqueueOK, QueuedOnce
    <3>2. t \in known /\ run_state[t] = "kQueued" /\ tcpu[t] = c
      BY <3>1 DEF PlaceInv, RunqueueOK, QueuesHoldQueued
    <3>3. /\ next' = [next EXCEPT ![c] = t]
          /\ run_state' = [run_state EXCEPT ![t] = "kRunnable"]
          /\ rq' = [rq EXCEPT ![c] = Tail(@)]
          /\ pc' = [pc EXCEPT ![c] = "wait"]
      BY <1>9, <2>3, <3>2 DEF PickNext, Goto
    <3> HIDE DEF t
    <3>4. MsgInv'
      BY <1>8, <2>1, <3>3 DEF Labels
    <3>5. OwnerInv'
      <4>1. \A u \in known : run_state'[u] = run_state[u] \/ (run_state'[u] # "kBlocked" /\ tcpu[u] # NoCpu)
        BY <3>1, <3>2, <3>3, KernelAssumption DEF TypeOK, Cpus, NoCpu
      <4> QED BY <1>3, <2>1, <3>3, <4>1 DEF Labels, Migrating
    <3>6. /\ \A d \in Cpus : d # c => rq'[d] = rq[d]
          /\ rq'[c] = Tail(rq[c])
          /\ \A u \in Tasks : u # t => run_state'[u] = run_state[u]
          /\ run_state'[t] = "kRunnable"
          /\ known \subseteq Tasks
      BY <3>1, <3>3 DEF TypeOK
    <3>7. QueuedOnce'
      BY <3>1, <3>6 DEF PlaceInv, RunqueueOK, QueuedOnce
    <3>8. QueuesHoldQueued'
      BY <2>1, <3>1, <3>2, <3>6 DEF PlaceInv, RunqueueOK, QueuesHoldQueued
    <3>9. QueuedAreInQueue'
      BY <2>1, <3>1, <3>6 DEF PlaceInv, RunqueueOK, QueuedAreInQueue
    <3>10. CurrentIsOnCpu'
      BY <2>1, <3>2, <3>6 DEF PlaceInv, RunqueueOK, CurrentIsOnCpu, TypeOK
    <3>11. OnCpuIsCurrent'
      BY <2>1, <3>6 DEF PlaceInv, RunqueueOK, OnCpuIsCurrent
    <3>12. NextIsHeld'
      BY <2>1, <2>3, <3>2, <3>3, <3>6 DEF PlaceInv, RunqueueOK, NextIsHeld, TypeOK
    <3>13. FreedIsBlank'
      BY <2>1, <3>2, <3>6 DEF PlaceInv, FreedIsBlank
    <3> QED BY <3>4, <3>5, <3>7, <3>8, <3>9, <3>10, <3>11, <3>12, <3>13
            DEF PlaceInv, RunqueueOK
  <2>4. CASE boosted[c] \/ (current[c] = NoTask /\ rq[c] = <<>>)
    <3>1. UNCHANGED <<next, run_state, rq>> /\ pc' = [pc EXCEPT ![c] = "yield"]
      BY <1>9, <2>4 DEF PickNext, Goto
    <3>2. MsgInv' /\ OwnerInv'
      BY <1>3, <1>8, <2>1, <3>1 DEF Labels, Migrating
    <3> QED BY <1>2, <2>1, <3>1, <3>2
  <2> QED BY <2>2, <2>3, <2>4
<1>10. ASSUME pc[c] \in {"commit", "oncpu"}
       PROVE  /\ next[c] \in Tasks /\ next[c] # NoTask /\ next[c] \in known
              /\ tcpu[next[c]] = c /\ c # NoCpu /\ pc[c] \notin Migrating
              /\ run_state[next[c]] \in {"kRunnable", "kOnCpu"}
              /\ \A d \in Cpus : d # c => next[d] # next[c] /\ current[d] # next[c]
              /\ current[c] = NoTask \/ current[c] = next[c]
  <2>1. next[c] # NoTask /\ pc[c] \notin Migrating /\ next[c] \in Tasks
    BY <1>10 DEF ControlOK, Migrating, TypeOK
  <2>2. c # NoCpu
    BY KernelAssumption DEF Cpus, NoCpu
  <2> QED BY <2>1, <2>2 DEF PlaceInv, RunqueueOK, NextIsHeld, CurrentIsOnCpu
<1>11. CASE CommitTxn(c)
  <2> DEFINE t == next[c]
             state == TxnState(c, t, seqnum[t])
  <2>1. pc[c] = "commit"
    BY <1>11 DEF CommitTxn, UnexpectedFailure, At
  <2>2. CASE state = "COMPLETE"
    <3>1. /\ SamePlaces /\ UNCHANGED <<kst, seq, assoc, chan, known, target>>
          /\ pc' = [pc EXCEPT ![c] = "oncpu"] /\ via' = [via EXCEPT ![t] = "txn"]
      BY <1>11, <2>2 DEF CommitTxn, UnexpectedFailure, RunTask, Goto
    <3>2. kst[t] # "new"
      BY <2>2 DEF TxnState, InGhost
    <3>3. \A u \in Tasks : kst[u] = "new" => via'[u] = via[u]
      BY <3>1, <3>2 DEF TypeOK, KernelTypeOK
    <3>4. MsgInv' /\ OwnerInv'
      BY <1>3, <1>8, <1>10, <2>1, <3>1, <3>3 DEF Labels, Migrating
    <3> QED BY <1>2, <3>1, <3>4
  <2>3. CASE state = "TARGET_NOT_RUNNABLE"
    BY <1>11, <2>3, AbortKeepsInv DEF CommitTxn, UnexpectedFailure
  <2>4. CASE state \notin {"COMPLETE", "TARGET_NOT_RUNNABLE"}
    <3>1. /\ current' = [current EXCEPT ![c] = IF @ = t THEN NoTask ELSE @]
          /\ run_state' = [run_state EXCEPT ![t] = "kQueued"]
          /\ rq' = [rq EXCEPT ![c] = Pushed(@, t, TRUE)]
          /\ next' = [next EXCEPT ![c] = NoTask]
          /\ pc' = [pc EXCEPT ![c] = "top"]
          /\ UNCHANGED <<kernelVars, known, tcpu, target>>
      BY <1>11, <2>4 DEF CommitTxn, UnexpectedFailure, Goto
    <3>2. MsgInv'
      BY <1>8, <1>10, <2>1, <3>1 DEF Labels
    <3>3. OwnerInv'
      <4>1. \A u \in known : run_state'[u] = run_state[u] \/ (run_state'[u] # "kBlocked" /\ tcpu[u] # NoCpu)
        BY <1>10, <2>1, <3>1 DEF TypeOK
      <4> QED BY <1>3, <3>1, <4>1 DEF Labels, Migrating
    <3>4. /\ \A d \in Cpus : current'[d] = IF current[d] = t THEN NoTask ELSE current[d]
          /\ \A d \in Cpus : next'[d] = NoTask \/ (next'[d] = next[d] /\ next[d] # t)
      BY <1>10, <2>1, <3>1 DEF TypeOK
    <3>5. PlaceInv'
      <4> HIDE DEF t
      <4>1. t \in known /\ tcpu[t] = c /\ run_state[t] # "kQueued"
        BY <1>10, <2>1 DEF t
      <4> QED BY <3>1, <3>4, <4>1, EnqueuePlaces
    <3> QED BY <3>2, <3>3, <3>5
  <2> QED BY <2>2, <2>3, <2>4
<1>12. CASE TaskOnCpu(c)
  <2> DEFINE t == next[c]
  <2>1. /\ pc[c] = "oncpu"
        /\ current' = [current EXCEPT ![c] = t]
        /\ run_state' = [run_state EXCEPT ![t] = "kOnCpu"]
        /\ tcpu' = [tcpu EXCEPT ![t] = c]
        /\ next' = [next EXCEPT ![c] = NoTask]
        /\ pc' = [pc EXCEPT ![c] = "top"]
        /\ UNCHANGED <<kernelVars, known, rq, target>>
    BY <1>12 DEF TaskOnCpu, At, Goto
  <2>2. /\ t \in Tasks /\ t # NoTask /\ t \in known
        /\ tcpu[t] = c /\ c # NoCpu /\ pc[c] \notin Migrating
        /\ run_state[t] \in {"kRunnable", "kOnCpu"}
        /\ \A d \in Cpus : d # c => next[d] # t /\ current[d] # t
        /\ current[c] = NoTask \/ current[c] = t
    BY <1>10, <2>1
  <2> HIDE DEF t
  <2>3. /\ \A u \in Tasks : tcpu'[u] = tcpu[u]
        /\ \A u \in Tasks : u # t => run_state'[u] = run_state[u]
        /\ run_state'[t] = "kOnCpu" /\ current'[c] = t
        /\ \A d \in Cpus : d # c => current'[d] = current[d] /\ next'[d] = next[d]
        /\ next'[c] = NoTask /\ known \subseteq Tasks
    BY <2>1, <2>2 DEF TypeOK
  <2>4. MsgInv'
    BY <1>8, <2>1, <2>2 DEF Labels
  <2>5. OwnerInv'
    <3>1. \A u \in known : run_state'[u] = run_state[u] \/ (run_state'[u] # "kBlocked" /\ tcpu[u] # NoCpu)
      BY <2>2, <2>3
    <3> QED BY <1>3, <2>1, <2>3, <3>1 DEF Labels, Migrating
  <2>6. QueuedOnce'
    BY <2>1 DEF PlaceInv, RunqueueOK, QueuedOnce
  <2>7. QueuesHoldQueued'
    BY <2>1, <2>2, <2>3 DEF PlaceInv, RunqueueOK, QueuesHoldQueued
  <2>8. QueuedAreInQueue'
    BY <2>1, <2>3 DEF PlaceInv, RunqueueOK, QueuedAreInQueue
  <2>9. CurrentIsOnCpu'
    BY <2>1, <2>2, <2>3 DEF PlaceInv, RunqueueOK, CurrentIsOnCpu, TypeOK
  <2>10. OnCpuIsCurrent'
    BY <2>2, <2>3, FifoAssumption DEF PlaceInv, RunqueueOK, OnCpuIsCurrent
  <2>11. NextIsHeld'
    BY <2>1, <2>2, <2>3 DEF PlaceInv, RunqueueOK, NextIsHeld, TypeOK
  <2>12. FreedIsBlank'
    BY <2>1, <2>2, <2>3 DEF PlaceInv, FreedIsBlank
  <2> QED BY <2>4, <2>5, <2>6, <2>7, <2>8, <2>9, <2>10, <2>11, <2>12 DEF PlaceInv, RunqueueOK
<1> QED BY <1>1, <1>4, <1>5, <1>6, <1>7, <1>9, <1>11, <1>12 DEF AgentStep

-------------------------------------------------------------------------------
\* The invariant holds as long as no thread comes back to ghOSt.
LEMMA InvHolds ==
  ASSUME "reenter" \notin Events
  PROVE  Spec => []Inv
<1>1. Init => Inv
  <2> SUFFICES ASSUME Init PROVE Inv
    OBVIOUS
  <2>1. TypeInv
    BY InitTypes
  <2> USE DEF Init, KernelInit
  <2>2. \A c \in Cpus : Len(chan[c]) = 0 /\ Len(rq[c]) = 0
    OBVIOUS
  <2>3. PlaceInv
    BY <2>2 DEF PlaceInv, RunqueueOK, QueuedOnce, QueuesHoldQueued, QueuedAreInQueue,
      CurrentIsOnCpu, OnCpuIsCurrent, NextIsHeld, FreedIsBlank, InQueue, NoRepeats
  <2>4. OwnerInv
    BY DEF OwnerInv, OnlyDefaultAgentMigrates, InFlight, AssociatedToCpu
  <2>5. MsgInv
    BY <2>2 DEF MsgInv, Routed, InOrder, NewTasks, Drained
  <2> QED BY <2>1, <2>3, <2>4, <2>5 DEF Inv
<1>2. Inv /\ [Next]_vars => Inv'
  <2> SUFFICES ASSUME Inv, [Next]_vars PROVE Inv'
    OBVIOUS
  <2>1. TypeInv'
    BY NextTypes DEF Inv
  <2>2. CASE KernelStep
    BY <2>1, <2>2, KernelKeepsInv
  <2>3. CASE \E c \in Cpus : AgentStep(c)
    BY <2>1, <2>3, AgentKeepsInv
  <2>4. CASE UNCHANGED vars
    <3> USE DEF Inv, vars, kernelVars, taskVars, agentVars, cfsVars, fifoVars,
                fifoTaskVars, cpuVars, localVars
    <3>1. PlaceInv'
      BY <2>4 DEF PlaceInv, RunqueueOK, QueuedOnce, QueuesHoldQueued, QueuedAreInQueue,
                  CurrentIsOnCpu, OnCpuIsCurrent, NextIsHeld, FreedIsBlank
    <3>2. OwnerInv'
      BY <2>4 DEF OwnerInv, OnlyDefaultAgentMigrates, InFlight, AssociatedToCpu, Msg
    <3>3. MsgInv'
      BY <2>4, QuietKeepsMsgs
    <3> QED BY <2>1, <3>1, <3>2, <3>3
  <2> QED BY <2>2, <2>3, <2>4 DEF Next
<1> QED BY <1>1, <1>2, PTL DEF Spec

(***************************************************************************)
(* As long as no thread comes back to ghOSt after it has left (see the run *)
(* fifo_reenter), every FifoTask is in exactly one place whatever the      *)
(* agents and the kernel do: once in the run queue of its CPU, or the      *)
(* current of its CPU, or held by the one agent that is about to run it,   *)
(* and a destroyed FifoTask is in none.                                    *)
(***************************************************************************)
THEOREM RunqueueSafe ==
  ASSUME "reenter" \notin Events
  PROVE  Spec => []RunqueueOK
<1>1. Inv => RunqueueOK
  BY DEF Inv, PlaceInv
<1> QED BY <1>1, InvHolds, PTL

(***************************************************************************)
(* Under the same assumption AssignCpu is only ever executed by the agent  *)
(* of the default channel, so its unguarded static iterator is not raced.  *)
(***************************************************************************)
THEOREM MigrationSafe ==
  ASSUME "reenter" \notin Events
  PROVE  Spec => []OnlyDefaultAgentMigrates
<1>1. Inv => OnlyDefaultAgentMigrates
  BY DEF Inv, OwnerInv
<1> QED BY <1>1, InvHolds, PTL

-------------------------------------------------------------------------------
(***************************************************************************)
(* What the agents know of the tasks: no CHECK fails, the agents agree     *)
(* with the kernel once the messages of a task have been read, no task is  *)
(* forgotten, and no wakeup is lost.  A task that comes back to ghOSt is   *)
(* excluded ("reenter" is not among the events): what it does to the       *)
(* agents is the subject of the run fifo_reenter.                          *)
(***************************************************************************)

(***************************************************************************)
(* What the agents know of the tasks.  An unread message is one that no    *)
(* agent has given effect to: the message that Migrate works on is still   *)
(* in the channel, but the task has already been handed over.              *)
(***************************************************************************)
Pending(c, i) == ~(i = 1 /\ pc[c] \in Migrating)

Unread ==
  UNION {{chan[c][i] : i \in {j \in 1 .. Len(chan[c]) : Pending(c, j)}} : c \in Cpus}

\* Migrate hands over the task of a wakeup; its Advance comes last.
LateAdvance(t) ==
  /\ pc[DefaultCpu] \in Migrating /\ t \in known
  /\ Msg(DefaultCpu).task = t /\ Msg(DefaultCpu).type = "TASK_WAKEUP"

\* The number of the last message of t that has been given effect to.
Handled(t) == IF LateAdvance(t) THEN Msg(DefaultCpu).seq ELSE seqnum[t]

OffTypes == {"TASK_BLOCKED", "TASK_YIELD", "TASK_PREEMPT", "TASK_SWITCHTO"}

\* A task that has sent m last is blocked for the agents.
Blocks(m) == m.type \in {"TASK_BLOCKED", "TASK_SWITCHTO"} \/ (m.type = "TASK_NEW" /\ ~m.flag)

Final(m) == m.type \in {"TASK_DEPARTED", "TASK_DEAD"}

\* Sent by a task that an agent has put on a CPU, or that got there by SwitchTo.
Ran(m)     == m.type \in OffTypes /\ ~m.flag
Chained(m) == m.type \in OffTypes \cup {"TASK_DEPARTED"} /\ m.flag

NeedsBlocked(m) == m.type \in {"TASK_WAKEUP", "TASK_DEAD"} \/ Chained(m)

\* An agent has put the task on its CPU and has not recorded it yet.
Held(t) == \E c \in Cpus : pc[c] = "oncpu" /\ next[c] = t

GotCpu(t) == run_state[t] = "kOnCpu" \/ Held(t)

\* Message m of task t may be the next one to be handled.
MayBeNext(t, m) ==
  /\ m.type = "TASK_NEW" <=> t \notin known
  /\ NeedsBlocked(m) => run_state[t] = "kBlocked"
  /\ Ran(m) => GotCpu(t)

\* Message m may be the one after message p.
Follows(m, p) ==
  \/ NeedsBlocked(m) /\ Blocks(p)
  \/ m.type = "TASK_DEPARTED" /\ ~m.flag /\ ~Final(p)

\* Message m of task t has its place in the sequence of messages.
MessageOK(t, m) ==
  /\ Handled(t) < m.seq /\ m.seq <= seq[t]
  /\ \/ m.seq = Handled(t) + 1 /\ MayBeNext(t, m)
     \/ \E p \in Unread : p.task = t /\ p.seq + 1 = m.seq /\ Follows(m, p)
  /\ m.seq # seq[t] => \E q \in Unread : q.task = t /\ q.seq = m.seq + 1
  /\ Final(m) => m.seq = seq[t]
  /\ m.type = "TASK_DEPARTED" => kst[t] = "departed"
  /\ m.type = "TASK_DEAD" => kst[t] = "dead"
  /\ m.type = "TASK_SWITCHTO" => ~m.flag
  /\ Chained(m) => t \in known /\ tcpu[t] # NoCpu

\* The agents are to take task t for a blocked one.
Inactive(t) == kst[t] \in {"blocked", "dying"} \/ via[t] = "switchto"

Alive(t) == kst[t] \in {"blocked", "dying", "runnable"}

\* Task t has sent message m last.
Ends(t, m) ==
  /\ kst[t] # "new"
  /\ Alive(t) <=> ~Final(m)
  /\ Alive(t) => (Inactive(t) <=> Blocks(m))

\* What the agents will know of task t when they have read all messages.
LastSeen(t) ==
  \/ /\ t \in known /\ Handled(t) = seq[t] /\ Alive(t)
     /\ run_state[t] = "kBlocked" <=> Inactive(t)
  \/ \E m \in Unread : m.task = t /\ m.seq = seq[t] /\ Ends(t, m)
  \/ /\ t \notin known /\ kst[t] \in {"departed", "dead"}
     /\ \A m \in Unread : m.task # t

ViewOK(t) ==
  /\ \A m \in Unread : m.task = t => MessageOK(t, m)
  /\ IF kst[t] = "new" THEN seq[t] = 0 ELSE LastSeen(t)
  /\ t \notin known => seqnum[t] = 0

\* Who is on a CPU: the agent of that CPU is not, and if a transaction has
\* brought the task there, the agent has yet to record it.
OnCpuOK ==
  /\ \A t \in Tasks : via[t] \in {"txn", "switchto"} =>
       kst[t] = "runnable" /\ oncpu[t] \in Cpus /\ ast[oncpu[t]] # "running"
  /\ \A t \in Tasks : via[t] = "txn" =>
       /\ t \in known /\ seqnum[t] = seq[t]
       /\ pc[oncpu[t]] = "oncpu" /\ next[oncpu[t]] = t
  /\ \A t \in Tasks : via[t] = "switchto" \/ (ran[t] /\ InGhost(t)) =>
       t \in known /\ tcpu[t] # NoCpu
  /\ \A t, u \in Tasks : /\ via[t] \in {"txn", "switchto"} /\ via[u] \in {"txn", "switchto"}
                         /\ oncpu[t] = oncpu[u]
                         => t = u

\* A task that FifoSchedule is about to run cannot have got off a CPU.
PickedOK ==
  \A c \in Cpus : pc[c] \in {"wait", "commit"} =>
    \A m \in Unread : m.task = next[c] => ~Ran(m)

\* The task Migrate hands over can do nothing but leave before Advance.
MoveOK ==
  pc[DefaultCpu] \in Migrating =>
    LET m == Msg(DefaultCpu)  t == m.task IN
    /\ m.type \in {"TASK_NEW", "TASK_WAKEUP"}
    /\ m.type = "TASK_WAKEUP" =>
         /\ seqnum[t] < m.seq /\ m.seq <= seq[t]
         /\ t \notin known => kst[t] = "departed"
         /\ t \in known => run_state[t] \in {"kQueued", "kRunnable"} /\ ~Held(t)

ViewInv == (\A t \in Tasks : ViewOK(t)) /\ OnCpuOK /\ PickedOK /\ MoveOK /\ ChecksHold
-------------------------------------------------------------------------------
(***************************************************************************)
(* The unread messages.                                                    *)
(***************************************************************************)

LEMMA UnreadIs ==
  ASSUME NEW m
  PROVE  m \in Unread <=> \E c \in Cpus : \E i \in 1 .. Len(chan[c]) :
                            Pending(c, i) /\ m = chan[c][i]
  BY DEF Unread

LEMMA UnreadTypes ==
  ASSUME TypeOK, NEW m \in Unread
  PROVE  /\ m \in Messages /\ m.task \in Tasks /\ m.seq \in Nat
         /\ m.type \in MsgTypes /\ m.flag \in BOOLEAN
<1>1. PICK c \in Cpus : \E i \in 1 .. Len(chan[c]) : m = chan[c][i]
  BY UnreadIs
<1>2. chan[c] \in Seq(Messages)
  BY DEF TypeOK, KernelTypeOK
<1>3. m \in Messages
  BY <1>1, <1>2
<1> QED BY <1>3 DEF Messages

\* An unread message is in the channel its task is associated with, and it is
\* the only one of its task that has its number.
LEMMA UnreadUnique ==
  ASSUME TypeOK, MsgInv, NEW x \in Unread, NEW y \in Unread,
         x.task = y.task, x.seq = y.seq
  PROVE  x = y
<1>1. PICK c \in Cpus : \E i \in 1 .. Len(chan[c]) : Pending(c, i) /\ x = chan[c][i]
  BY UnreadIs
<1>2. PICK i \in 1 .. Len(chan[c]) : Pending(c, i) /\ x = chan[c][i]
  BY <1>1
<1>3. PICK d \in Cpus : \E j \in 1 .. Len(chan[d]) : Pending(d, j) /\ y = chan[d][j]
  BY UnreadIs
<1>4. PICK j \in 1 .. Len(chan[d]) : Pending(d, j) /\ y = chan[d][j]
  BY <1>3
<1>5. assoc[x.task] = c /\ assoc[y.task] = d
  BY <1>2, <1>4 DEF MsgInv, Routed, Pending
<1>6. c = d /\ x.seq \in Nat
  BY <1>5, UnreadTypes
<1>7. ~(i < j) /\ ~(j < i)
  BY <1>2, <1>4, <1>6 DEF MsgInv, InOrder
<1> QED BY <1>2, <1>4, <1>6, <1>7

\* A message that is appended to a channel is unread, and nothing else changes.
LEMMA UnreadAppend ==
  ASSUME TypeInv, NEW k \in Cpus, NEW m \in Messages,
         chan' = [chan EXCEPT ![k] = Append(@, m)], pc' = pc,
         NEW x
  PROVE  x \in Unread' <=> x \in Unread \/ x = m
<1>1. /\ \A c \in Cpus : c # k => chan'[c] = chan[c]
      /\ Len(chan[k]) \in Nat /\ Len(chan'[k]) = Len(chan[k]) + 1
      /\ chan'[k][Len(chan[k]) + 1] = m
      /\ \A i \in 1 .. Len(chan[k]) : chan'[k][i] = chan[k][i]
  BY AppendKeepsHead DEF TypeInv
<1>2. Pending(k, Len(chan[k]) + 1)
  <2>1. pc[k] \in Migrating => Len(chan[k]) # 0
    BY EmptySeq DEF TypeInv, ControlOK, TypeOK, KernelTypeOK
  <2> QED BY <1>1, <2>1 DEF Pending
<1>3. x \in Unread' <=> \E c \in Cpus : \E i \in 1 .. Len(chan'[c]) :
                          Pending(c, i) /\ x = chan'[c][i]
  BY DEF Unread, Pending
<1>4. ASSUME x \in Unread \/ x = m PROVE x \in Unread'
  <2>1. CASE x = m
    BY <1>1, <1>2, <1>3, <2>1
  <2>2. CASE x \in Unread
    <3>1. PICK c \in Cpus : \E i \in 1 .. Len(chan[c]) : Pending(c, i) /\ x = chan[c][i]
      BY <2>2, UnreadIs
    <3>2. PICK i \in 1 .. Len(chan[c]) : Pending(c, i) /\ x = chan[c][i]
      BY <3>1
    <3>3. i \in 1 .. Len(chan'[c]) /\ x = chan'[c][i]
      BY <1>1, <3>2
    <3> QED BY <1>3, <3>2, <3>3
  <2> QED BY <1>4, <2>1, <2>2
<1>5. ASSUME x \in Unread', x # m PROVE x \in Unread
  <2>1. PICK c \in Cpus : \E i \in 1 .. Len(chan'[c]) : Pending(c, i) /\ x = chan'[c][i]
    BY <1>3, <1>5
  <2>2. PICK i \in 1 .. Len(chan'[c]) : Pending(c, i) /\ x = chan'[c][i]
    BY <2>1
  <2>3. i \in 1 .. Len(chan[c]) /\ x = chan[c][i]
    BY <1>1, <1>5, <2>2
  <2> QED BY <2>2, <2>3, UnreadIs
<1> QED BY <1>4, <1>5

\* The message that a handler of agent c works on.
LEMMA HeadUnread ==
  ASSUME TypeOK, NEW c \in Cpus, pc[c] = "drain", chan[c] # <<>>
  PROVE  Msg(c) \in Unread
<1>1. 1 \in 1 .. Len(chan[c]) /\ Msg(c) = chan[c][1] /\ Pending(c, 1)
  BY MsgTypeOK DEF Pending, Migrating
<1> QED BY <1>1, UnreadIs

\* A handler that returns has given effect to one message.
LEMMA UnreadConsume ==
  ASSUME Inv, NEW c \in Cpus, pc[c] = "drain", chan[c] # <<>>, Consume(c), pc' = pc,
         NEW x
  PROVE  x \in Unread' <=> x \in Unread /\ x # Msg(c)
<1> USE DEF Inv, TypeInv
<1>1. /\ \A d \in Cpus : d # c => chan'[d] = chan[d]
      /\ chan'[c] = Tail(chan[c]) /\ chan[c] \in Seq(Messages)
  BY DEF Consume, TypeOK, KernelTypeOK
<1>2. /\ Len(chan'[c]) = Len(chan[c]) - 1 /\ Len(chan[c]) \in Nat /\ Len(chan[c]) >= 1
      /\ \A i \in 1 .. Len(chan'[c]) : chan'[c][i] = chan[c][i + 1]
      /\ Msg(c) = chan[c][1]
  BY <1>1, TailFacts DEF Msg
<1>3. Msg(c) \in Unread /\ \A i : Pending(c, i)
  BY HeadUnread DEF Pending, Migrating
<1>4. x \in Unread' <=> \E d \in Cpus : \E i \in 1 .. Len(chan'[d]) :
                          Pending(d, i) /\ x = chan'[d][i]
  BY DEF Unread, Pending
<1>5. ASSUME x \in Unread' PROVE x \in Unread /\ x # Msg(c)
  <2>1. PICK d \in Cpus : \E i \in 1 .. Len(chan'[d]) : Pending(d, i) /\ x = chan'[d][i]
    BY <1>4, <1>5
  <2>2. PICK i \in 1 .. Len(chan'[d]) : Pending(d, i) /\ x = chan'[d][i]
    BY <2>1
  <2>3. PICK j \in 1 .. Len(chan[d]) : x = chan[d][j] /\ Pending(d, j) /\ (d = c => j > 1)
    <3>1. CASE d = c
      <4>1. i + 1 \in 1 .. Len(chan[d]) /\ x = chan[d][i + 1] /\ i + 1 > 1
        BY <1>2, <2>2, <3>1
      <4> QED BY <1>3, <3>1, <4>1
    <3>2. CASE d # c
      BY <1>1, <2>2, <3>2
    <3> QED BY <3>1, <3>2
  <2>4. x \in Unread
    BY <2>3, UnreadIs
  <2>5. x # Msg(c)
    <3>1. assoc[x.task] = d /\ assoc[Msg(c).task] = c
      BY <1>2, <1>3, <2>3 DEF MsgInv, Routed, Pending, Migrating
    <3>2. d = c => x.task # Msg(c).task \/ x.seq > Msg(c).seq
      BY <1>2, <2>3 DEF MsgInv, InOrder
    <3>3. Msg(c).seq \in Nat
      BY MsgTypeOK
    <3> QED BY <3>1, <3>2, <3>3
  <2> QED BY <2>4, <2>5
<1>6. ASSUME x \in Unread, x # Msg(c) PROVE x \in Unread'
  <2>1. PICK d \in Cpus : \E i \in 1 .. Len(chan[d]) : Pending(d, i) /\ x = chan[d][i]
    BY <1>6, UnreadIs
  <2>2. PICK i \in 1 .. Len(chan[d]) : Pending(d, i) /\ x = chan[d][i]
    BY <2>1
  <2>3. \E j \in 1 .. Len(chan'[d]) : x = chan'[d][j] /\ Pending(d, j)
    <3>1. CASE d = c
      <4>1. i - 1 \in 1 .. Len(chan'[d])
        BY <1>2, <1>6, <2>2, <3>1
      <4>2. x = chan'[d][i - 1]
        BY <1>2, <2>2, <3>1, <4>1
      <4> QED BY <1>3, <3>1, <4>1, <4>2
    <3>2. CASE d # c
      BY <1>1, <2>2, <3>2
    <3> QED BY <3>1, <3>2
  <2> QED BY <1>4, <2>3
<1> QED BY <1>5, <1>6

\* Migrate gives effect to the message before it is consumed.
LEMMA UnreadMigrate ==
  ASSUME Inv, NEW c \in Cpus, pc[c] = "drain", chan[c] # <<>>, chan' = chan,
         pc' = [pc EXCEPT ![c] = "enqueue"], NEW x
  PROVE  x \in Unread' <=> x \in Unread /\ x # Msg(c)
<1> USE DEF Inv, TypeInv
<1>1. /\ Len(chan[c]) \in Nat /\ Len(chan[c]) >= 1 /\ Msg(c) = chan[c][1]
      /\ Msg(c).seq \in Nat
  BY MsgTypeOK
<1>2. /\ pc'[c] = "enqueue" /\ \A d \in Cpus : d # c => pc'[d] = pc[d]
  BY DEF TypeOK
<1>3. x \in Unread' <=> \E d \in Cpus : \E i \in 1 .. Len(chan[d]) :
                          Pending(d, i)' /\ x = chan[d][i]
  BY DEF Unread
<1>4. ASSUME x \in Unread' PROVE x \in Unread /\ x # Msg(c)
  <2>1. PICK d \in Cpus : \E i \in 1 .. Len(chan[d]) : Pending(d, i)' /\ x = chan[d][i]
    BY <1>3, <1>4
  <2>2. PICK i \in 1 .. Len(chan[d]) : Pending(d, i)' /\ x = chan[d][i]
    BY <2>1
  <2>3. Pending(d, i) /\ (d = c => i > 1)
    BY <1>2, <2>2 DEF Pending, Migrating
  <2>4. x \in Unread
    BY <2>2, <2>3, UnreadIs
  <2>5. x # Msg(c)
    <3>1. assoc[x.task] = d /\ assoc[Msg(c).task] = c
      BY <1>1, <2>2, <2>3 DEF MsgInv, Routed, Pending, Migrating
    <3>2. d = c => x.task # Msg(c).task \/ x.seq > Msg(c).seq
      BY <1>1, <2>2, <2>3 DEF MsgInv, InOrder
    <3> QED BY <1>1, <3>1, <3>2
  <2> QED BY <2>4, <2>5
<1>5. ASSUME x \in Unread, x # Msg(c) PROVE x \in Unread'
  <2>1. PICK d \in Cpus : \E i \in 1 .. Len(chan[d]) : Pending(d, i) /\ x = chan[d][i]
    BY <1>5, UnreadIs
  <2>2. PICK i \in 1 .. Len(chan[d]) : Pending(d, i) /\ x = chan[d][i]
    BY <2>1
  <2>3. Pending(d, i)'
    BY <1>1, <1>2, <1>5, <2>2 DEF Pending
  <2> QED BY <1>3, <2>2, <2>3
<1> QED BY <1>4, <1>5

\* When Migrate returns, its message has had its effect already.
LEMMA UnreadAdvance ==
  ASSUME Inv, NEW c \in Cpus, pc[c] = "advance", chan[c] # <<>>, Consume(c),
         pc' = [pc EXCEPT ![c] = "drain"], NEW x
  PROVE  x \in Unread' <=> x \in Unread
<1> USE DEF Inv, TypeInv
<1>1. /\ \A d \in Cpus : d # c => chan'[d] = chan[d]
      /\ chan'[c] = Tail(chan[c]) /\ chan[c] \in Seq(Messages)
      /\ pc'[c] = "drain" /\ \A d \in Cpus : d # c => pc'[d] = pc[d]
  BY DEF Consume, TypeOK, KernelTypeOK
<1>2. /\ Len(chan'[c]) = Len(chan[c]) - 1 /\ Len(chan[c]) \in Nat /\ Len(chan[c]) >= 1
      /\ \A i \in 1 .. Len(chan'[c]) : chan'[c][i] = chan[c][i + 1]
  BY <1>1, TailFacts
<1>3. /\ \A i \in Nat : Pending(c, i)' /\ (Pending(c, i) <=> i # 1)
      /\ \A d \in Cpus, i \in Nat : d # c => (Pending(d, i)' <=> Pending(d, i))
  BY <1>1 DEF Pending, Migrating
<1>4. x \in Unread' <=> \E d \in Cpus : \E i \in 1 .. Len(chan'[d]) :
                          Pending(d, i)' /\ x = chan'[d][i]
  BY DEF Unread
<1>5. ASSUME x \in Unread' PROVE x \in Unread
  <2>1. PICK d \in Cpus : \E i \in 1 .. Len(chan'[d]) : Pending(d, i)' /\ x = chan'[d][i]
    BY <1>4, <1>5
  <2>2. PICK i \in 1 .. Len(chan'[d]) : Pending(d, i)' /\ x = chan'[d][i]
    BY <2>1
  <2>3. \E j \in 1 .. Len(chan[d]) : x = chan[d][j] /\ Pending(d, j)
    <3>1. CASE d = c
      <4>1. i + 1 \in 1 .. Len(chan[d]) /\ x = chan[d][i + 1] /\ i + 1 \in Nat /\ i + 1 # 1
        BY <1>2, <2>2, <3>1
      <4> QED BY <1>3, <3>1, <4>1
    <3>2. CASE d # c
      BY <1>1, <1>3, <2>2, <3>2
    <3> QED BY <3>1, <3>2
  <2> QED BY <2>3, UnreadIs
<1>6. ASSUME x \in Unread PROVE x \in Unread'
  <2>1. PICK d \in Cpus : \E i \in 1 .. Len(chan[d]) : Pending(d, i) /\ x = chan[d][i]
    BY <1>6, UnreadIs
  <2>2. PICK i \in 1 .. Len(chan[d]) : Pending(d, i) /\ x = chan[d][i]
    BY <2>1
  <2>3. \E j \in 1 .. Len(chan'[d]) : x = chan'[d][j] /\ Pending(d, j)'
    <3>1. CASE d = c
      <4>0. i # 1
        BY <1>3, <2>2, <3>1
      <4>1. i - 1 \in 1 .. Len(chan'[d]) /\ i - 1 \in Nat
        BY <1>2, <2>2, <3>1, <4>0
      <4>2. x = chan'[d][i - 1]
        BY <1>2, <2>2, <3>1, <4>1
      <4> QED BY <1>3, <3>1, <4>1, <4>2
    <3>2. CASE d # c
      BY <1>1, <1>3, <2>2, <3>2
    <3> QED BY <3>1, <3>2
  <2> QED BY <1>4, <2>3
<1> QED BY <1>5, <1>6

LEMMA UnreadSame ==
  ASSUME chan' = chan, \A c \in Cpus : pc'[c] \in Migrating <=> pc[c] \in Migrating
  PROVE  Unread' = Unread
  BY DEF Unread, Pending
-------------------------------------------------------------------------------
(***************************************************************************)
(* What a step does to the agents' view of one task.                       *)
(***************************************************************************)

LEMMA HandledType ==
  ASSUME TypeInv, NEW t \in Tasks
  PROVE  Handled(t) \in Nat /\ seq[t] \in Nat /\ seqnum[t] \in Nat
<1>1. DefaultCpu \in Cpus
  BY KernelAssumption DEF DefaultCpu, Cpus
<1>2. LateAdvance(t) => Msg(DefaultCpu).seq \in Nat
  BY <1>1, MsgTypeOK DEF TypeInv, ControlOK, LateAdvance
<1>3. seq[t] \in Nat /\ seqnum[t] \in Nat
  BY DEF TypeInv, TypeOK, KernelTypeOK
<1> QED BY <1>2, <1>3 DEF Handled

\* A step that sends and handles no message of task t, and that leaves it
\* blocked if it was and on its CPU if its messages say that it was there.
LEMMA QuietView ==
  ASSUME NEW t \in Tasks, ViewOK(t),
         \A m : m.task = t => (m \in Unread' <=> m \in Unread),
         Handled(t)' = Handled(t), seq'[t] = seq[t],
         t \notin known => seqnum'[t] = seqnum[t],
         t \in known' <=> t \in known,
         Inactive(t)' <=> Inactive(t),
         kst'[t] = kst[t] \/ (Alive(t) /\ Alive(t)'),
         run_state'[t] = "kBlocked" <=> run_state[t] = "kBlocked",
         tcpu[t] # NoCpu => tcpu'[t] # NoCpu,
         \/ GotCpu(t) => GotCpu(t)'
         \/ \A m \in Unread : m.task = t => ~Ran(m)
  PROVE  ViewOK(t)'
<1>1. ASSUME NEW m \in Unread', m.task = t PROVE MessageOK(t, m)'
  <2>1. m \in Unread /\ MessageOK(t, m)
    BY <1>1 DEF ViewOK
  <2>2. MayBeNext(t, m) => MayBeNext(t, m)'
    BY <1>1, <2>1 DEF MayBeNext
  <2>3. kst[t] \in {"departed", "dead"} => kst'[t] = kst[t]
    BY DEF Alive
  <2> QED BY <2>1, <2>2, <2>3 DEF MessageOK
<1>2. (kst'[t] = "new" <=> kst[t] = "new") /\ (Alive(t)' <=> Alive(t))
  BY DEF Alive
<1>3. LastSeen(t) => LastSeen(t)'
  <2>1. \A m : Ends(t, m) => Ends(t, m)'
    BY <1>2 DEF Ends
  <2>2. kst[t] \in {"departed", "dead"} => kst'[t] = kst[t]
    BY DEF Alive
  <2> QED BY <1>2, <2>1, <2>2 DEF LastSeen
<1> QED BY <1>1, <1>2, <1>3 DEF ViewOK

\* The kernel sends message m of task t.
LEMMA SendView ==
  ASSUME TypeInv, NEW t \in Tasks, ViewOK(t), kst[t] # "new",
         NEW m \in Messages, m.task = t, m.type # "TASK_NEW", m.seq = seq[t] + 1,
         seq'[t] = m.seq, \A x : x \in Unread' <=> x \in Unread \/ x = m,
         Handled(t)' = Handled(t), GotCpu(t)' <=> GotCpu(t),
         UNCHANGED <<known, run_state, tcpu, seqnum>>,
         Alive(t), Ends(t, m)',
         \/ NeedsBlocked(m) /\ Inactive(t)
         \/ Ran(m) /\ GotCpu(t) /\ Handled(t) = seq[t] /\ t \in known
         \/ m.type = "TASK_DEPARTED" /\ ~m.flag,
         m.type = "TASK_DEPARTED" => kst'[t] = "departed",
         m.type = "TASK_DEAD" => kst'[t] = "dead",
         m.type = "TASK_SWITCHTO" => ~m.flag,
         Chained(m) => t \in known /\ tcpu[t] # NoCpu
  PROVE  ViewOK(t)'
<1>0. Handled(t) \in Nat /\ seq[t] \in Nat /\ TypeOK
  BY HandledType DEF TypeInv
<1>1. ASSUME NEW x \in Unread, x.task = t PROVE MessageOK(t, x)'
  <2>1. MessageOK(t, x) /\ x.seq \in Nat
    BY <1>0, <1>1, UnreadTypes DEF ViewOK
  <2>2. MayBeNext(t, x) => MayBeNext(t, x)'
    BY DEF MayBeNext
  <2>3. ~Final(x)
    BY <2>1 DEF MessageOK, Alive, Final
  <2>4. x.seq # seq'[t] /\ \E q \in Unread' : q.task = t /\ q.seq = x.seq + 1
    <3>1. CASE x.seq = seq[t]
      BY <1>0, <2>1, <3>1
    <3>2. CASE x.seq # seq[t]
      BY <1>0, <2>1, <3>2 DEF MessageOK
    <3> QED BY <3>1, <3>2
  <2>5. x.seq <= seq'[t]
    BY <1>0, <2>1 DEF MessageOK
  <2>6. \/ x.seq = Handled(t)' + 1 /\ MayBeNext(t, x)'
        \/ \E p \in Unread' : p.task = t /\ p.seq + 1 = x.seq /\ Follows(x, p)
    BY <2>1, <2>2 DEF MessageOK
  <2> QED BY <2>1, <2>3, <2>4, <2>5, <2>6 DEF MessageOK, Final
<1>2. MessageOK(t, m)'
  <2>1. Handled(t) <= seq[t]
    <3>1. LastSeen(t)
      BY DEF ViewOK
    <3>2. CASE Handled(t) = seq[t]
      BY <1>0, <3>2
    <3>3. ASSUME NEW p \in Unread, p.task = t PROVE Handled(t) <= seq[t]
      <4>1. Handled(t) < p.seq /\ p.seq <= seq[t] /\ p.seq \in Nat
        BY <1>0, <3>3, UnreadTypes DEF ViewOK, MessageOK
      <4> QED BY <1>0, <4>1
    <3> QED BY <3>1, <3>2, <3>3 DEF LastSeen, Alive
  <2>2. \/ m.seq = Handled(t) + 1 /\ MayBeNext(t, m)'
        \/ \E p \in Unread : p.task = t /\ p.seq + 1 = m.seq /\ Follows(m, p)
    <3>1. LastSeen(t)
      BY DEF ViewOK
    <3>2. CASE /\ t \in known /\ Handled(t) = seq[t]
               /\ run_state[t] = "kBlocked" <=> Inactive(t)
      BY <3>2 DEF MayBeNext, NeedsBlocked, Ran, Chained, OffTypes
    <3>3. ASSUME NEW p \in Unread, p.task = t, p.seq = seq[t], Ends(t, p)
          PROVE  \E q \in Unread : q.task = t /\ q.seq + 1 = m.seq /\ Follows(m, q)
      <4>1. Handled(t) # seq[t]
        BY <1>0, <3>3 DEF ViewOK, MessageOK
      <4>2. Follows(m, p)
        BY <3>3, <4>1 DEF Follows, Ends
      <4> QED BY <3>3, <4>2
    <3> QED BY <3>1, <3>2, <3>3 DEF LastSeen, Alive
  <2>3. Handled(t)' < m.seq /\ m.seq <= seq'[t]
    BY <1>0, <2>1
  <2>4. \/ m.seq = Handled(t)' + 1 /\ MayBeNext(t, m)'
        \/ \E p \in Unread' : p.task = t /\ p.seq + 1 = m.seq /\ Follows(m, p)
    BY <2>2
  <2> QED BY <2>3, <2>4 DEF MessageOK
<1>3. LastSeen(t)' /\ kst'[t] # "new"
  BY DEF LastSeen, Ends
<1>4. t \notin known' => seqnum'[t] = 0
  BY DEF ViewOK
<1> QED BY <1>1, <1>2, <1>3, <1>4 DEF ViewOK

\* The kernel sends the TASK_NEW of task t.
LEMMA CreateView ==
  ASSUME TypeInv, NEW t \in Tasks, ViewOK(t), kst[t] = "new", t \notin known,
         \A x \in Unread : x.task # t,
         NEW m \in Messages, m.task = t, m.type = "TASK_NEW", m.seq = 1,
         seq'[t] = 1, \A x : x \in Unread' <=> x \in Unread \/ x = m,
         Handled(t)' = Handled(t), UNCHANGED <<known, seqnum>>, Ends(t, m)'
  PROVE  ViewOK(t)'
<1>1. Handled(t)' = 0
  BY DEF ViewOK, Handled, LateAdvance
<1>2. MessageOK(t, m)'
  BY <1>1 DEF MessageOK, MayBeNext, Final, Ran, Chained, NeedsBlocked, OffTypes
<1>3. LastSeen(t)' /\ kst'[t] # "new"
  BY DEF LastSeen, Ends
<1> QED BY <1>2, <1>3 DEF ViewOK

\* A handler gives effect to message m of task t, the next one.
LEMMA ConsumeView ==
  ASSUME TypeInv, MsgInv, TypeInv', MsgInv', NEW t \in Tasks, ViewOK(t), kst[t] # "new",
         NEW m \in Unread, m.task = t, m.seq = Handled(t) + 1, MayBeNext(t, m),
         \A x : x \in Unread' <=> x \in Unread /\ x # m,
         UNCHANGED <<kst, via, seq>>,
         IF Final(m)
           THEN t \notin known' /\ seqnum'[t] = 0
           ELSE /\ t \in known' /\ Handled(t)' = m.seq
                /\ run_state'[t] = "kBlocked" <=> Blocks(m)
                /\ tcpu[t] # NoCpu => tcpu'[t] # NoCpu
  PROVE  ViewOK(t)'
<1>0. Handled(t) \in Nat /\ seq[t] \in Nat /\ TypeOK /\ m.seq \in Nat
  BY HandledType, UnreadTypes DEF TypeInv
<1>1. MessageOK(t, m) /\ LastSeen(t)
  BY DEF ViewOK
<1>2. \A x \in Unread' : x.task = t => /\ x \in Unread /\ x # m /\ x.seq \in Nat
                                       /\ MessageOK(t, x) /\ x.seq > m.seq
  <2> SUFFICES ASSUME NEW x \in Unread', x.task = t
               PROVE  /\ x \in Unread /\ x # m /\ x.seq \in Nat
                      /\ MessageOK(t, x) /\ x.seq > m.seq
    OBVIOUS
  <2>1. x \in Unread /\ x # m /\ MessageOK(t, x) /\ x.seq \in Nat
    BY <1>0, UnreadTypes DEF ViewOK
  <2>2. x.seq # m.seq
    BY <1>0, <2>1, UnreadUnique
  <2>3. x.seq > Handled(t)
    BY <2>1 DEF MessageOK
  <2> QED BY <1>0, <2>1, <2>2, <2>3
<1>3. CASE Final(m)
  <2>1. m.seq = seq[t] /\ kst[t] \in {"departed", "dead"}
    BY <1>1, <1>3 DEF MessageOK, Final
  <2>2. \A x \in Unread' : x.task # t
    BY <1>0, <1>2, <2>1 DEF MessageOK
  <2> QED BY <1>3, <2>1, <2>2 DEF ViewOK, LastSeen
<1>4. CASE ~Final(m)
  <2>1. ASSUME NEW x \in Unread', x.task = t PROVE MessageOK(t, x)'
    <3>1. x \in Unread /\ x # m /\ MessageOK(t, x) /\ x.seq > m.seq /\ x.seq \in Nat
      BY <1>2, <2>1
    <3>2. PICK p \in Unread : p.task = t /\ p.seq + 1 = x.seq /\ Follows(x, p)
      BY <1>0, <3>1 DEF MessageOK
    <3>3. \/ x.seq = Handled(t)' + 1 /\ MayBeNext(t, x)'
          \/ \E q \in Unread' : q.task = t /\ q.seq + 1 = x.seq /\ Follows(x, q)
      <4>1. CASE p = m
        <5>1. MayBeNext(t, x)'
          BY <1>4, <3>2, <4>1 DEF MayBeNext, Follows, NeedsBlocked, Ran, Chained, OffTypes
        <5> QED BY <1>4, <3>2, <4>1, <5>1
      <4>2. CASE p # m
        BY <3>2, <4>2
      <4> QED BY <4>1, <4>2
    <3>4. x.seq # seq'[t] => \E q \in Unread' : q.task = t /\ q.seq = x.seq + 1
      <4> SUFFICES ASSUME x.seq # seq[t]
                   PROVE  \E q \in Unread' : q.task = t /\ q.seq = x.seq + 1
        OBVIOUS
      <4>1. PICK q \in Unread : q.task = t /\ q.seq = x.seq + 1
        BY <3>1 DEF MessageOK
      <4>2. q # m
        BY <1>0, <3>1, <4>1
      <4> QED BY <4>1, <4>2
    <3> QED BY <1>4, <3>1, <3>3, <3>4 DEF MessageOK
  <2>2. LastSeen(t)'
    <3>1. Handled(t) # seq[t]
      BY <1>0, <1>1 DEF MessageOK
    <3>2. PICK x \in Unread : x.task = t /\ x.seq = seq[t] /\ Ends(t, x)
      BY <1>1, <3>1 DEF LastSeen
    <3>3. Ends(t, x)' /\ (Alive(t)' <=> Alive(t)) /\ (Inactive(t)' <=> Inactive(t))
      BY <3>2 DEF Ends, Alive, Inactive
    <3>4. CASE x = m
      BY <1>4, <3>2, <3>3, <3>4 DEF LastSeen, Ends
    <3>5. CASE x # m
      BY <3>2, <3>3, <3>5 DEF LastSeen
    <3> QED BY <3>4, <3>5
  <2> QED BY <1>4, <2>1, <2>2 DEF ViewOK
<1> QED BY <1>3, <1>4
-------------------------------------------------------------------------------
(***************************************************************************)
(* Kernel steps.                                                           *)
(***************************************************************************)

LEMMA DefaultIsCpu == DefaultCpu \in Cpus
  BY KernelAssumption DEF DefaultCpu, Cpus

\* The kernel does not touch what the agents have handled.
LEMMA KernelFrame ==
  ASSUME TypeInv, UNCHANGED fifoVars,
         \/ chan' = chan
         \/ \E k \in Cpus, m \in Messages : chan' = [chan EXCEPT ![k] = Append(@, m)]
  PROVE  /\ pc[DefaultCpu] \in Migrating => Msg(DefaultCpu)' = Msg(DefaultCpu)
         /\ \A t \in Tasks : Handled(t)' = Handled(t) /\ (GotCpu(t)' <=> GotCpu(t))
         /\ \A t \in Tasks : Held(t)' <=> Held(t)
<1> USE DEF fifoVars, fifoTaskVars, cpuVars, localVars
<1>1. pc[DefaultCpu] \in Migrating => Msg(DefaultCpu)' = Msg(DefaultCpu)
  <2>1. pc[DefaultCpu] \in Migrating => chan[DefaultCpu] # <<>>
    BY DefaultIsCpu DEF TypeInv, ControlOK
  <2>2. CASE chan' = chan
    BY <2>2 DEF Msg
  <2>3. ASSUME NEW k \in Cpus, NEW m \in Messages, chan' = [chan EXCEPT ![k] = Append(@, m)]
        PROVE  chan[DefaultCpu] # <<>> => Head(chan'[DefaultCpu]) = Head(chan[DefaultCpu])
    BY <2>3, DefaultIsCpu, AppendKeepsHead DEF TypeInv
  <2> QED BY <2>1, <2>2, <2>3 DEF Msg
<1>2. \A t \in Tasks : Held(t)' <=> Held(t)
  BY DEF Held
<1>3. \A t \in Tasks : GotCpu(t)' <=> GotCpu(t)
  BY <1>2 DEF GotCpu
<1>4. ASSUME NEW t \in Tasks PROVE Handled(t)' = Handled(t)
  <2>1. LateAdvance(t)' <=> LateAdvance(t)
    BY <1>1 DEF LateAdvance
  <2>2. LateAdvance(t) => pc[DefaultCpu] \in Migrating
    BY DEF LateAdvance
  <2> QED BY <1>1, <2>1, <2>2 DEF Handled
<1> QED BY <1>1, <1>2, <1>3, <1>4

\* The agents know all about a task that a transaction has put on a CPU.
LEMMA TxnSettled ==
  ASSUME Inv, OnCpuOK, MoveOK, NEW t \in Tasks, via[t] = "txn"
  PROVE  /\ t \in known /\ Handled(t) = seq[t] /\ GotCpu(t)
         /\ \A c \in Cpus : pc[c] \in {"wait", "commit"} => next[c] # t
<1>1. /\ t \in known /\ seqnum[t] = seq[t] /\ oncpu[t] \in Cpus
      /\ pc[oncpu[t]] = "oncpu" /\ next[oncpu[t]] = t
  BY DEF OnCpuOK
<1>2. ~LateAdvance(t)
  <2>1. seqnum[t] \in Nat
    BY HandledType DEF Inv
  <2>2. pc[DefaultCpu] \in Migrating => Msg(DefaultCpu).seq \in Nat
    BY DefaultIsCpu, MsgTypeOK DEF Inv, TypeInv, ControlOK
  <2> QED BY <1>1, <2>1, <2>2 DEF LateAdvance, MoveOK
<1>3. Handled(t) = seq[t] /\ GotCpu(t)
  BY <1>1, <1>2 DEF Handled, GotCpu, Held
<1>4. ASSUME NEW c \in Cpus, pc[c] \in {"wait", "commit"} PROVE next[c] # t
  <2>1. SUFFICES ASSUME next[c] = t PROVE FALSE
    OBVIOUS
  <2>2. tcpu[t] = c /\ tcpu[t] = oncpu[t]
    BY <1>1, <2>1, FifoAssumption DEF Inv, PlaceInv, RunqueueOK, NextIsHeld
  <2> QED BY <1>1, <1>4, <2>2
<1> QED BY <1>1, <1>3, <1>4

\* A step of the kernel that brings no task to a CPU.
LEMMA OnCpuStays ==
  ASSUME OnCpuOK, UNCHANGED fifoVars,
         \A u \in Tasks : via'[u] \in {"txn", "switchto"} =>
           /\ via'[u] = via[u] /\ oncpu'[u] = oncpu[u] /\ kst'[u] = kst[u]
           /\ seq'[u] = seq[u] /\ ast'[oncpu[u]] # "running",
         \A u \in Tasks : ran'[u] /\ InGhost(u)' => ran[u] /\ InGhost(u)
  PROVE  OnCpuOK'
<1> USE DEF fifoVars, fifoTaskVars, cpuVars, localVars
<1>1. \A u \in Tasks : via'[u] \in {"txn", "switchto"} =>
        kst'[u] = "runnable" /\ oncpu'[u] \in Cpus /\ ast'[oncpu'[u]] # "running"
  BY DEF OnCpuOK
<1>2. \A u \in Tasks : via'[u] = "txn" =>
        /\ u \in known' /\ seqnum'[u] = seq'[u]
        /\ pc'[oncpu'[u]] = "oncpu" /\ next'[oncpu'[u]] = u
  BY DEF OnCpuOK
<1>3. \A u \in Tasks : via'[u] = "switchto" \/ (ran'[u] /\ InGhost(u)') =>
        u \in known' /\ tcpu'[u] # NoCpu
  BY DEF OnCpuOK
<1>4. \A u, v \in Tasks : /\ via'[u] \in {"txn", "switchto"} /\ via'[v] \in {"txn", "switchto"}
                          /\ oncpu'[u] = oncpu'[v]
                          => u = v
  BY DEF OnCpuOK
<1> QED BY <1>1, <1>2, <1>3, <1>4 DEF OnCpuOK

\* The kernel steps that send no message.
LEMMA SilentKeepsView ==
  ASSUME Inv, ViewInv, UNCHANGED fifoVars, failed = NoFailure, UNCHANGED <<seq, chan>>,
         \A u \in Tasks : /\ Inactive(u)' <=> Inactive(u)
                          /\ kst'[u] = kst[u] \/ (Alive(u) /\ Alive(u)'),
         OnCpuOK'
  PROVE  ViewInv'
<1> USE DEF fifoVars, fifoTaskVars, cpuVars, localVars
<1>1. /\ pc[DefaultCpu] \in Migrating => Msg(DefaultCpu)' = Msg(DefaultCpu)
      /\ \A t \in Tasks : Handled(t)' = Handled(t) /\ (GotCpu(t)' <=> GotCpu(t))
      /\ \A t \in Tasks : Held(t)' <=> Held(t)
  BY KernelFrame DEF Inv
<1>2. Unread' = Unread
  BY UnreadSame
<1>3. ASSUME NEW t \in Tasks PROVE ViewOK(t)'
  <2>1. ViewOK(t)
    BY DEF ViewInv
  <2> QED BY <1>1, <1>2, <2>1, QuietView
<1>4. PickedOK'
  BY <1>2 DEF ViewInv, PickedOK
<1>5. MoveOK'
  <2>1. pc[DefaultCpu] \in Migrating => Msg(DefaultCpu).task \in Tasks
    BY DefaultIsCpu, MsgTypeOK DEF Inv, TypeInv, ControlOK
  <2>2. \A u \in Tasks : kst[u] = "departed" => kst'[u] = "departed"
    BY DEF Alive
  <2> QED BY <1>1, <2>1, <2>2 DEF ViewInv, MoveOK
<1> QED BY <1>3, <1>4, <1>5 DEF ViewInv, ChecksHold

\* The kernel steps that send a message of a task that the agents know of or
\* will know of.
LEMMA SendKeepsView ==
  ASSUME Inv, ViewInv, UNCHANGED fifoVars, failed = NoFailure,
         NEW t \in Tasks, NEW m \in Messages, Sent(t, m),
         \A u \in Tasks \ {t} : /\ Inactive(u)' <=> Inactive(u)
                                /\ kst'[u] = kst[u] \/ (Alive(u) /\ Alive(u)'),
         Alive(t), Ends(t, m)',
         \/ NeedsBlocked(m) /\ Inactive(t)
         \/ Ran(m) /\ via[t] = "txn"
         \/ m.type = "TASK_DEPARTED" /\ ~m.flag,
         m.type = "TASK_DEPARTED" => kst'[t] = "departed",
         m.type = "TASK_DEAD" => kst'[t] = "dead",
         m.type = "TASK_SWITCHTO" => ~m.flag,
         Chained(m) => via[t] = "switchto",
         OnCpuOK'
  PROVE  ViewInv'
<1> USE DEF fifoVars, fifoTaskVars, cpuVars, localVars
<1>0. /\ assoc[t] \in Cpus /\ chan' = [chan EXCEPT ![assoc[t]] = Append(@, m)]
      /\ m.task = t /\ m.type # "TASK_NEW" /\ m.seq = seq[t] + 1 /\ kst[t] # "new"
      /\ seq[t] \in Nat /\ seq'[t] = m.seq /\ \A u \in Tasks \ {t} : seq'[u] = seq[u]
  BY DEF Sent, Inv, TypeInv, TypeOK, KernelTypeOK
<1>1. /\ pc[DefaultCpu] \in Migrating => Msg(DefaultCpu)' = Msg(DefaultCpu)
      /\ \A u \in Tasks : Handled(u)' = Handled(u) /\ (GotCpu(u)' <=> GotCpu(u))
      /\ \A u \in Tasks : Held(u)' <=> Held(u)
  BY <1>0, KernelFrame DEF Inv
<1>2. \A x : x \in Unread' <=> x \in Unread \/ x = m
  BY <1>0, UnreadAppend DEF Inv
<1>3. ASSUME NEW u \in Tasks PROVE ViewOK(u)'
  <2>1. ViewOK(u) /\ OnCpuOK /\ MoveOK
    BY DEF ViewInv
  <2>2. CASE u # t
    <3>1. \A x : x.task = u => (x \in Unread' <=> x \in Unread)
      BY <1>0, <1>2, <2>2
    <3>2. u \in Tasks \ {t}
      BY <2>2
    <3> QED BY <1>0, <1>1, <2>1, <3>1, <3>2, QuietView
  <2>3. CASE u = t
    <3>1. via[t] = "txn" => t \in known /\ Handled(t) = seq[t] /\ GotCpu(t)
      BY <2>1, TxnSettled
    <3>2. Chained(m) => t \in known /\ tcpu[t] # NoCpu
      BY <2>1 DEF OnCpuOK
    <3>3. ViewOK(t) /\ TypeInv
      BY <2>1, <2>3 DEF Inv
    <3> HIDE DEF fifoVars, fifoTaskVars, cpuVars, localVars
    <3>4. UNCHANGED <<known, run_state, tcpu, seqnum>>
      BY DEF fifoVars, fifoTaskVars
    <3>5. \/ NeedsBlocked(m) /\ Inactive(t)
          \/ Ran(m) /\ GotCpu(t) /\ Handled(t) = seq[t] /\ t \in known
          \/ m.type = "TASK_DEPARTED" /\ ~m.flag
      BY <3>1
    <3>6. ViewOK(t)'
      BY <1>0, <1>1, <1>2, <3>2, <3>3, <3>4, <3>5, SendView
    <3> QED BY <2>3, <3>6
  <2> QED BY <2>2, <2>3
<1>4. PickedOK'
  <2>1. Ran(m) => \A c \in Cpus : pc[c] \in {"wait", "commit"} => next[c] # t
    <3>1. Ran(m) => via[t] = "txn"
      BY DEF Ran, NeedsBlocked, Chained, OffTypes
    <3> QED BY <3>1, TxnSettled DEF ViewInv
  <2> QED BY <1>0, <1>2, <2>1 DEF ViewInv, PickedOK
<1>5. MoveOK'
  <2>1. pc[DefaultCpu] \in Migrating => Msg(DefaultCpu).task \in Tasks /\ Msg(DefaultCpu).seq \in Nat
    BY DefaultIsCpu, MsgTypeOK DEF Inv, TypeInv, ControlOK
  <2>2. \A u \in Tasks : kst[u] = "departed" => kst'[u] = "departed"
    BY DEF Alive
  <2>3. \A u \in Tasks : seq[u] \in Nat /\ seq'[u] \in Nat /\ seq[u] <= seq'[u]
    <3>1. \A u \in Tasks : seq[u] \in Nat
      BY HandledType DEF Inv
    <3> QED BY <1>0, <3>1
  <2>4. pc[DefaultCpu] \in Migrating /\ Msg(DefaultCpu).seq <= seq[Msg(DefaultCpu).task]
          => Msg(DefaultCpu).seq <= seq'[Msg(DefaultCpu).task]
    BY <2>1, <2>3
  <2> QED BY <1>1, <2>1, <2>2, <2>4 DEF ViewInv, MoveOK
<1> QED BY <1>3, <1>4, <1>5 DEF ViewInv, ChecksHold
\* The message of the task, and its payload.
LEMMA ProduceIs ==
  ASSUME KernelTypeOK, NEW t \in Tasks, NEW type \in MsgTypes \ {"TASK_NEW"},
         NEW flag \in BOOLEAN, NEW cpu \in Cpus \cup {NoCpu}, Produce(t, type, flag, cpu),
         kst[t] # "new", assoc' = assoc
  PROVE  \E m \in Messages : Sent(t, m) /\ m.type = type /\ m.flag = flag
<1> DEFINE m == [type |-> type, task |-> t, seq |-> seq[t] + 1, flag |-> flag, cpu |-> cpu]
<1>1. seq[t] + 1 \in Nat
  BY DEF KernelTypeOK
<1>2. m \in Messages
  BY <1>1 DEF Messages
<1>3. Sent(t, m)
  BY <1>2 DEF Sent, Produce
<1> QED BY <1>2, <1>3

LEMMA ReportIs ==
  ASSUME KernelTypeOK, NEW t \in Tasks, NEW type \in MsgTypes \ {"TASK_NEW"},
         Report(t, type), kst[t] # "new", assoc' = assoc
  PROVE  /\ \E m \in Messages : /\ Sent(t, m) /\ m.type = type
                                /\ m.flag = (via[t] = "switchto")
         /\ \A c \in Cpus : ast'[c] = "running" => ast[c] = "running"
<1>1. oncpu[t] \in Cpus \cup {NoCpu} /\ Produce(t, type, via[t] = "switchto", oncpu[t])
  BY DEF KernelTypeOK, Report
<1>2. \A c \in Cpus : ast'[c] = "running" => ast[c] = "running"
  BY DEF Report, WakeAgent, Woken, KernelTypeOK
<1> QED BY <1>1, <1>2, ProduceIs

\* Tasks on a CPU are in ghOSt and runnable.
LEMMA KernelShape ==
  ASSUME Inv, OnCpuOK
  PROVE  /\ KernelTypeOK
         /\ kst \in [Tasks -> {"new", "blocked", "runnable", "dying", "dead", "departed"}]
         /\ via \in [Tasks -> {"none", "txn", "switchto", "leaving"}]
         /\ \A u \in Tasks : kst[u] # "runnable" => via[u] \notin {"txn", "switchto"}
         /\ \A u \in Tasks : via[u] \in {"txn", "switchto"} =>
              oncpu[u] \in Cpus /\ ast[oncpu[u]] # "running"
  BY DEF Inv, TypeInv, TypeOK, KernelTypeOK, OnCpuOK

\* A task that was running gets off its CPU, its message says how.
LEMMA LeaveKeepsView ==
  ASSUME Inv, ViewInv, UNCHANGED fifoVars, failed = NoFailure,
         NEW t \in Tasks, NEW type \in {"TASK_BLOCKED", "TASK_YIELD", "TASK_PREEMPT"},
         Running(t), Report(t, type), LeaveCpu(t), UNCHANGED <<ran, assoc>>,
         IF type = "TASK_BLOCKED"
           THEN \E s \in {"blocked", "dying"} : kst' = [kst EXCEPT ![t] = s]
           ELSE kst' = kst
  PROVE  ViewInv'
<1>1. OnCpuOK
  BY DEF ViewInv
<1>2. /\ KernelTypeOK
      /\ kst \in [Tasks -> {"new", "blocked", "runnable", "dying", "dead", "departed"}]
      /\ via \in [Tasks -> {"none", "txn", "switchto", "leaving"}]
      /\ \A u \in Tasks : via[u] \in {"txn", "switchto"} =>
           oncpu[u] \in Cpus /\ ast[oncpu[u]] # "running"
  BY <1>1, KernelShape
<1>3. PICK m \in Messages : Sent(t, m) /\ m.type = type /\ m.flag = (via[t] = "switchto")
  BY <1>2, ReportIs DEF Running, MsgTypes
<1>4. \A c \in Cpus : ast'[c] = "running" => ast[c] = "running"
  BY <1>2, ReportIs DEF Running, MsgTypes
<1>5. /\ via'[t] \in {"none", "leaving"}
      /\ oncpu \in [Tasks -> Cpus \cup {NoCpu}]
      /\ \A u \in Tasks \ {t} : via'[u] = via[u] /\ oncpu'[u] = oncpu[u]
  BY <1>2 DEF LeaveCpu, KernelTypeOK
<1>6. /\ \A u \in Tasks \ {t} : kst'[u] = kst[u]
      /\ IF type = "TASK_BLOCKED" THEN kst'[t] \in {"blocked", "dying"}
                                  ELSE kst'[t] = "runnable"
  BY <1>2 DEF Running
<1>7. \A u \in Tasks \ {t} : seq'[u] = seq[u]
  BY <1>2, <1>3 DEF Sent, KernelTypeOK
<1>8. OnCpuOK'
  <2>1. \A u \in Tasks : via'[u] \in {"txn", "switchto"} =>
          /\ via'[u] = via[u] /\ oncpu'[u] = oncpu[u] /\ kst'[u] = kst[u]
          /\ seq'[u] = seq[u] /\ ast'[oncpu[u]] # "running"
    BY <1>2, <1>4, <1>5, <1>6, <1>7
  <2>2. \A u \in Tasks : ran'[u] /\ InGhost(u)' => ran[u] /\ InGhost(u)
    BY <1>6 DEF InGhost, Running
  <2> QED BY <1>1, <2>1, <2>2, OnCpuStays
<1>9. Ends(t, m)'
  BY <1>3, <1>5, <1>6 DEF Ends, Alive, Inactive, Blocks, Final
<1>10. \A u \in Tasks \ {t} : /\ Inactive(u)' <=> Inactive(u)
                              /\ kst'[u] = kst[u] \/ (Alive(u) /\ Alive(u)')
  BY <1>5, <1>6 DEF Inactive
<1>11. \/ NeedsBlocked(m) /\ Inactive(t)
       \/ Ran(m) /\ via[t] = "txn"
  BY <1>3 DEF NeedsBlocked, Chained, Ran, OffTypes, Inactive, Running
<1>12. Alive(t)
  BY DEF Running, Alive
<1>13. Chained(m) => via[t] = "switchto"
  BY <1>3 DEF Chained
<1> QED BY <1>3, <1>8, <1>9, <1>10, <1>11, <1>12, <1>13, SendKeepsView

\* A message that says nothing of a CPU: the task wakes up or is reaped, or
\* it leaves ghOSt.
LEMMA KWakeupKeepsView ==
  ASSUME Inv, ViewInv, UNCHANGED fifoVars, failed = NoFailure,
         NEW t \in Tasks, NEW b \in BOOLEAN, KWakeup(t, b)
  PROVE  ViewInv'
<1>1. OnCpuOK
  BY DEF ViewInv
<1>2. /\ KernelTypeOK
      /\ kst \in [Tasks -> {"new", "blocked", "runnable", "dying", "dead", "departed"}]
      /\ \A u \in Tasks : kst[u] # "runnable" => via[u] \notin {"txn", "switchto"}
      /\ \A u \in Tasks : via[u] \in {"txn", "switchto"} =>
           oncpu[u] \in Cpus /\ ast[oncpu[u]] # "running"
  BY <1>1, KernelShape
<1>3. /\ kst[t] = "blocked" /\ kst' = [kst EXCEPT ![t] = "runnable"]
      /\ Produce(t, "TASK_WAKEUP", b, NoCpu) /\ WakeAgent(assoc[t])
      /\ UNCHANGED <<oncpu, via, ran, assoc>>
  BY DEF KWakeup
<1>4. PICK m \in Messages : Sent(t, m) /\ m.type = "TASK_WAKEUP"
  BY <1>2, <1>3, ProduceIs DEF MsgTypes
<1>5. \A c \in Cpus : ast'[c] = "running" => ast[c] = "running"
  BY <1>2, <1>3 DEF WakeAgent, Woken, KernelTypeOK
<1>6. \A u \in Tasks \ {t} : seq'[u] = seq[u] /\ kst'[u] = kst[u]
  BY <1>2, <1>3, <1>4 DEF Sent, KernelTypeOK
<1>7. OnCpuOK'
  <2>1. \A u \in Tasks : via'[u] \in {"txn", "switchto"} =>
          /\ via'[u] = via[u] /\ oncpu'[u] = oncpu[u] /\ kst'[u] = kst[u]
          /\ seq'[u] = seq[u] /\ ast'[oncpu[u]] # "running"
    BY <1>2, <1>3, <1>5, <1>6
  <2>2. \A u \in Tasks : ran'[u] /\ InGhost(u)' => ran[u] /\ InGhost(u)
    BY <1>3, <1>6 DEF InGhost
  <2> QED BY <1>1, <2>1, <2>2, OnCpuStays
<1>8. Ends(t, m)'
  BY <1>2, <1>3, <1>4 DEF Ends, Alive, Inactive, Blocks, Final
<1>9. \A u \in Tasks \ {t} : /\ Inactive(u)' <=> Inactive(u)
                             /\ kst'[u] = kst[u] \/ (Alive(u) /\ Alive(u)')
  BY <1>3, <1>6 DEF Inactive
<1>10. NeedsBlocked(m) /\ Inactive(t) /\ Alive(t) /\ ~Chained(m)
  BY <1>3, <1>4 DEF NeedsBlocked, Inactive, Alive, Chained, OffTypes
<1> QED BY <1>4, <1>7, <1>8, <1>9, <1>10, SendKeepsView

LEMMA KDeadKeepsView ==
  ASSUME Inv, ViewInv, UNCHANGED fifoVars, failed = NoFailure, NEW t \in Tasks, KDead(t)
  PROVE  ViewInv'
<1>1. OnCpuOK
  BY DEF ViewInv
<1>2. /\ KernelTypeOK
      /\ kst \in [Tasks -> {"new", "blocked", "runnable", "dying", "dead", "departed"}]
      /\ \A u \in Tasks : kst[u] # "runnable" => via[u] \notin {"txn", "switchto"}
      /\ \A u \in Tasks : via[u] \in {"txn", "switchto"} =>
           oncpu[u] \in Cpus /\ ast[oncpu[u]] # "running"
  BY <1>1, KernelShape
<1>3. /\ kst[t] = "dying" /\ kst' = [kst EXCEPT ![t] = "dead"] /\ Report(t, "TASK_DEAD")
      /\ UNCHANGED <<oncpu, via, ran, assoc>>
  BY DEF KDead
<1>4. PICK m \in Messages : Sent(t, m) /\ m.type = "TASK_DEAD"
  BY <1>2, <1>3, ReportIs DEF MsgTypes
<1>5. \A c \in Cpus : ast'[c] = "running" => ast[c] = "running"
  BY <1>2, <1>3, ReportIs DEF MsgTypes
<1>6. \A u \in Tasks \ {t} : seq'[u] = seq[u] /\ kst'[u] = kst[u]
  BY <1>2, <1>3, <1>4 DEF Sent, KernelTypeOK
<1>7. OnCpuOK'
  <2>1. \A u \in Tasks : via'[u] \in {"txn", "switchto"} =>
          /\ via'[u] = via[u] /\ oncpu'[u] = oncpu[u] /\ kst'[u] = kst[u]
          /\ seq'[u] = seq[u] /\ ast'[oncpu[u]] # "running"
    BY <1>2, <1>3, <1>5, <1>6
  <2>2. \A u \in Tasks : ran'[u] /\ InGhost(u)' => ran[u] /\ InGhost(u)
    BY <1>2, <1>3, <1>6 DEF InGhost
  <2> QED BY <1>1, <2>1, <2>2, OnCpuStays
<1>a. kst'[t] = "dead"
  BY <1>2, <1>3
<1>8. Ends(t, m)'
  BY <1>4, <1>a DEF Ends, Alive, Final
<1>9. \A u \in Tasks \ {t} : /\ Inactive(u)' <=> Inactive(u)
                             /\ kst'[u] = kst[u] \/ (Alive(u) /\ Alive(u)')
  BY <1>3, <1>6 DEF Inactive
<1>10. NeedsBlocked(m) /\ Inactive(t) /\ Alive(t) /\ ~Chained(m)
  BY <1>3, <1>4 DEF NeedsBlocked, Inactive, Alive, Chained, OffTypes
<1> QED BY <1>4, <1>7, <1>8, <1>9, <1>10, <1>a, SendKeepsView

LEMMA KDepartKeepsView ==
  ASSUME Inv, ViewInv, UNCHANGED fifoVars, failed = NoFailure, NEW t \in Tasks, KDepart(t)
  PROVE  ViewInv'
<1>1. OnCpuOK
  BY DEF ViewInv
<1>2. /\ KernelTypeOK
      /\ kst \in [Tasks -> {"new", "blocked", "runnable", "dying", "dead", "departed"}]
      /\ via \in [Tasks -> {"none", "txn", "switchto", "leaving"}]
      /\ \A u \in Tasks : via[u] \in {"txn", "switchto"} =>
           oncpu[u] \in Cpus /\ ast[oncpu[u]] # "running"
  BY <1>1, KernelShape
<1>3. /\ InGhost(t) /\ kst' = [kst EXCEPT ![t] = "departed"] /\ Report(t, "TASK_DEPARTED")
      /\ oncpu' = [oncpu EXCEPT ![t] = NoCpu] /\ via' = [via EXCEPT ![t] = "none"]
      /\ UNCHANGED <<ran, assoc>>
  BY DEF KDepart
<1>4. PICK m \in Messages : /\ Sent(t, m) /\ m.type = "TASK_DEPARTED"
                            /\ m.flag = (via[t] = "switchto")
  BY <1>2, <1>3, ReportIs DEF MsgTypes, InGhost
<1>5. \A c \in Cpus : ast'[c] = "running" => ast[c] = "running"
  BY <1>2, <1>3, ReportIs DEF MsgTypes, InGhost
<1>6. /\ \A u \in Tasks \ {t} : /\ seq'[u] = seq[u] /\ kst'[u] = kst[u]
                                /\ via'[u] = via[u] /\ oncpu'[u] = oncpu[u]
      /\ kst'[t] = "departed" /\ via'[t] = "none"
  BY <1>2, <1>3, <1>4 DEF Sent, KernelTypeOK
<1>7. OnCpuOK'
  <2>1. \A u \in Tasks : via'[u] \in {"txn", "switchto"} =>
          /\ via'[u] = via[u] /\ oncpu'[u] = oncpu[u] /\ kst'[u] = kst[u]
          /\ seq'[u] = seq[u] /\ ast'[oncpu[u]] # "running"
    BY <1>2, <1>3, <1>5, <1>6
  <2>2. \A u \in Tasks : ran'[u] /\ InGhost(u)' => ran[u] /\ InGhost(u)
    BY <1>3, <1>6 DEF InGhost
  <2> QED BY <1>1, <2>1, <2>2, OnCpuStays
<1>8. Ends(t, m)'
  BY <1>4, <1>6 DEF Ends, Alive, Final
<1>9. \A u \in Tasks \ {t} : /\ Inactive(u)' <=> Inactive(u)
                             /\ kst'[u] = kst[u] \/ (Alive(u) /\ Alive(u)')
  BY <1>6 DEF Inactive
<1>10. /\ (NeedsBlocked(m) /\ Inactive(t)) \/ ~m.flag
       /\ Alive(t) /\ (Chained(m) => via[t] = "switchto")
  BY <1>3, <1>4 DEF NeedsBlocked, Inactive, Alive, Chained, OffTypes, InGhost
<1> QED BY <1>4, <1>6, <1>7, <1>8, <1>9, <1>10, SendKeepsView
LEMMA KTaskNewKeepsView ==
  ASSUME Inv, ViewInv, UNCHANGED fifoVars, failed = NoFailure, "reenter" \notin Events,
         NEW t \in Tasks, NEW b \in BOOLEAN, KTaskNew(t, b)
  PROVE  ViewInv'
<1> USE DEF fifoVars, fifoTaskVars, cpuVars, localVars
<1>1. OnCpuOK
  BY DEF ViewInv
<1>2. /\ KernelTypeOK
      /\ kst \in [Tasks -> {"new", "blocked", "runnable", "dying", "dead", "departed"}]
      /\ \A u \in Tasks : kst[u] # "runnable" => via[u] \notin {"txn", "switchto"}
      /\ \A u \in Tasks : via[u] \in {"txn", "switchto"} =>
           oncpu[u] \in Cpus /\ ast[oncpu[u]] # "running"
  BY <1>1, KernelShape
<1> DEFINE m == [type |-> "TASK_NEW", task |-> t, seq |-> 1, flag |-> b, cpu |-> NoCpu]
<1>3. /\ m \in Messages /\ m.task = t /\ m.type = "TASK_NEW" /\ m.seq = 1 /\ m.flag = b
  BY DEF Messages, MsgTypes
<1>4. /\ kst[t] = "new" /\ kst' = [kst EXCEPT ![t] = IF b THEN "runnable" ELSE "blocked"]
      /\ ran' = [ran EXCEPT ![t] = FALSE]
      /\ seq' = [seq EXCEPT ![t] = 1] /\ chan' = [chan EXCEPT ![DefaultCpu] = Append(@, m)]
      /\ WakeAgent(DefaultCpu) /\ UNCHANGED <<oncpu, via>>
  BY DEF KTaskNew
<1> HIDE DEF m
<1>5. /\ \A u \in Tasks \ {t} : seq'[u] = seq[u] /\ kst'[u] = kst[u] /\ ran'[u] = ran[u]
      /\ seq'[t] = 1 /\ kst'[t] = (IF b THEN "runnable" ELSE "blocked") /\ ~ran'[t]
      /\ \A c \in Cpus : ast'[c] = "running" => ast[c] = "running"
  BY <1>2, <1>4 DEF KernelTypeOK, WakeAgent, Woken
<1>6. OnCpuOK'
  <2>1. \A u \in Tasks : via'[u] \in {"txn", "switchto"} =>
          /\ via'[u] = via[u] /\ oncpu'[u] = oncpu[u] /\ kst'[u] = kst[u]
          /\ seq'[u] = seq[u] /\ ast'[oncpu[u]] # "running"
    BY <1>2, <1>4, <1>5
  <2>2. \A u \in Tasks : ran'[u] /\ InGhost(u)' => ran[u] /\ InGhost(u)
    BY <1>5 DEF InGhost
  <2> QED BY <1>1, <2>1, <2>2, OnCpuStays
<1>7. /\ pc[DefaultCpu] \in Migrating => Msg(DefaultCpu)' = Msg(DefaultCpu)
      /\ \A u \in Tasks : Handled(u)' = Handled(u) /\ (GotCpu(u)' <=> GotCpu(u))
      /\ \A u \in Tasks : Held(u)' <=> Held(u)
  BY <1>3, <1>4, DefaultIsCpu, KernelFrame DEF Inv
<1>8. \A x : x \in Unread' <=> x \in Unread \/ x = m
  BY <1>3, <1>4, DefaultIsCpu, UnreadAppend DEF Inv
<1>9. t \notin known /\ via[t] = "none" /\ Drained(t)
  BY <1>4 DEF Inv, MsgInv, NewTasks
<1>10. \A x \in Unread : x.task # t
  BY <1>9, UnreadIs DEF Drained
<1>11. ASSUME NEW u \in Tasks PROVE ViewOK(u)'
  <2>1. ViewOK(u)
    BY DEF ViewInv
  <2>2. CASE u # t
    <3>1. \A x : x.task = u => (x \in Unread' <=> x \in Unread)
      BY <1>3, <1>8, <2>2
    <3>2. Inactive(u)' <=> Inactive(u)
      BY <1>4, <1>5, <2>2 DEF Inactive
    <3> QED BY <1>5, <1>7, <2>1, <2>2, <3>1, <3>2, QuietView
  <2>3. CASE u = t
    <3>1. Ends(t, m)'
      BY <1>3, <1>4, <1>5, <1>9 DEF Ends, Alive, Inactive, Blocks, Final
    <3>2. ViewOK(t)'
      BY <1>3, <1>4, <1>5, <1>7, <1>8, <1>9, <1>10, <2>1, <2>3, <3>1, CreateView DEF Inv
    <3> QED BY <2>3, <3>2
  <2> QED BY <2>2, <2>3
<1>12. PickedOK'
  <2>1. ~Ran(m)
    BY <1>3 DEF Ran, OffTypes
  <2> QED BY <1>8, <2>1 DEF ViewInv, PickedOK
<1>13. MoveOK'
  <2>1. pc[DefaultCpu] \in Migrating => Msg(DefaultCpu).task \in Tasks \ {t}
    <3>1. pc[DefaultCpu] \in Migrating =>
            /\ Msg(DefaultCpu).task \in Tasks /\ 1 \in 1 .. Len(chan[DefaultCpu])
            /\ Msg(DefaultCpu) = chan[DefaultCpu][1]
      BY DefaultIsCpu, MsgTypeOK DEF Inv, TypeInv, ControlOK
    <3> QED BY <1>9, <3>1, DefaultIsCpu DEF Drained
  <2> QED BY <1>5, <1>7, <2>1 DEF ViewInv, MoveOK
<1> QED BY <1>6, <1>11, <1>12, <1>13 DEF ViewInv, ChecksHold

\* SwitchTo: thread a blocks and b, which the agents take for blocked, runs.
LEMMA KSwitchToKeepsView ==
  ASSUME Inv, ViewInv, UNCHANGED fifoVars, failed = NoFailure,
         NEW a \in Tasks, NEW b \in Tasks, KSwitchTo(a, b)
  PROVE  ViewInv'
<1>1. OnCpuOK
  BY DEF ViewInv
<1>2. /\ KernelTypeOK
      /\ kst \in [Tasks -> {"new", "blocked", "runnable", "dying", "dead", "departed"}]
      /\ via \in [Tasks -> {"none", "txn", "switchto", "leaving"}]
      /\ oncpu \in [Tasks -> Cpus \cup {NoCpu}]
      /\ \A u \in Tasks : kst[u] # "runnable" => via[u] \notin {"txn", "switchto"}
      /\ \A u \in Tasks : via[u] \in {"txn", "switchto"} =>
           oncpu[u] \in Cpus /\ ast[oncpu[u]] # "running"
  BY <1>1, KernelShape DEF KernelTypeOK
<1>3. /\ a # b /\ kst[a] = "runnable" /\ via[a] \in {"txn", "switchto"}
      /\ kst[b] = "blocked" /\ ran[b]
      /\ kst' = [kst EXCEPT ![a] = "blocked", ![b] = "runnable"]
      /\ oncpu' = [oncpu EXCEPT ![a] = NoCpu, ![b] = oncpu[a]]
      /\ via' = [via EXCEPT ![a] = "none", ![b] = "switchto"]
      /\ UNCHANGED <<ran, assoc, ast>>
      /\ IF via[a] = "txn" THEN Produce(a, "TASK_SWITCHTO", FALSE, oncpu[a])
                           ELSE UNCHANGED <<seq, chan>>
  BY DEF KSwitchTo, Running
<1>4. /\ kst'[a] = "blocked" /\ via'[a] = "none"
      /\ kst'[b] = "runnable" /\ via'[b] = "switchto" /\ oncpu'[b] = oncpu[a]
      /\ \A u \in Tasks \ {a, b} : kst'[u] = kst[u] /\ via'[u] = via[u] /\ oncpu'[u] = oncpu[u]
  BY <1>2, <1>3
<1>5. \A u \in Tasks \ {a} : seq'[u] = seq[u]
  BY <1>2, <1>3 DEF Produce, KernelTypeOK
<1>6. OnCpuOK'
  <2> USE DEF fifoVars, fifoTaskVars, cpuVars, localVars
  <2>1. \A u \in Tasks : via'[u] \in {"txn", "switchto"} =>
          kst'[u] = "runnable" /\ oncpu'[u] \in Cpus /\ ast'[oncpu'[u]] # "running"
    BY <1>1, <1>2, <1>3, <1>4 DEF OnCpuOK
  <2>2. \A u \in Tasks : via'[u] = "txn" =>
          /\ u \in known' /\ seqnum'[u] = seq'[u]
          /\ pc'[oncpu'[u]] = "oncpu" /\ next'[oncpu'[u]] = u
    BY <1>1, <1>4, <1>5 DEF OnCpuOK
  <2>3. \A u \in Tasks : via'[u] = "switchto" \/ (ran'[u] /\ InGhost(u)') =>
          u \in known' /\ tcpu'[u] # NoCpu
    BY <1>1, <1>3, <1>4 DEF OnCpuOK, InGhost
  <2>4. \A u, v \in Tasks : /\ via'[u] \in {"txn", "switchto"} /\ via'[v] \in {"txn", "switchto"}
                            /\ oncpu'[u] = oncpu'[v]
                            => u = v
    BY <1>1, <1>3, <1>4 DEF OnCpuOK
  <2> QED BY <2>1, <2>2, <2>3, <2>4 DEF OnCpuOK
<1>7. \A u \in Tasks \ {a} : /\ Inactive(u)' <=> Inactive(u)
                             /\ kst'[u] = kst[u] \/ (Alive(u) /\ Alive(u)')
  BY <1>3, <1>4 DEF Inactive, Alive
<1>8. CASE via[a] = "txn"
  <2>1. /\ oncpu[a] \in Cpus \cup {NoCpu} /\ kst[a] # "new" /\ assoc' = assoc
        /\ Produce(a, "TASK_SWITCHTO", FALSE, oncpu[a])
    BY <1>2, <1>3, <1>8
  <2>2. PICK m \in Messages : Sent(a, m) /\ m.type = "TASK_SWITCHTO" /\ ~m.flag
    <3> DEFINE msg == [type |-> "TASK_SWITCHTO", task |-> a, seq |-> seq[a] + 1,
                       flag |-> FALSE, cpu |-> oncpu[a]]
    <3>1. seq[a] + 1 \in Nat
      BY <1>2 DEF KernelTypeOK
    <3>2. msg \in Messages
      BY <2>1, <3>1 DEF Messages, MsgTypes
    <3>3. Sent(a, msg)
      BY <2>1, <3>2 DEF Sent, Produce
    <3> QED BY <3>2, <3>3
  <2>3. Ends(a, m)' /\ Alive(a) /\ Ran(m) /\ ~Chained(m)
    BY <1>3, <1>4, <2>2 DEF Ends, Alive, Inactive, Blocks, Final, Ran, Chained, OffTypes
  <2> QED BY <1>6, <1>7, <1>8, <2>2, <2>3, SendKeepsView
<1>9. CASE via[a] # "txn"
  <2>1. /\ Inactive(a)' <=> Inactive(a)
        /\ Alive(a) /\ Alive(a)'
    BY <1>3, <1>4, <1>9 DEF Inactive, Alive
  <2> QED BY <1>3, <1>6, <1>7, <1>9, <2>1, SilentKeepsView
<1> QED BY <1>8, <1>9

\* The agent of CPU c gets its CPU back.
LEMMA KAgentSwitchInKeepsView ==
  ASSUME Inv, ViewInv, UNCHANGED fifoVars, failed = NoFailure,
         NEW c \in Cpus, KAgentSwitchIn(c)
  PROVE  ViewInv'
<1>1. OnCpuOK
  BY DEF ViewInv
<1>2. /\ KernelTypeOK
      /\ kst \in [Tasks -> {"new", "blocked", "runnable", "dying", "dead", "departed"}]
      /\ via \in [Tasks -> {"none", "txn", "switchto", "leaving"}]
      /\ \A u \in Tasks : kst[u] # "runnable" => via[u] \notin {"txn", "switchto"}
      /\ \A u \in Tasks : via[u] \in {"txn", "switchto"} =>
           oncpu[u] \in Cpus /\ ast[oncpu[u]] # "running"
  BY <1>1, KernelShape
<1>3. /\ UNCHANGED <<kst, ran, assoc>>
      /\ \A u \in Tasks : IF oncpu[u] = c THEN via'[u] = "none"
                          ELSE via'[u] = via[u] /\ oncpu'[u] = oncpu[u]
  BY DEF KAgentSwitchIn
<1>4. ASSUME \A u \in Tasks : via[u] \in {"txn", "switchto"} /\ oncpu[u] # c => seq'[u] = seq[u],
             \A d \in Cpus \ {c} : ast'[d] = "running" => ast[d] = "running"
      PROVE  OnCpuOK'
  <2>1. \A u \in Tasks : via'[u] \in {"txn", "switchto"} =>
          /\ via'[u] = via[u] /\ oncpu'[u] = oncpu[u] /\ kst'[u] = kst[u]
          /\ seq'[u] = seq[u] /\ ast'[oncpu[u]] # "running"
    BY <1>2, <1>3, <1>4
  <2>2. \A u \in Tasks : ran'[u] /\ InGhost(u)' => ran[u] /\ InGhost(u)
    BY <1>3 DEF InGhost
  <2> QED BY <1>1, <2>1, <2>2, OnCpuStays
<1>5. ASSUME NEW u \in Tasks, ~(oncpu[u] = c /\ via[u] = "switchto")
      PROVE  (Inactive(u)' <=> Inactive(u)) /\ kst'[u] = kst[u]
  BY <1>3, <1>5 DEF Inactive
<1>6. CASE /\ \A t \in Tasks : ~(oncpu[t] = c /\ via[t] = "switchto")
           /\ ast' = [ast EXCEPT ![c] = "running"] /\ UNCHANGED <<seq, chan>>
  <2>1. OnCpuOK'
    BY <1>2, <1>4, <1>6 DEF KernelTypeOK
  <2> QED BY <1>5, <1>6, <2>1, SilentKeepsView
<1>7. ASSUME NEW t \in Tasks, oncpu[t] = c, via[t] = "switchto",
             Produce(t, "TASK_PREEMPT", TRUE, c),
             ast' = [[ast EXCEPT ![assoc[t]] = Woken(@)] EXCEPT ![c] = "running"]
      PROVE  ViewInv'
  <2>1. kst[t] = "runnable" /\ via'[t] = "none" /\ kst'[t] = "runnable"
    BY <1>2, <1>3, <1>7
  <2>2. PICK m \in Messages : Sent(t, m) /\ m.type = "TASK_PREEMPT" /\ m.flag = TRUE
    BY <1>2, <1>3, <1>7, <2>1, ProduceIs DEF MsgTypes
  <2>3. \A u \in Tasks \ {t} : seq'[u] = seq[u]
    BY <1>2, <2>2 DEF Sent, KernelTypeOK
  <2>4. OnCpuOK'
    <3>1. \A d \in Cpus \ {c} : ast'[d] = "running" => ast[d] = "running"
      BY <1>2, <1>7 DEF KernelTypeOK, Woken
    <3> QED BY <1>4, <1>7, <2>3, <3>1
  <2>5. \A u \in Tasks \ {t} : ~(oncpu[u] = c /\ via[u] = "switchto")
    BY <1>1, <1>7 DEF OnCpuOK
  <2>6. \A u \in Tasks \ {t} : /\ Inactive(u)' <=> Inactive(u)
                               /\ kst'[u] = kst[u] \/ (Alive(u) /\ Alive(u)')
    BY <1>5, <2>5
  <2>7. Ends(t, m)' /\ Alive(t) /\ NeedsBlocked(m) /\ Inactive(t)
    BY <1>7, <2>1, <2>2
    DEF Ends, Alive, Inactive, Blocks, Final, NeedsBlocked, Chained, OffTypes
  <2> QED BY <1>7, <2>2, <2>4, <2>6, <2>7, SendKeepsView
<1> QED BY <1>6, <1>7 DEF KAgentSwitchIn

LEMMA KernelKeepsView ==
  ASSUME Inv, ViewInv, "reenter" \notin Events, KernelStep
  PROVE  ViewInv'
<1>0. failed = NoFailure /\ UNCHANGED fifoVars /\ KernelNext /\ OnCpuOK
  BY DEF KernelStep, ViewInv
<1>1. /\ KernelTypeOK
      /\ kst \in [Tasks -> {"new", "blocked", "runnable", "dying", "dead", "departed"}]
      /\ \A u \in Tasks : via[u] \in {"txn", "switchto"} =>
           oncpu[u] \in Cpus /\ ast[oncpu[u]] # "running"
  BY <1>0, KernelShape
<1>2. ASSUME NEW t \in Tasks, KBlock(t) \/ KExit(t) \/ KYield(t) PROVE ViewInv'
  <2>1. CASE KYield(t)
    BY <1>0, <2>1, LeaveKeepsView DEF KYield
  <2>2. CASE KBlock(t)
    BY <1>0, <2>2, LeaveKeepsView DEF KBlock
  <2>3. CASE KExit(t)
    BY <1>0, <2>3, LeaveKeepsView DEF KExit
  <2> QED BY <1>2, <2>1, <2>2, <2>3
<1>3. ASSUME NEW t \in Tasks, KFinishSwitch(t) PROVE ViewInv'
  <2>1. /\ \A u \in Tasks \ {t} : via'[u] = via[u] /\ oncpu'[u] = oncpu[u]
        /\ via[t] = "leaving" /\ via'[t] = "none"
        /\ UNCHANGED <<kst, ran, seq, chan, ast>>
    BY <1>1, <1>3 DEF KFinishSwitch, KernelTypeOK, agentVars
  <2>2. OnCpuOK'
    <3>1. \A u \in Tasks : via'[u] \in {"txn", "switchto"} =>
            /\ via'[u] = via[u] /\ oncpu'[u] = oncpu[u] /\ kst'[u] = kst[u]
            /\ seq'[u] = seq[u] /\ ast'[oncpu[u]] # "running"
      BY <1>1, <2>1
    <3> QED BY <1>0, <2>1, <3>1, OnCpuStays DEF InGhost
  <2>3. \A u \in Tasks : (Inactive(u)' <=> Inactive(u)) /\ kst'[u] = kst[u]
    BY <2>1 DEF Inactive
  <2> QED BY <1>0, <2>1, <2>2, <2>3, SilentKeepsView
<1>4. ASSUME UNCHANGED <<taskVars, seq, chan>>,
             \A c \in Cpus : ast'[c] = "running" => ast[c] = "running"
      PROVE  ViewInv'
  <2>1. OnCpuOK'
    <3>1. \A u \in Tasks : via'[u] \in {"txn", "switchto"} =>
            /\ via'[u] = via[u] /\ oncpu'[u] = oncpu[u] /\ kst'[u] = kst[u]
            /\ seq'[u] = seq[u] /\ ast'[oncpu[u]] # "running"
      BY <1>1, <1>4 DEF taskVars
    <3> QED BY <1>0, <1>4, <3>1, OnCpuStays DEF InGhost, taskVars
  <2>2. \A u \in Tasks : (Inactive(u)' <=> Inactive(u)) /\ kst'[u] = kst[u]
    BY <1>4 DEF Inactive, taskVars
  <2> QED BY <1>0, <1>4, <2>1, <2>2, SilentKeepsView
<1>5. ASSUME NEW c \in Cpus, KCfsArrive(c) PROVE ViewInv'
  <2>1. ASSUME NEW t \in Tasks, Running(t), Report(t, "TASK_PREEMPT"), LeaveCpu(t)
        PROVE  ViewInv'
    BY <1>0, <1>5, <2>1, LeaveKeepsView DEF KCfsArrive
  <2>2. CASE UNCHANGED <<oncpu, via, seq, chan, agentVars>>
    BY <1>4, <1>5, <2>2 DEF KCfsArrive, taskVars, agentVars
  <2> QED BY <1>5, <2>1, <2>2 DEF KCfsArrive
<1>6. ASSUME NEW c \in Cpus, KCfsLeave(c) PROVE ViewInv'
  <2>1. \A d \in Cpus : ast'[d] = "running" => ast[d] = "running"
    BY <1>1, <1>6 DEF KCfsLeave, KernelTypeOK, Woken
  <2> QED BY <1>4, <1>6, <2>1 DEF KCfsLeave
<1> QED BY <1>0, <1>2, <1>3, <1>5, <1>6, KTaskNewKeepsView, KWakeupKeepsView,
           KDeadKeepsView, KDepartKeepsView, KSwitchToKeepsView, KAgentSwitchInKeepsView
        DEF KernelNext
-------------------------------------------------------------------------------
(***************************************************************************)
(* The message handlers.                                                   *)
(***************************************************************************)

\* The message at the head of a channel is the next one of its task: the
\* messages before it would be in the same channel.
LEMMA HeadIsNext ==
  ASSUME Inv, ViewInv, NEW c \in Cpus, pc[c] = "drain", chan[c] # <<>>,
         NEW m, m = Msg(c), NEW t, t = m.task
  PROVE  /\ t \in Tasks /\ m \in Unread /\ m \in Messages /\ m.seq \in Nat
         /\ MessageOK(t, m) /\ m.seq = Handled(t) + 1 /\ MayBeNext(t, m)
         /\ m.seq > seqnum[t] /\ kst[t] # "new" /\ ~Held(t) /\ via[t] # "txn"
         /\ pc[DefaultCpu] \in Migrating => c # DefaultCpu
         /\ pc[DefaultCpu] \in Migrating /\ Msg(DefaultCpu).task = t
              /\ Msg(DefaultCpu).type = "TASK_WAKEUP" =>
              t \in known /\ m.type \in {"TASK_DEPARTED", "TASK_AFFINITY_CHANGED"}
<1>1. /\ m \in Messages /\ t \in Tasks /\ m.seq \in Nat /\ m = chan[c][1]
      /\ Len(chan[c]) \in Nat /\ Len(chan[c]) >= 1 /\ m.type \in MsgTypes /\ TypeOK
  BY MsgTypeOK DEF Inv, TypeInv
<1>2. m \in Unread
  BY <1>1, HeadUnread
<1>3. MessageOK(t, m)
  BY <1>1, <1>2 DEF ViewInv, ViewOK
<1>4. assoc[t] = c /\ kst[t] # "new" /\ \A d \in Cpus : next[d] # t
  BY HandlerOwnsTask
<1>5. \A p \in Unread : p.task = t => p.seq >= m.seq
  <2> SUFFICES ASSUME NEW p \in Unread, p.task = t PROVE p.seq >= m.seq
    OBVIOUS
  <2>1. PICK d \in Cpus : \E i \in 1 .. Len(chan[d]) : Pending(d, i) /\ p = chan[d][i]
    BY UnreadIs
  <2>2. PICK i \in 1 .. Len(chan[d]) : Pending(d, i) /\ p = chan[d][i]
    BY <2>1
  <2>3. d = c
    BY <1>4, <2>2 DEF Inv, MsgInv, Routed, Pending
  <2>4. CASE i = 1
    BY <1>1, <2>2, <2>3, <2>4
  <2>5. CASE i # 1
    <3>1. p.seq \in Nat
      BY <1>1, UnreadTypes
    <3>2. 1 < i /\ 1 \in 1 .. Len(chan[c])
      BY <1>1, <2>5
    <3>3. m.seq < p.seq
      BY <1>1, <2>2, <2>3, <3>2 DEF Inv, MsgInv, InOrder
    <3> QED BY <1>1, <3>1, <3>3
  <2> QED BY <2>4, <2>5
<1>6. m.seq = Handled(t) + 1 /\ MayBeNext(t, m)
  <2>1. ASSUME NEW p \in Unread, p.task = t PROVE p.seq + 1 # m.seq
    <3>1. p.seq \in Nat /\ p.seq >= m.seq
      BY <1>1, <1>5, <2>1, UnreadTypes
    <3> QED BY <1>1, <3>1
  <2> QED BY <1>3, <2>1 DEF MessageOK
<1>7. ~Held(t)
  BY <1>4 DEF Held
<1>8. via[t] # "txn"
  BY <1>1, <1>4 DEF ViewInv, OnCpuOK
<1>9. pc[DefaultCpu] \in Migrating => c # DefaultCpu
  BY DEF Migrating
<1>10. m.seq > seqnum[t]
  <2>1. Handled(t) \in Nat /\ seqnum[t] \in Nat
    BY <1>1, HandledType DEF Inv
  <2>2. CASE LateAdvance(t)
    <3>1. seqnum[t] < Msg(DefaultCpu).seq /\ Handled(t) = Msg(DefaultCpu).seq
      BY <2>2 DEF ViewInv, MoveOK, LateAdvance, Handled
    <3> QED BY <1>1, <1>6, <2>1, <3>1
  <2>3. CASE ~LateAdvance(t)
    <3>1. Handled(t) = seqnum[t]
      BY <2>3 DEF Handled
    <3>2. m.seq = seqnum[t] + 1
      BY <1>6, <3>1
    <3> QED BY <2>1, <3>2
  <2> QED BY <2>2, <2>3
<1>11. ASSUME pc[DefaultCpu] \in Migrating, Msg(DefaultCpu).task = t,
              Msg(DefaultCpu).type = "TASK_WAKEUP"
       PROVE  t \in known /\ m.type \in {"TASK_DEPARTED", "TASK_AFFINITY_CHANGED"}
  <2>1. m.type # "TASK_NEW"
    BY <1>1, <1>9, <1>11 DEF Inv, MsgInv, NewTasks
  <2>2. t \in known
    BY <1>6, <2>1 DEF MayBeNext
  <2>3. run_state[t] \in {"kQueued", "kRunnable"}
    BY <1>11, <2>2 DEF ViewInv, MoveOK
  <2>4. ~NeedsBlocked(m) /\ ~Ran(m)
    BY <1>6, <1>7, <2>3 DEF MayBeNext, GotCpu
  <2> QED BY <1>1, <2>1, <2>2, <2>4 DEF NeedsBlocked, Ran, Chained, OffTypes, MsgTypes
<1> QED BY <1>1, <1>2, <1>3, <1>4, <1>6, <1>7, <1>8, <1>9, <1>10, <1>11

\* A handler that consumes its message.
LEMMA HandlerKeepsView ==
  ASSUME Inv, Inv', ViewInv, failed = NoFailure, failed' = failed,
         NEW c \in Cpus, pc[c] = "drain", chan[c] # <<>>,
         NEW m, m = Msg(c), NEW t, t = m.task, Consume(c),
         UNCHANGED <<taskVars, seq, pc, next>>,
         \A d \in Cpus : ast'[d] = "running" => ast[d] = "running",
         \A u \in Tasks \ {t} :
           /\ u \in known' <=> u \in known
           /\ run_state'[u] = run_state[u] /\ tcpu'[u] = tcpu[u] /\ seqnum'[u] = seqnum[u],
         m.type # "TASK_AFFINITY_CHANGED",
         IF Final(m)
           THEN t \notin known' /\ seqnum'[t] = 0
           ELSE /\ t \in known' /\ seqnum'[t] = m.seq
                /\ run_state'[t] = "kBlocked" <=> Blocks(m)
                /\ tcpu[t] # NoCpu => tcpu'[t] # NoCpu
  PROVE  ViewInv'
<1>1. /\ t \in Tasks /\ m \in Unread /\ m \in Messages /\ m.seq \in Nat
      /\ MessageOK(t, m) /\ m.seq = Handled(t) + 1 /\ MayBeNext(t, m)
      /\ m.seq > seqnum[t] /\ kst[t] # "new" /\ ~Held(t) /\ via[t] # "txn"
      /\ pc[DefaultCpu] \in Migrating => c # DefaultCpu
      /\ pc[DefaultCpu] \in Migrating /\ Msg(DefaultCpu).task = t
           /\ Msg(DefaultCpu).type = "TASK_WAKEUP" =>
           t \in known /\ m.type \in {"TASK_DEPARTED", "TASK_AFFINITY_CHANGED"}
  BY HeadIsNext
<1>2. \A x : x \in Unread' <=> x \in Unread /\ x # m
  BY UnreadConsume
<1>3. \A d \in Cpus : d # c => chan'[d] = chan[d]
  BY ConsumeTypes DEF Inv, TypeInv
<1>4. pc[DefaultCpu] \in Migrating => Msg(DefaultCpu)' = Msg(DefaultCpu)
  BY <1>1, <1>3, DefaultIsCpu DEF Msg
<1>5. \A u \in Tasks : Held(u)' <=> Held(u)
  BY DEF Held
<1>6. Final(m) => kst[t] \in {"departed", "dead"}
  BY <1>1 DEF Final, MessageOK
<1>7. ASSUME NEW u \in Tasks PROVE ViewOK(u)'
  <2>1. ViewOK(u)
    BY DEF ViewInv
  <2>2. CASE u # t
    <3>1. \A x : x.task = u => (x \in Unread' <=> x \in Unread)
      BY <1>2, <2>2
    <3>2. LateAdvance(u)' <=> LateAdvance(u)
      BY <1>4, <2>2 DEF LateAdvance
    <3>3. Handled(u)' = Handled(u)
      BY <1>4, <2>2, <3>2 DEF Handled, LateAdvance
    <3>4. GotCpu(u)' <=> GotCpu(u)
      BY <1>5, <2>2 DEF GotCpu
    <3>5. Inactive(u)' <=> Inactive(u)
      BY DEF Inactive, taskVars
    <3>6. kst'[u] = kst[u] /\ seq'[u] = seq[u]
      BY DEF taskVars
    <3> QED BY <2>1, <2>2, <3>1, <3>3, <3>4, <3>5, <3>6, QuietView
  <2>3. CASE u = t
    <3>1. ~Final(m) => Handled(t)' = m.seq
      <4>1. ~Final(m) => ~LateAdvance(t)'
        BY <1>1, <1>4 DEF LateAdvance, Final
      <4> QED BY <4>1 DEF Handled
    <3>2. UNCHANGED <<kst, via, seq>> /\ ViewOK(t)
      BY <2>1, <2>3 DEF taskVars
    <3>3. ViewOK(t)'
      BY <1>1, <1>2, <3>1, <3>2, ConsumeView DEF Inv
    <3> QED BY <2>3, <3>3
  <2> QED BY <2>2, <2>3
<1>8. OnCpuOK'
  <2>0. OnCpuOK
    BY DEF ViewInv
  <2> USE DEF taskVars
  <2>1. \A u \in Tasks : via'[u] \in {"txn", "switchto"} =>
          kst'[u] = "runnable" /\ oncpu'[u] \in Cpus /\ ast'[oncpu'[u]] # "running"
    BY <2>0 DEF OnCpuOK
  <2>2. \A u \in Tasks : via'[u] = "txn" =>
          /\ u \in known' /\ seqnum'[u] = seq'[u]
          /\ pc'[oncpu'[u]] = "oncpu" /\ next'[oncpu'[u]] = u
    BY <1>1, <2>0 DEF OnCpuOK
  <2>3. \A u \in Tasks : via'[u] = "switchto" \/ (ran'[u] /\ InGhost(u)') =>
          u \in known' /\ tcpu'[u] # NoCpu
    BY <1>1, <1>6, <2>0 DEF OnCpuOK, InGhost
  <2>4. \A u, v \in Tasks : /\ via'[u] \in {"txn", "switchto"} /\ via'[v] \in {"txn", "switchto"}
                            /\ oncpu'[u] = oncpu'[v]
                            => u = v
    BY <2>0 DEF OnCpuOK
  <2> QED BY <2>1, <2>2, <2>3, <2>4 DEF OnCpuOK
<1>9. PickedOK'
  BY <1>2 DEF ViewInv, PickedOK
<1>10. MoveOK'
  <2>0. MoveOK
    BY DEF ViewInv
  <2>1. pc[DefaultCpu] \in Migrating => Msg(DefaultCpu).task \in Tasks /\ Msg(DefaultCpu).seq \in Nat
    BY DefaultIsCpu, MsgTypeOK DEF Inv, TypeInv, ControlOK
  <2> USE DEF taskVars
  <2>2. CASE pc[DefaultCpu] \in Migrating /\ Msg(DefaultCpu).task # t
    <3>1. Msg(DefaultCpu).task \in Tasks \ {t}
      BY <2>1, <2>2
    <3> QED BY <1>4, <1>5, <2>0, <2>2, <3>1 DEF MoveOK
  <2>3. CASE /\ pc[DefaultCpu] \in Migrating /\ Msg(DefaultCpu).task = t
             /\ Msg(DefaultCpu).type = "TASK_WAKEUP"
    <3>1. m.type = "TASK_DEPARTED" /\ t \notin known' /\ seqnum'[t] = 0 /\ kst[t] = "departed"
      BY <1>1, <2>3 DEF Final, MessageOK
    <3>2. 0 < Msg(DefaultCpu).seq
      <4>1. seqnum[t] \in Nat
        BY <1>1, HandledType DEF Inv
      <4> QED BY <2>0, <2>1, <2>3, <4>1 DEF MoveOK
    <3> QED BY <1>4, <2>0, <2>3, <3>1, <3>2 DEF MoveOK
  <2>4. CASE pc[DefaultCpu] \notin Migrating
    BY <2>4 DEF MoveOK
  <2>5. CASE pc[DefaultCpu] \in Migrating /\ Msg(DefaultCpu).type # "TASK_WAKEUP"
    BY <1>4, <2>0, <2>5 DEF MoveOK
  <2> QED BY <2>2, <2>3, <2>4, <2>5
<1> QED BY <1>7, <1>8, <1>9, <1>10 DEF ViewInv, ChecksHold
\* The first half of Migrate, which gives effect to its message.
LEMMA MigrateKeepsView ==
  ASSUME Inv, Inv', ViewInv, failed = NoFailure, failed' = failed,
         pc[DefaultCpu] = "drain", chan[DefaultCpu] # <<>>,
         NEW m, m = Msg(DefaultCpu), NEW t, t = m.task,
         pc' = [pc EXCEPT ![DefaultCpu] = "enqueue"],
         UNCHANGED <<taskVars, seq, chan, next, ast, tcpu>>,
         known' = known \cup {t}, run_state' = [run_state EXCEPT ![t] = "kRunnable"],
         \/ m.type = "TASK_NEW" /\ m.flag /\ seqnum' = [seqnum EXCEPT ![t] = m.seq]
         \/ m.type = "TASK_WAKEUP" /\ seqnum' = seqnum /\ t \in known
  PROVE  ViewInv'
<1> DEFINE c == DefaultCpu
<1>0. c \in Cpus
  BY DefaultIsCpu
<1>1. /\ t \in Tasks /\ m \in Unread /\ m \in Messages /\ m.seq \in Nat
      /\ MessageOK(t, m) /\ m.seq = Handled(t) + 1 /\ MayBeNext(t, m)
      /\ m.seq > seqnum[t] /\ kst[t] # "new" /\ ~Held(t) /\ via[t] # "txn"
  BY <1>0, HeadIsNext
<1>2. \A x : x \in Unread' <=> x \in Unread /\ x # m
  BY <1>0, UnreadMigrate
<1>3. /\ run_state'[t] = "kRunnable" /\ \A u \in Tasks \ {t} : run_state'[u] = run_state[u]
      /\ m.type = "TASK_NEW" => seqnum'[t] = m.seq
      /\ \A u \in Tasks \ {t} : seqnum'[u] = seqnum[u]
      /\ pc'[c] = "enqueue" /\ \A d \in Cpus : d # c => pc'[d] = pc[d]
  BY <1>0, <1>1 DEF Inv, TypeInv, TypeOK
<1>4. Msg(c)' = m
  BY DEF Msg
<1>5. \A u \in Tasks : Held(u)' <=> Held(u)
  BY <1>0, <1>3 DEF Held
<1>6. \A u \in Tasks : ~LateAdvance(u)
  BY DEF LateAdvance, Migrating
<1>7. ~Final(m) /\ ~Blocks(m)
  BY DEF Final, Blocks
<1>8. ASSUME NEW u \in Tasks PROVE ViewOK(u)'
  <2>1. ViewOK(u)
    BY DEF ViewInv
  <2>2. CASE u # t
    <3>1. \A x : x.task = u => (x \in Unread' <=> x \in Unread)
      BY <1>2, <2>2
    <3>2. ~LateAdvance(u)'
      BY <1>4, <2>2 DEF LateAdvance
    <3>3. Handled(u)' = Handled(u)
      BY <1>3, <1>6, <2>2, <3>2 DEF Handled
    <3>4. GotCpu(u)' <=> GotCpu(u)
      BY <1>3, <1>5, <2>2 DEF GotCpu
    <3>5. Inactive(u)' <=> Inactive(u)
      BY DEF Inactive, taskVars
    <3>6. kst'[u] = kst[u] /\ seq'[u] = seq[u]
      BY DEF taskVars
    <3> QED BY <1>3, <2>1, <2>2, <3>1, <3>3, <3>4, <3>5, <3>6, QuietView
  <2>3. CASE u = t
    <3>1. Handled(t)' = m.seq
      <4>1. CASE m.type = "TASK_NEW"
        <5>1. ~LateAdvance(t)'
          BY <1>4, <4>1 DEF LateAdvance
        <5> QED BY <1>3, <4>1, <5>1 DEF Handled
      <4>2. CASE m.type = "TASK_WAKEUP"
        <5>1. LateAdvance(t)'
          BY <1>3, <1>4, <4>2 DEF LateAdvance, Migrating
        <5> QED BY <1>4, <5>1 DEF Handled
      <4> QED BY <4>1, <4>2
    <3>2. UNCHANGED <<kst, via, seq>> /\ ViewOK(t)
      BY <2>1, <2>3 DEF taskVars
    <3>3. ViewOK(t)'
      BY <1>1, <1>2, <1>3, <1>7, <3>1, <3>2, ConsumeView DEF Inv
    <3> QED BY <2>3, <3>3
  <2> QED BY <2>2, <2>3
<1>9. OnCpuOK'
  <2>0. OnCpuOK
    BY DEF ViewInv
  <2> USE DEF taskVars
  <2>1. \A u \in Tasks : via'[u] \in {"txn", "switchto"} =>
          kst'[u] = "runnable" /\ oncpu'[u] \in Cpus /\ ast'[oncpu'[u]] # "running"
    BY <2>0 DEF OnCpuOK
  <2>2. \A u \in Tasks : via'[u] = "txn" =>
          /\ u \in known' /\ seqnum'[u] = seq'[u]
          /\ pc'[oncpu'[u]] = "oncpu" /\ next'[oncpu'[u]] = u
    BY <1>1, <1>3, <2>0 DEF OnCpuOK
  <2>3. \A u \in Tasks : via'[u] = "switchto" \/ (ran'[u] /\ InGhost(u)') =>
          u \in known' /\ tcpu'[u] # NoCpu
    BY <2>0 DEF OnCpuOK, InGhost
  <2>4. \A u, v \in Tasks : /\ via'[u] \in {"txn", "switchto"} /\ via'[v] \in {"txn", "switchto"}
                            /\ oncpu'[u] = oncpu'[v]
                            => u = v
    BY <2>0 DEF OnCpuOK
  <2> QED BY <2>1, <2>2, <2>3, <2>4 DEF OnCpuOK
<1>10. PickedOK'
  BY <1>2, <1>3 DEF ViewInv, PickedOK
<1>11. MoveOK'
  BY <1>1, <1>3, <1>4, <1>5 DEF MoveOK, MessageOK
<1> QED BY <1>8, <1>9, <1>10, <1>11 DEF ViewInv, ChecksHold

\* Migrate's AssociateTask fails only because the task has left ghOSt: a task
\* that has just become runnable sends no other message.
LEMMA AssociateFails ==
  ASSUME Inv, ViewInv, NEW c \in Cpus, pc[c] = "drain", chan[c] # <<>>,
         NEW m, m = Msg(c), NEW t, t = m.task,
         m.type = "TASK_WAKEUP" \/ (m.type = "TASK_NEW" /\ m.flag),
         ~AssociateOk(t, m.seq)
  PROVE  kst[t] = "departed"
<1>1. /\ t \in Tasks /\ m \in Unread /\ m.seq \in Nat
      /\ MessageOK(t, m) /\ m.seq = Handled(t) + 1 /\ kst[t] # "new"
  BY HeadIsNext
<1>2. ViewOK(t) /\ LastSeen(t) /\ TypeOK /\ MsgInv /\ Handled(t) \in Nat /\ seq[t] \in Nat
  BY <1>1, HandledType DEF ViewInv, ViewOK, Inv, TypeInv
<1>3. ~Final(m) /\ ~Blocks(m)
  BY DEF Final, Blocks
<1>4. CASE m.seq # seq[t]
  <2>1. PICK q \in Unread : q.task = t /\ q.seq = m.seq + 1
    BY <1>1, <1>4 DEF MessageOK
  <2>2. MessageOK(t, q)
    BY <1>2, <2>1 DEF ViewOK
  <2>3. PICK p \in Unread : p.task = t /\ p.seq + 1 = q.seq /\ Follows(q, p)
    BY <1>1, <1>2, <2>1, <2>2 DEF MessageOK
  <2>4. p.seq \in Nat
    BY <1>2, UnreadTypes
  <2>5. p = m
    BY <1>1, <1>2, <2>1, <2>3, <2>4, UnreadUnique
  <2> QED BY <1>3, <2>2, <2>3, <2>5 DEF Follows, MessageOK
<1>5. CASE m.seq = seq[t]
  <2>1. Handled(t) # seq[t]
    BY <1>1, <1>2, <1>5
  <2>2. PICK x \in Unread : x.task = t /\ x.seq = seq[t] /\ Ends(t, x)
    BY <1>1, <1>2, <2>1 DEF LastSeen
  <2>3. x = m
    BY <1>1, <1>2, <1>5, <2>2, UnreadUnique
  <2>4. kst[t] = "runnable"
    BY <1>3, <2>2, <2>3 DEF Ends, Alive, Inactive
  <2> QED BY <1>5, <2>4 DEF AssociateOk, InGhost
<1> QED BY <1>4, <1>5

\* A CHECK that fails changes nothing but `failed'.
LEMMA AbortKeepsView ==
  ASSUME ViewInv, NEW t \in Tasks, kst[t] = "departed",
         NEW h \in {"Migrate", "TaskDeparted", "UseAfterFree"}, Abort(h, t)
  PROVE  ViewInv'
<1> USE DEF Abort, kernelVars, taskVars, agentVars, cfsVars, fifoTaskVars, cpuVars, localVars
<1>1. Unread' = Unread
  BY UnreadSame
<1>2. \A u \in Tasks : /\ Handled(u)' = Handled(u) /\ (GotCpu(u)' <=> GotCpu(u))
                       /\ (Held(u)' <=> Held(u)) /\ (Inactive(u)' <=> Inactive(u))
  BY DEF Handled, LateAdvance, Msg, GotCpu, Held, Inactive
<1>3. ASSUME NEW u \in Tasks PROVE ViewOK(u)'
  <2>1. ViewOK(u)
    BY DEF ViewInv
  <2> QED BY <1>1, <1>2, <2>1, QuietView
<1>4. OnCpuOK' /\ PickedOK'
  BY <1>1 DEF ViewInv, OnCpuOK, PickedOK, InGhost
<1>5. MoveOK'
  BY DEF ViewInv, MoveOK, Msg, Held
<1>6. ChecksHold'
  BY DEF ChecksHold
<1> QED BY <1>3, <1>4, <1>5, <1>6 DEF ViewInv
\* TaskOffCpu's CHECKs hold for the message of a task that was on a CPU.
LEMMA OffCpuChecks ==
  ASSUME Inv, ViewInv, NEW c \in Cpus, pc[c] = "drain", chan[c] # <<>>,
         NEW m, m = Msg(c), NEW t, t = m.task,
         \/ m.type \in OffTypes
         \/ m.type = "TASK_DEPARTED" /\ (m.flag \/ run_state[t] = "kOnCpu")
  PROVE  OffCpuOk(t, m.flag) /\ AdvanceOk(m)
<1>1. /\ t \in Tasks /\ m \in Messages /\ MessageOK(t, m) /\ MayBeNext(t, m)
      /\ m.seq > seqnum[t] /\ ~Held(t)
  BY HeadIsNext
<1>2. AdvanceOk(m)
  BY <1>1 DEF AdvanceOk
<1>3. tcpu[t] \in Cpus \cup {NoCpu}
  BY <1>1 DEF Inv, TypeInv, TypeOK
<1>4. \A d \in Cpus : d >= 0
  BY KernelAssumption DEF Cpus
<1>5. CASE run_state[t] = "kOnCpu"
  <2>1. tcpu[t] \in Cpus /\ current[tcpu[t]] = t
    BY <1>1, <1>5 DEF Inv, PlaceInv, RunqueueOK, OnCpuIsCurrent
  <2> QED BY <1>2, <1>4, <1>5, <2>1 DEF OffCpuOk
<1>6. CASE run_state[t] # "kOnCpu"
  <2>1. Chained(m)
    BY <1>1, <1>6 DEF MayBeNext, Ran, Chained, GotCpu
  <2>2. tcpu[t] # NoCpu /\ run_state[t] = "kBlocked" /\ m.flag
    BY <1>1, <2>1 DEF MessageOK, MayBeNext, NeedsBlocked, Chained
  <2> QED BY <1>2, <1>3, <1>4, <1>6, <2>2 DEF OffCpuOk
<1> QED BY <1>5, <1>6

\* A ping does not put an agent on its CPU.
LEMMA PingRunsNobody ==
  ASSUME TypeOK, NEW m, PingChainCpu(m) \/ UNCHANGED agentVars
  PROVE  \A d \in Cpus : ast'[d] = "running" => ast[d] = "running"
  BY DEF PingChainCpu, WakeAgent, Woken, agentVars, TypeOK, KernelTypeOK

LEMMA HandlersKeepView ==
  ASSUME Inv, Inv', ViewInv, NEW c \in Cpus, Handler(c)
  PROVE  ViewInv'
<1>1. pc[c] = "drain" /\ chan[c] # <<>> /\ failed = NoFailure
  BY DEF Handler, IgnoreMessage, TaskNewBlocked, TaskNewRunnable, TaskRunnableMigrate,
         TaskRunnableEnqueue, TaskBlocked, TaskSwitchto, TaskYield, TaskPreempted,
         TaskDead, TaskDeparted, Dispatching, At
<1>2. PICK m : m = Msg(c)
  OBVIOUS
<1>3. PICK t : t = m.task
  OBVIOUS
<1>4. /\ t \in Tasks /\ m \in Unread /\ m \in Messages /\ m.seq \in Nat
      /\ MessageOK(t, m) /\ MayBeNext(t, m)
      /\ m.seq > seqnum[t] /\ kst[t] # "new"
  BY <1>1, <1>2, <1>3, HeadIsNext
<1>5. /\ TypeOK /\ run_state \in [Tasks -> RunStates]
      /\ seqnum \in [Tasks -> Nat] /\ tcpu \in [Tasks -> Cpus \cup {NoCpu}]
  BY DEF Inv, TypeInv, TypeOK
<1>6. ASSUME m.type \in OffTypes PROVE OffCpuOk(t, m.flag) /\ AdvanceOk(m)
  BY <1>1, <1>2, <1>3, <1>6, OffCpuChecks
<1>7. CASE IgnoreMessage(c)
  BY <1>2, <1>3, <1>4, <1>7 DEF IgnoreMessage, MayBeNext
<1>8. CASE TaskNewBlocked(c)
  <2>1. /\ m.type = "TASK_NEW" /\ ~m.flag /\ t \notin known
        /\ known' = known \cup {t} /\ seqnum' = [seqnum EXCEPT ![t] = m.seq] /\ Consume(c)
        /\ UNCHANGED <<taskVars, seq, agentVars, run_state, tcpu, pc, next, failed>>
    BY <1>2, <1>3, <1>8 DEF TaskNewBlocked, Dispatching, Advance, localVars
  <2>2. run_state'[t] = "kBlocked" /\ Blocks(m) /\ ~Final(m)
    BY <1>4, <2>1 DEF Inv, PlaceInv, FreedIsBlank, Blocks, Final
  <2>3. \A d \in Cpus : ast'[d] = "running" => ast[d] = "running"
    BY <2>1 DEF agentVars
  <2>4. /\ seqnum'[t] = m.seq /\ t \in known'
        /\ \A u \in Tasks \ {t} : (u \in known' <=> u \in known) /\ seqnum'[u] = seqnum[u]
    BY <1>4, <1>5, <2>1
  <2> QED BY <1>1, <1>2, <1>3, <2>1, <2>2, <2>3, <2>4, HandlerKeepsView
<1>9. ASSUME m.type = "TASK_WAKEUP" \/ (m.type = "TASK_NEW" /\ m.flag),
             ~AssociateOk(t, m.seq), Abort("Migrate", t)
      PROVE  ViewInv'
  BY <1>1, <1>2, <1>3, <1>4, <1>9, AssociateFails, AbortKeepsView
<1>10. CASE TaskNewRunnable(c)
  <2>1. m.type = "TASK_NEW" /\ m.flag
    BY <1>2, <1>10 DEF TaskNewRunnable, Dispatching
  <2>2. c = DefaultCpu
    <3>1. 1 \in 1 .. Len(chan[c]) /\ m = chan[c][1]
      BY <1>1, <1>2, <1>5, MsgTypeOK
    <3> QED BY <2>1, <3>1 DEF Inv, MsgInv, NewTasks
  <2>3. CASE AssociateOk(t, m.seq)
    <3>1. /\ known' = known \cup {t} /\ run_state' = [run_state EXCEPT ![t] = "kRunnable"]
          /\ seqnum' = [seqnum EXCEPT ![t] = m.seq] /\ pc' = [pc EXCEPT ![c] = "enqueue"]
          /\ UNCHANGED <<taskVars, seq, chan, next, ast, tcpu, failed>>
      BY <1>2, <1>3, <1>10, <2>3
      DEF TaskNewRunnable, Advance, AssignAndAssociate, Goto, agentVars
    <3> QED BY <1>1, <1>2, <1>3, <2>1, <2>2, <3>1, MigrateKeepsView
  <2>4. CASE ~AssociateOk(t, m.seq)
    BY <1>2, <1>3, <1>9, <1>10, <2>1, <2>4 DEF TaskNewRunnable
  <2> QED BY <2>3, <2>4
<1>11. CASE TaskRunnableMigrate(c)
  <2>1. m.type = "TASK_WAKEUP" /\ t \in known /\ tcpu[t] < 0
    BY <1>2, <1>3, <1>11 DEF TaskRunnableMigrate, Dispatching
  <2>2. run_state[t] = "kBlocked"
    BY <1>4, <2>1 DEF MayBeNext, NeedsBlocked
  <2>3. c = DefaultCpu
    <3>1. assoc[t] = c
      BY <1>1, <1>2, <1>3, HandlerOwnsTask
    <3>2. tcpu[t] = NoCpu
      BY <1>4, <1>5, <2>1, KernelAssumption DEF Cpus
    <3> QED BY <2>1, <2>2, <3>1, <3>2 DEF Inv, OwnerInv, AssociatedToCpu
  <2>4. CASE AssociateOk(t, m.seq)
    <3>1. /\ known' = known \cup {t} /\ run_state' = [run_state EXCEPT ![t] = "kRunnable"]
          /\ pc' = [pc EXCEPT ![c] = "enqueue"]
          /\ UNCHANGED <<taskVars, seq, chan, next, ast, tcpu, seqnum, failed>>
      BY <1>2, <1>3, <1>11, <2>1, <2>2, <2>4
      DEF TaskRunnableMigrate, AssignAndAssociate, Goto, agentVars
    <3> QED BY <1>1, <1>2, <1>3, <2>1, <2>3, <3>1, MigrateKeepsView
  <2>5. CASE ~AssociateOk(t, m.seq)
    BY <1>2, <1>3, <1>9, <1>11, <2>1, <2>2, <2>5 DEF TaskRunnableMigrate
  <2> QED BY <2>4, <2>5
<1>12. ASSUME NEW s \in RunStates, run_state' = [run_state EXCEPT ![t] = s],
              seqnum' = [seqnum EXCEPT ![t] = m.seq], Consume(c), t \in known,
              UNCHANGED <<taskVars, seq, known, tcpu, pc, next, failed>>,
              \A d \in Cpus : ast'[d] = "running" => ast[d] = "running",
              m.type \in OffTypes \cup {"TASK_WAKEUP"},
              s = "kBlocked" <=> m.type \in {"TASK_BLOCKED", "TASK_SWITCHTO"}
       PROVE  ViewInv'
  <2>1. ~Final(m) /\ m.type # "TASK_AFFINITY_CHANGED" /\ (s = "kBlocked" <=> Blocks(m))
    BY <1>12 DEF Final, Blocks, OffTypes
  <2>2. /\ run_state'[t] = s /\ seqnum'[t] = m.seq
        /\ \A u \in Tasks \ {t} : run_state'[u] = run_state[u] /\ seqnum'[u] = seqnum[u]
    BY <1>4, <1>5, <1>12
  <2> QED BY <1>1, <1>2, <1>3, <1>12, <2>1, <2>2, HandlerKeepsView
<1>13. CASE TaskRunnableEnqueue(c)
  <2>1. m.type = "TASK_WAKEUP" /\ t \in known
    BY <1>2, <1>3, <1>13 DEF TaskRunnableEnqueue, Dispatching
  <2>2. run_state[t] = "kBlocked" /\ AdvanceOk(m)
    BY <1>3, <1>4, <2>1 DEF MayBeNext, NeedsBlocked, AdvanceOk
  <2>3. /\ run_state' = [run_state EXCEPT ![t] = "kQueued"] /\ Consume(c)
        /\ seqnum' = [seqnum EXCEPT ![t] = m.seq]
        /\ UNCHANGED <<taskVars, seq, known, tcpu, pc, next, failed, agentVars>>
    BY <1>2, <1>3, <1>13, <2>2 DEF TaskRunnableEnqueue, Advance, localVars
  <2>4. \A d \in Cpus : ast'[d] = "running" => ast[d] = "running"
    BY <2>3 DEF agentVars
  <2> QED BY <1>12, <2>1, <2>3, <2>4 DEF RunStates
<1>14. ASSUME NEW s \in {"kBlocked", "kQueued"}, OffCpu(c, s), t \in known,
              PingChainCpu(m) \/ UNCHANGED agentVars, m.type \in OffTypes,
              s = "kBlocked" <=> m.type \in {"TASK_BLOCKED", "TASK_SWITCHTO"}
       PROVE  ViewInv'
  <2>1. /\ run_state' = [run_state EXCEPT ![t] = s] /\ Consume(c)
        /\ seqnum' = [seqnum EXCEPT ![t] = m.seq]
        /\ UNCHANGED <<taskVars, seq, known, tcpu, pc, next, failed>>
    BY <1>2, <1>3, <1>14 DEF OffCpu, Advance, localVars
  <2>2. \A d \in Cpus : ast'[d] = "running" => ast[d] = "running"
    BY <1>5, <1>14, PingRunsNobody
  <2> QED BY <1>12, <1>14, <2>1, <2>2 DEF RunStates
<1>15. CASE TaskBlocked(c)
  <2>1. m.type = "TASK_BLOCKED" /\ t \in known
    BY <1>2, <1>3, <1>15 DEF TaskBlocked, Dispatching
  <2>2. OffCpuOk(t, m.flag) /\ AdvanceOk(m)
    BY <1>6, <2>1 DEF OffTypes
  <2>3. OffCpu(c, "kBlocked") /\ PingChainCpu(m)
    BY <1>2, <1>3, <1>15, <2>2 DEF TaskBlocked
  <2> QED BY <1>14, <2>1, <2>3 DEF OffTypes
<1>16. CASE TaskSwitchto(c)
  <2>1. m.type = "TASK_SWITCHTO" /\ t \in known
    BY <1>2, <1>3, <1>16 DEF TaskSwitchto, Dispatching
  <2>2. OffCpuOk(t, FALSE) /\ AdvanceOk(m)
    <3>1. ~m.flag
      BY <1>4, <2>1 DEF MessageOK
    <3>2. OffCpuOk(t, m.flag) /\ AdvanceOk(m)
      BY <1>6, <2>1 DEF OffTypes
    <3> QED BY <3>1, <3>2 DEF OffCpuOk
  <2>3. OffCpu(c, "kBlocked") /\ UNCHANGED agentVars
    BY <1>2, <1>3, <1>16, <2>2 DEF TaskSwitchto
  <2> QED BY <1>14, <2>1, <2>3 DEF OffTypes
<1>17. CASE TaskYield(c)
  <2>1. m.type = "TASK_YIELD" /\ t \in known
    BY <1>2, <1>3, <1>17 DEF TaskYield, Dispatching
  <2>2. OffCpuOk(t, m.flag) /\ AdvanceOk(m)
    BY <1>6, <2>1 DEF OffTypes
  <2>3. OffCpu(c, "kQueued") /\ PingChainCpu(m)
    BY <1>2, <1>3, <1>17, <2>2 DEF TaskYield
  <2> QED BY <1>14, <2>1, <2>3 DEF OffTypes
<1>18. CASE TaskPreempted(c)
  <2>1. m.type = "TASK_PREEMPT" /\ t \in known
    BY <1>2, <1>3, <1>18 DEF TaskPreempted, Dispatching
  <2>2. OffCpuOk(t, m.flag) /\ AdvanceOk(m)
    BY <1>6, <2>1 DEF OffTypes
  <2>3. OffCpu(c, "kQueued") /\ PingChainCpu(m)
    BY <1>2, <1>3, <1>18, <2>2 DEF TaskPreempted
  <2> QED BY <1>14, <2>1, <2>3 DEF OffTypes
<1>19. ASSUME FreeTask(t), Consume(c), m.type \in {"TASK_DEAD", "TASK_DEPARTED"},
              UNCHANGED <<taskVars, seq, pc, next, failed>>,
              PingChainCpu(m) \/ UNCHANGED agentVars
       PROVE  ViewInv'
  <2>1. Final(m) /\ m.type # "TASK_AFFINITY_CHANGED"
    BY <1>19 DEF Final
  <2>2. /\ t \notin known' /\ seqnum'[t] = 0
        /\ \A u \in Tasks \ {t} :
             /\ u \in known' <=> u \in known
             /\ run_state'[u] = run_state[u] /\ tcpu'[u] = tcpu[u] /\ seqnum'[u] = seqnum[u]
    BY <1>4, <1>5, <1>19 DEF FreeTask
  <2>3. \A d \in Cpus : ast'[d] = "running" => ast[d] = "running"
    BY <1>5, <1>19, PingRunsNobody
  <2> QED BY <1>1, <1>2, <1>3, <1>19, <2>1, <2>2, <2>3, HandlerKeepsView
<1>20. CASE TaskDead(c)
  <2>1. m.type = "TASK_DEAD"
    BY <1>2, <1>20 DEF TaskDead, Dispatching
  <2>2. run_state[t] = "kBlocked"
    BY <1>4, <2>1 DEF MayBeNext, NeedsBlocked
  <2>3. FreeTask(t) /\ Consume(c) /\ UNCHANGED <<taskVars, seq, pc, next, failed, agentVars>>
    BY <1>2, <1>3, <1>20, <2>2 DEF TaskDead, localVars
  <2> QED BY <1>19, <2>1, <2>3
<1>21. CASE TaskDeparted(c)
  <2>1. m.type = "TASK_DEPARTED"
    BY <1>2, <1>21 DEF TaskDeparted, Dispatching
  <2>2. kst[t] = "departed"
    BY <1>4, <2>1 DEF MessageOK
  <2>3. CASE Abort("TaskDeparted", t)
    BY <1>4, <2>2, <2>3, AbortKeepsView
  <2>4. CASE ~Abort("TaskDeparted", t)
    <3>1. /\ FreeTask(t) /\ Consume(c) /\ UNCHANGED <<taskVars, seq, pc, next, failed>>
          /\ PingChainCpu(m)
      BY <1>2, <1>3, <1>21, <2>4 DEF TaskDeparted, localVars
    <3> QED BY <1>19, <2>1, <3>1
  <2> QED BY <2>3, <2>4
<1> QED BY <1>7, <1>8, <1>10, <1>11, <1>13, <1>15, <1>16, <1>17, <1>18, <1>20, <1>21
        DEF Handler
-------------------------------------------------------------------------------
(***************************************************************************)
(* The other steps of an agent.                                            *)
(***************************************************************************)

\* The agent of CPU c, which is on that CPU, starts or stops no task.
LEMMA OnCpuAgentStep ==
  ASSUME TypeOK, OnCpuOK, NEW c \in Cpus, ast[c] = "running",
         UNCHANGED <<taskVars, seq, known>>,
         \A d \in Cpus : ast'[d] = "running" => ast[d] = "running",
         \A d \in Cpus : d # c => pc'[d] = pc[d] /\ next'[d] = next[d],
         \A u \in Tasks : via[u] = "txn" => seqnum'[u] = seqnum[u],
         \A u \in Tasks : tcpu[u] # NoCpu => tcpu'[u] # NoCpu
  PROVE  OnCpuOK'
<1> USE DEF taskVars
<1>1. \A u \in Tasks : via'[u] \in {"txn", "switchto"} =>
        kst'[u] = "runnable" /\ oncpu'[u] \in Cpus /\ ast'[oncpu'[u]] # "running"
  BY DEF OnCpuOK
<1>2. \A u \in Tasks : via'[u] = "txn" =>
        /\ u \in known' /\ seqnum'[u] = seq'[u]
        /\ pc'[oncpu'[u]] = "oncpu" /\ next'[oncpu'[u]] = u
  <2>1. \A u \in Tasks : via[u] = "txn" => oncpu[u] \in Cpus /\ oncpu[u] # c
    BY DEF OnCpuOK
  <2> QED BY <2>1 DEF OnCpuOK
<1>3. \A u \in Tasks : via'[u] = "switchto" \/ (ran'[u] /\ InGhost(u)') =>
        u \in known' /\ tcpu'[u] # NoCpu
  BY DEF OnCpuOK, InGhost
<1>4. \A u, v \in Tasks : /\ via'[u] \in {"txn", "switchto"} /\ via'[v] \in {"txn", "switchto"}
                          /\ oncpu'[u] = oncpu'[v]
                          => u = v
  BY DEF OnCpuOK
<1> QED BY <1>1, <1>2, <1>3, <1>4 DEF OnCpuOK

\* A step outside Migrate.
LEMMA OutsideMigrate ==
  ASSUME UNCHANGED <<chan, known, seqnum>>,
         \A d \in Cpus : pc'[d] \in Migrating <=> pc[d] \in Migrating
  PROVE  /\ Unread' = Unread /\ \A u : Handled(u)' = Handled(u)
         /\ Msg(DefaultCpu)' = Msg(DefaultCpu)
         /\ pc'[DefaultCpu] \in Migrating <=> pc[DefaultCpu] \in Migrating
<1>1. Unread' = Unread
  BY UnreadSame
<1>2. /\ pc'[DefaultCpu] \in Migrating <=> pc[DefaultCpu] \in Migrating
      /\ Msg(DefaultCpu)' = Msg(DefaultCpu)
  BY DefaultIsCpu DEF Msg
<1>3. \A u : LateAdvance(u)' <=> LateAdvance(u)
  BY <1>2 DEF LateAdvance
<1> QED BY <1>1, <1>2, <1>3 DEF Handled

\* A step that neither touches a task nor chooses one.
LEMMA PlainKeepsView ==
  ASSUME Inv, ViewInv, failed' = failed, NEW c \in Cpus, ast[c] = "running",
         UNCHANGED <<taskVars, seq, chan, known, run_state, tcpu, seqnum, next>>,
         \A d \in Cpus : ast'[d] = "running" => ast[d] = "running",
         \A d \in Cpus : d # c => pc'[d] = pc[d],
         pc'[c] \in Migrating <=> pc[c] \in Migrating,
         pc'[c] = "oncpu" <=> pc[c] = "oncpu",
         pc'[c] \in {"wait", "commit"} => pc[c] \in {"wait", "commit"}
  PROVE  ViewInv'
<1>1. /\ Unread' = Unread /\ \A u : Handled(u)' = Handled(u)
      /\ Msg(DefaultCpu)' = Msg(DefaultCpu)
      /\ pc'[DefaultCpu] \in Migrating <=> pc[DefaultCpu] \in Migrating
  <2>1. \A d \in Cpus : pc'[d] \in Migrating <=> pc[d] \in Migrating
    OBVIOUS
  <2> QED BY <2>1, OutsideMigrate
<1>2. \A u \in Tasks : Held(u)' <=> Held(u)
  BY DEF Held
<1>3. \A u \in Tasks : (GotCpu(u)' <=> GotCpu(u)) /\ (Inactive(u)' <=> Inactive(u))
  BY <1>2 DEF GotCpu, Inactive, taskVars
<1>4. ASSUME NEW u \in Tasks PROVE ViewOK(u)'
  <2>1. ViewOK(u)
    BY DEF ViewInv
  <2>2. kst'[u] = kst[u] /\ seq'[u] = seq[u]
    BY DEF taskVars
  <2> QED BY <1>1, <1>3, <2>1, <2>2, QuietView
<1>5. OnCpuOK'
  BY OnCpuAgentStep DEF ViewInv, Inv, TypeInv
<1>6. PickedOK'
  BY <1>1 DEF ViewInv, PickedOK
<1>7. MoveOK'
  <2>1. pc[DefaultCpu] \in Migrating => Msg(DefaultCpu).task \in Tasks
    BY DefaultIsCpu, MsgTypeOK DEF Inv, TypeInv, ControlOK
  <2> QED BY <1>1, <1>2, <2>1 DEF ViewInv, MoveOK, taskVars
<1>8. ChecksHold'
  BY DEF ViewInv, ChecksHold, taskVars
<1> QED BY <1>4, <1>5, <1>6, <1>7, <1>8 DEF ViewInv

\* Migrate makes the task visible in the other run queue: InFlight says that
\* nobody has touched it.
LEMMA MigrateEnqueueKeepsView ==
  ASSUME Inv, ViewInv, NEW c \in Cpus, MigrateEnqueue(c)
  PROVE  ViewInv'
<1>1. pc[c] = "enqueue" /\ ast[c] = "running" /\ failed = NoFailure /\ c = DefaultCpu
  BY DEF MigrateEnqueue, At, Inv, OwnerInv, OnlyDefaultAgentMigrates
<1>2. PICK t : t = Msg(c).task
  OBVIOUS
<1>3. chan[c] # <<>> /\ target[c] \in Cpus /\ t \in Tasks
  BY <1>1, <1>2, MsgTypeOK DEF Inv, TypeInv, ControlOK, Migrating
<1>4. t \in known /\ run_state[t] = "kRunnable" /\ EnqueueOk(run_state[t], target[c])
  <2>1. target[c] >= 0
    BY <1>3, KernelAssumption DEF Cpus
  <2> QED BY <1>1, <1>2, <2>1 DEF Inv, OwnerInv, InFlight, EnqueueOk
<1>5. /\ tcpu' = [tcpu EXCEPT ![t] = target[c]]
      /\ run_state' = [run_state EXCEPT ![t] = "kQueued"]
      /\ pc' = [pc EXCEPT ![c] = "ping"]
      /\ UNCHANGED <<kernelVars, known, seqnum, next, failed>>
  BY <1>2, <1>4 DEF MigrateEnqueue, Goto, localVars
<1>6. /\ UNCHANGED <<taskVars, seq, chan, ast>>
      /\ pc'[c] = "ping" /\ \A d \in Cpus : d # c => pc'[d] = pc[d]
      /\ run_state'[t] = "kQueued" /\ \A u \in Tasks \ {t} : run_state'[u] = run_state[u]
      /\ \A u \in Tasks : tcpu[u] # NoCpu => tcpu'[u] # NoCpu
  BY <1>3, <1>5, KernelAssumption
  DEF kernelVars, agentVars, Inv, TypeInv, TypeOK, NoCpu, Cpus
<1>7. /\ Unread' = Unread /\ \A u : Handled(u)' = Handled(u)
      /\ Msg(DefaultCpu)' = Msg(DefaultCpu)
  <2>1. \A d \in Cpus : pc'[d] \in Migrating <=> pc[d] \in Migrating
    BY <1>1, <1>6 DEF Migrating
  <2> QED BY <1>5, <1>6, <2>1, OutsideMigrate
<1>8. \A u \in Tasks : Held(u)' <=> Held(u)
  BY <1>1, <1>5, <1>6 DEF Held
<1>9. ASSUME NEW u \in Tasks PROVE ViewOK(u)'
  <2>1. ViewOK(u)
    BY DEF ViewInv
  <2>2. /\ kst'[u] = kst[u] /\ seq'[u] = seq[u] /\ (Inactive(u)' <=> Inactive(u))
    BY <1>6 DEF taskVars, Inactive
  <2>3. (GotCpu(u)' <=> GotCpu(u)) /\ (run_state'[u] = "kBlocked" <=> run_state[u] = "kBlocked")
    BY <1>4, <1>6, <1>8 DEF GotCpu
  <2> QED BY <1>5, <1>6, <1>7, <2>1, <2>2, <2>3, QuietView
<1>10. OnCpuOK'
  BY <1>1, <1>5, <1>6, OnCpuAgentStep DEF ViewInv, Inv, TypeInv
<1>11. PickedOK'
  BY <1>1, <1>5, <1>6, <1>7 DEF ViewInv, PickedOK
<1>12. MoveOK'
  BY <1>1, <1>2, <1>3, <1>4, <1>5, <1>6, <1>7, <1>8 DEF ViewInv, MoveOK, Migrating, taskVars
<1> QED BY <1>1, <1>5, <1>9, <1>10, <1>11, <1>12 DEF ViewInv, ChecksHold

\* Migrate is done: Advance catches up with what has been handled, unless the
\* task is gone.
LEMMA AdvanceMigratedKeepsView ==
  ASSUME Inv, ViewInv, NEW c \in Cpus, AdvanceMigrated(c)
  PROVE  ViewInv'
<1>1. pc[c] = "advance" /\ ast[c] = "running" /\ failed = NoFailure /\ c = DefaultCpu
  BY DEF AdvanceMigrated, At, Inv, OwnerInv, OnlyDefaultAgentMigrates
<1>2. PICK m : m = Msg(c)
  OBVIOUS
<1>3. PICK t : t = m.task
  OBVIOUS
<1>4. chan[c] # <<>> /\ t \in Tasks /\ m.seq \in Nat /\ seqnum[t] \in Nat
  BY <1>1, <1>2, <1>3, MsgTypeOK, HandledType DEF Inv, TypeInv, ControlOK, Migrating
<1>5. /\ m.type \in {"TASK_NEW", "TASK_WAKEUP"}
      /\ m.type = "TASK_WAKEUP" =>
           seqnum[t] < m.seq /\ m.seq <= seq[t] /\ (t \notin known => kst[t] = "departed")
  BY <1>1, <1>2, <1>3 DEF ViewInv, MoveOK, Migrating
<1>6. CASE m.type = "TASK_NEW" \/ t \in known
  <2>1. m.type = "TASK_NEW" \/ (t \in known /\ AdvanceOk(m))
    BY <1>3, <1>4, <1>5, <1>6 DEF AdvanceOk
  <2>2. /\ IF m.type = "TASK_NEW" THEN seqnum' = seqnum
                                  ELSE seqnum' = [seqnum EXCEPT ![t] = m.seq]
        /\ Consume(c) /\ pc' = [pc EXCEPT ![c] = "drain"]
        /\ UNCHANGED <<taskVars, seq, agentVars, known, run_state, tcpu, next, failed>>
    BY <1>2, <1>3, <1>5, <2>1 DEF AdvanceMigrated, Advance, Goto
  <2>3. /\ pc'[c] = "drain" /\ \A d \in Cpus : d # c => pc'[d] = pc[d]
        /\ \A u \in Tasks \ {t} : seqnum'[u] = seqnum[u]
        /\ m.type = "TASK_NEW" => seqnum'[t] = seqnum[t]
        /\ m.type = "TASK_WAKEUP" => seqnum'[t] = m.seq
    BY <1>4, <2>2 DEF Inv, TypeInv, TypeOK
  <2>4. \A x : x \in Unread' <=> x \in Unread
    BY <1>1, <1>4, <2>2, UnreadAdvance
  <2>5. \A u \in Tasks : (Held(u)' <=> Held(u)) /\ (GotCpu(u)' <=> GotCpu(u))
    BY <1>1, <2>2, <2>3 DEF Held, GotCpu
  <2>6. ASSUME NEW u \in Tasks PROVE Handled(u)' = Handled(u)
    <3>1. ~LateAdvance(u)'
      BY <1>1, <2>3 DEF LateAdvance, Migrating
    <3>2. LateAdvance(u) <=> u = t /\ t \in known /\ m.type = "TASK_WAKEUP"
      BY <1>1, <1>2, <1>3 DEF LateAdvance, Migrating
    <3> QED BY <1>1, <1>2, <1>5, <1>6, <2>3, <3>1, <3>2 DEF Handled
  <2>7. ASSUME NEW u \in Tasks PROVE ViewOK(u)'
    <3>1. ViewOK(u)
      BY DEF ViewInv
    <3>2. kst'[u] = kst[u] /\ seq'[u] = seq[u] /\ (Inactive(u)' <=> Inactive(u))
      BY <2>2 DEF taskVars, Inactive
    <3>3. u \notin known => seqnum'[u] = seqnum[u]
      BY <1>5, <1>6, <2>3
    <3> QED BY <2>2, <2>4, <2>5, <2>6, <3>1, <3>2, <3>3, QuietView
  <2>8. OnCpuOK'
    <3>1. \A u \in Tasks : via[u] = "txn" => seqnum'[u] = seqnum[u]
      BY <1>4, <1>5, <2>3 DEF ViewInv, OnCpuOK
    <3>2. \A d \in Cpus : ast'[d] = "running" => ast[d] = "running"
      BY <2>2 DEF agentVars
    <3> QED BY <1>1, <2>2, <2>3, <3>1, <3>2, OnCpuAgentStep DEF ViewInv, Inv, TypeInv
  <2>9. PickedOK' /\ MoveOK'
    BY <1>1, <2>2, <2>3, <2>4 DEF ViewInv, PickedOK, MoveOK, Migrating
  <2> QED BY <1>1, <2>2, <2>7, <2>8, <2>9 DEF ViewInv, ChecksHold
<1>7. CASE ~(m.type = "TASK_NEW" \/ t \in known)
  <2>1. AdvanceOk(m) /\ kst[t] = "departed"
    BY <1>3, <1>4, <1>5, <1>7 DEF AdvanceOk
  <2>2. Abort("UseAfterFree", t)
    BY <1>2, <1>3, <1>7, <2>1 DEF AdvanceMigrated
  <2> QED BY <1>4, <2>1, <2>2, AbortKeepsView
<1> QED BY <1>6, <1>7
\* FifoSchedule takes a task, of which its own channel held the messages.
LEMMA PickKeepsView ==
  ASSUME Inv, Inv', ViewInv, NEW c \in Cpus, pc[c] = "drain", chan[c] = <<>>,
         ast[c] = "running", failed = NoFailure, failed' = failed,
         NEW t \in Tasks, t \in known, tcpu[t] = c, run_state[t] \in {"kQueued", "kOnCpu"},
         next' = [next EXCEPT ![c] = t], pc' = [pc EXCEPT ![c] = "wait"],
         run_state' = run_state \/ ( /\ run_state[t] = "kQueued"
                                     /\ run_state' = [run_state EXCEPT ![t] = "kRunnable"] ),
         UNCHANGED <<taskVars, seq, chan, ast, known, tcpu, seqnum>>
  PROVE  ViewInv'
<1>1. /\ next'[c] = t /\ \A d \in Cpus : d # c => next'[d] = next[d]
      /\ pc'[c] = "wait" /\ \A d \in Cpus : d # c => pc'[d] = pc[d]
      /\ \A u \in Tasks \ {t} : run_state'[u] = run_state[u]
      /\ run_state'[t] = run_state[t] \/ (run_state[t] = "kQueued" /\ run_state'[t] = "kRunnable")
  BY DEF Inv, TypeInv, TypeOK
<1>2. /\ Unread' = Unread /\ \A u : Handled(u)' = Handled(u)
      /\ Msg(DefaultCpu)' = Msg(DefaultCpu)
      /\ pc'[DefaultCpu] \in Migrating <=> pc[DefaultCpu] \in Migrating
  <2>1. \A d \in Cpus : pc'[d] \in Migrating <=> pc[d] \in Migrating
    BY <1>1 DEF Migrating
  <2> QED BY <2>1, OutsideMigrate
<1>3. \A x \in Unread : x.task # t
  <2> SUFFICES ASSUME NEW x \in Unread, x.task = t PROVE FALSE
    OBVIOUS
  <2>1. PICK d \in Cpus : \E i \in 1 .. Len(chan[d]) : Pending(d, i) /\ x = chan[d][i]
    BY UnreadIs
  <2>2. PICK i \in 1 .. Len(chan[d]) : Pending(d, i) /\ x = chan[d][i]
    BY <2>1
  <2>3. assoc[t] = d
    BY <2>2 DEF Inv, MsgInv, Routed, Pending
  <2>4. assoc[t] = c
    BY KernelAssumption DEF Inv, OwnerInv, AssociatedToCpu, Cpus, NoCpu
  <2> QED BY <2>2, <2>3, <2>4
<1>4. \A u \in Tasks : Held(u)' <=> Held(u)
  BY <1>1 DEF Held
<1>5. \A u \in Tasks : (GotCpu(u)' <=> GotCpu(u)) /\ (Inactive(u)' <=> Inactive(u))
  BY <1>1, <1>4 DEF GotCpu, Inactive, taskVars
<1>6. ASSUME NEW u \in Tasks PROVE ViewOK(u)'
  <2>1. ViewOK(u)
    BY DEF ViewInv
  <2>2. kst'[u] = kst[u] /\ seq'[u] = seq[u]
    BY DEF taskVars
  <2>3. run_state'[u] = "kBlocked" <=> run_state[u] = "kBlocked"
    BY <1>1
  <2> QED BY <1>2, <1>5, <2>1, <2>2, <2>3, QuietView
<1>7. OnCpuOK'
  BY <1>1, OnCpuAgentStep DEF ViewInv, Inv, TypeInv
<1>8. PickedOK'
  BY <1>1, <1>2, <1>3 DEF ViewInv, PickedOK
<1>9. MoveOK'
  <2>1. pc[DefaultCpu] \in Migrating => Msg(DefaultCpu).task \in Tasks
    BY DefaultIsCpu, MsgTypeOK DEF Inv, TypeInv, ControlOK
  <2> QED BY <1>1, <1>2, <1>4, <2>1 DEF ViewInv, MoveOK, taskVars
<1> QED BY <1>6, <1>7, <1>8, <1>9 DEF ViewInv, ChecksHold

LEMMA PickNextKeepsView ==
  ASSUME Inv, Inv', ViewInv, NEW c \in Cpus, PickNext(c)
  PROVE  ViewInv'
<1>1. /\ pc[c] = "drain" /\ chan[c] = <<>> /\ ast[c] = "running" /\ failed = NoFailure
      /\ UNCHANGED <<taskVars, seq, chan, ast, known, tcpu, seqnum>>
  BY DEF PickNext, At, kernelVars, agentVars
<1>2. CASE ~boosted[c] /\ current[c] # NoTask
  <2>1. PICK t : t = current[c]
    OBVIOUS
  <2>2. t \in Tasks /\ t \in known /\ tcpu[t] = c /\ run_state[t] = "kOnCpu"
    BY <1>2, <2>1 DEF Inv, PlaceInv, RunqueueOK, CurrentIsOnCpu, TypeInv, TypeOK
  <2>3. /\ next' = [next EXCEPT ![c] = t] /\ pc' = [pc EXCEPT ![c] = "wait"]
        /\ run_state' = run_state /\ failed' = failed
    BY <1>2, <2>1 DEF PickNext, Goto
  <2> QED BY <1>1, <2>2, <2>3, PickKeepsView
<1>3. CASE ~boosted[c] /\ current[c] = NoTask /\ rq[c] # <<>>
  <2>1. PICK t : t = Head(rq[c])
    OBVIOUS
  <2>2. t \in Tasks /\ InQueue(t, rq[c])
    BY <1>3, <2>1, DequeuedFacts DEF Inv, TypeInv, TypeOK
  <2>3. t \in known /\ tcpu[t] = c /\ run_state[t] = "kQueued"
    BY <2>2 DEF Inv, PlaceInv, RunqueueOK, QueuesHoldQueued
  <2>4. /\ next' = [next EXCEPT ![c] = t] /\ pc' = [pc EXCEPT ![c] = "wait"]
        /\ run_state' = [run_state EXCEPT ![t] = "kRunnable"] /\ failed' = failed
    BY <1>3, <2>1, <2>3 DEF PickNext, Goto
  <2> QED BY <1>1, <2>2, <2>3, <2>4, PickKeepsView
<1>4. CASE boosted[c] \/ (current[c] = NoTask /\ rq[c] = <<>>)
  <2>1. pc' = [pc EXCEPT ![c] = "yield"] /\ UNCHANGED <<next, run_state, failed>>
    BY <1>4 DEF PickNext, Goto
  <2>2. pc'[c] = "yield" /\ \A d \in Cpus : d # c => pc'[d] = pc[d]
    BY <2>1 DEF Inv, TypeInv, TypeOK
  <2> QED BY <1>1, <2>1, <2>2, PlainKeepsView DEF Migrating
<1> QED BY <1>2, <1>3, <1>4

\* What an agent knows when it commits a transaction with the task's barrier.
LEMMA CommitTxnKeepsView ==
  ASSUME Inv, Inv', ViewInv, NEW c \in Cpus, CommitTxn(c)
  PROVE  ViewInv'
<1>1. pc[c] = "commit" /\ ast[c] = "running" /\ failed = NoFailure
  BY DEF CommitTxn, At
<1>2. PICK t : t = next[c]
  OBVIOUS
<1>3. t \in Tasks /\ t # NoTask
  BY <1>1, <1>2 DEF Inv, TypeInv, ControlOK, TypeOK
<1>4. /\ t \in known /\ tcpu[t] = c /\ run_state[t] \in {"kRunnable", "kOnCpu"}
  BY <1>2, <1>3 DEF Inv, PlaceInv, RunqueueOK, NextIsHeld, CurrentIsOnCpu
<1>5. \A d \in Cpus : next[d] = t => d = c
  BY <1>3, <1>4 DEF Inv, PlaceInv, RunqueueOK, NextIsHeld
<1>6. via[t] # "txn" /\ ~Held(t)
  BY <1>1, <1>3, <1>5 DEF ViewInv, OnCpuOK, Held
<1>7. OnCpuOK /\ TypeOK /\ ViewOK(t)
  BY <1>3 DEF ViewInv, Inv, TypeInv
<1>8. ASSUME seqnum[t] = seq[t] PROVE ~LateAdvance(t) /\ Handled(t) = seq[t]
  <2>1. pc[DefaultCpu] \in Migrating => Msg(DefaultCpu).seq \in Nat
    BY DefaultIsCpu, MsgTypeOK DEF Inv, TypeInv, ControlOK
  <2>2. seqnum[t] \in Nat
    BY <1>3, HandledType DEF Inv
  <2>3. ~LateAdvance(t)
    BY <1>8, <2>1, <2>2 DEF ViewInv, MoveOK, LateAdvance
  <2> QED BY <1>8, <2>3 DEF Handled
<1> DEFINE state == TxnState(c, t, seqnum[t])
<1>9. CASE state = "COMPLETE"
  <2>1. seqnum[t] = seq[t] /\ kst[t] = "runnable" /\ oncpu[t] = NoCpu
    BY <1>9 DEF TxnState
  <2>2. /\ oncpu' = [oncpu EXCEPT ![t] = c] /\ via' = [via EXCEPT ![t] = "txn"]
        /\ ran' = [ran EXCEPT ![t] = "switchto" \in Events]
        /\ ast' = [ast EXCEPT ![c] = "sleeping"] /\ pc' = [pc EXCEPT ![c] = "oncpu"]
        /\ UNCHANGED <<kst, seq, chan, known, run_state, tcpu, seqnum, next, failed>>
    BY <1>2, <1>9 DEF CommitTxn, UnexpectedFailure, RunTask, Goto, fifoTaskVars, localVars
  <2>3. /\ oncpu'[t] = c /\ via'[t] = "txn"
        /\ \A u \in Tasks \ {t} : oncpu'[u] = oncpu[u] /\ via'[u] = via[u] /\ ran'[u] = ran[u]
        /\ ast'[c] = "sleeping" /\ \A d \in Cpus : d # c => ast'[d] = ast[d] /\ pc'[d] = pc[d]
        /\ pc'[c] = "oncpu"
    BY <1>3, <1>7, <2>2 DEF TypeOK, KernelTypeOK
  <2>4. via[t] # "switchto"
    BY <1>3, <1>7, <2>1, KernelAssumption DEF OnCpuOK, Cpus, NoCpu
  <2>5. /\ Unread' = Unread /\ \A u : Handled(u)' = Handled(u)
        /\ Msg(DefaultCpu)' = Msg(DefaultCpu)
        /\ pc'[DefaultCpu] \in Migrating <=> pc[DefaultCpu] \in Migrating
    <3>1. \A d \in Cpus : pc'[d] \in Migrating <=> pc[d] \in Migrating
      BY <1>1, <2>3 DEF Migrating
    <3> QED BY <2>2, <3>1, OutsideMigrate
  <2>6. \A u \in Tasks : (Held(u) => Held(u)') /\ (u # t /\ Held(u)' => Held(u))
    BY <1>1, <1>2, <2>2, <2>3 DEF Held
  <2>7. ASSUME NEW u \in Tasks PROVE ViewOK(u)'
    <3>1. ViewOK(u)
      BY DEF ViewInv
    <3>2. Inactive(u)' <=> Inactive(u)
      BY <2>1, <2>2, <2>3, <2>4 DEF Inactive
    <3>3. GotCpu(u) => GotCpu(u)'
      BY <2>2, <2>6 DEF GotCpu
    <3> QED BY <2>2, <2>5, <3>1, <3>2, <3>3, QuietView
  <2>8. OnCpuOK'
    <3>1. \A u \in Tasks : via[u] \in {"txn", "switchto"} => oncpu[u] \in Cpus /\ oncpu[u] # c
      BY <1>1, <1>7 DEF OnCpuOK
    <3>2. \A u \in Tasks : via'[u] \in {"txn", "switchto"} =>
            kst'[u] = "runnable" /\ oncpu'[u] \in Cpus /\ ast'[oncpu'[u]] # "running"
      BY <1>7, <2>1, <2>2, <2>3, <3>1 DEF OnCpuOK
    <3>3. \A u \in Tasks : via'[u] = "txn" =>
            /\ u \in known' /\ seqnum'[u] = seq'[u]
            /\ pc'[oncpu'[u]] = "oncpu" /\ next'[oncpu'[u]] = u
      BY <1>2, <1>4, <1>7, <2>1, <2>2, <2>3, <3>1 DEF OnCpuOK
    <3>4. \A u \in Tasks : via'[u] = "switchto" \/ (ran'[u] /\ InGhost(u)') =>
            u \in known' /\ tcpu'[u] # NoCpu
      BY <1>4, <1>7, <2>2, <2>3, KernelAssumption DEF OnCpuOK, InGhost, Cpus, NoCpu
    <3>5. \A u, v \in Tasks :
            /\ via'[u] \in {"txn", "switchto"} /\ via'[v] \in {"txn", "switchto"}
            /\ oncpu'[u] = oncpu'[v]
            => u = v
      BY <1>7, <2>3, <3>1 DEF OnCpuOK
    <3> QED BY <3>2, <3>3, <3>4, <3>5 DEF OnCpuOK
  <2>9. PickedOK'
    BY <2>2, <2>3, <2>5 DEF ViewInv, PickedOK
  <2>10. MoveOK'
    <3>1. pc[DefaultCpu] \in Migrating => Msg(DefaultCpu).task \in Tasks
      BY DefaultIsCpu, MsgTypeOK DEF Inv, TypeInv, ControlOK
    <3>2. ~LateAdvance(t)
      BY <1>8, <2>1
    <3>3. pc[DefaultCpu] \in Migrating /\ Msg(DefaultCpu).type = "TASK_WAKEUP" =>
            Msg(DefaultCpu).task # t
      BY <1>4, <3>2 DEF LateAdvance
    <3> QED BY <2>2, <2>5, <2>6, <3>1, <3>3 DEF ViewInv, MoveOK
  <2> QED BY <1>1, <2>2, <2>7, <2>8, <2>9, <2>10 DEF ViewInv, ChecksHold
<1>10. state # "TARGET_NOT_RUNNABLE"
  <2> SUFFICES ASSUME state = "TARGET_NOT_RUNNABLE" PROVE FALSE
    OBVIOUS
  <2>1. seqnum[t] = seq[t] /\ InGhost(t) /\ kst[t] # "runnable"
    BY DEF TxnState
  <2>2. Handled(t) = seq[t] /\ kst[t] = "blocked"
    BY <1>8, <2>1 DEF InGhost
  <2>3. \A x \in Unread : x.task # t
    <3> SUFFICES ASSUME NEW x \in Unread, x.task = t PROVE FALSE
      OBVIOUS
    <3>1. Handled(t) < x.seq /\ x.seq <= seq[t]
      BY <1>7 DEF ViewOK, MessageOK
    <3>2. x.seq \in Nat /\ seq[t] \in Nat
      BY <1>3, <1>7, UnreadTypes, HandledType DEF Inv
    <3> QED BY <2>2, <3>1, <3>2
  <2>4. run_state[t] = "kBlocked"
    BY <1>7, <2>2, <2>3 DEF ViewOK, LastSeen, Inactive
  <2> QED BY <1>4, <2>4
<1>11. CASE state # "COMPLETE"
  <2>1. /\ run_state' = [run_state EXCEPT ![t] = "kQueued"]
        /\ next' = [next EXCEPT ![c] = NoTask] /\ pc' = [pc EXCEPT ![c] = "top"]
        /\ UNCHANGED <<kernelVars, known, tcpu, seqnum, failed>>
    BY <1>2, <1>10, <1>11 DEF CommitTxn, UnexpectedFailure, Goto
  <2>2. /\ UNCHANGED <<taskVars, seq, chan, ast>>
        /\ run_state'[t] = "kQueued" /\ \A u \in Tasks \ {t} : run_state'[u] = run_state[u]
        /\ pc'[c] = "top" /\ \A d \in Cpus : d # c => next'[d] = next[d] /\ pc'[d] = pc[d]
    BY <1>3, <1>7, <2>1 DEF kernelVars, agentVars, TypeOK, Inv, TypeInv
  <2>3. /\ Unread' = Unread /\ \A u : Handled(u)' = Handled(u)
        /\ Msg(DefaultCpu)' = Msg(DefaultCpu)
        /\ pc'[DefaultCpu] \in Migrating <=> pc[DefaultCpu] \in Migrating
    <3>1. \A d \in Cpus : pc'[d] \in Migrating <=> pc[d] \in Migrating
      BY <1>1, <2>2 DEF Migrating
    <3> QED BY <2>1, <2>2, <3>1, OutsideMigrate
  <2>4. \A u \in Tasks : Held(u)' <=> Held(u)
    BY <1>1, <2>2 DEF Held
  <2>5. ASSUME NEW u \in Tasks PROVE ViewOK(u)'
    <3>1. ViewOK(u)
      BY DEF ViewInv
    <3>2. kst'[u] = kst[u] /\ seq'[u] = seq[u] /\ (Inactive(u)' <=> Inactive(u))
      BY <2>2 DEF taskVars, Inactive
    <3>3. (GotCpu(u) => GotCpu(u)') \/ \A x \in Unread : x.task = u => ~Ran(x)
      <4>1. CASE u = t
        BY <1>1, <1>2, <4>1 DEF ViewInv, PickedOK
      <4>2. CASE u # t
        BY <2>2, <2>4, <4>2 DEF GotCpu
      <4> QED BY <4>1, <4>2
    <3>4. run_state'[u] = "kBlocked" <=> run_state[u] = "kBlocked"
      BY <1>4, <2>2
    <3> QED BY <2>1, <2>3, <3>1, <3>2, <3>3, <3>4, QuietView
  <2>6. OnCpuOK'
    BY <1>1, <1>7, <2>1, <2>2, OnCpuAgentStep
  <2>7. PickedOK'
    BY <2>2, <2>3 DEF ViewInv, PickedOK
  <2>8. MoveOK'
    <3>1. pc[DefaultCpu] \in Migrating => Msg(DefaultCpu).task \in Tasks
      BY DefaultIsCpu, MsgTypeOK DEF Inv, TypeInv, ControlOK
    <3> QED BY <2>1, <2>2, <2>3, <2>4, <3>1 DEF ViewInv, MoveOK, taskVars
  <2> QED BY <1>1, <2>1, <2>5, <2>6, <2>7, <2>8 DEF ViewInv, ChecksHold
<1> QED BY <1>9, <1>11

LEMMA TaskOnCpuKeepsView ==
  ASSUME Inv, ViewInv, NEW c \in Cpus, TaskOnCpu(c)
  PROVE  ViewInv'
<1>1. pc[c] = "oncpu" /\ ast[c] = "running" /\ failed = NoFailure
  BY DEF TaskOnCpu, At
<1>2. PICK t : t = next[c]
  OBVIOUS
<1>3. t \in Tasks /\ t # NoTask
  BY <1>1, <1>2 DEF Inv, TypeInv, ControlOK, TypeOK
<1>4. /\ t \in known /\ tcpu[t] = c /\ run_state[t] \in {"kRunnable", "kOnCpu"}
  BY <1>2, <1>3 DEF Inv, PlaceInv, RunqueueOK, NextIsHeld, CurrentIsOnCpu
<1>5. OnCpuOK /\ TypeOK /\ Held(t)
  BY <1>1, <1>2 DEF ViewInv, Inv, TypeInv, Held
<1>6. /\ run_state' = [run_state EXCEPT ![t] = "kOnCpu"] /\ tcpu' = [tcpu EXCEPT ![t] = c]
      /\ next' = [next EXCEPT ![c] = NoTask] /\ pc' = [pc EXCEPT ![c] = "top"]
      /\ UNCHANGED <<kernelVars, known, seqnum, failed>>
  BY <1>2 DEF TaskOnCpu, Goto
<1>7. /\ UNCHANGED <<taskVars, seq, chan, ast>>
      /\ run_state'[t] = "kOnCpu" /\ \A u \in Tasks \ {t} : run_state'[u] = run_state[u]
      /\ \A u \in Tasks : tcpu[u] # NoCpu => tcpu'[u] # NoCpu
      /\ pc'[c] = "top" /\ \A d \in Cpus : d # c => next'[d] = next[d] /\ pc'[d] = pc[d]
  BY <1>3, <1>4, <1>5, <1>6 DEF kernelVars, agentVars, TypeOK, Inv, TypeInv
<1>8. /\ Unread' = Unread /\ \A u : Handled(u)' = Handled(u)
      /\ Msg(DefaultCpu)' = Msg(DefaultCpu)
      /\ pc'[DefaultCpu] \in Migrating <=> pc[DefaultCpu] \in Migrating
  <2>1. \A d \in Cpus : pc'[d] \in Migrating <=> pc[d] \in Migrating
    BY <1>1, <1>7 DEF Migrating
  <2> QED BY <1>6, <1>7, <2>1, OutsideMigrate
<1>9. \A u \in Tasks : (Held(u)' => Held(u)) /\ (u # t /\ Held(u) => Held(u)')
  BY <1>1, <1>2, <1>7 DEF Held
<1>10. ASSUME NEW u \in Tasks PROVE ViewOK(u)'
  <2>1. ViewOK(u)
    BY DEF ViewInv
  <2>2. kst'[u] = kst[u] /\ seq'[u] = seq[u] /\ (Inactive(u)' <=> Inactive(u))
    BY <1>7 DEF taskVars, Inactive
  <2>3. GotCpu(u) => GotCpu(u)'
    BY <1>7, <1>9 DEF GotCpu
  <2>4. run_state'[u] = "kBlocked" <=> run_state[u] = "kBlocked"
    BY <1>4, <1>7
  <2> QED BY <1>6, <1>7, <1>8, <2>1, <2>2, <2>3, <2>4, QuietView
<1>11. OnCpuOK'
  BY <1>1, <1>5, <1>6, <1>7, OnCpuAgentStep
<1>12. PickedOK'
  BY <1>7, <1>8 DEF ViewInv, PickedOK
<1>13. MoveOK'
  <2>1. pc[DefaultCpu] \in Migrating => Msg(DefaultCpu).task \in Tasks
    BY DefaultIsCpu, MsgTypeOK DEF Inv, TypeInv, ControlOK
  <2>2. pc[DefaultCpu] \in Migrating /\ Msg(DefaultCpu).type = "TASK_WAKEUP" =>
          Msg(DefaultCpu).task # t
    BY <1>4, <1>5 DEF ViewInv, MoveOK
  <2> QED BY <1>6, <1>7, <1>8, <1>9, <2>1, <2>2 DEF ViewInv, MoveOK, taskVars
<1> QED BY <1>1, <1>6, <1>10, <1>11, <1>12, <1>13 DEF ViewInv, ChecksHold

LEMMA AgentKeepsView ==
  ASSUME Inv, Inv', ViewInv, NEW c \in Cpus, AgentStep(c)
  PROVE  ViewInv'
<1>0. TypeOK
  BY DEF Inv, TypeInv
<1>1. CASE ReadBarrier(c)
  <2>1. /\ pc[c] = "top" /\ ast[c] = "running" /\ pc' = [pc EXCEPT ![c] = "drain"]
        /\ UNCHANGED <<taskVars, seq, chan, known, run_state, tcpu, seqnum, next, ast, failed>>
    BY <1>1 DEF ReadBarrier, At, Goto, fifoTaskVars, localVars
  <2>2. pc'[c] = "drain" /\ \A d \in Cpus : d # c => pc'[d] = pc[d]
    BY <1>0, <2>1 DEF TypeOK
  <2> QED BY <2>1, <2>2, PlainKeepsView DEF Migrating
<1>2. CASE MigratePing(c)
  <2>1. /\ pc[c] = "ping" /\ ast[c] = "running" /\ pc' = [pc EXCEPT ![c] = "advance"]
        /\ WakeAgent(target[c])
        /\ UNCHANGED <<taskVars, seq, chan, known, run_state, tcpu, seqnum, next, failed>>
    BY <1>2 DEF MigratePing, At, Goto, fifoTaskVars, localVars
  <2>2. /\ pc'[c] = "advance" /\ \A d \in Cpus : d # c => pc'[d] = pc[d]
        /\ \A d \in Cpus : ast'[d] = "running" => ast[d] = "running"
    BY <1>0, <2>1 DEF TypeOK, KernelTypeOK, WakeAgent, Woken
  <2> QED BY <2>1, <2>2, PlainKeepsView DEF Migrating
<1>3. CASE WaitOffCpu(c)
  <2>1. /\ pc[c] = "wait" /\ ast[c] = "running" /\ pc' = [pc EXCEPT ![c] = "commit"]
        /\ UNCHANGED <<taskVars, seq, chan, known, run_state, tcpu, seqnum, next, ast, failed>>
    BY <1>3 DEF WaitOffCpu, At, Goto, kernelVars, agentVars, fifoTaskVars, localVars
  <2>2. pc'[c] = "commit" /\ \A d \in Cpus : d # c => pc'[d] = pc[d]
    BY <1>0, <2>1 DEF TypeOK
  <2> QED BY <2>1, <2>2, PlainKeepsView DEF Migrating
<1>4. CASE LocalYield(c)
  <2>1. /\ pc[c] = "yield" /\ ast[c] = "running" /\ pc' = [pc EXCEPT ![c] = "top"]
        /\ ast' = ast \/ BlockAgent(c, onIdle[c])
        /\ UNCHANGED <<taskVars, seq, chan, known, run_state, tcpu, seqnum, next, failed>>
    BY <1>4 DEF LocalYield, At, Goto, fifoTaskVars, localVars
  <2>2. /\ pc'[c] = "top" /\ \A d \in Cpus : d # c => pc'[d] = pc[d]
        /\ \A d \in Cpus : ast'[d] = "running" => ast[d] = "running"
    BY <1>0, <2>1 DEF TypeOK, KernelTypeOK, BlockAgent
  <2> QED BY <2>1, <2>2, PlainKeepsView DEF Migrating
<1> QED BY <1>1, <1>2, <1>3, <1>4, HandlersKeepView, MigrateEnqueueKeepsView,
           AdvanceMigratedKeepsView, PickNextKeepsView, CommitTxnKeepsView,
           TaskOnCpuKeepsView
        DEF AgentStep
-------------------------------------------------------------------------------
\* The view holds as long as no thread comes back to ghOSt.
LEMMA ViewInvHolds ==
  ASSUME "reenter" \notin Events
  PROVE  Spec => [](Inv /\ ViewInv)
<1>1. Init => ViewInv
  <2> SUFFICES ASSUME Init PROVE ViewInv
    OBVIOUS
  <2> USE DEF Init, KernelInit
  <2>1. Unread = {}
    <3>1. \A c \in Cpus : Len(chan[c]) = 0
      OBVIOUS
    <3> QED BY <3>1 DEF Unread
  <2>2. \A t \in Tasks : ViewOK(t)
    BY <2>1 DEF ViewOK
  <2>3. OnCpuOK /\ PickedOK
    BY DEF OnCpuOK, PickedOK
  <2>4. MoveOK
    BY DefaultIsCpu DEF MoveOK, Migrating
  <2>5. ChecksHold
    BY DEF ChecksHold
  <2> QED BY <2>2, <2>3, <2>4, <2>5 DEF ViewInv
<1>2. Inv /\ Inv' /\ ViewInv /\ [Next]_vars => ViewInv'
  <2> SUFFICES ASSUME Inv, Inv', ViewInv, [Next]_vars PROVE ViewInv'
    OBVIOUS
  <2>1. CASE KernelStep
    BY <2>1, KernelKeepsView
  <2>2. CASE \E c \in Cpus : AgentStep(c)
    BY <2>2, AgentKeepsView
  <2>3. CASE UNCHANGED vars
    <3> USE <2>3 DEF vars, kernelVars, taskVars, agentVars, cfsVars, fifoVars,
                     fifoTaskVars, cpuVars, localVars
    <3>1. Unread' = Unread
      BY UnreadSame
    <3>2. \A u \in Tasks : /\ Handled(u)' = Handled(u) /\ (GotCpu(u)' <=> GotCpu(u))
                           /\ (Inactive(u)' <=> Inactive(u))
      BY DEF Handled, LateAdvance, Msg, GotCpu, Held, Inactive
    <3>3. ASSUME NEW u \in Tasks PROVE ViewOK(u)'
      <4>1. ViewOK(u)
        BY DEF ViewInv
      <4> QED BY <3>1, <3>2, <4>1, QuietView
    <3>4. OnCpuOK' /\ PickedOK'
      BY <3>1 DEF ViewInv, OnCpuOK, PickedOK, InGhost
    <3>5. MoveOK'
      BY DEF ViewInv, MoveOK, Msg, Held
    <3>6. ChecksHold'
      BY DEF ViewInv, ChecksHold
    <3> QED BY <3>3, <3>4, <3>5, <3>6 DEF ViewInv
  <2> QED BY <2>1, <2>2, <2>3 DEF Next
<1> QED BY <1>1, <1>2, InvHolds, PTL DEF Spec

\* A task all of whose messages have been consumed has none that is unread.
LEMMA DrainedIsSeen ==
  ASSUME Inv, ViewInv, NEW t \in Tasks, Drained(t), kst[t] # "new"
  PROVE  /\ t \in known => /\ seqnum[t] = seq[t] /\ Alive(t)
                           /\ (run_state[t] = "kBlocked" <=> Inactive(t))
         /\ t \notin known => kst[t] \in {"departed", "dead"}
<1>1. \A m \in Unread : m.task # t
  BY UnreadIs DEF Drained
<1>2. ~LateAdvance(t)
  <2>1. pc[DefaultCpu] \in Migrating => chan[DefaultCpu] # <<>>
    BY DefaultIsCpu DEF Inv, TypeInv, ControlOK
  <2>2. chan[DefaultCpu] # <<>> => Len(chan[DefaultCpu]) \in Nat /\ Len(chan[DefaultCpu]) # 0
    BY DefaultIsCpu, EmptySeq DEF Inv, TypeInv, TypeOK, KernelTypeOK
  <2> QED BY <2>1, <2>2, DefaultIsCpu DEF LateAdvance, Drained, Msg
<1>3. LastSeen(t) /\ Handled(t) = seqnum[t]
  BY <1>2 DEF ViewInv, ViewOK, Handled
<1> QED BY <1>1, <1>3 DEF LastSeen

(***************************************************************************)
(* As long as no thread comes back to ghOSt after it has left, no CHECK of *)
(* the per-CPU scheduler fails but those that race with a departure: the   *)
(* CHECK of Migrate that its AssociateTask succeeds, the one of            *)
(* TaskDeparted, and the use of a FifoTask that another agent destroys     *)
(* during Migrate, each for a task that has already left ghOSt.            *)
(* Everything else the handlers, FifoRq and FifoSchedule CHECK follows     *)
(* from what the kernel has sent so far.                                   *)
(***************************************************************************)
THEOREM ChecksSafe ==
  ASSUME "reenter" \notin Events
  PROVE  Spec => []ChecksHold
<1>1. ViewInv => ChecksHold
  BY DEF ViewInv
<1> QED BY <1>1, ViewInvHolds, PTL

(***************************************************************************)
(* Under the same assumption a FifoTask agrees with the kernel as soon as  *)
(* the agents have consumed all messages of its task: Advance has brought  *)
(* its seqnum to the barrier of the status word, and run_state is what the *)
(* kernel thinks of the task.                                              *)
(***************************************************************************)
THEOREM ViewSafe ==
  ASSUME "reenter" \notin Events
  PROVE  Spec => []ViewAgrees
<1>1. Inv /\ ViewInv => ViewAgrees
  <2> SUFFICES ASSUME Inv, ViewInv, NEW t \in known, Drained(t)
               PROVE  /\ seqnum[t] = seq[t]
                      /\ CASE run_state[t] = "kBlocked" ->
                                kst[t] \in {"blocked", "dying"} \/ via[t] = "switchto"
                           [] run_state[t] = "kQueued" -> kst[t] = "runnable" /\ ~Running(t)
                           [] OTHER -> kst[t] = "runnable" /\ via[t] # "switchto"
    BY DEF ViewAgrees
  <2>1. t \in Tasks /\ kst[t] # "new"
    BY DEF Inv, TypeInv, TypeOK, MsgInv, NewTasks
  <2>2. seqnum[t] = seq[t] /\ Alive(t) /\ (run_state[t] = "kBlocked" <=> Inactive(t))
    BY <2>1, DrainedIsSeen
  <2>3. run_state[t] = "kQueued" => via[t] # "txn"
    <3> SUFFICES ASSUME run_state[t] = "kQueued", via[t] = "txn" PROVE FALSE
      OBVIOUS
    <3>1. oncpu[t] \in Cpus /\ next[oncpu[t]] = t
      BY <2>1 DEF ViewInv, OnCpuOK
    <3>2. t # NoTask
      BY <2>1, FifoAssumption
    <3> QED BY <3>1, <3>2 DEF Inv, PlaceInv, RunqueueOK, NextIsHeld, CurrentIsOnCpu
  <2> QED BY <2>2, <2>3 DEF Alive, Inactive, Running
<1> QED BY <1>1, ViewInvHolds, PTL
-------------------------------------------------------------------------------
(***************************************************************************)
(* Why no wakeup is lost.  An agent can only go to sleep in ghost_run(),   *)
(* and only if its barrier has not moved since it was read, before the     *)
(* channel and the run queue were looked at.                               *)
(***************************************************************************)
SleepsInGhostRun(c) == ast[c] # "running" => pc[c] \in {"top", "oncpu"}

\* The messages a sleeping agent has not read are of the kind that wakes nobody.
NothingToRead(c) ==
  ast[c] = "sleeping" => \A i \in 1 .. Len(chan[c]) : chan[c][i].type = "TASK_SWITCHTO"

\* An agent that has found its channel empty notices if it no longer is.
BarrierMoves(c) ==
  pc[c] \in {"wait", "commit", "yield"} /\ ~stale[c] => chan[c] = <<>>

\* Somebody is about to ping the agent of CPU c: Migrate, or the handler of
\* the last message of the SwitchTo chain that was on CPU c.
Pinged(c)    == \E d \in Cpus : pc[d] = "ping" /\ target[d] = c
ChainPing(c) == \E m \in Unread : Chained(m) /\ m.cpu = c

ChainOn(c) == \E u \in Tasks : oncpu[u] = c /\ via[u] = "switchto"

\* An agent that sleeps because its task runs is behind a task that does, or
\* behind the SwitchTo chain the task has started.
ChainOK(c) ==
  \/ via[next[c]] = "txn" /\ oncpu[next[c]] = c
  \/ /\ \E i \in 1 .. Len(chan[c]) : chan[c][i].task = next[c]
     /\ ChainOn(c) \/ ChainPing(c)

SleepsBehindTask(c) == ast[c] = "sleeping" /\ pc[c] = "oncpu" => ChainOK(c)

NothingToRun(c) == current[c] = NoTask /\ rq[c] = <<>>

\* An agent that sleeps, or is about to, although it has something to run
\* gets its CPU back when CFS is done with it, or is about to be pinged.
SleepsIdle(c) ==
  /\ pc[c] = "yield" /\ ~onIdle[c] /\ ~stale[c] => NothingToRun(c) \/ Pinged(c)
  /\ ast[c] = "sleeping" /\ pc[c] = "top" =>
       NothingToRun(c) \/ (boosted[c] /\ rtla[c]) \/ Pinged(c)

AgentOK(c) ==
  /\ SleepsInGhostRun(c) /\ NothingToRead(c) /\ BarrierMoves(c)
  /\ SleepsBehindTask(c) /\ SleepsIdle(c)

\* A task that is neither blocked, queued nor current is in an agent's hands.
InHands ==
  \A t \in Tasks : run_state[t] = "kRunnable" =>
    \E c \in Cpus : next[c] = t \/ (pc[c] = "enqueue" /\ Msg(c).task = t)

WakeInv == (\A c \in Cpus : AgentOK(c)) /\ InHands
-------------------------------------------------------------------------------
\* A step that is not one of the agent of CPU c.
LEMMA OthersKeepAgent ==
  ASSUME TypeInv, NEW c \in Cpus, AgentOK(c),
         pc'[c] = pc[c], onIdle'[c] = onIdle[c],
         ast'[c] = "sleeping" => ast[c] = "sleeping",
         ast'[c] # "running" => ast[c] # "running",
         stale[c] => stale'[c],
         \/ chan'[c] = chan[c]
         \/ /\ stale'[c]
            /\ \E m \in Messages : /\ chan'[c] = Append(chan[c], m)
                                   /\ ast'[c] = "sleeping" => m.type = "TASK_SWITCHTO",
         ast'[c] = "sleeping" /\ pc[c] = "oncpu" /\ ChainOK(c) => ChainOK(c)',
         ast'[c] = "sleeping" /\ boosted[c] /\ rtla[c] => boosted'[c] /\ rtla'[c],
         NothingToRun(c) => NothingToRun(c)' \/ Pinged(c)',
         Pinged(c) => Pinged(c)' \/ (stale'[c] /\ ast'[c] # "sleeping")
  PROVE  AgentOK(c)'
<1>1. SleepsInGhostRun(c)' /\ SleepsBehindTask(c)'
  BY DEF AgentOK, SleepsInGhostRun, SleepsBehindTask
<1>2. BarrierMoves(c)'
  BY DEF AgentOK, BarrierMoves
<1>3. NothingToRead(c)'
  <2> SUFFICES ASSUME ast'[c] = "sleeping", NEW i \in 1 .. Len(chan'[c])
               PROVE  chan'[c][i].type = "TASK_SWITCHTO"
    BY DEF NothingToRead
  <2>1. CASE chan'[c] = chan[c]
    BY <2>1 DEF AgentOK, NothingToRead
  <2>2. ASSUME NEW m \in Messages, chan'[c] = Append(chan[c], m), m.type = "TASK_SWITCHTO"
        PROVE  chan'[c][i].type = "TASK_SWITCHTO"
    <3>1. chan[c] \in Seq(Messages)
      BY DEF TypeInv, TypeOK, KernelTypeOK
    <3>2. /\ Len(chan[c]) \in Nat /\ Len(chan'[c]) = Len(chan[c]) + 1
          /\ chan'[c][Len(chan[c]) + 1] = m
          /\ \A j \in 1 .. Len(chan[c]) : chan'[c][j] = chan[c][j]
      BY <2>2, <3>1, AppendFacts
    <3>3. CASE i = Len(chan[c]) + 1
      BY <2>2, <3>2, <3>3
    <3>4. CASE i # Len(chan[c]) + 1
      <4>1. i \in 1 .. Len(chan[c])
        BY <3>2, <3>4
      <4> QED BY <3>2, <4>1 DEF AgentOK, NothingToRead
    <3> QED BY <3>3, <3>4
  <2> QED BY <2>1, <2>2
<1>4. SleepsIdle(c)'
  BY DEF AgentOK, SleepsIdle
<1> QED BY <1>1, <1>2, <1>3, <1>4 DEF AgentOK

-------------------------------------------------------------------------------
(***************************************************************************)
(* The kernel.                                                             *)
(***************************************************************************)

\* What a step of the kernel does to the agent of CPU c.
KernelWakes(c) ==
  /\ ast'[c] = "sleeping" => ast[c] = "sleeping"
  /\ ast'[c] # "running" => ast[c] # "running"
  /\ stale[c] => stale'[c]
  /\ \/ chan'[c] = chan[c]
     \/ /\ stale'[c]
        /\ \E m \in Messages : /\ chan'[c] = Append(chan[c], m)
                               /\ ast'[c] = "sleeping" => m.type = "TASK_SWITCHTO"
  /\ ast'[c] = "sleeping" /\ boosted[c] /\ rtla[c] => boosted'[c] /\ rtla'[c]

\* Nobody but an agent that is woken or gets its CPU is disturbed.
LEMMA WakeIsEnough ==
  ASSUME KernelTypeOK, NEW k \in Cpus, WakeAgent(k), NEW m \in Messages,
         chan' = [chan EXCEPT ![k] = Append(@, m)],
         \A c \in Cpus : boosted[c] => boosted'[c]
  PROVE  \A c \in Cpus : KernelWakes(c)
<1> SUFFICES ASSUME NEW c \in Cpus PROVE KernelWakes(c)
  OBVIOUS
<1>1. CASE c = k
  <2>1. ast'[c] # "sleeping" /\ (ast'[c] # "running" => ast[c] # "running") /\ stale'[c]
    BY <1>1 DEF WakeAgent, Woken, KernelTypeOK
  <2>2. chan'[c] = Append(chan[c], m)
    BY <1>1 DEF KernelTypeOK
  <2> QED BY <2>1, <2>2 DEF KernelWakes
<1>2. CASE c # k
  BY <1>2 DEF KernelWakes, WakeAgent, KernelTypeOK
<1> QED BY <1>1, <1>2

LEMMA ReportIsMessage ==
  ASSUME KernelTypeOK, NEW t \in Tasks, NEW type \in MsgTypes, Report(t, type)
  PROVE  /\ \E m \in Messages : /\ chan' = [chan EXCEPT ![assoc[t]] = Append(@, m)]
                                /\ m.type = type /\ m.flag = (via[t] = "switchto")
                                /\ m.task = t /\ m.cpu = oncpu[t]
         /\ WakeAgent(assoc[t]) /\ assoc[t] \in Cpus
<1> DEFINE m == [type |-> type, task |-> t, seq |-> seq[t] + 1,
                 flag |-> (via[t] = "switchto"), cpu |-> oncpu[t]]
<1>1. seq[t] + 1 \in Nat /\ oncpu[t] \in Cpus \cup {NoCpu} /\ assoc[t] \in Cpus
  BY DEF KernelTypeOK
<1>2. m \in Messages
  BY <1>1 DEF Messages
<1>3. chan' = [chan EXCEPT ![assoc[t]] = Append(@, m)] /\ WakeAgent(assoc[t])
  BY DEF Report, Produce
<1>4. /\ m.type = type /\ m.flag = (via[t] = "switchto") /\ m.task = t /\ m.cpu = oncpu[t]
  OBVIOUS
<1> HIDE DEF m
<1> QED BY <1>1, <1>2, <1>3, <1>4

LEMMA KernelWakesAll ==
  ASSUME KernelTypeOK, KernelNext
  PROVE  \A c \in Cpus : KernelWakes(c)
<1> DEFINE Goal == \A c \in Cpus : KernelWakes(c)
<1>0. /\ ast \in [Cpus -> {"running", "sleeping", "waking"}]
      /\ stale \in [Cpus -> BOOLEAN] /\ rtla \in [Cpus -> BOOLEAN]
      /\ boosted \in [Cpus -> BOOLEAN] /\ DefaultCpu \in Cpus
      /\ chan \in [Cpus -> Seq(Messages)]
      /\ \A t \in Tasks : assoc[t] \in Cpus /\ seq[t] + 1 \in Nat /\ oncpu[t] \in Cpus \cup {NoCpu}
  BY DefaultIsCpu DEF KernelTypeOK
<1>1. ASSUME NEW t \in Tasks, NEW b \in BOOLEAN, KTaskNew(t, b) PROVE Goal
  <2> DEFINE m == [type |-> "TASK_NEW", task |-> t, seq |-> 1, flag |-> b, cpu |-> NoCpu]
  <2>1. m \in Messages
    BY DEF Messages, MsgTypes
  <2>2. /\ chan' = [chan EXCEPT ![DefaultCpu] = Append(@, m)]
        /\ WakeAgent(DefaultCpu) /\ boosted' = boosted
    BY <1>1 DEF KTaskNew
  <2> HIDE DEF m
  <2> QED BY <1>0, <2>1, <2>2, WakeIsEnough
<1>2. ASSUME NEW t \in Tasks, NEW b \in BOOLEAN, KWakeup(t, b) PROVE Goal
  <2> DEFINE m == [type |-> "TASK_WAKEUP", task |-> t, seq |-> seq[t] + 1,
                   flag |-> b, cpu |-> NoCpu]
  <2>1. m \in Messages
    BY <1>0 DEF Messages, MsgTypes
  <2>2. /\ chan' = [chan EXCEPT ![assoc[t]] = Append(@, m)]
        /\ WakeAgent(assoc[t]) /\ boosted' = boosted
    BY <1>2 DEF KWakeup, Produce, cfsVars
  <2> HIDE DEF m
  <2> QED BY <1>0, <2>1, <2>2, WakeIsEnough
<1>3. ASSUME NEW t \in Tasks, NEW type \in MsgTypes, Report(t, type),
             \A c \in Cpus : boosted[c] => boosted'[c]
      PROVE  Goal
  <2>1. PICK m \in Messages : chan' = [chan EXCEPT ![assoc[t]] = Append(@, m)]
    BY <1>3, ReportIsMessage
  <2>2. WakeAgent(assoc[t]) /\ assoc[t] \in Cpus
    BY <1>3, ReportIsMessage
  <2> QED BY <1>3, <2>1, <2>2, WakeIsEnough
<1>4. ASSUME NEW t \in Tasks, KBlock(t) \/ KYield(t) \/ KExit(t) \/ KDead(t) \/ KDepart(t)
      PROVE  Goal
  <2>1. boosted' = boosted /\ \E type \in MsgTypes : Report(t, type)
    BY <1>4 DEF KBlock, KYield, KExit, KDead, KDepart, MsgTypes, cfsVars
  <2> QED BY <1>3, <2>1
<1>5. ASSUME UNCHANGED <<chan, ast, stale, rtla>>, \A c \in Cpus : boosted[c] => boosted'[c]
      PROVE  Goal
  BY <1>5 DEF KernelWakes
<1>6. ASSUME NEW a \in Tasks, NEW b \in Tasks, KSwitchTo(a, b) PROVE Goal
  <2>1. UNCHANGED <<ast, rtla, boosted>>
    BY <1>6 DEF KSwitchTo, cfsVars
  <2>2. CASE via[a] = "txn"
    <3> DEFINE m == [type |-> "TASK_SWITCHTO", task |-> a, seq |-> seq[a] + 1,
                     flag |-> FALSE, cpu |-> oncpu[a]]
    <3>1. m \in Messages /\ m.type = "TASK_SWITCHTO"
      BY <1>0 DEF Messages, MsgTypes
    <3>2. /\ chan' = [chan EXCEPT ![assoc[a]] = Append(@, m)]
          /\ stale' = [stale EXCEPT ![assoc[a]] = TRUE]
      BY <1>6, <2>2 DEF KSwitchTo, Produce
    <3> HIDE DEF m
    <3>3. assoc[a] \in Cpus /\ stale'[assoc[a]] /\ chan'[assoc[a]] = Append(chan[assoc[a]], m)
      BY <1>0, <3>2
    <3>4. \A c \in Cpus : c # assoc[a] => chan'[c] = chan[c] /\ stale'[c] = stale[c]
      BY <1>0, <3>2
    <3> QED BY <2>1, <3>1, <3>3, <3>4 DEF KernelWakes
  <2>3. CASE via[a] # "txn"
    BY <1>5, <1>6, <2>1, <2>3 DEF KSwitchTo
  <2> QED BY <2>2, <2>3
<1>7. ASSUME NEW t \in Tasks, KFinishSwitch(t) PROVE Goal
  BY <1>5, <1>7 DEF KFinishSwitch, agentVars, cfsVars
<1>8. ASSUME NEW d \in Cpus, KAgentSwitchIn(d) PROVE Goal
  <2> SUFFICES ASSUME NEW c \in Cpus PROVE KernelWakes(c)
    OBVIOUS
  <2>1. rtla' = [rtla EXCEPT ![d] = FALSE] /\ boosted' = boosted
    BY <1>8 DEF KAgentSwitchIn, cfsVars
  <2>2. ASSUME NEW t \in Tasks, Produce(t, "TASK_PREEMPT", TRUE, d),
               ast' = [[ast EXCEPT ![assoc[t]] = Woken(@)] EXCEPT ![d] = "running"],
               stale' = [stale EXCEPT ![assoc[t]] = TRUE]
        PROVE  KernelWakes(c)
    <3> DEFINE m == [type |-> "TASK_PREEMPT", task |-> t, seq |-> seq[t] + 1,
                     flag |-> TRUE, cpu |-> d]
    <3>1. m \in Messages
      BY <1>0 DEF Messages, MsgTypes
    <3>2. chan' = [chan EXCEPT ![assoc[t]] = Append(@, m)]
      BY <2>2 DEF Produce
    <3> HIDE DEF m
    <3>3. /\ ast'[c] = "sleeping" => c # d /\ c # assoc[t] /\ ast[c] = "sleeping"
          /\ ast'[c] # "running" => ast[c] # "running"
          /\ stale[c] => stale'[c]
      BY <1>0, <2>2 DEF Woken
    <3>4. CASE c = assoc[t]
      <4>1. stale'[c] /\ chan'[c] = Append(chan[c], m)
        BY <1>0, <2>2, <3>2, <3>4
      <4> QED BY <3>1, <3>3, <3>4, <4>1 DEF KernelWakes
    <3>5. CASE c # assoc[t]
      <4>1. chan'[c] = chan[c] /\ (c # d => rtla'[c] = rtla[c])
        BY <1>0, <2>1, <3>2, <3>5
      <4> QED BY <2>1, <3>3, <4>1 DEF KernelWakes
    <3> QED BY <3>4, <3>5
  <2>3. ASSUME ast' = [ast EXCEPT ![d] = "running"], UNCHANGED <<seq, chan, stale>>
        PROVE  KernelWakes(c)
    <3>1. CASE c = d
      BY <1>0, <2>3, <3>1 DEF KernelWakes
    <3>2. CASE c # d
      BY <1>0, <2>1, <2>3, <3>2 DEF KernelWakes
    <3> QED BY <3>1, <3>2
  <2> QED BY <1>8, <2>2, <2>3 DEF KAgentSwitchIn
<1>9. ASSUME NEW d \in Cpus, KCfsArrive(d) PROVE Goal
  <2>1. \A c \in Cpus : boosted[c] => boosted'[c]
    BY <1>0, <1>9 DEF KCfsArrive
  <2>2. ASSUME NEW t \in Tasks, Report(t, "TASK_PREEMPT") PROVE Goal
    BY <1>3, <2>1, <2>2 DEF MsgTypes
  <2>3. CASE UNCHANGED <<oncpu, via, seq, chan, agentVars>>
    BY <1>5, <2>1, <2>3 DEF agentVars
  <2> QED BY <1>9, <2>2, <2>3 DEF KCfsArrive
<1>10. ASSUME NEW d \in Cpus, KCfsLeave(d) PROVE Goal
  <2> SUFFICES ASSUME NEW c \in Cpus PROVE KernelWakes(c)
    OBVIOUS
  <2>1. UNCHANGED <<chan, stale, rtla>>
    BY <1>10 DEF KCfsLeave
  <2>2. /\ ast'[c] = "sleeping" => ast[c] = "sleeping" /\ ~(c = d /\ rtla[d])
        /\ ast'[c] # "running" => ast[c] # "running"
        /\ c # d => boosted'[c] = boosted[c]
    BY <1>0, <1>10 DEF KCfsLeave, Woken
  <2> QED BY <2>1, <2>2 DEF KernelWakes
<1> QED BY <1>1, <1>2, <1>4, <1>6, <1>7, <1>8, <1>9, <1>10 DEF KernelNext
\* Messages are added: those that were there before still are.
LEMMA ChainStays ==
  ASSUME TypeInv, UNCHANGED fifoVars, NEW c \in Cpus, ChainOK(c),
         \/ chan' = chan
         \/ \E k \in Cpus, m \in Messages : chan' = [chan EXCEPT ![k] = Append(@, m)],
         via[next[c]] = "txn" /\ oncpu[next[c]] = c =>
           via'[next[c]] = "txn" /\ oncpu'[next[c]] = c,
         ChainOn(c) => ChainOn(c)' \/ ChainPing(c)'
  PROVE  ChainOK(c)'
<1> USE DEF fifoVars, localVars
<1>1. ASSUME NEW k \in Cpus, NEW m \in Messages, chan' = [chan EXCEPT ![k] = Append(@, m)]
      PROVE  /\ \A x : x \in Unread => x \in Unread'
             /\ (\E i \in 1 .. Len(chan[c]) : chan[c][i].task = next[c]) =>
                \E i \in 1 .. Len(chan'[c]) : chan'[c][i].task = next[c]
  <2>1. \A x : x \in Unread => x \in Unread'
    BY <1>1, UnreadAppend
  <2>2. /\ \A d \in Cpus : d # k => chan'[d] = chan[d]
        /\ Len(chan[k]) \in Nat /\ Len(chan'[k]) = Len(chan[k]) + 1
        /\ \A i \in 1 .. Len(chan[k]) : chan'[k][i] = chan[k][i]
    BY <1>1, AppendKeepsHead DEF TypeInv
  <2>3. ASSUME NEW i \in 1 .. Len(chan[c]), chan[c][i].task = next[c]
        PROVE  i \in 1 .. Len(chan'[c]) /\ chan'[c][i].task = next[c]
    <3>1. CASE c = k
      BY <2>2, <2>3, <3>1
    <3>2. CASE c # k
      BY <2>2, <2>3, <3>2
    <3> QED BY <3>1, <3>2
  <2> QED BY <2>1, <2>3
<1>2. /\ \A x : x \in Unread => x \in Unread'
      /\ (\E i \in 1 .. Len(chan[c]) : chan[c][i].task = next[c]) =>
         \E i \in 1 .. Len(chan'[c]) : chan'[c][i].task = next[c]
  BY <1>1, UnreadSame
<1>3. ChainPing(c) => ChainPing(c)'
  BY <1>2 DEF ChainPing, Chained
<1> QED BY <1>2, <1>3 DEF ChainOK

\* A task gets off its CPU with a message: the agent that had put it there is
\* woken, and a SwitchTo target's message makes its handler ping the agent.
LEMMA LeaveKeepsChain ==
  ASSUME Inv, ViewInv, UNCHANGED fifoVars, NEW c \in Cpus, ast'[c] = "sleeping", ChainOK(c),
         NEW t \in Tasks, NEW type \in OffTypes \cup {"TASK_DEPARTED"}, Report(t, type),
         \A u \in Tasks \ {t} : via'[u] = via[u] /\ oncpu'[u] = oncpu[u],
         next[c] \in Tasks
  PROVE  ChainOK(c)'
<1>0. TypeInv /\ KernelTypeOK
  BY DEF Inv, TypeInv, TypeOK
<1>1. type \in MsgTypes
  BY DEF OffTypes, MsgTypes
<1>2. PICK m \in Messages : /\ chan' = [chan EXCEPT ![assoc[t]] = Append(@, m)]
                            /\ m.type = type /\ m.flag = (via[t] = "switchto")
                            /\ m.task = t /\ m.cpu = oncpu[t]
  BY <1>0, <1>1, ReportIsMessage
<1>3. WakeAgent(assoc[t]) /\ assoc[t] \in Cpus
  BY <1>0, <1>1, ReportIsMessage
<1>4. assoc[t] # c
  BY <1>0, <1>3 DEF WakeAgent, Woken, KernelTypeOK
<1>5. ~(via[t] = "txn" /\ oncpu[t] = c)
  <2> SUFFICES ASSUME via[t] = "txn", oncpu[t] = c PROVE FALSE
    OBVIOUS
  <2>1. next[c] = t /\ t # NoTask
    BY FifoAssumption DEF ViewInv, OnCpuOK
  <2>2. t \in known /\ tcpu[t] = c /\ c # NoCpu
    BY <2>1, KernelAssumption DEF Inv, PlaceInv, RunqueueOK, NextIsHeld, Cpus, NoCpu
  <2> QED BY <1>4, <2>2 DEF Inv, OwnerInv, AssociatedToCpu
<1>6. via[next[c]] = "txn" /\ oncpu[next[c]] = c =>
        via'[next[c]] = "txn" /\ oncpu'[next[c]] = c
  BY <1>5
<1>7. ASSUME ChainOn(c) PROVE ChainOn(c)' \/ ChainPing(c)'
  <2>1. PICK u \in Tasks : oncpu[u] = c /\ via[u] = "switchto"
    BY <1>7 DEF ChainOn
  <2>2. CASE u # t
    BY <2>1, <2>2 DEF ChainOn
  <2>3. CASE u = t
    <3>1. Chained(m) /\ m.cpu = c
      BY <1>2, <2>1, <2>3 DEF Chained
    <3>2. m \in Unread'
      BY <1>0, <1>2, <1>3, UnreadAppend DEF fifoVars
    <3> QED BY <3>1, <3>2 DEF ChainPing, Chained
  <2> QED BY <2>2, <2>3
<1> QED BY <1>0, <1>2, <1>3, <1>6, <1>7, ChainStays

LEMMA KernelKeepsChain ==
  ASSUME Inv, ViewInv, UNCHANGED fifoVars, KernelNext,
         NEW c \in Cpus, ast'[c] = "sleeping", pc[c] = "oncpu", ChainOK(c)
  PROVE  ChainOK(c)'
<1>0. /\ TypeInv /\ KernelTypeOK /\ OnCpuOK
      /\ kst \in [Tasks -> {"new", "blocked", "runnable", "dying", "dead", "departed"}]
      /\ via \in [Tasks -> {"none", "txn", "switchto", "leaving"}]
      /\ oncpu \in [Tasks -> Cpus \cup {NoCpu}]
      /\ next[c] \in Tasks /\ next[c] # NoTask
  BY FifoAssumption DEF Inv, ViewInv, TypeInv, TypeOK, KernelTypeOK, ControlOK
<1>1. ASSUME UNCHANGED <<oncpu, via>>,
             \/ chan' = chan
             \/ \E k \in Cpus, m \in Messages : chan' = [chan EXCEPT ![k] = Append(@, m)]
      PROVE  ChainOK(c)'
  <2>1. ChainOn(c) => ChainOn(c)'
    BY <1>1 DEF ChainOn
  <2> QED BY <1>0, <1>1, <2>1, ChainStays
<1>2. ASSUME NEW t \in Tasks, NEW b \in BOOLEAN, KTaskNew(t, b) PROVE ChainOK(c)'
  <2> DEFINE m == [type |-> "TASK_NEW", task |-> t, seq |-> 1, flag |-> b, cpu |-> NoCpu]
  <2>1. m \in Messages
    BY DEF Messages, MsgTypes
  <2>2. UNCHANGED <<oncpu, via>> /\ chan' = [chan EXCEPT ![DefaultCpu] = Append(@, m)]
    BY <1>2 DEF KTaskNew
  <2> HIDE DEF m
  <2> QED BY <1>1, <2>1, <2>2, DefaultIsCpu
<1>3. ASSUME NEW t \in Tasks, NEW b \in BOOLEAN, KWakeup(t, b) PROVE ChainOK(c)'
  <2> DEFINE m == [type |-> "TASK_WAKEUP", task |-> t, seq |-> seq[t] + 1,
                   flag |-> b, cpu |-> NoCpu]
  <2>1. m \in Messages /\ assoc[t] \in Cpus
    BY <1>0 DEF Messages, MsgTypes, KernelTypeOK
  <2>2. UNCHANGED <<oncpu, via>> /\ chan' = [chan EXCEPT ![assoc[t]] = Append(@, m)]
    BY <1>3 DEF KWakeup, Produce
  <2> HIDE DEF m
  <2> QED BY <1>1, <2>1, <2>2
<1>4. ASSUME NEW t \in Tasks, KDead(t) PROVE ChainOK(c)'
  <2>1. UNCHANGED <<oncpu, via>> /\ Report(t, "TASK_DEAD")
    BY <1>4 DEF KDead
  <2>2. PICK m \in Messages : chan' = [chan EXCEPT ![assoc[t]] = Append(@, m)]
    BY <1>0, <2>1, ReportIsMessage DEF MsgTypes
  <2>3. assoc[t] \in Cpus
    BY <1>0 DEF KernelTypeOK
  <2> QED BY <1>1, <2>1, <2>2, <2>3
<1>5. ASSUME NEW t \in Tasks, KBlock(t) \/ KYield(t) \/ KExit(t) \/ KDepart(t)
      PROVE  ChainOK(c)'
  <2>1. /\ \E type \in OffTypes \cup {"TASK_DEPARTED"} : Report(t, type)
        /\ \A u \in Tasks \ {t} : via'[u] = via[u] /\ oncpu'[u] = oncpu[u]
    BY <1>0, <1>5 DEF KBlock, KYield, KExit, KDepart, LeaveCpu, OffTypes
  <2> QED BY <1>0, <2>1, LeaveKeepsChain
<1>6. ASSUME NEW a \in Tasks, NEW b \in Tasks, KSwitchTo(a, b) PROVE ChainOK(c)'
  <2>1. /\ a # b /\ oncpu[b] = NoCpu
        /\ oncpu' = [oncpu EXCEPT ![a] = NoCpu, ![b] = oncpu[a]]
        /\ via' = [via EXCEPT ![a] = "none", ![b] = "switchto"]
    BY <1>6 DEF KSwitchTo
  <2>2. c # NoCpu /\ assoc[a] \in Cpus
    BY <1>0, KernelAssumption DEF Cpus, NoCpu, KernelTypeOK
  <2>3. /\ oncpu'[b] = oncpu[a] /\ via'[b] = "switchto"
        /\ \A u \in Tasks : u # a /\ u # b => oncpu'[u] = oncpu[u] /\ via'[u] = via[u]
    BY <1>0, <2>1
  <2>4. CASE oncpu[a] = c
    <3>1. ChainOn(c)'
      BY <2>3, <2>4 DEF ChainOn
    <3>2. CASE via[a] = "txn"
      <4>1. next[c] = a /\ next' = next
        BY <1>0, <2>4, <3>2 DEF OnCpuOK, fifoVars, localVars
      <4>2. assoc[a] = c
        BY <1>0, <2>2, <4>1 DEF Inv, PlaceInv, RunqueueOK, NextIsHeld, OwnerInv, AssociatedToCpu
      <4> DEFINE m == [type |-> "TASK_SWITCHTO", task |-> a, seq |-> seq[a] + 1,
                       flag |-> FALSE, cpu |-> oncpu[a]]
      <4>3. m \in Messages /\ m.task = a
        BY <1>0 DEF Messages, MsgTypes, KernelTypeOK
      <4>4. chan' = [chan EXCEPT ![c] = Append(@, m)]
        BY <1>6, <3>2, <4>2 DEF KSwitchTo, Produce
      <4> HIDE DEF m
      <4>5. /\ Len(chan[c]) \in Nat /\ Len(chan'[c]) = Len(chan[c]) + 1
            /\ chan'[c][Len(chan[c]) + 1] = m
        BY <1>0, <4>3, <4>4, AppendKeepsHead DEF TypeInv
      <4>6. Len(chan[c]) + 1 \in 1 .. Len(chan'[c])
        BY <4>5
      <4> QED BY <3>1, <4>1, <4>3, <4>5, <4>6 DEF ChainOK
    <3>3. CASE via[a] # "txn"
      <4>1. chan' = chan
        BY <1>6, <3>3 DEF KSwitchTo
      <4>2. via[next[c]] = "txn" /\ oncpu[next[c]] = c => next[c] # a /\ next[c] # b
        BY <2>1, <2>2, <3>3
      <4> QED BY <1>0, <2>3, <3>1, <4>1, <4>2, ChainStays
    <3> QED BY <3>2, <3>3
  <2>5. CASE oncpu[a] # c
    <3>1. \A u \in Tasks : oncpu[u] = c => oncpu'[u] = c /\ via'[u] = via[u]
      BY <2>1, <2>2, <2>3, <2>5
    <3>2. ChainOn(c) => ChainOn(c)'
      BY <3>1 DEF ChainOn
    <3>3. \/ chan' = chan
          \/ \E m \in Messages : chan' = [chan EXCEPT ![assoc[a]] = Append(@, m)]
      <4>1. CASE via[a] = "txn"
        <5> DEFINE m == [type |-> "TASK_SWITCHTO", task |-> a, seq |-> seq[a] + 1,
                         flag |-> FALSE, cpu |-> oncpu[a]]
        <5>1. m \in Messages
          BY <1>0 DEF Messages, MsgTypes, KernelTypeOK
        <5>2. chan' = [chan EXCEPT ![assoc[a]] = Append(@, m)]
          BY <1>6, <4>1 DEF KSwitchTo, Produce
        <5> HIDE DEF m
        <5> QED BY <5>1, <5>2
      <4>2. CASE via[a] # "txn"
        BY <1>6, <4>2 DEF KSwitchTo
      <4> QED BY <4>1, <4>2
    <3> QED BY <1>0, <2>2, <3>1, <3>2, <3>3, ChainStays
  <2> QED BY <2>4, <2>5
<1>7. ASSUME NEW t \in Tasks, KFinishSwitch(t) PROVE ChainOK(c)'
  <2>1. /\ \A u \in Tasks : via[u] \in {"txn", "switchto"} =>
             via'[u] = via[u] /\ oncpu'[u] = oncpu[u]
        /\ chan' = chan
    BY <1>0, <1>7 DEF KFinishSwitch
  <2>2. ChainOn(c) => ChainOn(c)'
    BY <2>1 DEF ChainOn
  <2> QED BY <1>0, <2>1, <2>2, ChainStays
<1>8. ASSUME NEW d \in Cpus, KAgentSwitchIn(d) PROVE ChainOK(c)'
  <2>1. c # d
    BY <1>0, <1>8 DEF KAgentSwitchIn, KernelTypeOK
  <2>2. \A u \in Tasks : oncpu[u] = c => via'[u] = via[u] /\ oncpu'[u] = oncpu[u]
    BY <1>8, <2>1 DEF KAgentSwitchIn
  <2>3. ChainOn(c) => ChainOn(c)'
    BY <2>2 DEF ChainOn
  <2>4. \/ chan' = chan
        \/ \E k \in Cpus, m \in Messages : chan' = [chan EXCEPT ![k] = Append(@, m)]
    <3>1. ASSUME NEW t \in Tasks, Produce(t, "TASK_PREEMPT", TRUE, d)
          PROVE  \E k \in Cpus, m \in Messages : chan' = [chan EXCEPT ![k] = Append(@, m)]
      <4> DEFINE m == [type |-> "TASK_PREEMPT", task |-> t, seq |-> seq[t] + 1,
                       flag |-> TRUE, cpu |-> d]
      <4>1. m \in Messages /\ assoc[t] \in Cpus
        BY <1>0 DEF Messages, MsgTypes, KernelTypeOK
      <4>2. chan' = [chan EXCEPT ![assoc[t]] = Append(@, m)]
        BY <3>1 DEF Produce
      <4> HIDE DEF m
      <4> QED BY <4>1, <4>2
    <3> QED BY <1>8, <3>1 DEF KAgentSwitchIn
  <2> QED BY <1>0, <2>2, <2>3, <2>4, ChainStays
<1>9. ASSUME NEW d \in Cpus, KCfsArrive(d) PROVE ChainOK(c)'
  <2>1. ASSUME NEW t \in Tasks, Report(t, "TASK_PREEMPT"), LeaveCpu(t) PROVE ChainOK(c)'
    <3>1. \A u \in Tasks \ {t} : via'[u] = via[u] /\ oncpu'[u] = oncpu[u]
      BY <1>0, <2>1 DEF LeaveCpu
    <3> QED BY <1>0, <2>1, <3>1, LeaveKeepsChain DEF OffTypes
  <2>2. CASE UNCHANGED <<oncpu, via, seq, chan, agentVars>>
    BY <1>1, <2>2
  <2> QED BY <1>9, <2>1, <2>2 DEF KCfsArrive
<1>10. ASSUME NEW d \in Cpus, KCfsLeave(d) PROVE ChainOK(c)'
  BY <1>1, <1>10 DEF KCfsLeave, taskVars
<1> QED BY <1>2, <1>3, <1>4, <1>5, <1>6, <1>7, <1>8, <1>9, <1>10 DEF KernelNext

LEMMA KernelKeepsWake ==
  ASSUME Inv, ViewInv, WakeInv, KernelStep
  PROVE  WakeInv'
<1> USE DEF fifoVars, fifoTaskVars, cpuVars, localVars
<1>0. /\ TypeInv /\ KernelTypeOK /\ KernelNext /\ UNCHANGED fifoVars
  BY DEF Inv, TypeInv, TypeOK, KernelStep
<1>1. ASSUME NEW c \in Cpus PROVE AgentOK(c)'
  <2>1. KernelWakes(c) /\ AgentOK(c)
    BY <1>0, KernelWakesAll DEF WakeInv
  <2>2. ast'[c] = "sleeping" /\ pc[c] = "oncpu" /\ ChainOK(c) => ChainOK(c)'
    BY <1>0, KernelKeepsChain
  <2>3. (NothingToRun(c) => NothingToRun(c)') /\ (Pinged(c) => Pinged(c)')
    BY <1>0 DEF NothingToRun, Pinged
  <2> QED BY <1>0, <2>1, <2>2, <2>3, OthersKeepAgent DEF KernelWakes
<1>2. InHands'
  <2>1. ASSUME NEW c \in Cpus, pc[c] = "enqueue" PROVE Msg(c)' = Msg(c)
    <3>1. chan[c] # <<>> /\ KernelWakes(c) /\ chan[c] \in Seq(Messages)
      BY <1>0, <2>1, KernelWakesAll DEF TypeInv, ControlOK, Migrating, TypeOK, KernelTypeOK
    <3>2. ASSUME NEW m \in Messages, chan'[c] = Append(chan[c], m)
          PROVE  Head(chan'[c]) = Head(chan[c])
      BY <3>1, <3>2
    <3> QED BY <3>1, <3>2 DEF KernelWakes, Msg
  <2> QED BY <1>0, <2>1 DEF WakeInv, InHands
<1> QED BY <1>1, <1>2 DEF WakeInv
-------------------------------------------------------------------------------
(***************************************************************************)
(* The agents.                                                             *)
(***************************************************************************)

\* What the agent of CPU a may do to the one of CPU c.
LeavesAgent(a, c) ==
  /\ pc'[c] = pc[c] /\ next'[c] = next[c] /\ onIdle'[c] = onIdle[c]
  /\ target'[c] = target[c] /\ chan'[c] = chan[c]
  /\ boosted'[c] = boosted[c] /\ rtla'[c] = rtla[c]
  /\ ast'[c] = "sleeping" => ast[c] = "sleeping"
  /\ ast'[c] # "running" => ast[c] # "running"
  /\ stale[c] => stale'[c]
  /\ NothingToRun(c) => NothingToRun(c)' \/ Pinged(c)'
  /\ pc[a] = "ping" /\ target[a] = c =>
       (pc'[a] = "ping" /\ target'[a] = c) \/ (stale'[c] /\ ast'[c] # "sleeping")
  /\ \A u \in Tasks : oncpu[u] = c => oncpu'[u] = c /\ via'[u] = via[u]

LEMMA StepKeepsWake ==
  ASSUME TypeInv, WakeInv, NEW a \in Cpus,
         \A c \in Cpus \ {a} : LeavesAgent(a, c),
         \A m \in Unread : Chained(m) /\ m.cpu \in Cpus =>
                            m \in Unread' \/ ast'[m.cpu] # "sleeping",
         AgentOK(a)', InHands'
  PROVE  WakeInv'
<1> SUFFICES ASSUME NEW c \in Cpus, c # a PROVE AgentOK(c)'
  BY DEF WakeInv
<1>1. LeavesAgent(a, c) /\ AgentOK(c)
  BY DEF WakeInv
<1>2. Pinged(c) => Pinged(c)' \/ (stale'[c] /\ ast'[c] # "sleeping")
  <2> SUFFICES ASSUME NEW d \in Cpus, pc[d] = "ping", target[d] = c
               PROVE  Pinged(c)' \/ (stale'[c] /\ ast'[c] # "sleeping")
    BY DEF Pinged
  <2>1. CASE d = a
    BY <1>1, <2>1 DEF LeavesAgent, Pinged
  <2>2. CASE d # a
    BY <2>2 DEF LeavesAgent, Pinged
  <2> QED BY <2>1, <2>2
<1>3. ASSUME ast'[c] = "sleeping", pc[c] = "oncpu", ChainOK(c) PROVE ChainOK(c)'
  <2>1. next[c] \in Tasks
    BY <1>3 DEF TypeInv, TypeOK, ControlOK
  <2>2. (ChainOn(c) => ChainOn(c)') /\ (ChainPing(c) => ChainPing(c)')
    BY <1>1, <1>3 DEF LeavesAgent, ChainOn, ChainPing, Chained
  <2> QED BY <1>1, <1>3, <2>1, <2>2 DEF LeavesAgent, ChainOK
<1> QED BY <1>1, <1>2, <1>3, OthersKeepAgent DEF LeavesAgent

\* An agent that is running and has not looked for work yet.
LEMMA AwakeIsOK ==
  ASSUME NEW a \in Cpus, ast'[a] = "running", pc'[a] \notin {"wait", "commit", "yield"}
  PROVE  AgentOK(a)'
  BY DEF AgentOK, SleepsInGhostRun, NothingToRead, BarrierMoves, SleepsBehindTask, SleepsIdle

\* A handler that consumes its message; the last message of a SwitchTo chain
\* makes it ping the agent of the chain's CPU.
LEMMA ConsumeKeepsWake ==
  ASSUME Inv, WakeInv, NEW a \in Cpus, ast[a] = "running",
         pc[a] = "drain", chan[a] # <<>>, NEW m, m = Msg(a), Consume(a),
         UNCHANGED <<taskVars, cfsVars, pc, localVars>>,
         PingChainCpu(m) \/ (~Chained(m) /\ UNCHANGED agentVars),
         \A c \in Cpus \ {a} : rq'[c] = rq[c] /\ current'[c] \in {current[c], NoTask},
         \A u \in Tasks : run_state'[u] = "kRunnable" => run_state[u] = "kRunnable"
  PROVE  WakeInv'
<1> USE DEF taskVars, cfsVars, localVars
<1>0. TypeInv /\ TypeOK /\ KernelTypeOK
  BY DEF Inv, TypeInv, TypeOK
<1>1. \A c \in Cpus \ {a} : chan'[c] = chan[c]
  BY <1>0 DEF Consume, KernelTypeOK
<1>2. /\ rtla' = rtla
      /\ \A c \in Cpus : /\ ast'[c] = "sleeping" => ast[c] = "sleeping"
                         /\ ast'[c] # "running" => ast[c] # "running"
                         /\ stale[c] => stale'[c]
  BY <1>0 DEF PingChainCpu, WakeAgent, Woken, agentVars, KernelTypeOK
<1>3. ASSUME NEW c \in Cpus \ {a} PROVE LeavesAgent(a, c)
  <2>1. NothingToRun(c) => NothingToRun(c)'
    BY <1>3 DEF NothingToRun
  <2> QED BY <1>1, <1>2, <1>3, <2>1 DEF LeavesAgent
<1>4. ASSUME NEW x \in Unread, Chained(x), x.cpu \in Cpus
      PROVE  x \in Unread' \/ ast'[x.cpu] # "sleeping"
  <2>1. x # m => x \in Unread'
    BY UnreadConsume
  <2>2. ASSUME x = m PROVE ast'[x.cpu] # "sleeping"
    <3>1. WakeAgent(m.cpu)
      BY <1>4, <2>2 DEF PingChainCpu, Chained
    <3> QED BY <1>0, <1>4, <2>2, <3>1 DEF WakeAgent, Woken, KernelTypeOK
  <2> QED BY <2>1, <2>2
<1>5. AgentOK(a)'
  BY <1>2, AwakeIsOK
<1>6. InHands'
  <2>1. \A d \in Cpus : pc[d] = "enqueue" => Msg(d)' = Msg(d)
    BY <1>1 DEF Msg
  <2> QED BY <2>1 DEF WakeInv, InHands
<1> QED BY <1>0, <1>3, <1>4, <1>5, <1>6, StepKeepsWake
\* A step that changes nothing, or nothing but `failed'.
LEMMA QuietKeepsWake ==
  ASSUME WakeInv, UNCHANGED <<kernelVars, fifoTaskVars, cpuVars, pc, localVars>>
  PROVE  WakeInv'
<1> USE DEF kernelVars, taskVars, agentVars, cfsVars, fifoTaskVars, cpuVars, localVars
<1>1. Unread' = Unread
  BY UnreadSame
<1>2. ASSUME NEW c \in Cpus PROVE AgentOK(c)'
  <2>1. AgentOK(c)
    BY DEF WakeInv
  <2>2. ChainOK(c)' <=> ChainOK(c)
    BY <1>1 DEF ChainOK, ChainOn, ChainPing, Chained
  <2> QED BY <2>1, <2>2 DEF AgentOK, SleepsInGhostRun, NothingToRead, BarrierMoves,
            SleepsBehindTask, SleepsIdle, NothingToRun, Pinged
<1>3. InHands'
  BY DEF WakeInv, InHands, Msg
<1> QED BY <1>2, <1>3 DEF WakeInv

LEMMA AbortKeepsWake ==
  ASSUME WakeInv, NEW h, NEW t, Abort(h, t)
  PROVE  WakeInv'
  BY QuietKeepsWake DEF Abort

\* Migrate takes its message.
LEMMA MigrateKeepsWake ==
  ASSUME Inv, WakeInv, NEW a \in Cpus, ast[a] = "running",
         pc[a] = "drain", chan[a] # <<>>, NEW m, m = Msg(a),
         m.type \in {"TASK_NEW", "TASK_WAKEUP"},
         run_state' = [run_state EXCEPT ![m.task] = "kRunnable"],
         AssignAndAssociate(a, m.task),
         UNCHANGED <<taskVars, chan, agentVars, cfsVars, cpuVars, next, onIdle>>
  PROVE  WakeInv'
<1> USE DEF taskVars, agentVars, cfsVars, cpuVars
<1>0. TypeInv /\ TypeOK /\ m.task \in Tasks
  BY MsgTypeOK DEF Inv, TypeInv
<1>1. /\ pc' = [pc EXCEPT ![a] = "enqueue"] /\ pc'[a] = "enqueue"
      /\ \A c \in Cpus \ {a} : pc'[c] = pc[c] /\ target'[c] = target[c]
  BY <1>0 DEF AssignAndAssociate, Goto, TypeOK
<1>2. ASSUME NEW c \in Cpus \ {a} PROVE LeavesAgent(a, c)
  <2>1. NothingToRun(c) => NothingToRun(c)'
    BY DEF NothingToRun
  <2> QED BY <1>1, <1>2, <2>1 DEF LeavesAgent
<1>3. ASSUME NEW x \in Unread, Chained(x) PROVE x \in Unread'
  <2>1. x # m
    BY <1>3 DEF Chained, OffTypes
  <2> QED BY <1>1, <2>1, UnreadMigrate
<1>4. AgentOK(a)'
  BY <1>1, AwakeIsOK
<1>5. InHands'
  <2> SUFFICES ASSUME NEW u \in Tasks, run_state'[u] = "kRunnable"
               PROVE  \E d \in Cpus : next'[d] = u \/ (pc'[d] = "enqueue" /\ Msg(d)'.task = u)
    BY DEF InHands
  <2>1. Msg(a)' = m
    BY DEF Msg
  <2>2. CASE u = m.task
    BY <1>1, <2>1, <2>2
  <2>3. CASE u # m.task
    <3>1. run_state[u] = "kRunnable"
      BY <1>0, <2>3 DEF TypeOK
    <3>2. PICK d \in Cpus : next[d] = u \/ (pc[d] = "enqueue" /\ Msg(d).task = u)
      BY <3>1 DEF WakeInv, InHands
    <3>3. pc[d] = "enqueue" => pc'[d] = "enqueue" /\ Msg(d)' = Msg(d)
      BY <1>1 DEF Msg
    <3> QED BY <3>2, <3>3
  <2> QED BY <2>2, <2>3
<1> QED BY <1>0, <1>2, <1>3, <1>4, <1>5, StepKeepsWake

LEMMA HandlersKeepWake ==
  ASSUME Inv, ViewInv, WakeInv, NEW a \in Cpus, Handler(a)
  PROVE  WakeInv'
<1>1. pc[a] = "drain" /\ chan[a] # <<>> /\ ast[a] = "running"
  BY DEF Handler, IgnoreMessage, TaskNewBlocked, TaskNewRunnable, TaskRunnableMigrate,
         TaskRunnableEnqueue, TaskBlocked, TaskSwitchto, TaskYield, TaskPreempted,
         TaskDead, TaskDeparted, Dispatching, At
<1>2. PICK m : m = Msg(a)
  OBVIOUS
<1>3. PICK t : t = m.task
  OBVIOUS
<1>4. t \in Tasks /\ m \in Messages /\ MessageOK(t, m) /\ MayBeNext(t, m)
  BY <1>1, <1>2, <1>3, HeadIsNext
<1>5. /\ TypeInv /\ TypeOK /\ run_state \in [Tasks -> RunStates]
      /\ rq \in [Cpus -> Seq(Tasks)] /\ current \in [Cpus -> Tasks \cup {NoTask}]
      /\ tcpu[t] \in {a, NoCpu} /\ NoCpu \notin Cpus
  <2>1. tcpu[t] \in {a, NoCpu}
    BY <1>1, <1>2, <1>3, HandlerOwnsTask
  <2>2. NoCpu \notin Cpus
    BY KernelAssumption DEF Cpus, NoCpu
  <2> QED BY <2>1, <2>2 DEF Inv, TypeInv, TypeOK
<1>6. \A s, c : c \in Cpus \ {a} => [rq EXCEPT ![tcpu[t]] = s][c] = rq[c]
  BY <1>5
<1>7. CASE IgnoreMessage(a)
  BY <1>2, <1>3, <1>4, <1>7 DEF IgnoreMessage, MayBeNext
<1>8. CASE TaskNewBlocked(a)
  <2>1. /\ m.type = "TASK_NEW" /\ Consume(a)
        /\ UNCHANGED <<taskVars, agentVars, cfsVars, run_state, cpuVars, pc, localVars>>
    BY <1>2, <1>8 DEF TaskNewBlocked, Dispatching
  <2>2. ~Chained(m)
    BY <2>1 DEF Chained, OffTypes
  <2> QED BY <1>1, <1>2, <2>1, <2>2, ConsumeKeepsWake DEF cpuVars
<1>9. CASE TaskNewRunnable(a)
  <2>1. CASE Abort("Migrate", m.task)
    BY <2>1, AbortKeepsWake
  <2>2. CASE ~Abort("Migrate", m.task)
    <3>1. /\ m.type = "TASK_NEW" /\ run_state' = [run_state EXCEPT ![m.task] = "kRunnable"]
          /\ AssignAndAssociate(a, m.task)
          /\ UNCHANGED <<taskVars, chan, agentVars, cfsVars, cpuVars, next, onIdle>>
      BY <1>2, <1>9, <2>2 DEF TaskNewRunnable, Dispatching
    <3> QED BY <1>1, <1>2, <3>1, MigrateKeepsWake
  <2> QED BY <2>1, <2>2
<1>10. CASE TaskRunnableMigrate(a)
  <2>1. CASE \E h \in {"Migrate", "TaskRunnable"} : Abort(h, m.task)
    BY <2>1, AbortKeepsWake
  <2>2. CASE ~\E h \in {"Migrate", "TaskRunnable"} : Abort(h, m.task)
    <3>1. /\ m.type = "TASK_WAKEUP" /\ run_state' = [run_state EXCEPT ![m.task] = "kRunnable"]
          /\ AssignAndAssociate(a, m.task)
          /\ UNCHANGED <<taskVars, chan, agentVars, cfsVars, cpuVars, next, onIdle>>
      BY <1>2, <1>10, <2>2 DEF TaskRunnableMigrate, Dispatching
    <3> QED BY <1>1, <1>2, <3>1, MigrateKeepsWake
  <2> QED BY <2>1, <2>2
<1>11. CASE TaskRunnableEnqueue(a)
  <2>1. CASE \E h \in {"Advance", "TaskRunnable"} : Abort(h, t)
    BY <2>1, AbortKeepsWake
  <2>2. CASE ~\E h \in {"Advance", "TaskRunnable"} : Abort(h, t)
    <3>1. /\ m.type = "TASK_WAKEUP" /\ run_state' = [run_state EXCEPT ![t] = "kQueued"]
          /\ rq' = [rq EXCEPT ![tcpu[t]] = Pushed(@, t, ~m.flag)] /\ Consume(a)
          /\ UNCHANGED <<taskVars, agentVars, cfsVars, current, pc, localVars>>
      BY <1>2, <1>3, <1>11, <2>2 DEF TaskRunnableEnqueue, Dispatching
    <3>2. ~Chained(m)
      BY <3>1 DEF Chained, OffTypes
    <3>3. /\ \A c \in Cpus \ {a} : rq'[c] = rq[c] /\ current'[c] \in {current[c], NoTask}
          /\ \A u \in Tasks : run_state'[u] = "kRunnable" => run_state[u] = "kRunnable"
      BY <1>4, <1>5, <1>6, <3>1
    <3> QED BY <1>1, <1>2, <3>1, <3>2, <3>3, ConsumeKeepsWake
  <2> QED BY <2>1, <2>2
<1>12. \A c \in Cpus : ClearCurrent(t) => current'[c] \in {current[c], NoTask}
  BY <1>5 DEF ClearCurrent
<1>13. ASSUME NEW s \in {"kBlocked", "kQueued"}, OffCpu(a, s),
              PingChainCpu(m) \/ (~Chained(m) /\ UNCHANGED agentVars),
              \A c \in Cpus \ {a} : rq'[c] = rq[c]
       PROVE  WakeInv'
  <2>1. /\ run_state' = [run_state EXCEPT ![t] = s] /\ Consume(a) /\ ClearCurrent(t)
        /\ UNCHANGED <<taskVars, cfsVars, pc, localVars>>
    BY <1>2, <1>3, <1>13 DEF OffCpu
  <2>2. \A u \in Tasks : run_state'[u] = "kRunnable" => run_state[u] = "kRunnable"
    BY <1>4, <1>5, <2>1
  <2> QED BY <1>1, <1>2, <1>12, <1>13, <2>1, <2>2, ConsumeKeepsWake
<1>14. CASE TaskBlocked(a)
  <2>1. \/ Abort("TaskBlocked", t)
        \/ OffCpu(a, "kBlocked") /\ PingChainCpu(m) /\ rq' = rq
    BY <1>2, <1>3, <1>14 DEF TaskBlocked
  <2> QED BY <1>13, <2>1, AbortKeepsWake
<1>15. CASE TaskSwitchto(a)
  <2>1. \/ Abort("TaskSwitchto", t)
        \/ OffCpu(a, "kBlocked") /\ UNCHANGED agentVars /\ rq' = rq
    BY <1>2, <1>3, <1>15 DEF TaskSwitchto
  <2>2. ~Chained(m)
    <3>1. m.type = "TASK_SWITCHTO"
      BY <1>2, <1>15 DEF TaskSwitchto, Dispatching
    <3> QED BY <1>4, <3>1 DEF MessageOK, Chained
  <2> QED BY <1>13, <2>1, <2>2, AbortKeepsWake
<1>16. CASE TaskYield(a)
  <2>1. \/ Abort("TaskYield", t)
        \/ /\ OffCpu(a, "kQueued") /\ PingChainCpu(m)
           /\ rq' = [rq EXCEPT ![tcpu[t]] = Pushed(@, t, prio_boost[t])]
    BY <1>2, <1>3, <1>16 DEF TaskYield
  <2>2. rq' = [rq EXCEPT ![tcpu[t]] = Pushed(@, t, prio_boost[t])] =>
          \A c \in Cpus \ {a} : rq'[c] = rq[c]
    BY <1>6
  <2> QED BY <1>13, <2>1, <2>2, AbortKeepsWake
<1>17. CASE TaskPreempted(a)
  <2>1. \/ Abort("TaskPreempted", t)
        \/ /\ OffCpu(a, "kQueued") /\ PingChainCpu(m)
           /\ rq' = [rq EXCEPT ![tcpu[t]] = Pushed(@, t, TRUE)]
    BY <1>2, <1>3, <1>17 DEF TaskPreempted
  <2>2. rq' = [rq EXCEPT ![tcpu[t]] = Pushed(@, t, TRUE)] =>
          \A c \in Cpus \ {a} : rq'[c] = rq[c]
    BY <1>6
  <2> QED BY <1>13, <2>1, <2>2, AbortKeepsWake
<1>18. FreeTask(t) =>
         \A u \in Tasks : run_state'[u] = "kRunnable" => run_state[u] = "kRunnable"
  BY <1>4, <1>5 DEF FreeTask
<1>19. CASE TaskDead(a)
  <2>1. CASE Abort("TaskDead", t)
    BY <2>1, AbortKeepsWake
  <2>2. CASE ~Abort("TaskDead", t)
    <3>1. /\ m.type = "TASK_DEAD" /\ FreeTask(t) /\ Consume(a)
          /\ UNCHANGED <<taskVars, agentVars, cfsVars, cpuVars, pc, localVars>>
      BY <1>2, <1>3, <1>19, <2>2 DEF TaskDead, Dispatching
    <3>2. ~Chained(m)
      BY <3>1 DEF Chained, OffTypes
    <3> QED BY <1>1, <1>2, <1>18, <3>1, <3>2, ConsumeKeepsWake DEF cpuVars
  <2> QED BY <2>1, <2>2
<1>20. CASE TaskDeparted(a)
  <2>1. CASE Abort("TaskDeparted", t)
    BY <2>1, AbortKeepsWake
  <2>2. CASE ~Abort("TaskDeparted", t)
    <3>1. /\ FreeTask(t) /\ Consume(a) /\ PingChainCpu(m)
          /\ UNCHANGED <<taskVars, cfsVars, pc, localVars>>
          /\ ClearCurrent(t) \/ UNCHANGED current
          /\ rq' = [rq EXCEPT ![tcpu[t]] = Erased(@, t)] \/ UNCHANGED rq
      BY <1>2, <1>3, <1>20, <2>2 DEF TaskDeparted
    <3>2. \A c \in Cpus \ {a} : rq'[c] = rq[c] /\ current'[c] \in {current[c], NoTask}
      BY <1>6, <1>12, <3>1
    <3> QED BY <1>1, <1>2, <1>18, <3>1, <3>2, ConsumeKeepsWake
  <2> QED BY <2>1, <2>2
<1> QED BY <1>7, <1>8, <1>9, <1>10, <1>11, <1>14, <1>15, <1>16, <1>17, <1>19, <1>20
        DEF Handler
LEMMA MigrateEnqueueKeepsWake ==
  ASSUME Inv, WakeInv, NEW a \in Cpus, MigrateEnqueue(a)
  PROVE  WakeInv'
<1>0. TypeInv /\ TypeOK
  BY DEF Inv, TypeInv
<1>1. PICK t : t = Msg(a).task
  OBVIOUS
<1>2. CASE \E h \in Checks : Abort(h, t)
  BY <1>2, AbortKeepsWake
<1>3. CASE ~\E h \in Checks : Abort(h, t)
  <2>1. /\ pc[a] = "enqueue" /\ ast[a] = "running"
        /\ run_state' = [run_state EXCEPT ![t] = "kQueued"]
        /\ rq' = [rq EXCEPT ![target[a]] = Pushed(@, t, prio_boost[t])]
        /\ pc' = [pc EXCEPT ![a] = "ping"]
        /\ UNCHANGED <<kernelVars, current, localVars>>
    BY <1>1, <1>3 DEF MigrateEnqueue, At, Goto, Checks
  <2>2. t \in Tasks
    BY <1>0, <1>1, <2>1, MsgTypeOK DEF TypeInv, ControlOK, Migrating
  <2>3. pc'[a] = "ping" /\ \A c \in Cpus \ {a} : pc'[c] = pc[c]
    BY <1>0, <2>1 DEF TypeOK
  <2> USE DEF kernelVars, taskVars, agentVars, cfsVars, localVars
  <2>4. ASSUME NEW c \in Cpus \ {a} PROVE LeavesAgent(a, c)
    <3>1. NothingToRun(c) => NothingToRun(c)' \/ Pinged(c)'
      <4>1. CASE c = target[a]
        BY <2>1, <2>3, <4>1 DEF Pinged
      <4>2. CASE c # target[a]
        <5>1. rq'[c] = rq[c]
          BY <1>0, <2>1, <4>2 DEF TypeOK
        <5> QED BY <2>1, <5>1 DEF NothingToRun
      <4> QED BY <4>1, <4>2
    <3> QED BY <2>1, <2>3, <2>4, <3>1 DEF LeavesAgent
  <2>5. Unread' = Unread
    <3>1. \A c \in Cpus : pc'[c] \in Migrating <=> pc[c] \in Migrating
      BY <2>1, <2>3 DEF Migrating
    <3> QED BY <2>1, <3>1, UnreadSame
  <2>6. AgentOK(a)'
    BY <2>1, <2>3, AwakeIsOK
  <2>7. InHands'
    <3> SUFFICES ASSUME NEW u \in Tasks, run_state'[u] = "kRunnable"
                 PROVE  \E d \in Cpus : next'[d] = u \/ (pc'[d] = "enqueue" /\ Msg(d)'.task = u)
      BY DEF InHands
    <3>1. u # t /\ run_state[u] = "kRunnable"
      BY <1>0, <2>1, <2>2 DEF TypeOK
    <3>2. PICK d \in Cpus : next[d] = u \/ (pc[d] = "enqueue" /\ Msg(d).task = u)
      BY <3>1 DEF WakeInv, InHands
    <3>3. pc[d] = "enqueue" /\ Msg(d).task = u => pc'[d] = "enqueue" /\ Msg(d)' = Msg(d)
      BY <1>1, <2>1, <2>3, <3>1 DEF Msg
    <3> QED BY <2>1, <3>2, <3>3
  <2> QED BY <1>0, <2>4, <2>5, <2>6, <2>7, StepKeepsWake
<1> QED BY <1>2, <1>3

LEMMA MigratePingKeepsWake ==
  ASSUME Inv, WakeInv, NEW a \in Cpus, MigratePing(a)
  PROVE  WakeInv'
<1>0. TypeInv /\ TypeOK /\ KernelTypeOK
  BY DEF Inv, TypeInv, TypeOK
<1>1. /\ pc[a] = "ping" /\ ast[a] = "running" /\ WakeAgent(target[a])
      /\ pc' = [pc EXCEPT ![a] = "advance"]
      /\ UNCHANGED <<taskVars, chan, cfsVars, fifoTaskVars, cpuVars, localVars>>
  BY DEF MigratePing, At, Goto
<1>2. pc'[a] = "advance" /\ \A c \in Cpus \ {a} : pc'[c] = pc[c]
  BY <1>0, <1>1 DEF TypeOK
<1> USE DEF taskVars, cfsVars, fifoTaskVars, cpuVars, localVars
<1>3. /\ rtla' = rtla /\ ast'[a] = "running"
      /\ \A c \in Cpus : /\ ast'[c] = "sleeping" => ast[c] = "sleeping"
                         /\ ast'[c] # "running" => ast[c] # "running"
                         /\ stale[c] => stale'[c]
                         /\ c = target[a] => ast'[c] # "sleeping" /\ stale'[c]
  BY <1>0, <1>1 DEF WakeAgent, Woken, KernelTypeOK
<1>4. ASSUME NEW c \in Cpus \ {a} PROVE LeavesAgent(a, c)
  <2>1. NothingToRun(c) => NothingToRun(c)'
    BY <1>1 DEF NothingToRun
  <2> QED BY <1>1, <1>2, <1>3, <1>4, <2>1 DEF LeavesAgent
<1>5. Unread' = Unread
  <2>1. \A c \in Cpus : pc'[c] \in Migrating <=> pc[c] \in Migrating
    BY <1>1, <1>2 DEF Migrating
  <2> QED BY <1>1, <2>1, UnreadSame
<1>6. AgentOK(a)'
  BY <1>2, <1>3, AwakeIsOK
<1>7. InHands'
  <2>1. \A d \in Cpus : pc[d] = "enqueue" => pc'[d] = "enqueue" /\ Msg(d)' = Msg(d)
    BY <1>1, <1>2 DEF Msg
  <2> QED BY <1>1, <2>1 DEF WakeInv, InHands
<1> QED BY <1>0, <1>4, <1>5, <1>6, <1>7, StepKeepsWake

LEMMA AdvanceMigratedKeepsWake ==
  ASSUME Inv, WakeInv, NEW a \in Cpus, AdvanceMigrated(a)
  PROVE  WakeInv'
<1>0. TypeInv /\ TypeOK /\ KernelTypeOK
  BY DEF Inv, TypeInv, TypeOK
<1>1. CASE \E h \in Checks : Abort(h, Msg(a).task)
  BY <1>1, AbortKeepsWake
<1>2. CASE ~\E h \in Checks : Abort(h, Msg(a).task)
  <2>1. /\ pc[a] = "advance" /\ ast[a] = "running" /\ Consume(a)
        /\ target' = [target EXCEPT ![a] = NoCpu] /\ pc' = [pc EXCEPT ![a] = "drain"]
        /\ UNCHANGED <<taskVars, agentVars, cfsVars, run_state, cpuVars, next, onIdle>>
    BY <1>2 DEF AdvanceMigrated, At, Goto, Checks
  <2>2. /\ pc'[a] = "drain" /\ chan[a] # <<>>
        /\ \A c \in Cpus \ {a} : /\ pc'[c] = pc[c] /\ target'[c] = target[c]
                                 /\ chan'[c] = chan[c]
    BY <1>0, <2>1 DEF TypeOK, KernelTypeOK, TypeInv, ControlOK, Migrating, Consume
  <2> USE DEF taskVars, agentVars, cfsVars, cpuVars
  <2>3. ASSUME NEW c \in Cpus \ {a} PROVE LeavesAgent(a, c)
    <3>1. NothingToRun(c) => NothingToRun(c)'
      BY <2>1 DEF NothingToRun
    <3> QED BY <2>1, <2>2, <2>3, <3>1 DEF LeavesAgent
  <2>4. \A x : x \in Unread => x \in Unread'
    BY <2>1, <2>2, UnreadAdvance
  <2>5. AgentOK(a)'
    BY <2>1, <2>2, AwakeIsOK
  <2>6. InHands'
    <3>1. \A d \in Cpus : pc[d] = "enqueue" => pc'[d] = "enqueue" /\ Msg(d)' = Msg(d)
      BY <2>1, <2>2 DEF Msg
    <3> QED BY <2>1, <3>1 DEF WakeInv, InHands
  <2> QED BY <1>0, <2>3, <2>4, <2>5, <2>6, StepKeepsWake
<1> QED BY <1>1, <1>2

\* A step of agent a outside the handlers and Migrate, which touches no run
\* queue but its own.
LEMMA ScheduleKeepsWake ==
  ASSUME Inv, WakeInv, NEW a \in Cpus, NEW l,
         pc[a] \notin Migrating, l \notin Migrating, pc' = [pc EXCEPT ![a] = l],
         UNCHANGED <<chan, target, boosted>>,
         \A c \in Cpus \ {a} :
           /\ next'[c] = next[c] /\ onIdle'[c] = onIdle[c]
           /\ ast'[c] = ast[c] /\ stale'[c] = stale[c] /\ rtla'[c] = rtla[c]
           /\ current'[c] = current[c] /\ rq'[c] = rq[c]
           /\ \A u \in Tasks : oncpu[u] = c => oncpu'[u] = c /\ via'[u] = via[u],
         AgentOK(a)',
         \A u \in Tasks : run_state'[u] = "kRunnable" =>
           next'[a] = u \/ (run_state[u] = "kRunnable" /\ next[a] # u)
  PROVE  WakeInv'
<1>0. TypeInv /\ TypeOK
  BY DEF Inv, TypeInv
<1>1. pc'[a] = l /\ \A c \in Cpus \ {a} : pc'[c] = pc[c]
  BY <1>0 DEF TypeOK
<1>2. ASSUME NEW c \in Cpus \ {a} PROVE LeavesAgent(a, c)
  <2>1. NothingToRun(c) => NothingToRun(c)'
    BY DEF NothingToRun
  <2>2. pc[a] # "ping"
    BY DEF Migrating
  <2> QED BY <1>1, <1>2, <2>1, <2>2 DEF LeavesAgent
<1>3. Unread' = Unread
  <2>1. \A c \in Cpus : pc'[c] \in Migrating <=> pc[c] \in Migrating
    BY <1>1
  <2> QED BY <2>1, UnreadSame
<1>4. InHands'
  <2> SUFFICES ASSUME NEW u \in Tasks, run_state'[u] = "kRunnable", next'[a] # u
               PROVE  \E d \in Cpus : next'[d] = u \/ (pc'[d] = "enqueue" /\ Msg(d)'.task = u)
    BY DEF InHands
  <2>1. PICK d \in Cpus : next[d] = u \/ (pc[d] = "enqueue" /\ Msg(d).task = u)
    BY DEF WakeInv, InHands
  <2>2. d # a
    BY <2>1 DEF Migrating
  <2> QED BY <1>1, <2>1, <2>2 DEF Msg
<1> QED BY <1>0, <1>2, <1>3, <1>4, StepKeepsWake
LEMMA PickNextKeepsWake ==
  ASSUME Inv, WakeInv, NEW a \in Cpus, PickNext(a)
  PROVE  WakeInv'
<1>0. TypeInv /\ TypeOK /\ KernelTypeOK
  BY DEF Inv, TypeInv, TypeOK
<1>1. /\ pc[a] = "drain" /\ ast[a] = "running" /\ chan[a] = <<>>
      /\ UNCHANGED <<kernelVars, current, target>>
      /\ next[a] = NoTask
  BY <1>0 DEF PickNext, At, TypeInv, ControlOK
<1> USE DEF kernelVars, taskVars, agentVars, cfsVars
<1>2. \A c \in Cpus \ {a} : \A u \in Tasks : oncpu[u] = c => oncpu'[u] = c /\ via'[u] = via[u]
  BY <1>1
<1>3. ASSUME pc' = [pc EXCEPT ![a] = "wait"] PROVE AgentOK(a)'
  <2>1. pc'[a] = "wait"
    BY <1>0, <1>3 DEF TypeOK
  <2> QED BY <1>1, <2>1 DEF AgentOK, SleepsInGhostRun, NothingToRead, BarrierMoves,
                            SleepsBehindTask, SleepsIdle
<1>4. CASE /\ next' = [next EXCEPT ![a] = current[a]] /\ Goto(a, "wait")
           /\ UNCHANGED <<run_state, rq, onIdle>>
  <2>1. pc' = [pc EXCEPT ![a] = "wait"] /\ \A c \in Cpus \ {a} : next'[c] = next[c]
    BY <1>0, <1>4 DEF Goto, TypeOK
  <2>2. \A u \in Tasks : next[a] # u
    BY <1>1, FifoAssumption
  <2> QED BY <1>1, <1>2, <1>3, <1>4, <2>1, <2>2, ScheduleKeepsWake DEF Migrating
<1>5. CASE /\ rq[a] # <<>> /\ next' = [next EXCEPT ![a] = Head(rq[a])]
           /\ run_state' = [run_state EXCEPT ![Head(rq[a])] = "kRunnable"]
           /\ rq' = [rq EXCEPT ![a] = Tail(@)] /\ Goto(a, "wait") /\ UNCHANGED onIdle
  <2>1. Head(rq[a]) \in Tasks
    BY <1>0, <1>5 DEF TypeOK
  <2>2. /\ pc' = [pc EXCEPT ![a] = "wait"] /\ next'[a] = Head(rq[a])
        /\ \A c \in Cpus \ {a} : next'[c] = next[c] /\ rq'[c] = rq[c]
        /\ \A u \in Tasks : u # Head(rq[a]) => run_state'[u] = run_state[u]
    BY <1>0, <1>5, <2>1 DEF Goto, TypeOK
  <2>3. \A u \in Tasks : run_state'[u] = "kRunnable" =>
          next'[a] = u \/ (run_state[u] = "kRunnable" /\ next[a] # u)
    BY <1>1, <2>2, FifoAssumption
  <2> QED BY <1>1, <1>2, <1>3, <1>5, <2>2, <2>3, ScheduleKeepsWake DEF Migrating
<1>6. CASE UNCHANGED <<next, run_state, rq, pc, onIdle>>
  <2>1. pc' = [pc EXCEPT ![a] = "drain"]
    BY <1>0, <1>1, <1>6 DEF TypeOK
  <2>2. AgentOK(a)'
    BY <1>1, <1>6, AwakeIsOK
  <2>3. \A u \in Tasks : next[a] # u
    BY <1>1, FifoAssumption
  <2> QED BY <1>1, <1>2, <1>6, <2>1, <2>2, <2>3, ScheduleKeepsWake DEF Migrating
<1>7. CASE /\ boosted[a] \/ (current[a] = NoTask /\ rq[a] = <<>>)
           /\ onIdle' = [onIdle EXCEPT ![a] =
                           boosted[a] /\ (current[a] # NoTask \/ rq[a] # <<>>)]
           /\ Goto(a, "yield") /\ UNCHANGED <<next, run_state, rq>>
  <2>1. /\ pc' = [pc EXCEPT ![a] = "yield"] /\ pc'[a] = "yield"
        /\ onIdle'[a] = (boosted[a] /\ (current[a] # NoTask \/ rq[a] # <<>>))
        /\ \A c \in Cpus \ {a} : onIdle'[c] = onIdle[c]
    BY <1>0, <1>7 DEF Goto, TypeOK
  <2>2. ~onIdle'[a] => NothingToRun(a)'
    BY <1>1, <1>7, <2>1 DEF NothingToRun
  <2>3. AgentOK(a)'
    BY <1>1, <2>1, <2>2 DEF AgentOK, SleepsInGhostRun, NothingToRead, BarrierMoves,
                            SleepsBehindTask, SleepsIdle
  <2>4. \A u \in Tasks : next[a] # u
    BY <1>1, FifoAssumption
  <2> QED BY <1>1, <1>2, <1>7, <2>1, <2>3, <2>4, ScheduleKeepsWake DEF Migrating
<1> QED BY <1>4, <1>5, <1>6, <1>7 DEF PickNext

LEMMA CommitTxnKeepsWake ==
  ASSUME Inv, WakeInv, NEW a \in Cpus, CommitTxn(a)
  PROVE  WakeInv'
<1>0. TypeInv /\ TypeOK /\ KernelTypeOK
  BY DEF Inv, TypeInv, TypeOK
<1>1. PICK t : t = next[a]
  OBVIOUS
<1>2. /\ pc[a] = "commit" /\ ast[a] = "running" /\ t \in Tasks /\ AgentOK(a)
  BY <1>0, <1>1 DEF CommitTxn, At, TypeInv, TypeOK, ControlOK, WakeInv
<1>3. CASE Abort("CompleteRunRequest", t)
  BY <1>3, AbortKeepsWake
<1>4. CASE /\ TxnState(a, t, seqnum[t]) = "COMPLETE" /\ RunTask(a, t) /\ Goto(a, "oncpu")
           /\ UNCHANGED <<chan, stale, rtla, cfsVars, fifoTaskVars, cpuVars, localVars>>
  <2> USE DEF cfsVars, fifoTaskVars, cpuVars, localVars
  <2>1. oncpu[t] = NoCpu /\ ~stale[a] /\ NoCpu \notin Cpus
    BY <1>4, KernelAssumption DEF TxnState, Cpus, NoCpu
  <2>2. /\ pc' = [pc EXCEPT ![a] = "oncpu"] /\ pc'[a] = "oncpu" /\ ast'[a] = "sleeping"
        /\ \A c \in Cpus \ {a} : ast'[c] = ast[c]
        /\ oncpu'[t] = a /\ via'[t] = "txn"
        /\ \A u \in Tasks : u # t => oncpu'[u] = oncpu[u] /\ via'[u] = via[u]
    BY <1>0, <1>2, <1>4 DEF RunTask, Goto, TypeOK, KernelTypeOK
  <2>3. chan'[a] = <<>>
    BY <1>2, <1>4, <2>1 DEF AgentOK, BarrierMoves
  <2>4. AgentOK(a)'
    <3>1. ChainOK(a)'
      BY <1>1, <1>4, <2>2 DEF ChainOK
    <3> QED BY <2>2, <2>3, <3>1 DEF AgentOK, SleepsInGhostRun, NothingToRead, BarrierMoves,
                                    SleepsBehindTask, SleepsIdle
  <2>5. \A c \in Cpus \ {a} : \A u \in Tasks : oncpu[u] = c => oncpu'[u] = c /\ via'[u] = via[u]
    BY <2>1, <2>2
  <2> QED BY <1>1, <1>2, <1>4, <2>2, <2>4, <2>5, ScheduleKeepsWake DEF Migrating
<1>5. CASE /\ current' = [current EXCEPT ![a] = IF @ = t THEN NoTask ELSE @]
           /\ run_state' = [run_state EXCEPT ![t] = "kQueued"]
           /\ rq' = [rq EXCEPT ![a] = Pushed(@, t, TRUE)]
           /\ next' = [next EXCEPT ![a] = NoTask]
           /\ Goto(a, "top")
           /\ UNCHANGED <<kernelVars, target, onIdle>>
  <2> USE DEF kernelVars, taskVars, agentVars, cfsVars
  <2>1. /\ pc' = [pc EXCEPT ![a] = "top"] /\ pc'[a] = "top"
        /\ \A c \in Cpus \ {a} : /\ current'[c] = current[c] /\ rq'[c] = rq[c]
                                 /\ next'[c] = next[c]
        /\ \A u \in Tasks : run_state'[u] = "kRunnable" => run_state[u] = "kRunnable" /\ u # t
    BY <1>0, <1>2, <1>5 DEF Goto, TypeOK
  <2>2. AgentOK(a)'
    BY <1>2, <1>5, <2>1, AwakeIsOK
  <2> QED BY <1>1, <1>2, <1>5, <2>1, <2>2, ScheduleKeepsWake DEF Migrating
<1> QED BY <1>1, <1>3, <1>4, <1>5 DEF CommitTxn

LEMMA LocalYieldKeepsWake ==
  ASSUME Inv, WakeInv, NEW a \in Cpus, LocalYield(a)
  PROVE  WakeInv'
<1>0. TypeInv /\ TypeOK /\ KernelTypeOK
  BY DEF Inv, TypeInv, TypeOK
<1>1. /\ pc[a] = "yield" /\ ast[a] = "running" /\ AgentOK(a) /\ next[a] = NoTask
      /\ pc' = [pc EXCEPT ![a] = "top"] /\ onIdle' = [onIdle EXCEPT ![a] = FALSE]
      /\ UNCHANGED <<taskVars, chan, stale, cfsVars, fifoTaskVars, cpuVars, next, target>>
  BY <1>0 DEF LocalYield, At, Goto, WakeInv, TypeInv, ControlOK
<1> USE DEF taskVars, cfsVars, fifoTaskVars, cpuVars
<1>2. /\ pc'[a] = "top" /\ \A c \in Cpus \ {a} : pc'[c] = pc[c] /\ onIdle'[c] = onIdle[c]
  BY <1>0, <1>1 DEF TypeOK
<1>3. AgentOK(a)' /\ \A c \in Cpus \ {a} : ast'[c] = ast[c] /\ rtla'[c] = rtla[c]
  <2>1. CASE UNCHANGED <<ast, rtla>>
    BY <1>1, <1>2, <2>1, AwakeIsOK
  <2>2. CASE ~stale[a] /\ BlockAgent(a, onIdle[a])
    <3>1. /\ \A c \in Cpus \ {a} : ast'[c] = ast[c] /\ rtla'[c] = rtla[c]
          /\ ast'[a] = "sleeping" => (onIdle[a] => boosted[a]) /\ rtla'[a] = onIdle[a]
      BY <1>0, <2>2 DEF BlockAgent, KernelTypeOK
    <3>2. chan'[a] = <<>>
      BY <1>1, <2>2 DEF AgentOK, BarrierMoves
    <3>3. ~onIdle[a] => NothingToRun(a)' \/ Pinged(a)'
      <4>1. ~onIdle[a] => NothingToRun(a) \/ Pinged(a)
        BY <1>1, <2>2 DEF AgentOK, SleepsIdle
      <4>2. Pinged(a) => Pinged(a)'
        BY <1>1, <1>2 DEF Pinged
      <4> QED BY <1>1, <4>1, <4>2 DEF NothingToRun
    <3>4. onIdle[a] \in BOOLEAN
      BY <1>0 DEF TypeOK
    <3>5. SleepsIdle(a)'
      BY <1>1, <1>2, <3>1, <3>3, <3>4 DEF SleepsIdle
    <3> QED BY <1>2, <3>1, <3>2, <3>5 DEF AgentOK, SleepsInGhostRun, NothingToRead,
                                          BarrierMoves, SleepsBehindTask
  <2> QED BY <2>1, <2>2 DEF LocalYield
<1>4. \A u \in Tasks : next[a] # u
  BY <1>1, FifoAssumption
<1> QED BY <1>1, <1>2, <1>3, <1>4, ScheduleKeepsWake DEF Migrating

LEMMA AgentKeepsWake ==
  ASSUME Inv, ViewInv, WakeInv, NEW a \in Cpus, AgentStep(a)
  PROVE  WakeInv'
<1>0. TypeInv /\ TypeOK /\ KernelTypeOK
  BY DEF Inv, TypeInv, TypeOK
<1> USE DEF kernelVars, taskVars, agentVars, cfsVars, fifoTaskVars, cpuVars, localVars
<1>1. CASE ReadBarrier(a)
  <2>1. /\ pc[a] = "top" /\ ast[a] = "running" /\ pc' = [pc EXCEPT ![a] = "drain"]
        /\ stale' = [stale EXCEPT ![a] = FALSE]
        /\ UNCHANGED <<taskVars, chan, ast, rtla, cfsVars, fifoTaskVars, cpuVars, localVars>>
    BY <1>1 DEF ReadBarrier, At, Goto
  <2>2. /\ pc'[a] = "drain" /\ next[a] = NoTask
        /\ \A c \in Cpus \ {a} : stale'[c] = stale[c]
    BY <1>0, <2>1 DEF TypeOK, KernelTypeOK, TypeInv, ControlOK
  <2>3. AgentOK(a)' /\ \A u \in Tasks : next[a] # u
    BY <2>1, <2>2, AwakeIsOK, FifoAssumption
  <2> QED BY <2>1, <2>2, <2>3, ScheduleKeepsWake DEF Migrating
<1>2. CASE WaitOffCpu(a)
  <2>1. /\ pc[a] = "wait" /\ ast[a] = "running" /\ pc' = [pc EXCEPT ![a] = "commit"]
        /\ UNCHANGED <<kernelVars, fifoTaskVars, cpuVars, localVars>> /\ AgentOK(a)
    BY <1>2 DEF WaitOffCpu, At, Goto, WakeInv
  <2>2. pc'[a] = "commit"
    BY <1>0, <2>1 DEF TypeOK
  <2>3. AgentOK(a)'
    BY <2>1, <2>2 DEF AgentOK, SleepsInGhostRun, NothingToRead, BarrierMoves,
                      SleepsBehindTask, SleepsIdle
  <2> QED BY <2>1, <2>3, ScheduleKeepsWake DEF Migrating
<1>3. CASE TaskOnCpu(a)
  <2>1. PICK t : t = next[a]
    OBVIOUS
  <2>2. /\ pc[a] = "oncpu" /\ ast[a] = "running" /\ pc' = [pc EXCEPT ![a] = "top"]
        /\ current' = [current EXCEPT ![a] = t]
        /\ run_state' = [run_state EXCEPT ![t] = "kOnCpu"]
        /\ next' = [next EXCEPT ![a] = NoTask]
        /\ UNCHANGED <<kernelVars, rq, target, onIdle>>
    BY <1>3, <2>1 DEF TaskOnCpu, At, Goto
  <2>3. t \in Tasks
    BY <1>0, <2>1, <2>2 DEF TypeInv, ControlOK, TypeOK
  <2>4. /\ pc'[a] = "top" /\ \A c \in Cpus \ {a} : current'[c] = current[c] /\ next'[c] = next[c]
        /\ \A u \in Tasks : run_state'[u] = "kRunnable" => run_state[u] = "kRunnable" /\ u # t
    BY <1>0, <2>2, <2>3 DEF TypeOK
  <2>5. AgentOK(a)'
    BY <2>2, <2>4, AwakeIsOK
  <2> QED BY <2>1, <2>2, <2>4, <2>5, ScheduleKeepsWake DEF Migrating
<1> QED BY <1>1, <1>2, <1>3, HandlersKeepWake, MigrateEnqueueKeepsWake, MigratePingKeepsWake,
           AdvanceMigratedKeepsWake, PickNextKeepsWake, CommitTxnKeepsWake, LocalYieldKeepsWake
        DEF AgentStep

-------------------------------------------------------------------------------
\* No agent sleeps over something it should do.
LEMMA WakeInvHolds ==
  ASSUME "reenter" \notin Events
  PROVE  Spec => [](Inv /\ ViewInv /\ WakeInv)
<1>1. Init => WakeInv
  <2> SUFFICES ASSUME Init PROVE WakeInv
    OBVIOUS
  <2> USE DEF Init, KernelInit
  <2>1. \A c \in Cpus : AgentOK(c)
    BY DEF AgentOK, SleepsInGhostRun, NothingToRead, BarrierMoves, SleepsBehindTask, SleepsIdle
  <2>2. InHands
    BY DEF InHands
  <2> QED BY <2>1, <2>2 DEF WakeInv
<1>2. Inv /\ ViewInv /\ WakeInv /\ [Next]_vars => WakeInv'
  <2> SUFFICES ASSUME Inv, ViewInv, WakeInv, [Next]_vars PROVE WakeInv'
    OBVIOUS
  <2>1. CASE UNCHANGED vars
    BY <2>1, QuietKeepsWake DEF vars, fifoVars
  <2> QED BY <2>1, KernelKeepsWake, AgentKeepsWake DEF Next
<1> QED BY <1>1, <1>2, ViewInvHolds, PTL DEF Spec

(***************************************************************************)
(* As long as no thread comes back to ghOSt after it has left, no wakeup   *)
(* is lost, whatever the number of CPUs and tasks: when all agents sleep   *)
(* in ghost_run(), every runnable task is on a CPU or waits for one that   *)
(* is busy.  This rests on the agent barrier, which is read before the     *)
(* channel and the run queue are looked at, on the pings of Migrate, and   *)
(* on the ping that follows the end of a SwitchTo chain, whose first task  *)
(* has left its CPU without waking the agent.                              *)
(***************************************************************************)
THEOREM WakeupSafe ==
  ASSUME "reenter" \notin Events
  PROVE  Spec => []NoLostWakeup
<1>1. Inv /\ ViewInv /\ WakeInv => NoLostWakeup
  <2> SUFFICES ASSUME Inv, ViewInv, WakeInv, \A c \in Cpus : ast[c] = "sleeping",
                      NEW t \in Tasks, kst[t] = "runnable", oncpu[t] = NoCpu
               PROVE  /\ t \in known /\ tcpu[t] \in Cpus /\ Busy(tcpu[t])
                      /\ InQueue(t, rq[tcpu[t]]) \/ current[tcpu[t]] = t
    BY DEF NoLostWakeup
  <2>0. /\ TypeInv /\ TypeOK /\ NoCpu \notin Cpus /\ t # NoTask
        /\ \A c \in Cpus : AgentOK(c) /\ pc[c] \in {"top", "oncpu"}
    BY KernelAssumption, FifoAssumption
    DEF Inv, TypeInv, WakeInv, Cpus, NoCpu, AgentOK, SleepsInGhostRun
  <2>1. via[t] \notin {"txn", "switchto"}
    BY <2>0 DEF ViewInv, OnCpuOK
  <2>2. \A m \in Unread : m.type = "TASK_SWITCHTO" /\ ~m.flag
    <3> SUFFICES ASSUME NEW m \in Unread PROVE m.type = "TASK_SWITCHTO" /\ ~m.flag
      OBVIOUS
    <3>1. m.type = "TASK_SWITCHTO"
      BY <2>0, UnreadIs DEF AgentOK, NothingToRead
    <3>2. m.task \in Tasks /\ MessageOK(m.task, m)
      BY <2>0, UnreadTypes DEF ViewInv, ViewOK
    <3> QED BY <3>1, <3>2 DEF MessageOK
  <2>3. ~\E m \in Unread : m.task = t /\ m.seq = seq[t] /\ Ends(t, m)
    <3> SUFFICES ASSUME NEW m \in Unread, Ends(t, m) PROVE FALSE
      OBVIOUS
    <3>1. Blocks(m)
      BY <2>2 DEF Blocks
    <3> QED BY <2>1, <3>1 DEF Ends, Alive, Inactive
  <2>4. t \in known /\ run_state[t] # "kBlocked"
    <3>1. LastSeen(t)
      BY DEF ViewInv, ViewOK
    <3> QED BY <2>1, <2>3, <3>1 DEF LastSeen, Inactive
  <2>5. run_state[t] # "kRunnable"
    <3> SUFFICES ASSUME run_state[t] = "kRunnable" PROVE FALSE
      OBVIOUS
    <3>1. PICK c \in Cpus : next[c] = t
      BY <2>0 DEF WakeInv, InHands
    <3>2. pc[c] = "oncpu"
      BY <2>0, <3>1 DEF TypeInv, ControlOK
    <3>3. ChainOK(c)
      BY <2>0, <3>2 DEF AgentOK, SleepsBehindTask
    <3>4. PICK i \in 1 .. Len(chan[c]) : chan[c][i].task = t
      BY <2>1, <3>1, <3>3 DEF ChainOK
    <3>5. chan[c][i] \in Unread
      BY <2>0, <3>4, UnreadIs DEF Pending, Migrating
    <3>6. MessageOK(t, chan[c][i]) /\ chan[c][i].seq \in Nat
      BY <2>0, <3>4, <3>5, UnreadTypes DEF ViewInv, ViewOK
    <3>7. Handled(t) = seq[t] /\ seq[t] \in Nat
      BY <2>0, <2>3, <2>4, HandledType DEF ViewInv, ViewOK, LastSeen
    <3> QED BY <3>6, <3>7 DEF MessageOK
  <2>6. tcpu[t] \in Cpus /\ (InQueue(t, rq[tcpu[t]]) \/ current[tcpu[t]] = t)
    <3>1. run_state[t] \in {"kQueued", "kOnCpu"}
      BY <2>0, <2>4, <2>5 DEF TypeOK, RunStates
    <3> QED BY <3>1 DEF Inv, PlaceInv, RunqueueOK, QueuedAreInQueue, OnCpuIsCurrent
  <2>7. Busy(tcpu[t])
    <3>1. PICK c \in Cpus : c = tcpu[t]
      BY <2>6
    <3>2. CASE pc[c] = "oncpu"
      <4>1. ChainOK(c)
        BY <2>0, <3>2 DEF AgentOK, SleepsBehindTask
      <4>2. ~ChainPing(c)
        BY <2>2 DEF ChainPing, Chained
      <4>3. next[c] \in Tasks
        BY <2>0, <3>2 DEF TypeInv, ControlOK, TypeOK
      <4> QED BY <3>1, <4>1, <4>2, <4>3 DEF ChainOK, ChainOn, Busy
    <3>3. CASE pc[c] = "top"
      <4>1. ~Pinged(c)
        BY <2>0 DEF Pinged
      <4>2. rq[c] = <<>> => ~InQueue(t, rq[c])
        BY DEF InQueue
      <4>3. ~NothingToRun(c)
        BY <2>0, <2>6, <3>1, <4>2 DEF NothingToRun
      <4> QED BY <2>0, <3>1, <3>3, <4>1, <4>3 DEF AgentOK, SleepsIdle, Busy
    <3> QED BY <2>0, <3>2, <3>3
  <2> QED BY <2>4, <2>6, <2>7
<1> QED BY <1>1, WakeInvHolds, PTL

(***************************************************************************)
(* As long as no thread comes back to ghOSt after it has left, no task is  *)
(* forgotten: a task that is in ghOSt and whose messages have all been     *)
(* consumed is in the allocator, so none of the early returns of           *)
(* DispatchMessage has dropped its TASK_NEW, and if it is runnable (and    *)
(* not on a CPU by SwitchTo, which the agents take for blocked) it is in a *)
(* run queue, the current of a CPU or in the hands of a FifoSchedule.      *)
(***************************************************************************)
THEOREM NobodyForgotten ==
  ASSUME "reenter" \notin Events
  PROVE  Spec => []NoTaskForgotten
<1>1. Inv /\ ViewInv /\ WakeInv => NoTaskForgotten
  <2> SUFFICES ASSUME Inv, ViewInv, WakeInv, NEW t \in Tasks, InGhost(t), Drained(t)
               PROVE  /\ t \in known
                      /\ kst[t] = "runnable" /\ via[t] # "switchto" => \E c \in Cpus : HeldAt(t, c)
    BY DEF NoTaskForgotten
  <2>1. t \in known /\ (run_state[t] = "kBlocked" <=> Inactive(t))
    BY DrainedIsSeen DEF InGhost
  <2>2. ASSUME kst[t] = "runnable", via[t] # "switchto" PROVE \E c \in Cpus : HeldAt(t, c)
    <3>1. run_state[t] \in {"kQueued", "kOnCpu", "kRunnable"}
      BY <2>1, <2>2 DEF Inactive, Inv, TypeInv, TypeOK, RunStates
    <3>2. CASE run_state[t] \in {"kQueued", "kOnCpu"}
      BY <3>2 DEF Inv, PlaceInv, RunqueueOK, QueuedAreInQueue, OnCpuIsCurrent, HeldAt
    <3>3. CASE run_state[t] = "kRunnable"
      <4>1. PICK c \in Cpus : next[c] = t \/ (pc[c] = "enqueue" /\ Msg(c).task = t)
        BY <3>3 DEF WakeInv, InHands
      <4>2. pc[c] = "enqueue" => Msg(c).task # t
        <5>1. pc[c] = "enqueue" => chan[c] # <<>>
          BY DEF Inv, TypeInv, ControlOK, Migrating
        <5>2. chan[c] # <<>> => Len(chan[c]) \in Nat /\ Len(chan[c]) # 0
          BY EmptySeq DEF Inv, TypeInv, TypeOK, KernelTypeOK
        <5> QED BY <5>1, <5>2 DEF Drained, Msg
      <4> QED BY <4>1, <4>2 DEF HeldAt
    <3> QED BY <3>1, <3>2, <3>3
  <2> QED BY <2>1, <2>2
<1> QED BY <1>1, WakeInvHolds, PTL
===============================================================================
