---------------------------- MODULE AgentLifecycle ----------------------------
(***************************************************************************)
(* The life of the agent threads of a FullAgent: lib/agent.h, lib/agent.cc *)
(* and Enclave::Ready.  The main thread starts one agent per CPU, releases *)
(* them together when the enclave is ready, and later terminates them; the *)
(* agents wait for a previous agent process to let go of the enclave,      *)
(* enter ghOSt, and run the loop of their scheduler until they are told to *)
(* finish.  They synchronise with the four Notifications of class Agent.   *)
(*                                                                         *)
(* The loop is reduced to what matters here: on each CPU at most one       *)
(* client task comes and goes, and an agent with nothing to do sleeps in   *)
(* the kernel until a message or a ping wakes it.  The kernel is external. *)
(***************************************************************************)
EXTENDS Notification

CONSTANTS
  NCpus,         \* the CPUs, and their agents, are 0 .. NCpus - 1
  Main,          \* the thread that owns the FullAgent
  Orders,        \* the values barrierFirst may have
  MaxArrivals    \* bound: how often a client task arrives

Cpus == 0 .. NCpus - 1

ASSUME LifecycleAssumption ==
  /\ NCpus \in Nat \ {0} /\ MaxArrivals \in Nat /\ Orders \subseteq BOOLEAN
  /\ Main \notin Cpus
  /\ Threads = Cpus \cup {Main}
  /\ Notes = {"ready", "finished", "enclave_ready", "do_exit"} \X Cpus

VARIABLES
  barrierFirst,  \* does the loop read the agent barrier before Finished()?
  pc,         \* what each thread does next
  k,          \* the agent at which a loop of the main thread is
  attached,   \* Enclave::agents_
  oldOnline,  \* does an older process hold agent_online open?
  oldAgent,   \* its agents that have not left their CPU
  asleep,     \* is the agent blocked in ghost_run()?
  stale,      \* did the agent barrier move since the agent read it?
  task,       \* the client task of each CPU
  arrivals    \* how many more client tasks may arrive

kernelVars == <<barrierFirst, oldOnline, oldAgent, asleep, stale, task, arrivals>>
vars == <<noteVars, pc, k, attached, kernelVars>>

MainLabels == {"StartBegin", "StartComplete", "Ready", "EnclaveReady", "AdvertiseOnline",
               "serving", "finish", "ping", "exit", "join", "can_free", "detach", "gone"}
AgentLabels == {"none", "WaitForOldAgent", "enter", "AttachAgent", "SignalReady",
                "WaitForEnclaveReady", "loop", "barrier", "schedule",
                "WaitForExit", "exiting", "exited", "dead"}

TypeOK ==
  /\ NoteTypeOK
  /\ pc \in [Threads -> MainLabels \cup AgentLabels]
  /\ barrierFirst \in Orders
  /\ k \in Cpus
  /\ attached \subseteq Cpus
  /\ oldOnline \in BOOLEAN /\ oldAgent \subseteq Cpus
  /\ asleep \in [Cpus -> BOOLEAN] /\ stale \in [Cpus -> BOOLEAN]
  /\ task \in [Cpus -> {"none", "msg", "queued", "running", "current"}]
  /\ arrivals \in 0 .. MaxArrivals

\* There may be an older agent process, as in an in-place upgrade.
Init ==
  /\ NoteInit
  /\ pc = [th \in Threads |-> IF th = Main THEN "StartBegin" ELSE "none"]
  /\ barrierFirst \in Orders
  /\ k = 0
  /\ attached = {}
  /\ \/ oldOnline = TRUE /\ oldAgent = Cpus
     \/ oldOnline = FALSE /\ oldAgent = {}
  /\ asleep = [c \in Cpus |-> FALSE]
  /\ stale = [c \in Cpus |-> FALSE]
  /\ task = [c \in Cpus |-> "none"]
  /\ arrivals = MaxArrivals

\* Thread th is about to execute label l, in no call of a Notification.
At(th, l) == NotInCall(th) /\ pc[th] = l

Goto(th, l) == pc' = [pc EXCEPT ![th] = l]

HasBeenNotified(kind, c) == notified[<<kind, c>>] = "kNotified"

-------------------------------------------------------------------------------
(* The main thread.  A loop over the agents repeats `label' for each of     *)
(* them and goes on to `after'.                                             *)

NextAgent(label, after) ==
  IF k = NCpus - 1
    THEN k' = 0 /\ Goto(Main, after)
    ELSE k' = k + 1 /\ Goto(Main, label)

StartBegin ==
  /\ At(Main, "StartBegin")
  /\ LET c == k IN
       IF k = NCpus - 1
         THEN k' = 0 /\ pc' = [pc EXCEPT ![c] = "WaitForOldAgent", ![Main] = "StartComplete"]
         ELSE k' = k + 1 /\ pc' = [pc EXCEPT ![c] = "WaitForOldAgent"]
  /\ UNCHANGED <<noteVars, attached, kernelVars>>

StartComplete ==
  /\ At(Main, "StartComplete")
  /\ StartWait(Main, <<"ready", k>>)
  /\ NextAgent("StartComplete", "Ready")
  /\ UNCHANGED <<notified, aborted, attached, kernelVars>>

\* Mutant: Enclave::Ready forgets to release the first agent.
ReadyOneShort ==
  /\ At(Main, "Ready") /\ attached = Cpus
  /\ k' = IF NCpus > 1 THEN 1 ELSE 0
  /\ Goto(Main, "EnclaveReady")
  /\ UNCHANGED <<noteVars, attached, kernelVars>>

\* Enclave::Ready up to the end of DiscoverTasks and Scheduler::EnclaveReady.
Ready ==
  /\ At(Main, "Ready") /\ attached = Cpus
  /\ Goto(Main, "EnclaveReady")
  /\ UNCHANGED <<noteVars, k, attached, kernelVars>>

EnclaveReady ==
  /\ At(Main, "EnclaveReady")
  /\ StartNotify(Main, <<"enclave_ready", k>>)
  /\ NextAgent("EnclaveReady", "AdvertiseOnline")
  /\ UNCHANGED <<notified, aborted, attached, kernelVars>>

\* There can be only one writer of agent_online: the CHECK fails if an older
\* process still has it open.
AdvertiseOnline ==
  /\ At(Main, "AdvertiseOnline")
  /\ aborted' = oldOnline
  /\ Goto(Main, "serving")
  /\ UNCHANGED <<notified, op, k, attached, kernelVars>>

\* ~FullAgent: TerminateAgentTasks.  (That PrepareToExit closes this process's
\* agent_online is AgentRpc's; here only the older process's counts.)
Terminate ==
  /\ At(Main, "serving")
  /\ Goto(Main, "finish")
  /\ UNCHANGED <<noteVars, k, attached, kernelVars>>

\* TerminateBegin: Finished(), a ping so that the agent sees it, do_exit_.
TerminateFinish ==
  /\ At(Main, "finish")
  /\ StartNotify(Main, <<"finished", k>>)
  /\ Goto(Main, "ping")
  /\ UNCHANGED <<notified, aborted, k, attached, kernelVars>>

\* A message or a ping: the barrier moves, a sleeping agent gets its CPU back.
WakeAgent(c) ==
  /\ stale' = [stale EXCEPT ![c] = TRUE]
  /\ asleep' = [asleep EXCEPT ![c] = FALSE]

\* Mutant: TerminateBegin does not ping the agent.
TerminateNoPing ==
  /\ At(Main, "ping")
  /\ Goto(Main, "exit")
  /\ UNCHANGED <<noteVars, k, attached, kernelVars>>

TerminatePing ==
  /\ At(Main, "ping")
  /\ WakeAgent(k)
  /\ task' = [task EXCEPT ![k] = IF @ = "running" THEN "current" ELSE @]
  /\ Goto(Main, "exit")
  /\ UNCHANGED <<noteVars, k, attached, barrierFirst, oldOnline, oldAgent, arrivals>>

TerminateExit ==
  /\ At(Main, "exit")
  /\ StartNotify(Main, <<"do_exit", k>>)
  /\ NextAgent("finish", "join")
  /\ UNCHANGED <<notified, aborted, attached, kernelVars>>

\* TerminateComplete: join the thread, then wait until the kernel is done
\* with the agent.
Join ==
  /\ At(Main, "join") /\ pc[k] \in {"exited", "dead"}
  /\ Goto(Main, "can_free")
  /\ UNCHANGED <<noteVars, k, attached, kernelVars>>

\* Mutant: every agent is destroyed as soon as its own thread is gone.
CanFreeDetach ==
  /\ At(Main, "can_free") /\ pc[k] = "dead"
  /\ attached' = attached \ {k}
  /\ NextAgent("join", "detach")
  /\ UNCHANGED <<noteVars, kernelVars>>

CanFree ==
  /\ At(Main, "can_free") /\ pc[k] = "dead"
  /\ NextAgent("join", "detach")
  /\ UNCHANGED <<noteVars, attached, kernelVars>>

\* agents_.clear(): ~Agent, which detaches it, and ~Notification.
Detach ==
  /\ At(Main, "detach")
  /\ attached' = attached \ {k}
  /\ aborted' = \E n \in Notes : n[2] = k /\ ~DestroyOk(n)
  /\ NextAgent("detach", "gone")
  /\ UNCHANGED <<notified, op, kernelVars>>

MainStep ==
  \/ StartBegin \/ StartComplete \/ Ready \/ EnclaveReady \/ AdvertiseOnline
  \/ Terminate \/ TerminateFinish \/ TerminatePing \/ TerminateExit
  \/ Join \/ CanFree \/ Detach

-------------------------------------------------------------------------------
(* The agent threads: LocalAgent::ThreadBody and AgentThread.               *)

\* Mutant: the agent does not wait for the older process.
WaitForOldAgentNot(c) ==
  /\ At(c, "WaitForOldAgent")
  /\ Goto(c, "enter")
  /\ UNCHANGED <<noteVars, k, attached, kernelVars>>

\* Until agent_online is 0.
WaitForOldAgent(c) ==
  /\ At(c, "WaitForOldAgent") /\ ~oldOnline
  /\ Goto(c, "enter")
  /\ UNCHANGED <<noteVars, k, attached, kernelVars>>

\* SchedAgentEnterGhost, again and again while it says EBUSY.
EnterGhost(c) ==
  /\ At(c, "enter") /\ c \notin oldAgent
  /\ Goto(c, "AttachAgent")
  /\ UNCHANGED <<noteVars, k, attached, kernelVars>>

AttachAgent(c) ==
  /\ At(c, "AttachAgent")
  /\ attached' = attached \cup {c}
  /\ Goto(c, "SignalReady")
  /\ UNCHANGED <<noteVars, k, kernelVars>>

SignalReady(c) ==
  /\ At(c, "SignalReady")
  /\ StartNotify(c, <<"ready", c>>)
  /\ Goto(c, "WaitForEnclaveReady")
  /\ UNCHANGED <<notified, aborted, k, attached, kernelVars>>

\* Mutant: the agent starts to schedule at once.
WaitForEnclaveReadyNot(c) ==
  /\ At(c, "WaitForEnclaveReady")
  /\ Goto(c, "loop")
  /\ UNCHANGED <<noteVars, k, attached, kernelVars>>

WaitForEnclaveReady(c) ==
  /\ At(c, "WaitForEnclaveReady")
  /\ StartWait(c, <<"enclave_ready", c>>)
  /\ Goto(c, "loop")
  /\ UNCHANGED <<notified, aborted, k, attached, kernelVars>>

\* An agent that is blocked in the kernel does nothing.
LoopAt(c, l) == At(c, l) /\ ~asleep[c]

ReadBarrier(c, l) ==
  /\ stale' = [stale EXCEPT ![c] = FALSE]
  /\ Goto(c, l)
  /\ UNCHANGED <<noteVars, k, attached, barrierFirst, oldOnline, oldAgent, asleep, task, arrivals>>

\* while (!Finished() || !scheduler_->Empty(cpu())).
TestFinished(c, l) ==
  /\ Goto(c, IF HasBeenNotified("finished", c) /\ task[c] # "queued"
               THEN "WaitForExit" ELSE l)
  /\ UNCHANGED <<noteVars, k, attached, kernelVars>>

\* The top of the loop.  All schedulers test Finished() and read the barrier
\* then (barrierFirst = FALSE); only the agent of tests/api_test.cc (513-523)
\* has the order that its comment asks for (TRUE).
LoopTop(c) ==
  /\ LoopAt(c, "loop")
  /\ IF barrierFirst THEN ReadBarrier(c, "barrier") ELSE TestFinished(c, "barrier")

LoopBarrier(c) ==
  /\ LoopAt(c, "barrier")
  /\ IF barrierFirst THEN TestFinished(c, "schedule") ELSE ReadBarrier(c, "schedule")

\* Schedule: take in the messages, then run a task or yield.  Both fail, and
\* the loop starts over, if the barrier has moved.
Schedule(c) ==
  LET t == IF task[c] = "msg" THEN "queued" ELSE task[c] IN
  /\ LoopAt(c, "schedule")
  /\ asleep' = [asleep EXCEPT ![c] = ~stale[c]]
  /\ task' = [task EXCEPT ![c] =
                IF t # "none" THEN IF stale[c] THEN "queued" ELSE "running" ELSE t]
  /\ Goto(c, "loop")
  /\ UNCHANGED <<noteVars, k, attached, barrierFirst, oldOnline, oldAgent, stale, arrivals>>

\* Mutant: the agent thread exits as soon as it is finished.
WaitForExitNot(c) ==
  /\ At(c, "WaitForExit")
  /\ Goto(c, "exiting")
  /\ UNCHANGED <<noteVars, k, attached, kernelVars>>

\* WaitForExitNotification.
WaitForExit(c) ==
  /\ At(c, "WaitForExit")
  /\ StartWait(c, <<"do_exit", c>>)
  /\ Goto(c, "exiting")
  /\ UNCHANGED <<notified, aborted, k, attached, kernelVars>>

ThreadExit(c) ==
  /\ At(c, "exiting")
  /\ Goto(c, "exited")
  /\ UNCHANGED <<noteVars, k, attached, kernelVars>>

AgentStep(c) ==
  \/ WaitForOldAgent(c) \/ EnterGhost(c) \/ AttachAgent(c) \/ SignalReady(c)
  \/ WaitForEnclaveReady(c) \/ LoopTop(c) \/ LoopBarrier(c) \/ Schedule(c)
  \/ WaitForExit(c) \/ ThreadExit(c)

-------------------------------------------------------------------------------
(* The kernel, the older process and the client tasks.                      *)

\* The kernel's task_dead callback sets GHOST_SW_F_CANFREE.
KAgentDead(c) ==
  /\ pc[c] = "exited"
  /\ Goto(c, "dead")
  /\ UNCHANGED <<noteVars, k, attached, kernelVars>>

OldCloses ==
  /\ oldOnline /\ oldOnline' = FALSE
  /\ UNCHANGED <<noteVars, pc, k, attached, barrierFirst, oldAgent, asleep, stale, task, arrivals>>

OldLeaves(c) ==
  /\ c \in oldAgent /\ oldAgent' = oldAgent \ {c}
  /\ UNCHANGED <<noteVars, pc, k, attached, barrierFirst, oldOnline, asleep, stale, task, arrivals>>

\* The agent of c is in its loop.
InLoop(c) == pc[c] \in {"loop", "barrier", "schedule"} /\ op[c].at = "idle"

KTaskArrives(c) ==
  /\ arrivals > 0 /\ task[c] = "none" /\ InLoop(c) /\ ~aborted
  /\ arrivals' = arrivals - 1
  /\ task' = [task EXCEPT ![c] = "msg"]
  /\ WakeAgent(c)
  /\ UNCHANGED <<noteVars, pc, k, attached, barrierFirst, oldOnline, oldAgent>>

KTaskBlocks(c) ==
  /\ task[c] = "running"
  /\ task' = [task EXCEPT ![c] = "none"]
  /\ WakeAgent(c)
  /\ UNCHANGED <<noteVars, pc, k, attached, barrierFirst, oldOnline, oldAgent, arrivals>>

Call(th) == OpStep(th) /\ UNCHANGED <<pc, k, attached, kernelVars>>

Interrupted(th) == SpuriousWakeup(th) /\ UNCHANGED <<pc, k, attached, kernelVars>>

Next ==
  \/ MainStep
  \/ \E c \in Cpus : AgentStep(c)
  \/ \E th \in Threads : Call(th) \/ Interrupted(th)
  \/ \E c \in Cpus : KAgentDead(c) \/ OldLeaves(c) \/ KTaskArrives(c) \/ KTaskBlocks(c)
  \/ OldCloses

Spec == Init /\ [][Next]_vars

\* Threads keep running, the kernel reaps a thread that has exited, the older
\* process goes away (it "is gone or in the act of dying"), and client tasks
\* block at some point.
FairSpec ==
  /\ Spec
  /\ WF_vars(MainStep) /\ WF_vars(OldCloses)
  /\ \A c \in Cpus : /\ WF_vars(AgentStep(c)) /\ WF_vars(KAgentDead(c))
                     /\ WF_vars(OldLeaves(c)) /\ WF_vars(KTaskBlocks(c))
  /\ \A th \in Threads : WF_vars(Call(th))

-------------------------------------------------------------------------------
(***************************************************************************)
(* No CHECK of the life cycle fails: a Notification is notified once and   *)
(* destroyed when nobody waits for it, and agent_online is opened only     *)
(* after the older process has closed it.                                  *)
(***************************************************************************)
ChecksHold == ~aborted

(***************************************************************************)
(* "We can't schedule until Discovery is complete" (Enclave::Ready): no    *)
(* agent is in its loop before every agent is attached and DiscoverTasks   *)
(* is over.                                                                *)
(***************************************************************************)
SchedulesAfterDiscovery ==
  \A c \in Cpus : InLoop(c) =>
    attached = Cpus /\ pc[Main] \notin {"StartBegin", "StartComplete", "Ready"}

(***************************************************************************)
(* "Agent threads may call GetAgent on other cpus, so we must join on      *)
(* *all* agent threads to be sure it is safe to detach *any* agent thread" *)
(* (TerminateAgentTasks): during termination an agent is missing from the  *)
(* enclave only when the kernel is done with every agent thread, the ones  *)
(* that have not even seen Finished() included.                            *)
(***************************************************************************)
DetachedAfterAllJoined ==
  pc[Main] \in {"finish", "ping", "exit", "join", "can_free", "detach"} /\ attached # Cpus =>
    \A c \in Cpus : pc[c] = "dead"

(***************************************************************************)
(* The ping of TerminateBegin goes to an agent whose thread still exists:  *)
(* the agent waits for do_exit_, which is notified after the ping.         *)
(***************************************************************************)
PingsLiveAgent == pc[Main] = "ping" => pc[k] \notin {"exited", "dead"}

(***************************************************************************)
(* Starting completes: with the older process gone, the agents get their   *)
(* CPUs, report ready and are all released, and the enclave goes online.   *)
(***************************************************************************)
StartupCompletes == <>(pc[Main] = "serving") /\ \A c \in Cpus : <>InLoop(c)

(***************************************************************************)
(* TerminateBegin "signals Finished() and guarantees that the agent will   *)
(* wake to observe it" (lib/agent.h): termination completes.               *)
(***************************************************************************)
TerminationCompletes == pc[Main] = "finish" ~> pc[Main] = "gone"

(***************************************************************************)
(* The same of an agent that reads the barrier before it tests Finished(), *)
(* as the one of tests/api_test.cc does and no scheduler: the ping that    *)
(* follows Finished() either moves the barrier after the agent has read    *)
(* it, so that its yield fails, or comes before, and then the agent sees   *)
(* Finished().                                                             *)
(***************************************************************************)
BarrierFirstTerminates == barrierFirst /\ pc[Main] = "finish" ~> pc[Main] = "gone"
===============================================================================
