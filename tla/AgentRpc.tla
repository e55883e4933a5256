------------------------------- MODULE AgentRpc -------------------------------
(***************************************************************************)
(* AgentProcess of lib/agent.h: a forked child runs the FullAgent, and the *)
(* parent talks to it with an RPC through a region of shared memory: one   *)
(* request, one response and two Notifications, which are reset and used   *)
(* again by every call.  Threads of the parent call Rpc() concurrently; an *)
(* absl::Mutex serialises them.                                            *)
(*                                                                         *)
(* Nothing keeps Rpc() and ~AgentProcess apart: a call may be under way,   *)
(* or begin, when the child destroys the FullAgent, and even when the      *)
(* AgentProcess is gone ("this is racy", fifo_agent.cc).  What the RPC     *)
(* thread may then do with a pointer that is null, or to an object that is *)
(* being destroyed, is a step of its own for each of the two reads.        *)
(***************************************************************************)
EXTENDS Notification

CONSTANTS
  Callers,   \* threads of the parent that call Rpc()
  Parent,    \* the thread that owns the AgentProcess
  Child,     \* the main thread of the child
  Handler,   \* the child's "ap_rpc" thread
  NoThread,
  MaxRpcs    \* bound: how many RPCs are issued

ASSUME RpcAssumption ==
  /\ Threads = Callers \cup {Parent, Child, Handler} /\ MaxRpcs \in Nat
  /\ Parent \notin Callers \cup {Child, Handler} /\ Child \notin Callers \cup {Handler}
  /\ Handler \notin Callers /\ NoThread \notin Callers
  /\ Notes = {"agent_ready", "kill_agent", "rpc_pending", "rpc_done"}

VARIABLES
  pc,         \* what each thread does next
  owner,      \* who holds rpc_mutex_
  issued,     \* how many RPCs have been issued; they are numbered
  mine,       \* the number of each caller's RPC
  rpc_req,    \* SharedBlob::rpc_req_ and rpc_args_
  rpc_res,    \* SharedBlob::rpc_res_: which RPC the code and the buffer answer
  is_online,  \* Enclave::is_online_
  full_agent, \* is the pointer full_agent_ set?
  failed      \* which invalid object has been used, and ended the process

blobVars == <<rpc_req, rpc_res>>
callerVars == <<owner, issued, mine>>
agentVars == <<is_online, full_agent, failed>>
vars == <<noteVars, pc, callerVars, blobVars, agentVars>>

NoAnswer == 0
ENODEV == -1

TypeOK ==
  /\ NoteTypeOK
  /\ pc \in [Threads -> {"idle", "lock", "post", "await", "reset", "read", "start", "up",
                         "waitexit", "gone", "ready", "kill", "unset", "offline", "terminate",
                         "exit", "pending", "load", "online", "call", "handle", "answer"}]
  /\ owner \in Callers \cup {NoThread}
  /\ issued \in 0 .. MaxRpcs
  /\ mine \in [Callers -> 0 .. MaxRpcs] /\ rpc_req \in 0 .. MaxRpcs
  /\ rpc_res \in [code : {ENODEV} \cup 0 .. MaxRpcs, buffer : 0 .. MaxRpcs]
  /\ is_online \in BOOLEAN /\ full_agent \in BOOLEAN
  /\ failed \in {"none", "full_agent", "deleted"}

Init ==
  /\ NoteInit
  /\ pc = [th \in Threads |-> IF th \in Callers THEN "idle" ELSE "start"]
  /\ owner = NoThread /\ issued = 0 /\ mine = [c \in Callers |-> 0]
  /\ rpc_req = 0 /\ rpc_res = [code |-> NoAnswer, buffer |-> NoAnswer]
  /\ is_online = FALSE /\ full_agent = FALSE
  /\ failed = "none"

\* _exit() takes all threads of the child with it, the callers have nothing
\* left to call when the AgentProcess is gone, and a crash of either process
\* ends both (PR_SET_PDEATHSIG, ForkedProcess::HandleIfAbnormalExit).
Alive(th) ==
  /\ failed = "none"
  /\ th \in {Child, Handler} => pc[Child] # "gone"
  /\ th \in Callers => pc[Parent] # "gone"

At(th, l) == NotInCall(th) /\ pc[th] = l /\ Alive(th)

Goto(th, l) == pc' = [pc EXCEPT ![th] = l]

Crash(what) ==
  /\ failed' = what
  /\ UNCHANGED <<noteVars, pc, callerVars, blobVars, is_online, full_agent>>

\* The FullAgent has been destroyed.
Destroyed == pc[Child] \in {"exit", "gone"}

\* The constructor of the AgentProcess has returned, the object still exists.
Constructed == (pc[Parent] = "up" /\ NotInCall(Parent)) \/ pc[Parent] = "waitexit"

-------------------------------------------------------------------------------
(* Rpc(), RpcWithResponse() and PerformRpc() in the parent.                 *)

CallRpc(c) ==
  /\ At(c, "idle") /\ Constructed /\ issued < MaxRpcs
  /\ issued' = issued + 1
  /\ mine' = [mine EXCEPT ![c] = issued + 1]
  /\ Goto(c, "lock")
  /\ UNCHANGED <<noteVars, owner, blobVars, agentVars>>

\* Mutant: there is no mutex.
LockNot(c) ==
  /\ At(c, "lock")
  /\ owner' = c
  /\ Goto(c, "post")
  /\ UNCHANGED <<noteVars, issued, mine, blobVars, agentVars>>

Lock(c) ==
  /\ At(c, "lock") /\ owner = NoThread
  /\ owner' = c
  /\ Goto(c, "post")
  /\ UNCHANGED <<noteVars, issued, mine, blobVars, agentVars>>

\* The request is in place before rpc_pending_ is notified.
PostRequest(c) ==
  /\ At(c, "post")
  /\ rpc_req' = mine[c]
  /\ StartNotify(c, "rpc_pending")
  /\ Goto(c, "await")
  /\ UNCHANGED <<notified, aborted, callerVars, rpc_res, agentVars>>

AwaitDone(c) ==
  /\ At(c, "await")
  /\ StartWait(c, "rpc_done")
  /\ Goto(c, "reset")
  /\ UNCHANGED <<notified, aborted, callerVars, blobVars, agentVars>>

ResetDone(c) ==
  /\ At(c, "reset")
  /\ ResetNote("rpc_done")
  /\ Goto(c, "read")
  /\ UNCHANGED <<op, aborted, callerVars, blobVars, agentVars>>

\* Copy the response, then let go of the mutex.
ReadResponse(c) ==
  /\ At(c, "read")
  /\ owner' = NoThread
  /\ Goto(c, "idle")
  /\ UNCHANGED <<noteVars, issued, mine, blobVars, agentVars>>

\* The AgentProcess is deleted: its mutex and its shared memory are gone for a
\* thread that is in Rpc(), or that calls it now.
UseDeleted(c) ==
  /\ ~aborted /\ failed = "none" /\ pc[Parent] = "gone"
  /\ pc[c] = "idle" => issued < MaxRpcs
  /\ Crash("deleted")

CallerStep(c) ==
  \/ Lock(c) \/ PostRequest(c) \/ AwaitDone(c) \/ ResetDone(c) \/ ReadResponse(c)

-------------------------------------------------------------------------------
(* The parent's constructor and destructor.                                 *)

AwaitReady ==
  /\ At(Parent, "start")
  /\ StartWait(Parent, "agent_ready")
  /\ Goto(Parent, "up")
  /\ UNCHANGED <<notified, aborted, callerVars, blobVars, agentVars>>

\* ~AgentProcess: nobody asks whether a call is under way.
KillAgent ==
  /\ At(Parent, "up")
  /\ StartNotify(Parent, "kill_agent")
  /\ Goto(Parent, "waitexit")
  /\ UNCHANGED <<notified, aborted, callerVars, blobVars, agentVars>>

WaitForChildExit ==
  /\ At(Parent, "waitexit") /\ pc[Child] = "gone"
  /\ Goto(Parent, "gone")
  /\ UNCHANGED <<noteVars, callerVars, blobVars, agentVars>>

-------------------------------------------------------------------------------
(* The child: its main thread ...                                           *)

\* The FullAgent is constructed, its enclave goes online, and only then is
\* the RPC thread started.
StartFullAgent ==
  /\ At(Child, "start")
  /\ full_agent' = TRUE /\ is_online' = TRUE
  /\ pc' = [pc EXCEPT ![Child] = "ready", ![Handler] = "pending"]
  /\ UNCHANGED <<noteVars, callerVars, blobVars, failed>>

NotifyReady ==
  /\ At(Child, "ready")
  /\ StartNotify(Child, "agent_ready")
  /\ Goto(Child, "kill")
  /\ UNCHANGED <<notified, aborted, callerVars, blobVars, agentVars>>

AwaitKill ==
  /\ At(Child, "kill")
  /\ StartWait(Child, "kill_agent")
  /\ Goto(Child, "unset")
  /\ UNCHANGED <<notified, aborted, callerVars, blobVars, agentVars>>

\* unique_ptr::reset stores the null pointer first and deletes then.
UnsetFullAgent ==
  /\ At(Child, "unset")
  /\ full_agent' = FALSE
  /\ Goto(Child, "offline")
  /\ UNCHANGED <<noteVars, callerVars, blobVars, is_online, failed>>

\* The derived destructor: TerminateAgentTasks begins with PrepareToExit, which
\* clears is_online_ and then closes agent_online ...
GoOffline ==
  /\ At(Child, "offline")
  /\ is_online' = FALSE
  /\ Goto(Child, "terminate")
  /\ UNCHANGED <<noteVars, callerVars, blobVars, full_agent, failed>>

\* ... and goes on with the agents (AgentLifecycle), which may never end.
DestroyFullAgent ==
  /\ At(Child, "terminate")
  /\ Goto(Child, "exit")
  /\ UNCHANGED <<noteVars, callerVars, blobVars, agentVars>>

ExitChild ==
  /\ At(Child, "exit")
  /\ Goto(Child, "gone")
  /\ UNCHANGED <<noteVars, callerVars, blobVars, agentVars>>

(* ... and its RPC thread.                                                  *)

AwaitPending ==
  /\ At(Handler, "pending")
  /\ StartWait(Handler, "rpc_pending")
  /\ Goto(Handler, "reset")
  /\ UNCHANGED <<notified, aborted, callerVars, blobVars, agentVars>>

\* Mutant: the handler leaves rpc_pending_ notified.
ResetPendingNot ==
  /\ At(Handler, "reset")
  /\ Goto(Handler, "load")
  /\ UNCHANGED <<noteVars, callerVars, blobVars, agentVars>>

ResetPending ==
  /\ At(Handler, "reset")
  /\ ResetNote("rpc_pending")
  /\ Goto(Handler, "load")
  /\ UNCHANGED <<op, aborted, callerVars, blobVars, agentVars>>

\* full_agent_-> for IsOnline().
LoadFullAgent ==
  /\ At(Handler, "load")
  /\ IF full_agent
       THEN Goto(Handler, "online") /\ UNCHANGED <<noteVars, callerVars, blobVars, agentVars>>
       ELSE Crash("full_agent")

\* IsOnline() of the object that was loaded, which may be destroyed by now.
SeesOnline == IF Destroyed THEN BOOLEAN ELSE {is_online}

CheckOnline ==
  /\ At(Handler, "online")
  /\ \/ /\ TRUE \in SeesOnline
        /\ rpc_res' = [code |-> NoAnswer, buffer |-> NoAnswer]
        /\ Goto(Handler, "call")
        /\ UNCHANGED <<noteVars, callerVars, rpc_req, agentVars>>
     \/ /\ FALSE \in SeesOnline
        /\ rpc_res' = [rpc_res EXCEPT !.code = ENODEV]
        /\ Goto(Handler, "answer")
        /\ UNCHANGED <<noteVars, callerVars, rpc_req, agentVars>>
     \/ Destroyed /\ Crash("full_agent")

\* full_agent_-> again, for RpcHandler(): the pointer is read again, or is
\* still in a register, as the compiler likes.
LoadFullAgentAgain ==
  /\ At(Handler, "call")
  /\ \/ Goto(Handler, "handle") /\ UNCHANGED <<noteVars, callerVars, blobVars, agentVars>>
     \/ ~full_agent /\ Crash("full_agent")

RpcHandler ==
  /\ At(Handler, "handle")
  /\ \/ /\ rpc_res' = [code |-> rpc_req, buffer |-> rpc_req]
        /\ Goto(Handler, "answer")
        /\ UNCHANGED <<noteVars, callerVars, rpc_req, agentVars>>
     \/ ~full_agent /\ Crash("full_agent")

\* Mutant: the handler forgets to notify the caller.
NotifyDoneNot ==
  /\ At(Handler, "answer")
  /\ Goto(Handler, "pending")
  /\ UNCHANGED <<noteVars, callerVars, blobVars, agentVars>>

NotifyDone ==
  /\ At(Handler, "answer")
  /\ StartNotify(Handler, "rpc_done")
  /\ Goto(Handler, "pending")
  /\ UNCHANGED <<notified, aborted, callerVars, blobVars, agentVars>>

ParentStep == AwaitReady \/ WaitForChildExit

ChildStep ==
  StartFullAgent \/ NotifyReady \/ AwaitKill \/ UnsetFullAgent \/ GoOffline \/ ExitChild

HandlerStep ==
  \/ AwaitPending \/ ResetPending \/ LoadFullAgent \/ CheckOnline \/ LoadFullAgentAgain
  \/ RpcHandler \/ NotifyDone

Call(th) == Alive(th) /\ OpStep(th) /\ UNCHANGED <<pc, callerVars, blobVars, agentVars>>

Interrupted(th) ==
  Alive(th) /\ SpuriousWakeup(th) /\ UNCHANGED <<pc, callerVars, blobVars, agentVars>>

Next ==
  \/ \E c \in Callers : CallRpc(c) \/ CallerStep(c) \/ UseDeleted(c)
  \/ ParentStep \/ KillAgent \/ ChildStep \/ DestroyFullAgent \/ HandlerStep
  \/ \E th \in Threads : Call(th) \/ Interrupted(th)

Spec == Init /\ [][Next]_vars

\* Every thread keeps running; nothing obliges the parent to call Rpc() or to
\* destroy the AgentProcess, nor TerminateAgentTasks to return.
FairSpec ==
  /\ Spec
  /\ \A c \in Callers : WF_vars(CallerStep(c))
  /\ WF_vars(ParentStep) /\ WF_vars(ChildStep) /\ WF_vars(HandlerStep)
  /\ \A th \in Threads : WF_vars(Call(th))

-------------------------------------------------------------------------------
(***************************************************************************)
(* A caller gets the response to its own request: when PerformRpc returns, *)
(* code and buffer of rpc_res_ answer the request that this thread posted, *)
(* although the two Notifications are reused by every call; or the code is *)
(* -ENODEV, and the agent has gone offline.                                *)
(***************************************************************************)
AnswersOwnRequest ==
  \A c \in Callers : At(c, "read") =>
    \/ rpc_res.code = mine[c] /\ rpc_res.buffer = mine[c]
    \/ rpc_res.code = ENODEV /\ ~is_online

(***************************************************************************)
(* No Notification is notified twice without a Reset in between (Notify    *)
(* CHECKs it), whatever the order in which the two sides wake up and reset.*)
(***************************************************************************)
ChecksHold == ~aborted

(***************************************************************************)
(* The RPC thread is detached and never joined, and looks at full_agent_   *)
(* twice.  It meets a FullAgent that is gone, or going, only when a caller *)
(* is inside Rpc() while the parent is inside ~AgentProcess: a program     *)
(* that keeps those two apart has nothing else to fear from that thread.   *)
(***************************************************************************)
HandlerUsesLiveAgent ==
  pc[Handler] \in {"load", "online", "call", "handle"} /\ ~(full_agent /\ is_online) =>
    /\ pc[Parent] \in {"waitexit", "gone"}
    /\ \E c \in Callers : pc[c] \in {"await", "reset"}

(***************************************************************************)
(* Every RPC returns, unless the AgentProcess is destroyed meanwhile: no   *)
(* side ever sleeps on a Notification that the other one has notified, or  *)
(* reset, already.                                                         *)
(***************************************************************************)
RpcReturns ==
  \A c \in Callers :
    pc[c] = "lock" ~> pc[c] = "idle" \/ pc[Parent] \in {"waitexit", "gone"}

(***************************************************************************)
(* ~AgentProcess returns, although RPCs may be under way and keep coming:  *)
(* kill_agent_ reaches the child, and it exits.  What can keep it is an    *)
(* RPC that touches the FullAgent, which ends the process, and             *)
(* TerminateAgentTasks, which may wait for an agent forever                *)
(* (AgentLifecycle).                                                       *)
(***************************************************************************)
ShutdownCompletes ==
  pc[Parent] = "waitexit" ~>
    \/ pc[Parent] = "gone"
    \/ failed # "none"
    \/ [](pc[Child] = "terminate")
===============================================================================
