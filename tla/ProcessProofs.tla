---------------------------- MODULE ProcessProofs -----------------------------
(***************************************************************************)
(* The processes around an agent process: the threads that call it         *)
(* (AgentRpc), and Orca, which starts and replaces it.                     *)
(***************************************************************************)
EXTENDS AgentRpc, Orca, NotifyProofs, SequenceTheorems

(***************************************************************************)
(* AgentRpc, for any number of callers and of RPCs. The two Notifications  *)
(* are used again by every RPC, so the invariant has to say where the one  *)
(* request that can be outstanding is: with its caller, in rpc_pending_,   *)
(* with the handler or in rpc_done_, and never in two of these places      *)
(* (PhaseInv); and who may be in which call on which Notification          *)
(* meanwhile (OpInv), late Futex::Wakes included.                          *)
(***************************************************************************)

MayNotify(th, n) ==
  \/ th \in Callers /\ pc[th] = "await" /\ n = "rpc_pending"
  \/ th = Handler /\ pc[th] = "pending" /\ n = "rpc_done"
  \/ th = Child /\ pc[th] = "kill" /\ n = "agent_ready"
  \/ th = Parent /\ pc[th] = "waitexit" /\ n = "kill_agent"

MayWait(th, n) ==
  \/ th \in Callers /\ pc[th] = "reset" /\ n = "rpc_done"
  \/ th = Handler /\ pc[th] = "reset" /\ n = "rpc_pending"
  \/ th = Child /\ pc[th] = "unset" /\ n = "kill_agent"
  \/ th = Parent /\ pc[th] = "up" /\ n = "agent_ready"

\* The call a thread is in is the one that its place in the program allows;
\* nobody notifies what is notified; whoever has got to Futex::Wait has left
\* its mark; and whoever has returned from a wait has been notified.
OpInv ==
  \A th \in Threads :
    /\ op[th].at \in NotifyLabels => MayNotify(th, op[th].on)
    /\ op[th].at \in Announcing => notified[op[th].on] # "kNotified"
    /\ op[th].at \in WaitLabels => MayWait(th, op[th].on)
    /\ op[th].at \in {"futex", "asleep", "woken"} => notified[op[th].on] # "kNoWaiter"
    /\ \A n \in Notes : MayWait(th, n) /\ op[th].at = "idle" => notified[n] = "kNotified"

\* The holder of rpc_mutex_ is the one caller between Lock and ReadResponse.
OwnerInv ==
  \A c \in Callers :
    /\ pc[c] \in {"idle", "lock", "post", "await", "reset", "read"}
    /\ pc[c] \in {"post", "await", "reset", "read"} <=> owner = c

Posting(c) == pc[c] = "await" /\ op[c].at \in Announcing
Outstanding(c) == pc[c] = "reset" \/ (pc[c] = "await" /\ op[c].at \notin Announcing)

Pending == notified["rpc_pending"] = "kNotified"
Answering == pc[Handler] = "answer" \/ (pc[Handler] = "pending" /\ op[Handler].at \in Announcing)
Busy == pc[Handler] \in {"load", "online", "call", "handle"} \/ Answering
Done == notified["rpc_done"] = "kNotified"

PhaseInv ==
  /\ ~(Pending /\ Busy) /\ ~(Pending /\ Done) /\ ~(Busy /\ Done)
  /\ Pending \/ Busy \/ Done => \E c \in Callers : Outstanding(c)

Answered(c) ==
  \/ rpc_res.code = mine[c] /\ rpc_res.buffer = mine[c]
  \/ rpc_res.code = ENODEV /\ ~is_online

DataInv ==
  \A c \in Callers :
    /\ Posting(c) \/ Outstanding(c) => rpc_req = mine[c]
    /\ Outstanding(c) /\ (Answering \/ Done) => Answered(c)
    /\ pc[c] = "read" => Answered(c)

\* PrepareToExit is over: the enclave is offline.
Offline == pc[Child] \in {"terminate", "exit", "gone"}

\* Nobody calls before the child is ready, and the child's main thread goes on
\* only after kill_agent_, which the parent notifies in ~AgentProcess.
LifeInv ==
  /\ pc[Parent] \in {"start", "up", "waitexit", "gone"}
  /\ pc[Child] \in {"start", "ready", "kill", "unset", "offline", "terminate", "exit", "gone"}
  /\ pc[Handler] \in {"start", "pending", "reset", "load", "online", "call", "handle", "answer"}
  /\ pc[Handler] = "start" <=> pc[Child] = "start"
  /\ pc[Child] = "start" => \A c \in Callers : pc[c] = "idle"
  /\ pc[Child] \in {"ready", "kill", "unset"} => full_agent /\ is_online
  /\ Offline => ~is_online
  /\ pc[Child] \in {"offline", "terminate", "exit", "gone"} => notified["kill_agent"] = "kNotified"
  /\ notified["kill_agent"] = "kNotified" => pc[Parent] \in {"waitexit", "gone"}
  /\ notified["agent_ready"] = "kNotified" => pc[Child] \notin {"start", "ready"}
  /\ pc[Parent] \in {"waitexit", "gone"} => pc[Child] \notin {"start", "ready"}

RpcInv ==
  TypeOK /\ ChecksHold /\ OpInv /\ OwnerInv /\ PhaseInv /\ DataInv /\ LifeInv
-------------------------------------------------------------------------------
(* Consequences of the invariant that the steps below share.                *)

LEMMA Roles ==
  /\ Parent \in Threads /\ Child \in Threads /\ Handler \in Threads
  /\ \A c \in Callers : c \in Threads /\ c \notin {Parent, Child, Handler, NoThread}
  /\ Parent # Child /\ Parent # Handler /\ Child # Handler
  /\ Notes = {"agent_ready", "kill_agent", "rpc_pending", "rpc_done"}
BY RpcAssumption

LEMMA RpcCalls == RpcInv => CallsOK
BY DEF RpcInv, TypeOK, ChecksHold, OpInv, CallsOK

\* A Notification has one notifier and one waiter at a time.
LEMMA OneUser ==
  ASSUME OwnerInv, NEW th \in Threads, NEW u \in Threads, NEW n
  PROVE  /\ MayNotify(th, n) /\ MayNotify(u, n) => th = u
         /\ MayWait(th, n) /\ MayWait(u, n) => th = u
         /\ ~(MayNotify(th, n) /\ MayWait(th, n))
BY Roles DEF OwnerInv, MayNotify, MayWait

\* Only the holder of the mutex has a request under way.
LEMMA OneRequest ==
  ASSUME OwnerInv, NEW c \in Callers
  PROVE  /\ Posting(c) \/ Outstanding(c) => owner = c
         /\ ~(Posting(c) /\ Outstanding(c))
BY DEF OwnerInv, Posting, Outstanding

LEMMA RpcInitInv == Init => RpcInv
<1> SUFFICES ASSUME Init PROVE RpcInv
  OBVIOUS
<1> USE DEF Init, NoteInit
<1>1. NoteTypeOK
  BY DEF NoteTypeOK, Ops, Idle, NotifiedStates
<1>2. TypeOK
  <2>1. pc \in [Threads -> {"idle", "lock", "post", "await", "reset", "read", "start", "up",
                            "waitexit", "gone", "ready", "kill", "unset", "offline", "terminate",
                            "exit", "pending", "load", "online", "call", "handle", "answer"}]
    OBVIOUS
  <2>2. /\ 0 \in 0 .. MaxRpcs /\ mine \in [Callers -> 0 .. MaxRpcs]
        /\ rpc_res \in [code : {ENODEV} \cup 0 .. MaxRpcs, buffer : 0 .. MaxRpcs]
    BY RpcAssumption DEF NoAnswer
  <2>3. is_online \in BOOLEAN /\ full_agent \in BOOLEAN
    BY Zenon
  <2> QED BY <1>1, <2>1, <2>2, <2>3 DEF TypeOK
<1>3. /\ \A th \in Threads : op[th].at = "idle"
      /\ \A c \in Callers : pc[c] = "idle"
      /\ pc[Parent] = "start" /\ pc[Child] = "start" /\ pc[Handler] = "start"
      /\ \A n \in Notes : notified[n] = "kNoWaiter"
  BY Roles DEF Idle
<1>4. OpInv
  BY <1>3, Roles DEF OpInv, MayWait, WaitLabels, NotifyLabels, Announcing
<1>5. OwnerInv
  BY <1>3, Roles DEF OwnerInv
<1>6. PhaseInv /\ DataInv
  BY <1>3, Roles DEF PhaseInv, Pending, Busy, Answering, Done, DataInv, Posting, Outstanding
<1>7. LifeInv
  BY <1>3, Roles DEF LifeInv, Offline
<1> QED BY <1>2, <1>4, <1>5, <1>6, <1>7 DEF RpcInv, ChecksHold

-------------------------------------------------------------------------------
(* A step inside a call.                                                    *)

LEMMA CallKeepsInv ==
  ASSUME RpcInv, NEW th \in Threads, Call(th) \/ Interrupted(th)
  PROVE  RpcInv'
<1> USE DEF RpcInv
<1>0. /\ NoteTypeOK' /\ ~aborted' /\ OthersAtMostWoken(th)
      /\ \/ WaitGoesOn(th) \/ WaitEnds(th)
         \/ NotifyGoesOn(th) \/ NotifyTakesEffect(th) \/ NotifyEnds(th)
      /\ UNCHANGED <<pc, callerVars, blobVars, agentVars>>
  BY OpEffect, RpcCalls DEF Call, Interrupted
<1>1. /\ NoteTypeOK
      /\ UNCHANGED <<pc, owner, issued, mine, rpc_req, rpc_res, is_online, full_agent, failed>>
  BY <1>0 DEF TypeOK, callerVars, blobVars, agentVars
<1>2. TypeOK' /\ ChecksHold' /\ OwnerInv'
  BY <1>0, <1>1 DEF TypeOK, ChecksHold, OwnerInv

\* A word is as before, or has got a mark, or is now notified by th.
<1>4. ASSUME NEW n \in Notes
      PROVE  /\ notified[n] = "kNotified" => notified'[n] = "kNotified"
             /\ notified[n] # "kNoWaiter" => notified'[n] # "kNoWaiter"
             /\ notified'[n] = "kNotified" =>
                  notified[n] = "kNotified" \/ (NotifyTakesEffect(th) /\ n = op[th].on)
  <2>0. notified \in [Notes -> NotifiedStates]
    BY <1>1 DEF NoteTypeOK
  <2>1. CASE UNCHANGED notified
    BY <2>1
  <2>2. CASE WaitGoesOn(th)
    BY <2>2 DEF WaitGoesOn
  <2>3. CASE NotifyTakesEffect(th)
    <3>1. n = op[th].on => notified'[n] = "kNotified"
      BY <2>0, <2>3 DEF NotifyTakesEffect
    <3>2. n # op[th].on => notified'[n] = notified[n]
      BY <2>0, <2>3 DEF NotifyTakesEffect
    <3> QED BY <2>3, <3>1, <3>2
  <2> QED BY <1>0, <2>1, <2>2, <2>3 DEF WaitEnds, NotifyGoesOn, NotifyEnds
<1>5. OpInv'
  <2> SUFFICES ASSUME NEW u \in Threads
               PROVE  /\ op'[u].at \in NotifyLabels => MayNotify(u, op'[u].on)
                      /\ op'[u].at \in Announcing => notified'[op'[u].on] # "kNotified"
                      /\ op'[u].at \in WaitLabels => MayWait(u, op'[u].on)
                      /\ op'[u].at \in {"futex", "asleep", "woken"} => notified'[op'[u].on] # "kNoWaiter"
                      /\ \A n \in Notes : MayWait(u, n) /\ op'[u].at = "idle" => notified'[n] = "kNotified"
    BY <1>1 DEF OpInv, MayNotify, MayWait
  <2>0. /\ op[u].at \in NotifyLabels => MayNotify(u, op[u].on)
        /\ op[u].at \in Announcing => notified[op[u].on] # "kNotified"
        /\ op[u].at \in WaitLabels => MayWait(u, op[u].on)
        /\ op[u].at \in {"futex", "asleep", "woken"} => notified[op[u].on] # "kNoWaiter"
        /\ \A n \in Notes : MayWait(u, n) /\ op[u].at = "idle" => notified[n] = "kNotified"
    BY DEF OpInv
  <2>l. /\ op[u].at \in Announcing => op[u].at \in NotifyLabels
        /\ op[u].at # "idle" => op[u].on \in Notes
        /\ op[th].at \in Announcing => op[th].at \in NotifyLabels
        /\ op[th].at # "idle" => op[th].on \in Notes
    BY <1>1, Labels
  <2>1. CASE u # th
    <3>1. CASE op'[u] = op[u]
      <4>1. ASSUME op[u].at \in Announcing PROVE notified'[op[u].on] # "kNotified"
        <5>1. MayNotify(u, op[u].on) /\ op[u].on \in Notes /\ notified[op[u].on] # "kNotified"
          BY <2>0, <2>l, <4>1 DEF Announcing
        <5>2. op[th].at \in Announcing => MayNotify(th, op[th].on)
          BY <2>l DEF OpInv
        <5>3. ~(NotifyTakesEffect(th) /\ op[u].on = op[th].on)
          BY <2>1, <5>1, <5>2, OneUser DEF NotifyTakesEffect
        <5> QED BY <1>4, <5>1, <5>3
      <4>2. op[u].at \in {"futex", "asleep", "woken"} => op[u].on \in Notes
        BY <2>l
      <4> QED BY <1>4, <2>0, <3>1, <4>1, <4>2
    <3>2. CASE op[u].at = "asleep" /\ op'[u].at = "woken" /\ op'[u].on = op[u].on
      <4>1. op[u].on \in Notes
        BY <2>l, <3>2
      <4> QED BY <1>4, <2>0, <3>2, <4>1 DEF WaitLabels, NotifyLabels, Announcing
    <3> QED BY <1>0, <2>1, <3>1, <3>2 DEF OthersAtMostWoken
  <2>2. CASE u = th /\ WaitGoesOn(th)
    BY <2>0, <2>2 DEF WaitGoesOn, WaitLabels, NotifyLabels, Announcing
  <2>3. CASE u = th /\ WaitEnds(th)
    <3>1. \A n \in Notes : MayWait(u, n) => n = op[u].on
      BY <2>0, <2>3, Roles DEF WaitEnds, MayWait
    <3> QED BY <2>3, <3>1 DEF WaitEnds, WaitLabels, NotifyLabels, Announcing
  <2>4. CASE u = th /\ NotifyGoesOn(th)
    BY <2>0, <2>l, <2>4 DEF NotifyGoesOn, WaitLabels, NotifyLabels, Announcing
  <2>5. CASE u = th /\ NotifyTakesEffect(th)
    <3>1. MayNotify(u, op[u].on) /\ \A n \in Notes : ~MayWait(u, n)
      BY <2>0, <2>l, <2>5, Roles DEF NotifyTakesEffect, MayNotify, MayWait
    <3> QED BY <2>5, <3>1 DEF NotifyTakesEffect, WaitLabels, NotifyLabels, Announcing
  <2>6. CASE u = th /\ NotifyEnds(th)
    <3>1. \A n \in Notes : ~MayWait(u, n)
      BY <2>0, <2>6, Roles DEF NotifyEnds, NotifyLabels, MayNotify, MayWait
    <3> QED BY <2>6, <3>1 DEF NotifyEnds, WaitLabels, NotifyLabels, Announcing
  <2> QED BY <1>0, <2>1, <2>2, <2>3, <2>4, <2>5, <2>6

\* Where the request is.
<1>6. ASSUME NEW u \in Threads, u # th PROVE op'[u].at \in Announcing <=> op[u].at \in Announcing
  BY <1>0, <1>6 DEF OthersAtMostWoken, Announcing
<1>7. ASSUME ~NotifyTakesEffect(th)
      PROVE  /\ \A u \in Threads : op'[u].at \in Announcing <=> op[u].at \in Announcing
             /\ \A n \in Notes : notified'[n] = "kNotified" <=> notified[n] = "kNotified"
  <2>1. op'[th].at \in Announcing <=> op[th].at \in Announcing
    BY <1>0, <1>7 DEF WaitGoesOn, WaitEnds, NotifyGoesOn, NotifyEnds, WaitLabels, Announcing
  <2> QED BY <1>4, <1>6, <1>7, <2>1
<1>8. CASE ~NotifyTakesEffect(th)
  <2>1. /\ Pending' <=> Pending
        /\ Done' <=> Done
        /\ Busy' <=> Busy
        /\ Answering' <=> Answering
    BY <1>1, <1>7, <1>8, Roles DEF Pending, Done, Busy, Answering
  <2>2. \A c \in Callers : /\ Posting(c)' <=> Posting(c)
                           /\ Outstanding(c)' <=> Outstanding(c)
                           /\ Answered(c)' <=> Answered(c)
    BY <1>1, <1>7, <1>8, Roles DEF Posting, Outstanding, Answered
  <2>3. PhaseInv'
    BY <2>1, <2>2 DEF PhaseInv
  <2>4. DataInv'
    BY <1>1, <2>1, <2>2 DEF DataInv
  <2>5. LifeInv'
    BY <1>1, <1>7, <1>8, Roles DEF LifeInv, Offline
  <2> QED BY <1>2, <1>5, <2>3, <2>4, <2>5
<1>9. CASE NotifyTakesEffect(th)
  <2>0. /\ op[th].at \in Announcing /\ op'[th].at \notin Announcing
        /\ MayNotify(th, op[th].on) /\ op[th].on \in Notes
        /\ notified'[op[th].on] = "kNotified"
        /\ \A n \in Notes : n # op[th].on => notified'[n] = notified[n]
    <3>1. op[th].at \in NotifyLabels /\ op[th].on \in Notes
      BY <1>1, <1>9, Labels DEF NotifyTakesEffect
    <3> QED BY <1>1, <1>9, <3>1 DEF NotifyTakesEffect, Announcing, OpInv, NoteTypeOK
  <2>1. \A c \in Callers : Answered(c)' <=> Answered(c)
    BY <1>1 DEF Answered
  \* PerformRpc posts its request.
  <2>2. CASE th \in Callers
    <3>1. pc[th] = "await" /\ op[th].on = "rpc_pending" /\ owner = th
      BY <2>0, <2>2, Roles DEF MayNotify, OwnerInv
    <3>2. Posting(th) /\ Outstanding(th)' /\ ~Posting(th)'
      BY <1>1, <2>0, <3>1 DEF Posting, Outstanding
    <3>3. \A c \in Callers : Outstanding(c) \/ Posting(c) => c = th
      BY <3>1, OneRequest
    <3>4. ~Outstanding(th)
      BY <2>2, <3>2, OneRequest
    <3>5. ~Busy /\ ~Done
      BY <3>3, <3>4 DEF PhaseInv
    <3>6. /\ Busy' <=> Busy
          /\ Answering' <=> Answering
          /\ Done' <=> Done
      BY <1>1, <1>6, <2>0, <2>2, <3>1, Roles DEF Busy, Answering, Done
    <3>7. PhaseInv'
      BY <2>2, <3>2, <3>5, <3>6 DEF PhaseInv
    <3>8. \A c \in Callers : c # th => /\ Posting(c)' <=> Posting(c)
                                       /\ Outstanding(c)' <=> Outstanding(c)
      BY <1>1, <1>6, Roles DEF Posting, Outstanding
    <3>9. ~Answering'
      BY <3>5, <3>6 DEF Busy
    <3>10. DataInv'
      BY <1>1, <2>1, <2>2, <3>2, <3>3, <3>5, <3>6, <3>8, <3>9 DEF DataInv
    <3>11. LifeInv'
      BY <1>1, <2>0, <3>1, Roles DEF LifeInv, Offline
    <3> QED BY <1>2, <1>5, <3>7, <3>10, <3>11
  \* The handler answers it.
  <2>3. CASE th = Handler
    <3>1. pc[th] = "pending" /\ op[th].on = "rpc_done"
      BY <2>0, <2>3, Roles DEF MayNotify
    <3>2. Answering /\ Busy /\ ~Answering' /\ ~Busy' /\ Done'
      BY <1>1, <2>0, <2>3, <3>1 DEF Busy, Answering, Done
    <3>3. /\ Pending' <=> Pending
          /\ \A c \in Callers : /\ Posting(c)' <=> Posting(c)
                                /\ Outstanding(c)' <=> Outstanding(c)
      BY <1>1, <1>6, <2>0, <2>3, <3>1, Roles DEF Pending, Posting, Outstanding
    <3>4. PhaseInv'
      BY <3>2, <3>3 DEF PhaseInv
    <3>5. DataInv'
      BY <1>1, <2>1, <3>2, <3>3 DEF DataInv
    <3>6. LifeInv'
      BY <1>1, <2>0, <3>1, Roles DEF LifeInv, Offline
    <3> QED BY <1>2, <1>5, <3>4, <3>5, <3>6
  \* agent_ready_ and kill_agent_ have nothing to do with requests.
  <2>4. CASE th \in {Child, Parent}
    <3>1. /\ th = Child => pc[Child] = "kill" /\ op[th].on = "agent_ready"
          /\ th = Parent => pc[Parent] = "waitexit" /\ op[th].on = "kill_agent"
      BY <2>0, <2>4, Roles DEF MayNotify
    <3>2. /\ Pending' <=> Pending
          /\ Done' <=> Done
          /\ Busy' <=> Busy
          /\ Answering' <=> Answering
      BY <1>1, <1>6, <2>0, <2>4, <3>1, Roles DEF Pending, Done, Busy, Answering
    <3>3. \A c \in Callers : /\ Posting(c)' <=> Posting(c)
                             /\ Outstanding(c)' <=> Outstanding(c)
      BY <1>1, <1>6, <2>4, Roles DEF Posting, Outstanding
    <3>4. PhaseInv'
      BY <3>2, <3>3 DEF PhaseInv
    <3>5. DataInv'
      BY <1>1, <2>1, <3>2, <3>3 DEF DataInv
    <3>6. LifeInv'
      BY <1>1, <2>0, <2>4, <3>1, Roles DEF LifeInv, Offline
    <3> QED BY <1>2, <1>5, <3>4, <3>5, <3>6
  <2> QED BY <2>2, <2>3, <2>4, RpcAssumption
<1> QED BY <1>8, <1>9
-------------------------------------------------------------------------------
(* The steps between the calls.                                             *)

\* What the handler's steps on the FullAgent have in common, if they return.
HandlerMoves ==
  /\ pc[Handler] \in {"load", "online", "call", "handle"} /\ op[Handler].at = "idle" /\ ~aborted
  /\ UNCHANGED <<noteVars, callerVars, rpc_req, agentVars>>
  /\ \/ /\ \E l \in {"online", "call", "handle"} : Goto(Handler, l)
        /\ rpc_res' \in {rpc_res, [code |-> NoAnswer, buffer |-> NoAnswer]}
     \/ /\ Goto(Handler, "answer")
        /\ \/ FALSE \in SeesOnline /\ rpc_res' = [rpc_res EXCEPT !.code = ENODEV]
           \/ rpc_res' = [code |-> rpc_req, buffer |-> rpc_req]

LEMMA HandlerKinds ==
  ASSUME HandlerStep
  PROVE  \/ AwaitPending \/ ResetPending \/ HandlerMoves \/ NotifyDone
         \/ Crash("full_agent")
<1>1. CASE LoadFullAgent
  BY <1>1 DEF LoadFullAgent, HandlerMoves, At, NotInCall, OpAt, blobVars
<1>2. CASE CheckOnline
  BY <1>2 DEF CheckOnline, HandlerMoves, At, NotInCall, OpAt
<1>3. CASE LoadFullAgentAgain
  BY <1>3 DEF LoadFullAgentAgain, HandlerMoves, At, NotInCall, OpAt, blobVars
<1>4. CASE RpcHandler
  BY <1>4 DEF RpcHandler, HandlerMoves, At, NotInCall, OpAt
<1> QED BY <1>1, <1>2, <1>3, <1>4 DEF HandlerStep

\* A crash leaves everything as it was.
LEMMA CrashKeepsInv ==
  ASSUME RpcInv, Crash("full_agent") \/ Crash("deleted")
  PROVE  RpcInv'
<1> USE DEF RpcInv
<1>1. /\ UNCHANGED <<notified, op, aborted, pc, owner, issued, mine>>
      /\ UNCHANGED <<rpc_req, rpc_res, is_online, full_agent>>
      /\ failed' \in {"none", "full_agent", "deleted"}
  BY DEF Crash, noteVars, callerVars, blobVars
<1>2. TypeOK' /\ ChecksHold' /\ OwnerInv'
  BY <1>1 DEF TypeOK, NoteTypeOK, ChecksHold, OwnerInv
<1>3. OpInv'
  BY <1>1 DEF OpInv, MayNotify, MayWait
<1>4. PhaseInv' /\ DataInv'
  BY <1>1 DEF PhaseInv, DataInv, Pending, Busy, Answering, Done, Posting, Outstanding, Answered
<1>5. LifeInv'
  BY <1>1 DEF LifeInv, Offline
<1> QED BY <1>2, <1>3, <1>4, <1>5

LEMMA StepTypes ==
  ASSUME TypeOK,
         \/ \E c \in Callers : CallRpc(c) \/ CallerStep(c)
         \/ ParentStep \/ KillAgent \/ ChildStep \/ DestroyFullAgent
         \/ AwaitPending \/ ResetPending \/ HandlerMoves \/ NotifyDone
  PROVE  TypeOK'
<1> USE DEF TypeOK
<1>0. /\ NoteTypeOK /\ op \in [Threads -> Ops] /\ notified \in [Notes -> NotifiedStates]
      /\ \A th \in Threads : op[th].at # "idle" => op[th].on \in Notes
  BY DEF NoteTypeOK
<1>1. ASSUME NEW th \in Threads, NEW n \in Notes, StartWait(th, n) \/ StartNotify(th, n),
             UNCHANGED <<notified, aborted>>
      PROVE  NoteTypeOK'
  <2>1. PICK x \in Ops : op' = [op EXCEPT ![th] = x] /\ x.on = n
    <3>1. /\ [at |-> "load", on |-> n, v |-> "kNoWaiter"] \in Ops
          /\ [at |-> "notify_load", on |-> n, v |-> "kNoWaiter"] \in Ops
      BY DEF Ops, WaitLabels, NotifyLabels, NotifiedStates
    <3>2. CASE StartWait(th, n)
      BY <3>1, <3>2 DEF StartWait
    <3>3. CASE StartNotify(th, n)
      BY <3>1, <3>3 DEF StartNotify
    <3> QED BY <1>1, <3>2, <3>3
  <2> QED BY <1>0, <1>1, <2>1 DEF NoteTypeOK
<1>2. ASSUME NEW n \in Notes, ResetNote(n), UNCHANGED <<op, aborted>> PROVE NoteTypeOK'
  BY <1>0, <1>2 DEF ResetNote, NoteTypeOK, NotifiedStates
<1>3. ASSUME UNCHANGED noteVars PROVE NoteTypeOK'
  BY <1>0, <1>3 DEF noteVars, NoteTypeOK
<1>4. CASE \E c \in Callers : CallRpc(c) \/ CallerStep(c)
  <2> SUFFICES ASSUME NEW c \in Callers, CallRpc(c) \/ CallerStep(c) PROVE TypeOK'
    BY <1>4
  <2> USE Roles DEF Goto, blobVars, agentVars, callerVars
  <2>1. CASE CallRpc(c)
    BY <1>3, <2>1, RpcAssumption DEF CallRpc
  <2>2. CASE Lock(c)
    BY <1>3, <2>2 DEF Lock
  <2>3. CASE PostRequest(c)
    BY <1>1, <2>3 DEF PostRequest
  <2>4. CASE AwaitDone(c)
    BY <1>1, <2>4 DEF AwaitDone
  <2>5. CASE ResetDone(c)
    BY <1>2, <2>5 DEF ResetDone
  <2>6. CASE ReadResponse(c)
    BY <1>3, <2>6 DEF ReadResponse
  <2> QED BY <2>1, <2>2, <2>3, <2>4, <2>5, <2>6 DEF CallerStep
<1>5. CASE ParentStep \/ KillAgent
  <2> USE Roles DEF Goto, blobVars, agentVars, callerVars
  <2>1. CASE AwaitReady
    BY <1>1, <2>1 DEF AwaitReady
  <2>2. CASE KillAgent
    BY <1>1, <2>2 DEF KillAgent
  <2>3. CASE WaitForChildExit
    BY <1>3, <2>3 DEF WaitForChildExit
  <2> QED BY <1>5, <2>1, <2>2, <2>3 DEF ParentStep
<1>6. CASE ChildStep \/ DestroyFullAgent
  <2> USE Roles DEF Goto, blobVars, agentVars, callerVars
  <2>1. CASE StartFullAgent
    BY <1>3, <2>1 DEF StartFullAgent
  <2>2. CASE NotifyReady
    BY <1>1, <2>2 DEF NotifyReady
  <2>3. CASE AwaitKill
    BY <1>1, <2>3 DEF AwaitKill
  <2>4. CASE GoOffline
    BY <1>3, <2>4 DEF GoOffline
  <2>5. CASE DestroyFullAgent
    BY <1>3, <2>5 DEF DestroyFullAgent
  <2>6. CASE ExitChild
    BY <1>3, <2>6 DEF ExitChild
  <2>7. CASE UnsetFullAgent
    BY <1>3, <2>7 DEF UnsetFullAgent
  <2> QED BY <1>6, <2>1, <2>2, <2>3, <2>4, <2>5, <2>6, <2>7 DEF ChildStep
<1>7. CASE AwaitPending \/ ResetPending \/ HandlerMoves \/ NotifyDone
  <2> USE Roles DEF Goto, blobVars, agentVars, callerVars
  <2>1. CASE AwaitPending
    BY <1>1, <2>1 DEF AwaitPending
  <2>2. CASE ResetPending
    BY <1>2, <2>2 DEF ResetPending
  <2>3. CASE HandlerMoves
    <3>1. rpc_res' \in [code : {ENODEV} \cup 0 .. MaxRpcs, buffer : 0 .. MaxRpcs]
      <4>1. /\ rpc_res \in [code : {ENODEV} \cup 0 .. MaxRpcs, buffer : 0 .. MaxRpcs]
            /\ rpc_req \in 0 .. MaxRpcs /\ NoAnswer \in 0 .. MaxRpcs
        BY RpcAssumption DEF NoAnswer
      <4>2. \/ rpc_res' = rpc_res
            \/ rpc_res' = [code |-> NoAnswer, buffer |-> NoAnswer]
            \/ rpc_res' = [rpc_res EXCEPT !.code = ENODEV]
            \/ rpc_res' = [code |-> rpc_req, buffer |-> rpc_req]
        BY <2>3 DEF HandlerMoves
      <4> QED BY <4>1, <4>2
    <3>2. PICK l \in {"online", "call", "handle", "answer"} : pc' = [pc EXCEPT ![Handler] = l]
      BY <2>3 DEF HandlerMoves
    <3> QED BY <1>3, <2>3, <3>1, <3>2 DEF HandlerMoves
  <2>5. CASE NotifyDone
    BY <1>1, <2>5 DEF NotifyDone
  <2> QED BY <1>7, <2>1, <2>2, <2>3, <2>5
<1> QED BY <1>4, <1>5, <1>6, <1>7

\* Thread th goes on in its program, and perhaps starts a call.
LEMMA GoingOn ==
  ASSUME OpInv, NEW th \in Threads, UNCHANGED notified,
         \A u \in Threads : u # th => pc'[u] = pc[u] /\ op'[u] = op[u],
         op'[th].at \in {"idle", "load", "notify_load"},
         op'[th].at = "idle" => \A n \in Notes : ~MayWait(th, n)',
         op'[th].at = "load" => MayWait(th, op[th].on)',
         op'[th].at = "notify_load" => MayNotify(th, op[th].on)' /\ notified[op'[th].on] # "kNotified"
  PROVE  OpInv'
<1> SUFFICES ASSUME NEW u \in Threads
             PROVE  /\ op'[u].at \in NotifyLabels => MayNotify(u, op[u].on)'
                    /\ op'[u].at \in Announcing => notified'[op'[u].on] # "kNotified"
                    /\ op'[u].at \in WaitLabels => MayWait(u, op[u].on)'
                    /\ op'[u].at \in {"futex", "asleep", "woken"} => notified'[op'[u].on] # "kNoWaiter"
                    /\ \A n \in Notes : MayWait(u, n)' /\ op'[u].at = "idle" => notified'[n] = "kNotified"
  BY DEF OpInv
<1>1. CASE u = th
  BY <1>1 DEF NotifyLabels, WaitLabels, Announcing
<1>2. CASE u # th
  <2>1. pc'[u] = pc[u] /\ op'[u] = op[u]
    BY <1>2
  <2> QED BY <2>1 DEF OpInv, MayNotify, MayWait
<1> QED BY <1>1, <1>2

\* Thread th, and nobody else, has returned from a wait for n, and resets it.
LEMMA Resetting ==
  ASSUME NoteTypeOK, OpInv, OwnerInv, NEW th \in Threads, NEW n \in Notes,
         op[th].at = "idle", MayWait(th, n), UNCHANGED op, ResetNote(n),
         \A u \in Threads : u # th => pc'[u] = pc[u],
         \A m \in Notes : ~MayWait(th, m)'
  PROVE  OpInv'
<1>1. notified'[n] = "kNoWaiter" /\ \A m \in Notes : m # n => notified'[m] = notified[m]
  BY DEF ResetNote, NoteTypeOK
<1> SUFFICES ASSUME NEW u \in Threads
             PROVE  /\ op'[u].at \in NotifyLabels => MayNotify(u, op[u].on)'
                    /\ op'[u].at \in Announcing => notified'[op'[u].on] # "kNotified"
                    /\ op'[u].at \in WaitLabels => MayWait(u, op[u].on)'
                    /\ op'[u].at \in {"futex", "asleep", "woken"} => notified'[op'[u].on] # "kNoWaiter"
                    /\ \A m \in Notes : MayWait(u, m)' /\ op'[u].at = "idle" => notified'[m] = "kNotified"
  BY DEF OpInv
<1>2. CASE u = th
  BY <1>2 DEF NotifyLabels, WaitLabels, Announcing
<1>3. CASE u # th
  <2>1. /\ \A m \in Notes : (MayWait(u, m)' <=> MayWait(u, m)) /\ (MayNotify(u, m)' <=> MayNotify(u, m))
        /\ ~MayWait(u, n)
    BY <1>3, OneUser DEF MayWait, MayNotify
  <2>2. op[u].at \in WaitLabels => op[u].on # n
    BY <2>1 DEF OpInv
  <2>3. op[u].at # "idle" => op[u].on \in Notes
    BY Labels
  <2>4. /\ op[u].at \in NotifyLabels => MayNotify(u, op[u].on)'
        /\ op[u].at \in WaitLabels => MayWait(u, op[u].on)'
    BY <2>1, <2>3 DEF OpInv, NotifyLabels, WaitLabels
  <2> QED BY <1>1, <2>1, <2>2, <2>3, <2>4 DEF OpInv, WaitLabels, Announcing
<1> QED BY <1>2, <1>3

LEMMA CallerKeepsInv ==
  ASSUME RpcInv, NEW c \in Callers, CallRpc(c) \/ CallerStep(c)
  PROVE  RpcInv'
<1> USE DEF RpcInv
<1>0. /\ c \in Threads /\ c # Parent /\ c # Child /\ c # Handler /\ c # NoThread
      /\ Parent \in Threads /\ Child \in Threads /\ Handler \in Threads
      /\ \A d \in Callers : d \in Threads /\ d # Parent /\ d # Child /\ d # Handler
      /\ op[c].at = "idle" /\ ~aborted /\ NoteTypeOK
      /\ pc \in [Threads -> {"idle", "lock", "post", "await", "reset", "read", "start", "up",
                             "waitexit", "gone", "ready", "kill", "unset", "offline", "terminate",
                             "exit", "pending", "load", "online", "call", "handle", "answer"}]
      /\ op \in [Threads -> Ops] /\ mine \in [Callers -> 0 .. MaxRpcs]
      /\ UNCHANGED <<rpc_res, agentVars, aborted>>
  BY Roles DEF CallRpc, CallerStep, Lock, PostRequest, AwaitDone, ResetDone, ReadResponse, At,
               NotInCall, OpAt, TypeOK, NoteTypeOK, noteVars, blobVars
<1>1. TypeOK' /\ ChecksHold'
  BY <1>0, StepTypes DEF ChecksHold
<1>2. ASSUME NEW l, Goto(c, l)
      PROVE  pc'[c] = l /\ \A u \in Threads : u # c => pc'[u] = pc[u]
  BY <1>0, <1>2 DEF Goto

\* Everybody else sees at most a Notification change.
<1>3. ASSUME NEW l, Goto(c, l), \A u \in Threads : u # c => op'[u] = op[u]
      PROVE  /\ Answering' <=> Answering
             /\ Busy' <=> Busy
             /\ \A d \in Callers : d # c => /\ Posting(d)' <=> Posting(d)
                                            /\ Outstanding(d)' <=> Outstanding(d)
  BY <1>0, <1>2, <1>3 DEF Answering, Busy, Posting, Outstanding
<1>4. ASSUME NEW l, Goto(c, l), pc[Child] # "start",
             \A n \in {"kill_agent", "agent_ready"} : notified'[n] = notified[n]
      PROVE  LifeInv'
  BY <1>0, <1>2, <1>4 DEF LifeInv, Offline, agentVars
<1>5. pc[c] # "idle" => pc[Child] # "start"
  BY DEF LifeInv
<1>6. ASSUME owner = c, NEW d \in Callers, d # c PROVE ~Posting(d) /\ ~Outstanding(d) /\ pc[d] # "read"
  BY <1>6, OneRequest DEF OwnerInv
<1>7. CASE CallRpc(c)
  <2>0. pc[Child] # "start"
    <3>1. CASE pc[Parent] = "up" /\ op[Parent].at = "idle"
      <4>1. MayWait(Parent, "agent_ready")
        BY <3>1 DEF MayWait
      <4> QED BY <1>0, <3>1, <4>1, Roles DEF OpInv, LifeInv
    <3>2. CASE pc[Parent] = "waitexit"
      BY <3>2 DEF LifeInv
    <3> QED BY <1>7, <3>1, <3>2 DEF CallRpc, Constructed, NotInCall, OpAt
  <2>1. /\ pc[c] = "idle" /\ Goto(c, "lock")
        /\ UNCHANGED <<notified, op, owner, rpc_req>>
        /\ \A d \in Callers : d # c => mine'[d] = mine[d]
    BY <1>0, <1>7 DEF CallRpc, At, noteVars, blobVars
  <2>2. OpInv'
    BY <1>0, <1>2, <2>1, GoingOn DEF MayWait
  <2>3. OwnerInv'
    BY <1>0, <1>2, <2>1 DEF OwnerInv
  <2>4. /\ ~Outstanding(c) /\ ~Outstanding(c)' /\ ~Posting(c)'
        /\ pc'[c] = "lock"
    BY <1>2, <2>1 DEF Outstanding, Posting
  <2>5. PhaseInv'
    BY <1>3, <2>1, <2>4 DEF PhaseInv, Pending, Done
  <2>6. DataInv'
    BY <1>0, <1>2, <1>3, <2>1, <2>4 DEF DataInv, Done, Answered, agentVars
  <2>7. LifeInv'
    BY <1>4, <2>0, <2>1
  <2> QED BY <1>1, <2>2, <2>3, <2>5, <2>6, <2>7
<1>8. CASE Lock(c)
  <2>1. /\ pc[c] = "lock" /\ Goto(c, "post") /\ owner = NoThread /\ owner' = c
        /\ UNCHANGED <<notified, op, mine, rpc_req>>
    BY <1>8 DEF Lock, At, noteVars, blobVars
  <2>2. OpInv'
    BY <1>0, <1>2, <2>1, GoingOn DEF MayWait
  <2>3. OwnerInv'
    <3>1. \A d \in Callers : d # NoThread
      BY Roles
    <3> QED BY <1>0, <1>2, <2>1, <3>1 DEF OwnerInv
  <2>4. /\ ~Outstanding(c) /\ ~Outstanding(c)' /\ ~Posting(c)'
        /\ pc'[c] = "post"
    BY <1>2, <2>1 DEF Outstanding, Posting
  <2>5. PhaseInv'
    BY <1>3, <2>1, <2>4 DEF PhaseInv, Pending, Done
  <2>6. DataInv'
    BY <1>0, <1>2, <1>3, <2>1, <2>4 DEF DataInv, Done, Answered, agentVars
  <2>7. LifeInv'
    BY <1>4, <1>5, <2>1
  <2> QED BY <1>1, <2>2, <2>3, <2>5, <2>6, <2>7
<1>9. CASE PostRequest(c)
  <2>1. /\ pc[c] = "post" /\ Goto(c, "await") /\ rpc_req' = mine[c] /\ owner = c
        /\ UNCHANGED <<notified, owner, mine>>
        /\ op'[c] = [at |-> "notify_load", on |-> "rpc_pending", v |-> "kNoWaiter"]
        /\ \A u \in Threads : u # c => op'[u] = op[u]
    BY <1>0, <1>9 DEF PostRequest, At, StartNotify, callerVars, OwnerInv
  <2>2. ~Outstanding(c) /\ ~Outstanding(c)' /\ Posting(c)' /\ pc'[c] = "await"
    BY <1>2, <2>1 DEF Outstanding, Posting, Announcing
  \* Nothing is left of the request before.
  <2>3. ~Pending /\ ~Busy /\ ~Done
    BY <1>6, <2>1, <2>2 DEF PhaseInv
  <2>4. OpInv'
    BY <1>0, <1>2, <2>1, <2>3, GoingOn DEF MayNotify, Pending
  <2>5. OwnerInv'
    BY <1>0, <1>2, <2>1 DEF OwnerInv
  <2>6. ~Pending' /\ ~Busy' /\ ~Done'
    BY <1>3, <2>1, <2>3 DEF Pending, Done
  <2>7. PhaseInv'
    BY <2>6 DEF PhaseInv
  <2>8. DataInv'
    <3>1. ASSUME NEW d \in Callers, d # c
          PROVE  ~Posting(d)' /\ ~Outstanding(d)' /\ pc'[d] # "read"
      BY <1>0, <1>2, <1>3, <1>6, <2>1, <3>1
    <3> QED BY <2>1, <2>2, <3>1 DEF DataInv
  <2>9. LifeInv'
    BY <1>4, <1>5, <2>1
  <2> QED BY <1>1, <2>4, <2>5, <2>7, <2>8, <2>9
<1>10. CASE AwaitDone(c)
  <2>1. /\ pc[c] = "await" /\ Goto(c, "reset")
        /\ UNCHANGED <<notified, owner, mine, rpc_req>>
        /\ op'[c] = [at |-> "load", on |-> "rpc_done", v |-> "kNoWaiter"]
        /\ \A u \in Threads : u # c => op'[u] = op[u]
    BY <1>0, <1>10 DEF AwaitDone, At, StartWait, callerVars, blobVars
  <2>2. Outstanding(c) /\ Outstanding(c)' /\ ~Posting(c)' /\ pc'[c] = "reset"
    BY <1>0, <1>2, <2>1 DEF Outstanding, Posting, Announcing
  <2>3. OpInv'
    BY <1>0, <1>2, <2>1, GoingOn DEF MayWait
  <2>4. OwnerInv'
    BY <1>0, <1>2, <2>1 DEF OwnerInv
  <2>5. PhaseInv'
    BY <1>3, <2>1, <2>2 DEF PhaseInv, Pending, Done
  <2>6. DataInv'
    BY <1>0, <1>2, <1>3, <2>1, <2>2 DEF DataInv, Done, Answered, agentVars
  <2>7. LifeInv'
    BY <1>4, <1>5, <2>1
  <2> QED BY <1>1, <2>3, <2>4, <2>5, <2>6, <2>7
<1>11. CASE ResetDone(c)
  <2>1. /\ pc[c] = "reset" /\ Goto(c, "read") /\ ResetNote("rpc_done")
        /\ UNCHANGED <<op, owner, mine, rpc_req>> /\ owner = c
    BY <1>0, <1>11 DEF ResetDone, At, callerVars, blobVars, OwnerInv
  <2>2. /\ notified'["rpc_done"] = "kNoWaiter"
        /\ \A n \in Notes : n # "rpc_done" => notified'[n] = notified[n]
    BY <1>0, <2>1, Roles DEF ResetNote, NoteTypeOK
  <2>3. MayWait(c, "rpc_done") /\ \A m \in Notes : ~MayWait(c, m)'
    BY <1>0, <1>2, <2>1 DEF MayWait
  <2>4. Done
    BY <1>0, <2>3, Roles DEF OpInv, Done
  <2>5. Outstanding(c) /\ ~Outstanding(c)' /\ ~Posting(c)' /\ pc'[c] = "read"
    BY <1>2, <2>1 DEF Outstanding, Posting
  <2>6. OpInv'
    BY <1>0, <1>2, <2>1, <2>3, Roles, Resetting
  <2>7. OwnerInv'
    BY <1>0, <1>2, <2>1 DEF OwnerInv
  <2>8. ~Pending' /\ ~Busy' /\ ~Done'
    <3>1. ~Pending /\ ~Busy
      BY <2>4 DEF PhaseInv
    <3> QED BY <1>3, <2>1, <2>2, <3>1, Roles DEF Pending, Done
  <2>9. PhaseInv'
    BY <2>8 DEF PhaseInv
  <2>10. Answered(c)'
    BY <1>0, <2>1, <2>4, <2>5 DEF DataInv, Answered, agentVars
  <2>11. DataInv'
    <3>1. ASSUME NEW d \in Callers, d # c
          PROVE  ~Posting(d)' /\ ~Outstanding(d)' /\ pc'[d] # "read"
      BY <1>0, <1>2, <1>3, <1>6, <2>1, <3>1
    <3> QED BY <2>5, <2>10, <3>1 DEF DataInv
  <2>12. LifeInv'
    BY <1>4, <1>5, <2>1, <2>2, Roles
  <2> QED BY <1>1, <2>6, <2>7, <2>9, <2>11, <2>12
<1>12. CASE ReadResponse(c)
  <2>1. /\ pc[c] = "read" /\ Goto(c, "idle") /\ owner' = NoThread /\ owner = c
        /\ UNCHANGED <<notified, op, mine, rpc_req>>
    BY <1>0, <1>12 DEF ReadResponse, At, noteVars, blobVars, OwnerInv
  <2>2. OpInv'
    BY <1>0, <1>2, <2>1, GoingOn DEF MayWait
  <2>3. OwnerInv'
    <3>1. \A d \in Callers : d # NoThread
      BY Roles
    <3> QED BY <1>0, <1>2, <2>1, <3>1 DEF OwnerInv
  <2>4. /\ ~Outstanding(c) /\ ~Outstanding(c)' /\ ~Posting(c)'
        /\ pc'[c] = "idle"
    BY <1>2, <2>1 DEF Outstanding, Posting
  <2>5. PhaseInv'
    BY <1>3, <2>1, <2>4 DEF PhaseInv, Pending, Done
  <2>6. DataInv'
    BY <1>0, <1>2, <1>3, <2>1, <2>4 DEF DataInv, Done, Answered, agentVars
  <2>7. LifeInv'
    BY <1>4, <1>5, <2>1
  <2> QED BY <1>1, <2>2, <2>3, <2>5, <2>6, <2>7
<1> QED BY <1>7, <1>8, <1>9, <1>10, <1>11, <1>12 DEF CallerStep

\* The agent's side: the parent's own thread, the child's and the handler.
LEMMA AgentSideKeepsInv ==
  ASSUME RpcInv,
         \/ ParentStep \/ KillAgent \/ ChildStep \/ DestroyFullAgent
         \/ AwaitPending \/ ResetPending \/ HandlerMoves \/ NotifyDone
  PROVE  RpcInv'
<1> USE DEF RpcInv
<1>0. /\ Parent # Child /\ Parent # Handler /\ Child # Handler
      /\ Parent \in Threads /\ Child \in Threads /\ Handler \in Threads
      /\ \A d \in Callers : d \in Threads /\ d # Parent /\ d # Child /\ d # Handler
      /\ ~aborted /\ NoteTypeOK
      /\ pc \in [Threads -> {"idle", "lock", "post", "await", "reset", "read", "start", "up",
                             "waitexit", "gone", "ready", "kill", "unset", "offline", "terminate",
                             "exit", "pending", "load", "online", "call", "handle", "answer"}]
      /\ op \in [Threads -> Ops]
      /\ UNCHANGED <<owner, issued, mine, rpc_req, aborted>>
  BY Roles DEF ParentStep, AwaitReady, WaitForChildExit, KillAgent, ChildStep, StartFullAgent,
               NotifyReady, AwaitKill, UnsetFullAgent, GoOffline, DestroyFullAgent, ExitChild,
               AwaitPending, ResetPending, HandlerMoves, NotifyDone, At,
               NotInCall, OpAt, TypeOK, NoteTypeOK, noteVars, blobVars, callerVars
<1>1. TypeOK' /\ ChecksHold'
  BY <1>0, StepTypes DEF ChecksHold
<1>2. ASSUME NEW th \in Threads, NEW l, Goto(th, l)
      PROVE  pc'[th] = l /\ \A u \in Threads : u # th => pc'[u] = pc[u]
  BY <1>0, <1>2 DEF Goto

\* The callers do not move.
<1>3. ASSUME \A u \in Callers : pc'[u] = pc[u] /\ op'[u] = op[u]
      PROVE  /\ OwnerInv'
             /\ \A c \in Callers : /\ Posting(c)' <=> Posting(c)
                                   /\ Outstanding(c)' <=> Outstanding(c)
                                   /\ pc'[c] = pc[c]
  BY <1>0, <1>3 DEF OwnerInv, Posting, Outstanding

\* Nor does the handler.
<1>4. ASSUME \A u \in Callers \cup {Handler} : pc'[u] = pc[u] /\ op'[u] = op[u],
             UNCHANGED <<notified, rpc_res>>, ~is_online => ~is_online'
      PROVE  OwnerInv' /\ PhaseInv' /\ DataInv'
  <2>1. /\ Answering' <=> Answering
        /\ Busy' <=> Busy
        /\ Pending' <=> Pending
        /\ Done' <=> Done
    BY <1>4 DEF Answering, Busy, Pending, Done
  <2>2. \A c \in Callers : Answered(c) => Answered(c)'
    BY <1>0, <1>4 DEF Answered
  <2>3. OwnerInv' /\ \A c \in Callers : /\ Posting(c)' <=> Posting(c)
                                        /\ Outstanding(c)' <=> Outstanding(c)
                                        /\ pc'[c] = pc[c]
    BY <1>3, <1>4
  <2>4. PhaseInv'
    BY <2>1, <2>3 DEF PhaseInv
  <2>5. DataInv'
    BY <1>0, <2>1, <2>2, <2>3 DEF DataInv
  <2> QED BY <2>3, <2>4, <2>5
<1>5. CASE AwaitReady
  <2>1. /\ pc[Parent] = "start" /\ Goto(Parent, "up") /\ UNCHANGED <<notified, rpc_res, agentVars>>
        /\ op'[Parent] = [at |-> "load", on |-> "agent_ready", v |-> "kNoWaiter"]
        /\ \A u \in Threads : u # Parent => op'[u] = op[u]
    BY <1>0, <1>5 DEF AwaitReady, At, StartWait, blobVars
  <2>2. OpInv'
    BY <1>0, <1>2, <2>1, GoingOn DEF MayWait
  <2>3. LifeInv'
    BY <1>0, <1>2, <2>1 DEF LifeInv, Offline, agentVars
  <2> QED BY <1>0, <1>1, <1>2, <1>4, <2>1, <2>2, <2>3 DEF agentVars
<1>6. CASE WaitForChildExit
  <2>1. /\ pc[Parent] = "waitexit" /\ Goto(Parent, "gone") /\ UNCHANGED <<notified, op, rpc_res, agentVars>>
        /\ op[Parent].at = "idle"
    BY <1>0, <1>6 DEF WaitForChildExit, At, NotInCall, OpAt, noteVars, blobVars
  <2>2. OpInv'
    BY <1>0, <1>2, <2>1, GoingOn DEF MayWait
  <2>3. LifeInv'
    BY <1>0, <1>2, <2>1 DEF LifeInv, Offline, agentVars
  <2> QED BY <1>0, <1>1, <1>2, <1>4, <2>1, <2>2, <2>3 DEF agentVars
<1>7. CASE KillAgent
  <2>1. /\ pc[Parent] = "up" /\ Goto(Parent, "waitexit") /\ UNCHANGED <<notified, rpc_res, agentVars>>
        /\ op'[Parent] = [at |-> "notify_load", on |-> "kill_agent", v |-> "kNoWaiter"]
        /\ \A u \in Threads : u # Parent => op'[u] = op[u]
        /\ op[Parent].at = "idle"
    BY <1>0, <1>7 DEF KillAgent, At, NotInCall, OpAt, StartNotify, blobVars
  <2>2. notified["kill_agent"] # "kNotified" /\ pc[Child] \notin {"start", "ready"}
    <3>1. MayWait(Parent, "agent_ready")
      BY <2>1 DEF MayWait
    <3> QED BY <1>0, <2>1, <3>1, Roles DEF OpInv, LifeInv
  <2>3. OpInv'
    BY <1>0, <1>2, <2>1, <2>2, GoingOn DEF MayNotify
  <2>4. LifeInv'
    BY <1>0, <1>2, <2>1, <2>2 DEF LifeInv, Offline, agentVars
  <2> QED BY <1>0, <1>1, <1>2, <1>4, <2>1, <2>3, <2>4 DEF agentVars
<1>8. CASE StartFullAgent
  <2>1. /\ pc[Child] = "start" /\ pc[Handler] = "start"
        /\ pc'[Child] = "ready" /\ pc'[Handler] = "pending"
        /\ \A u \in Threads : u # Child /\ u # Handler => pc'[u] = pc[u]
        /\ UNCHANGED <<notified, op, rpc_res>>
        /\ op[Child].at = "idle" /\ full_agent' /\ is_online'
    BY <1>0, <1>8 DEF StartFullAgent, At, NotInCall, OpAt, noteVars, blobVars, LifeInv
  <2>2. op[Handler].at = "idle"
    BY <1>0, <2>1, Labels DEF OpInv, MayNotify, MayWait
  <2>3. OpInv'
    <3>1. ASSUME NEW u \in Threads, u # Child, u # Handler, NEW n
          PROVE  /\ MayNotify(u, n)' <=> MayNotify(u, n)
                 /\ MayWait(u, n)' <=> MayWait(u, n)
      BY <2>1, <3>1 DEF MayNotify, MayWait
    <3>2. ASSUME NEW n PROVE ~MayWait(Child, n)' /\ ~MayWait(Handler, n)'
      BY <1>0, <2>1 DEF MayWait
    <3> QED BY <2>1, <2>2, <3>1, <3>2 DEF OpInv, NotifyLabels, WaitLabels, Announcing
  <2>4. /\ ~Busy /\ ~Busy' /\ ~Answering /\ ~Answering'
        /\ Pending' <=> Pending
        /\ Done' <=> Done
    BY <2>1, <2>2 DEF Busy, Answering, Pending, Done, Announcing
  <2>5. OwnerInv' /\ \A c \in Callers : /\ Posting(c)' <=> Posting(c)
                                        /\ Outstanding(c)' <=> Outstanding(c)
                                        /\ pc'[c] = pc[c]
    BY <1>0, <1>3, <2>1
  <2>6. PhaseInv'
    BY <2>4, <2>5 DEF PhaseInv
  <2>7. DataInv'
    <3>1. \A c \in Callers : pc[c] = "idle"
      BY <2>1 DEF LifeInv
    <3> QED BY <1>0, <2>1, <2>5, <3>1 DEF DataInv, Posting, Outstanding
  <2>8. LifeInv'
    BY <1>0, <2>1 DEF LifeInv, Offline
  <2> QED BY <1>1, <2>3, <2>5, <2>6, <2>7, <2>8
<1>9. CASE NotifyReady
  <2>1. /\ pc[Child] = "ready" /\ Goto(Child, "kill") /\ UNCHANGED <<notified, rpc_res, agentVars>>
        /\ op'[Child] = [at |-> "notify_load", on |-> "agent_ready", v |-> "kNoWaiter"]
        /\ \A u \in Threads : u # Child => op'[u] = op[u]
    BY <1>0, <1>9 DEF NotifyReady, At, StartNotify, blobVars
  <2>2. notified["agent_ready"] # "kNotified"
    BY <2>1 DEF LifeInv
  <2>3. OpInv'
    BY <1>0, <1>2, <2>1, <2>2, GoingOn DEF MayNotify
  <2>4. LifeInv'
    BY <1>0, <1>2, <2>1 DEF LifeInv, Offline, agentVars
  <2> QED BY <1>0, <1>1, <1>2, <1>4, <2>1, <2>3, <2>4 DEF agentVars
<1>10. CASE AwaitKill
  <2>1. /\ pc[Child] = "kill" /\ Goto(Child, "unset") /\ UNCHANGED <<notified, rpc_res, agentVars>>
        /\ op'[Child] = [at |-> "load", on |-> "kill_agent", v |-> "kNoWaiter"]
        /\ \A u \in Threads : u # Child => op'[u] = op[u]
    BY <1>0, <1>10 DEF AwaitKill, At, StartWait, blobVars
  <2>2. OpInv'
    BY <1>0, <1>2, <2>1, GoingOn DEF MayWait
  <2>3. LifeInv'
    BY <1>0, <1>2, <2>1 DEF LifeInv, Offline, agentVars
  <2> QED BY <1>0, <1>1, <1>2, <1>4, <2>1, <2>2, <2>3 DEF agentVars

\* ~FullAgent starts when kill_agent_ has been seen.
<1>11. CASE UnsetFullAgent \/ GoOffline \/ DestroyFullAgent \/ ExitChild
  <2>1. PICK l \in {"offline", "terminate", "exit", "gone"} :
          /\ pc[Child] \in {"unset", "offline", "terminate", "exit"} /\ Goto(Child, l)
          /\ UNCHANGED <<notified, op, rpc_res>> /\ op[Child].at = "idle"
          /\ ~is_online => ~is_online'
          /\ l # "offline" => (pc[Child] = "offline" /\ ~is_online') \/ Offline
    BY <1>0, <1>11 DEF UnsetFullAgent, GoOffline, DestroyFullAgent, ExitChild, At, NotInCall, OpAt,
                       noteVars, blobVars, agentVars, Offline
  <2>2. notified["kill_agent"] = "kNotified"
    <3>1. CASE pc[Child] = "unset"
      BY <1>0, <2>1, <3>1, Roles DEF OpInv, MayWait
    <3>2. CASE pc[Child] \in {"offline", "terminate", "exit"}
      BY <3>2 DEF LifeInv
    <3> QED BY <2>1, <3>1, <3>2
  <2>3. OpInv'
    BY <1>0, <1>2, <2>1, GoingOn DEF MayWait
  <2>4. LifeInv'
    <3>1. Offline' => ~is_online'
      BY <1>0, <1>2, <2>1 DEF LifeInv, Offline
    <3> QED BY <1>0, <1>2, <2>1, <2>2, <3>1 DEF LifeInv
  <2> QED BY <1>0, <1>1, <1>2, <1>4, <2>1, <2>3, <2>4
<1>12. CASE AwaitPending \/ ResetPending \/ HandlerMoves \/ NotifyDone
  \* Who waits at "pending" has finished with the request before.
  <2>1. CASE AwaitPending
    <3>1. /\ pc[Handler] = "pending" /\ Goto(Handler, "reset") /\ UNCHANGED <<notified, rpc_res, agentVars>>
          /\ op'[Handler] = [at |-> "load", on |-> "rpc_pending", v |-> "kNoWaiter"]
          /\ op[Handler].at = "idle"
          /\ \A u \in Threads : u # Handler => op'[u] = op[u]
      BY <1>0, <2>1 DEF AwaitPending, At, NotInCall, OpAt, StartWait, blobVars
    <3>2. OpInv'
      BY <1>0, <1>2, <3>1, GoingOn DEF MayWait
    <3>3. LifeInv'
      BY <1>0, <1>2, <3>1 DEF LifeInv, Offline, agentVars
    <3>4. /\ ~Busy /\ ~Busy' /\ ~Answering /\ ~Answering'
          /\ Pending' <=> Pending
          /\ Done' <=> Done
      BY <1>0, <1>2, <3>1 DEF Busy, Answering, Pending, Done, Announcing
    <3>5. OwnerInv' /\ \A c \in Callers : /\ Posting(c)' <=> Posting(c)
                                          /\ Outstanding(c)' <=> Outstanding(c)
                                          /\ pc'[c] = pc[c]
      BY <1>0, <1>2, <1>3, <3>1
    <3>6. PhaseInv'
      BY <3>4, <3>5 DEF PhaseInv
    <3>7. DataInv'
      BY <1>0, <3>1, <3>4, <3>5 DEF DataInv, Answered, agentVars
    <3> QED BY <1>1, <3>2, <3>3, <3>5, <3>6, <3>7
  \* From rpc_pending_ to the handler.
  <2>2. CASE ResetPending
    <3>1. /\ pc[Handler] = "reset" /\ Goto(Handler, "load") /\ ResetNote("rpc_pending")
          /\ UNCHANGED <<op, rpc_res, agentVars>> /\ op[Handler].at = "idle"
      BY <1>0, <2>2 DEF ResetPending, At, NotInCall, OpAt, blobVars
    <3>2. /\ notified'["rpc_pending"] = "kNoWaiter"
          /\ \A n \in Notes : n # "rpc_pending" => notified'[n] = notified[n]
      BY <1>0, <3>1, Roles DEF ResetNote, NoteTypeOK
    <3>3. MayWait(Handler, "rpc_pending") /\ \A m \in Notes : ~MayWait(Handler, m)'
      BY <1>0, <1>2, <3>1 DEF MayWait
    <3>4. Pending /\ ~Done
      BY <1>0, <3>1, <3>3, Roles DEF OpInv, Pending, PhaseInv
    <3>5. OpInv'
      BY <1>0, <1>2, <3>1, <3>3, Roles, Resetting
    <3>6. OwnerInv' /\ \A c \in Callers : /\ Posting(c)' <=> Posting(c)
                                          /\ Outstanding(c)' <=> Outstanding(c)
                                          /\ pc'[c] = pc[c]
      BY <1>0, <1>2, <1>3, <3>1
    <3>7. ~Pending' /\ ~Done' /\ ~Answering'
      BY <1>0, <1>2, <3>1, <3>2, <3>4, Roles DEF Pending, Done, Answering
    <3>8. PhaseInv'
      BY <3>4, <3>6, <3>7 DEF PhaseInv
    <3>9. DataInv'
      BY <1>0, <3>1, <3>6, <3>7 DEF DataInv, Answered, agentVars
    <3>10. LifeInv'
      BY <1>0, <1>2, <3>1, <3>2, Roles DEF LifeInv, Offline, agentVars
    <3> QED BY <1>1, <3>5, <3>6, <3>8, <3>9, <3>10
  <2>3. FALSE \in SeesOnline => ~is_online
    BY DEF SeesOnline, Destroyed, LifeInv, Offline
  \* The handler's own steps.
  <2>4. CASE HandlerMoves \/ NotifyDone
    <3>1. /\ pc[Handler] \in {"load", "online", "call", "handle", "answer"} /\ op[Handler].at = "idle"
          /\ UNCHANGED <<notified, agentVars>>
          /\ \A u \in Threads : u # Handler => op'[u] = op[u] /\ pc'[u] = pc[u]
      BY <1>0, <2>4 DEF HandlerMoves, NotifyDone, At, NotInCall, OpAt, Goto, StartNotify, noteVars
    <3>2. Busy
      BY <3>1 DEF Busy, Answering
    <3>3. ~Pending /\ ~Done /\ ~Pending' /\ ~Done'
      BY <3>1, <3>2 DEF PhaseInv, Pending, Done
    <3>4. OwnerInv' /\ \A c \in Callers : /\ Posting(c)' <=> Posting(c)
                                          /\ Outstanding(c)' <=> Outstanding(c)
                                          /\ pc'[c] = pc[c]
      BY <1>0, <1>3, <3>1
    <3>5. PICK d \in Callers : Outstanding(d)
      BY <3>2 DEF PhaseInv
    <3>6. \A c \in Callers : pc[c] # "read" /\ (Outstanding(c) => c = d)
      BY <3>5, OneRequest DEF OwnerInv, Outstanding
    <3>7. OpInv' /\ LifeInv' /\ (Answering' => Answered(d)')
      <4>1. CASE HandlerMoves /\ pc'[Handler] # "answer"
        <5>1. PICK l \in {"online", "call", "handle"} : Goto(Handler, l) /\ UNCHANGED op
          BY <1>0, <1>2, <4>1 DEF HandlerMoves, noteVars
        <5>2. OpInv'
          BY <1>0, <1>2, <3>1, <5>1, GoingOn DEF MayWait
        <5>3. LifeInv'
          BY <1>0, <1>2, <3>1, <5>1 DEF LifeInv, Offline, agentVars
        <5>4. ~Answering'
          BY <1>0, <1>2, <5>1 DEF Answering
        <5> QED BY <5>2, <5>3, <5>4
      <4>2. CASE HandlerMoves /\ pc'[Handler] = "answer"
        <5>1. /\ Goto(Handler, "answer") /\ UNCHANGED op
              /\ \/ ~is_online /\ rpc_res' = [rpc_res EXCEPT !.code = ENODEV]
                 \/ rpc_res' = [code |-> rpc_req, buffer |-> rpc_req]
          BY <1>0, <1>2, <2>3, <4>2 DEF HandlerMoves, noteVars
        <5>2. OpInv'
          BY <1>0, <1>2, <3>1, <5>1, GoingOn DEF MayWait
        <5>3. LifeInv'
          BY <1>0, <1>2, <3>1, <5>1 DEF LifeInv, Offline, agentVars
        <5>4. Answered(d)'
          <6>1. rpc_res \in [code : {ENODEV} \cup 0 .. MaxRpcs, buffer : 0 .. MaxRpcs]
            BY DEF TypeOK
          <6> QED BY <1>0, <3>1, <3>5, <5>1, <6>1 DEF DataInv, Answered, agentVars
        <5> QED BY <5>2, <5>3, <5>4
      <4>3. CASE NotifyDone
        <5>1. /\ Goto(Handler, "pending") /\ UNCHANGED rpc_res /\ pc[Handler] = "answer"
              /\ op'[Handler] = [at |-> "notify_load", on |-> "rpc_done", v |-> "kNoWaiter"]
          BY <1>0, <4>3 DEF NotifyDone, At, StartNotify, blobVars
        <5>2. OpInv'
          BY <1>0, <1>2, <3>1, <3>3, <5>1, GoingOn DEF MayNotify, Done
        <5>3. LifeInv'
          BY <1>0, <1>2, <3>1, <5>1 DEF LifeInv, Offline, agentVars
        <5>4. Answered(d)'
          BY <1>0, <3>1, <3>5, <5>1 DEF DataInv, Answered, Answering, agentVars
        <5> QED BY <5>2, <5>3, <5>4
      <4> QED BY <2>4, <4>1, <4>2, <4>3
    <3>8. PhaseInv'
      BY <3>3, <3>4, <3>5 DEF PhaseInv
    <3>9. DataInv'
      BY <1>0, <3>3, <3>4, <3>6, <3>7 DEF DataInv
    <3> QED BY <1>1, <3>4, <3>7, <3>8, <3>9
  <2> QED BY <1>12, <2>1, <2>2, <2>4
<1> QED BY <1>5, <1>6, <1>7, <1>8, <1>9, <1>10, <1>11, <1>12 DEF ParentStep, ChildStep

LEMMA RpcInvHolds == Spec => []RpcInv
<1>1. RpcInv /\ UNCHANGED vars => RpcInv'
  <2> SUFFICES ASSUME RpcInv, UNCHANGED vars PROVE RpcInv'
    OBVIOUS
  <2> USE DEF RpcInv, vars, noteVars, callerVars, blobVars, agentVars
  <2>1. TypeOK' /\ ChecksHold' /\ OwnerInv'
    BY DEF TypeOK, NoteTypeOK, ChecksHold, OwnerInv
  <2>2. OpInv'
    BY DEF OpInv, MayNotify, MayWait
  <2>3. PhaseInv' /\ DataInv'
    BY DEF PhaseInv, DataInv, Pending, Busy, Answering, Done, Posting, Outstanding, Answered
  <2>4. LifeInv'
    BY DEF LifeInv, Offline
  <2> QED BY <2>1, <2>2, <2>3, <2>4
<1>2. RpcInv /\ [Next]_vars => RpcInv'
  BY <1>1, CallerKeepsInv, AgentSideKeepsInv, CallKeepsInv, HandlerKinds, CrashKeepsInv
  DEF Next, UseDeleted
<1> QED BY <1>2, RpcInitInv, PTL DEF Spec

-------------------------------------------------------------------------------
\* PerformRpc returns the answer to its own request, for any number of threads
\* that call Rpc() of one AgentProcess, although all of them share one request,
\* one response and two Notifications, or the -ENODEV of an agent that has gone
\* offline; also when ~AgentProcess runs meanwhile.
THEOREM RpcAnswersOwnRequest == Spec => []AnswersOwnRequest
<1>1. RpcInv => AnswersOwnRequest
  BY DEF RpcInv, DataInv, Answered, AnswersOwnRequest, At
<1> QED BY <1>1, RpcInvHolds, PTL

\* The CHECK of Notification::Notify never fails: whoever notifies agent_ready_,
\* kill_agent_, rpc_pending_ or rpc_done_ finds it reset.
THEOREM RpcChecksHold == Spec => []ChecksHold
<1>1. RpcInv => ChecksHold
  BY DEF RpcInv
<1> QED BY <1>1, RpcInvHolds, PTL

\* When the detached RPC thread is between rpc_pending_ and its answer and the
\* FullAgent is gone or going (~FullAgent runs after the store of the null
\* pointer), then ~AgentProcess and a call of Rpc are under way together, for
\* any number of callers. No reset, late wakeup or reuse of a Notification can
\* take the thread there.
THEOREM RpcUsesLiveAgent == Spec => []HandlerUsesLiveAgent
<1>1. RpcInv => HandlerUsesLiveAgent
  <2> SUFFICES ASSUME RpcInv, pc[Handler] \in {"load", "online", "call", "handle"},
                      ~(full_agent /\ is_online)
               PROVE  /\ pc[Parent] \in {"waitexit", "gone"}
                      /\ \E c \in Callers : pc[c] \in {"await", "reset"}
    BY DEF HandlerUsesLiveAgent
  <2>1. PICK c \in Callers : Outstanding(c)
    BY DEF RpcInv, PhaseInv, Busy
  <2>2. pc[Child] \in {"offline", "terminate", "exit", "gone"}
    BY DEF RpcInv, LifeInv
  <2>3. pc[Parent] \in {"waitexit", "gone"}
    BY <2>2 DEF RpcInv, LifeInv
  <2> QED BY <2>1, <2>3 DEF Outstanding
<1> QED BY <1>1, RpcInvHolds, PTL
-------------------------------------------------------------------------------
(***************************************************************************)
(* Orca, for any number of clients, crashes and metrics: one scheduler     *)
(* runs at a time, and a client is acknowledged by a scheduler that was    *)
(* started for it or later, except in the round that served it. What makes *)
(* the second one inductive is RoundInv, which says by how much the        *)
(* descriptor that select() was given may be out of date.                  *)
(***************************************************************************)

Rounds == [tcp : BOOLEAN, udp : BOOLEAN, out : BOOLEAN, fd : Nat,
           served : Clients \cup {NoClient}]

OrcaTypeOK ==
  /\ at \in {"select", "tcp", "recv", "kill", "waitpid", "udp", "stdout"}
  /\ round \in Rounds
  /\ conn \in Clients \cup {NoClient}
  /\ curr \in Nat \ {0} /\ last \in Types /\ metrics \in BOOLEAN
  /\ listeners \in Seq(Clients)
  /\ client \in [Clients -> {"idle", "connected", "sent", "dead", "acked"}]
  /\ backlog \in Seq(Clients)
  /\ startedFor \in [Clients -> Nat]
  /\ acked \in [Clients -> [by : Nat, same : BOOLEAN]]

\* All but the last scheduler are gone.
SchedInv == alive \subseteq {curr}

\* The connection that is served has a client, which has not been answered.
ConnInv ==
  /\ at = "tcp" /\ round.tcp => backlog # <<>>
  /\ at = "recv" => conn \in Clients
  /\ at \in {"kill", "waitpid"} => conn \in Clients /\ client[conn] = "sent"

\* A round watches the output of the last scheduler or, once it has served a
\* client, of the one before.
RoundInv ==
  /\ at \in {"tcp", "recv", "kill", "waitpid"} => round.served = NoClient
  /\ at # "select" =>
       IF round.served = NoClient THEN round.fd = curr
       ELSE round.fd = curr - 1 /\ startedFor[round.served] = curr

\* All who wait, but the client just served, wait for the watched scheduler or
\* an earlier one.
ListenInv ==
  \A c \in Clients : c \in Fired =>
    IF at = "select" THEN startedFor[c] <= curr
    ELSE c # round.served => startedFor[c] <= round.fd

OrcaInv == OrcaTypeOK /\ SchedInv /\ ConnInv /\ RoundInv /\ ListenInv /\ AckedWhenActive

LEMMA OrcaInitInv == OrcaInit => OrcaInv
<1> SUFFICES ASSUME OrcaInit PROVE OrcaInv
  OBVIOUS
<1>1. OrcaTypeOK
  <2>1. round \in Rounds
    BY DEF OrcaInit, Rounds, NoRound
  <2>2. listeners \in Seq(Clients) /\ backlog \in Seq(Clients)
    BY EmptySeq DEF OrcaInit
  <2>3. acked \in [Clients -> [by : Nat, same : BOOLEAN]]
    BY DEF OrcaInit
  <2>4. /\ client \in [Clients -> {"idle", "connected", "sent", "dead", "acked"}]
        /\ startedFor \in [Clients -> Nat]
    BY DEF OrcaInit
  <2>5. /\ at \in {"select", "tcp", "recv", "kill", "waitpid", "udp", "stdout"}
        /\ conn \in Clients \cup {NoClient} /\ curr \in Nat \ {0}
        /\ last \in Types
    BY DEF OrcaInit, Types
  <2>6. metrics \in BOOLEAN
    BY Zenon DEF OrcaInit
  <2> QED BY <2>1, <2>2, <2>3, <2>4, <2>5, <2>6 DEF OrcaTypeOK
<1>2. SchedInv /\ ConnInv /\ RoundInv
  BY DEF OrcaInit, SchedInv, ConnInv, RoundInv
<1>3. ListenInv
  BY DEF OrcaInit, ListenInv, Fired
<1>4. AckedWhenActive
  BY DEF OrcaInit, AckedWhenActive
<1> QED BY <1>1, <1>2, <1>3, <1>4 DEF OrcaInv

\* The set of those who wait after one more has registered.
LEMMA AppendFired ==
  ASSUME NEW S, NEW s \in Seq(S), NEW x \in S
  PROVE  /\ Append(s, x) \in Seq(S)
         /\ {Append(s, x)[i] : i \in DOMAIN Append(s, x)} = {s[i] : i \in DOMAIN s} \cup {x}
<1>1. Append(s, x) \in Seq(S) /\ Len(Append(s, x)) = Len(s) + 1 /\ Len(s) \in Nat
  BY AppendProperties
<1>2. /\ DOMAIN s = 1 .. Len(s) /\ DOMAIN Append(s, x) = 1 .. Len(s) + 1
      /\ \A i \in 1 .. Len(s) : Append(s, x)[i] = s[i]
      /\ Append(s, x)[Len(s) + 1] = x
  BY <1>1, AppendProperties
<1>3. 1 .. Len(s) + 1 = (1 .. Len(s)) \cup {Len(s) + 1}
  BY <1>1
<1> QED BY <1>1, <1>2, <1>3

\* The steps of Orca's thread.
LEMMA LoopKeepsInv == OrcaInv /\ OrcaStep => OrcaInv'
<1> SUFFICES ASSUME OrcaInv, OrcaStep PROVE OrcaInv'
  OBVIOUS
<1> USE DEF OrcaInv
<1>0. NoClient \notin Clients
  BY OrcaAssumption
<1>1. CASE Select
  <2>1. /\ at = "select" /\ at' = "tcp" /\ round'.fd = curr /\ round'.served = NoClient
        /\ round'.tcp = (backlog # <<>>)
        /\ UNCHANGED <<conn, curr, last, metrics, listeners, schedState, clientState>>
    BY <1>1 DEF Select, Watched
  <2>2. OrcaTypeOK'
    BY <1>1, <2>1 DEF Select, Watched, Readable, OrcaTypeOK, Rounds, clientState
  <2>3. SchedInv' /\ ConnInv' /\ RoundInv'
    BY <2>1 DEF SchedInv, ConnInv, RoundInv, schedState, clientState
  <2>4. ListenInv'
    BY <2>1 DEF ListenInv, Fired, clientState
  <2>5. AckedWhenActive'
    BY <2>1 DEF AckedWhenActive, clientState
  <2> QED BY <2>2, <2>3, <2>4, <2>5
<1>2. CASE Accept
  <2>1. /\ at = "tcp" /\ UNCHANGED <<round, curr, last, metrics, listeners, schedState, client, startedFor, acked>>
        /\ at' \in {"recv", "udp"}
        /\ at' = "recv" => round.tcp /\ conn' = Head(backlog) /\ backlog' = Tail(backlog)
        /\ at' = "udp" => UNCHANGED <<conn, backlog>>
    BY <1>2 DEF Accept
  <2>2. at' = "recv" => conn' \in Clients /\ backlog' \in Seq(Clients)
    <3> SUFFICES ASSUME at' = "recv" PROVE conn' \in Clients /\ backlog' \in Seq(Clients)
      OBVIOUS
    <3>1. backlog \in Seq(Clients) /\ backlog # <<>>
      BY <2>1 DEF ConnInv, OrcaTypeOK
    <3> QED BY <2>1, <3>1, HeadTailProperties
  <2>3. OrcaTypeOK'
    BY <2>1, <2>2 DEF OrcaTypeOK
  <2>4. SchedInv' /\ ConnInv' /\ RoundInv'
    BY <2>1, <2>2 DEF SchedInv, ConnInv, RoundInv, schedState
  <2>5. ListenInv' /\ AckedWhenActive'
    BY <2>1 DEF ListenInv, Fired, AckedWhenActive
  <2> QED BY <2>3, <2>4, <2>5
<1>3. CASE Request
  <2>1. /\ at = "recv" /\ at' = "kill" /\ client[conn] = "sent"
        /\ UNCHANGED <<round, conn, curr, listeners, schedState, clientState>>
        /\ last' \in Types /\ metrics' \in BOOLEAN
    BY <1>3 DEF Request, Suggestions, OrcaTypeOK, Types
  <2> QED BY <2>1 DEF OrcaTypeOK, SchedInv, ConnInv, RoundInv, ListenInv, Fired,
                      AckedWhenActive, schedState, clientState
<1>4. CASE Kill
  <2>1. /\ at = "kill" /\ at' = "waitpid"
        /\ UNCHANGED <<loopState, alive, clientState>>
    BY <1>4 DEF Kill
  <2> QED BY <2>1 DEF OrcaTypeOK, SchedInv, ConnInv, RoundInv, ListenInv, Fired,
                      AckedWhenActive, loopState, clientState
<1>5. CASE SetScheduler
  <2>1. /\ at = "waitpid" /\ at' = "udp" /\ curr \notin alive
        /\ curr' = curr + 1 /\ alive' = alive \cup {curr + 1}
        /\ startedFor' = [startedFor EXCEPT ![conn] = curr + 1]
        /\ listeners' = Append(listeners, conn)
        /\ round' = [round EXCEPT !.served = conn] /\ conn' = NoClient
        /\ UNCHANGED <<last, metrics, client, backlog, acked>>
    BY <1>5 DEF SetScheduler, Start
  <2>2. conn \in Clients /\ client[conn] = "sent"
    BY <2>1 DEF ConnInv
  <2>3. /\ round'.served = conn /\ round'.fd = round.fd /\ round.fd = curr
        /\ round' \in Rounds /\ curr \in Nat \ {0} /\ curr' \in Nat \ {0}
        /\ startedFor'[conn] = curr' /\ startedFor' \in [Clients -> Nat]
        /\ \A c \in Clients : c # conn => startedFor'[c] = startedFor[c]
        /\ \A c \in Clients : startedFor[c] \in Nat
    <3>1. round.served = NoClient /\ round.fd = curr
      BY <2>1 DEF RoundInv
    <3>2. round \in Rounds /\ curr \in Nat \ {0} /\ startedFor \in [Clients -> Nat]
      BY DEF OrcaTypeOK
    <3>3. round'.served = conn /\ round'.fd = round.fd /\ round' \in Rounds
      BY <2>1, <2>2, <3>2 DEF Rounds
    <3>4. curr' \in Nat \ {0}
      BY <2>1, <3>2
    <3> QED BY <2>1, <2>2, <3>1, <3>2, <3>3, <3>4
  <2>4. listeners' \in Seq(Clients) /\ Fired' = Fired \cup {conn}
    <3>1. listeners \in Seq(Clients)
      BY DEF OrcaTypeOK
    <3>2. /\ Append(listeners, conn) \in Seq(Clients)
          /\ {Append(listeners, conn)[i] : i \in DOMAIN Append(listeners, conn)} = Fired \cup {conn}
      BY <2>2, <3>1, AppendFired DEF Fired
    <3>3. Fired' = {listeners'[i] : i \in DOMAIN listeners'}
      BY DEF Fired
    <3> QED BY <2>1, <3>2, <3>3, Zenon
  <2>5. OrcaTypeOK'
    BY <2>1, <2>3, <2>4 DEF OrcaTypeOK
  <2>6. SchedInv' /\ ConnInv'
    BY <2>1, <2>3 DEF SchedInv, ConnInv
  <2>7. RoundInv'
    BY <1>0, <2>1, <2>2, <2>3 DEF RoundInv
  <2>8. ListenInv'
    BY <1>0, <2>1, <2>2, <2>3, <2>4 DEF ListenInv, RoundInv
  <2>9. AckedWhenActive'
    BY <2>1, <2>2, <2>3 DEF AckedWhenActive
  <2> QED BY <2>5, <2>6, <2>7, <2>8, <2>9
<1>6. CASE ReadDatagram
  <2>1. /\ at = "udp" /\ at' = "stdout" /\ metrics' \in BOOLEAN
        /\ UNCHANGED <<round, conn, curr, last, listeners, schedState, clientState>>
    BY <1>6 DEF ReadDatagram
  <2> QED BY <2>1 DEF OrcaTypeOK, SchedInv, ConnInv, RoundInv, ListenInv, Fired,
                      AckedWhenActive, schedState, clientState
<1>7. CASE ReadStdout
  <2> DEFINE fire == round.out /\ round.fd \in line
  <2>1. /\ at = "stdout" /\ at' = "select" /\ round' = NoRound
        /\ listeners' = IF fire THEN <<>> ELSE listeners
        /\ client' = [c \in Clients |-> IF fire /\ c \in Fired THEN "acked" ELSE client[c]]
        /\ acked' = [c \in Clients |->
                       IF fire /\ c \in Fired THEN [by |-> round.fd, same |-> c = round.served]
                                              ELSE acked[c]]
        /\ UNCHANGED <<conn, curr, last, metrics, alive, backlog, startedFor>>
    BY <1>7 DEF ReadStdout
  <2>2. OrcaTypeOK'
    BY <2>1 DEF OrcaTypeOK, NoRound, Rounds
  <2>3. SchedInv' /\ ConnInv' /\ RoundInv'
    BY <2>1 DEF SchedInv, ConnInv, RoundInv
  <2>4. /\ curr \in Nat /\ round.fd \in Nat /\ \A c \in Clients : startedFor[c] \in Nat
        /\ round.fd <= curr
    <3>1. curr \in Nat /\ round.fd \in Nat /\ \A c \in Clients : startedFor[c] \in Nat
      BY DEF OrcaTypeOK, Rounds
    <3> QED BY <2>1, <3>1 DEF RoundInv
  <2>5. ListenInv'
    <3>1. ASSUME NEW c \in Clients, c \in Fired PROVE startedFor[c] <= curr
      BY <1>0, <2>1, <2>4, <3>1 DEF ListenInv, RoundInv
    <3>2. Fired' \subseteq Fired
      BY <2>1 DEF Fired
    <3> QED BY <2>1, <3>1, <3>2 DEF ListenInv
  <2>6. ASSUME NEW c \in Clients, client'[c] = "acked"
        PROVE  IF acked'[c].same THEN acked'[c].by = startedFor[c] - 1
                                 ELSE acked'[c].by >= startedFor[c]
    <3>1. CASE fire /\ c \in Fired
      <4>1. acked'[c] = [by |-> round.fd, same |-> c = round.served]
        BY <2>1, <3>1
      <4>2. CASE c = round.served
        <5>1. round.fd = curr - 1 /\ startedFor[c] = curr
          BY <1>0, <2>1, <4>2 DEF RoundInv
        <5>2. acked'[c].by = startedFor[c] - 1
          BY <4>1, <5>1
        <5>3. acked'[c] = [by |-> round.fd, same |-> TRUE]
          BY <4>1, <4>2, Zenon
        <5>4. acked'[c].same
          BY <5>3
        <5> QED BY <5>2, <5>4
      <4>3. CASE c # round.served
        BY <2>1, <2>4, <3>1, <4>1, <4>3 DEF ListenInv
      <4> QED BY <4>2, <4>3
    <3>2. CASE ~(fire /\ c \in Fired)
      BY <2>1, <2>6, <3>2 DEF AckedWhenActive
    <3> QED BY <3>1, <3>2
  <2>7. AckedWhenActive'
    BY <2>1, <2>6 DEF AckedWhenActive
  <2> QED BY <2>2, <2>3, <2>5, <2>7
<1> QED BY <1>1, <1>2, <1>3, <1>4, <1>5, <1>6, <1>7 DEF OrcaStep

\* The schedulers and the clients.
LEMMA OthersKeepInv ==
  ASSUME OrcaInv,
         \/ \E n \in 1 .. curr : \/ SchedAnnounces(n) \/ SchedExits(n)
                                 \/ SchedCrashes(n) \/ SchedSends(n)
         \/ \E c \in Clients : ClientConnects(c) \/ ClientSends(c) \/ ClientDies(c)
  PROVE  OrcaInv'
<1> USE DEF OrcaInv
<1>1. ASSUME NEW n \in 1 .. curr,
             SchedAnnounces(n) \/ SchedExits(n) \/ SchedCrashes(n) \/ SchedSends(n)
      PROVE  OrcaInv'
  <2>1. alive' \subseteq alive /\ UNCHANGED <<at, loopState, clientState>>
    BY <1>1 DEF SchedAnnounces, SchedExits, SchedCrashes, SchedSends
  <2> QED BY <2>1 DEF OrcaTypeOK, SchedInv, ConnInv, RoundInv, ListenInv, Fired,
                      AckedWhenActive, loopState, clientState
<1>2. ASSUME NEW c \in Clients, ClientConnects(c) \/ ClientSends(c) \/ ClientDies(c)
      PROVE  OrcaInv'
  <2>1. /\ UNCHANGED <<at, loopState, schedState, startedFor, acked>>
        /\ client[c] \in {"idle", "connected"}
        /\ \E l \in {"connected", "sent", "dead"} : client' = [client EXCEPT ![c] = l]
        /\ backlog' = backlog \/ backlog' = Append(backlog, c)
    BY <1>2 DEF ClientConnects, ClientSends, ClientDies
  <2>2. backlog' \in Seq(Clients) /\ (backlog # <<>> => backlog' # <<>>)
    <3>1. backlog \in Seq(Clients) /\ Append(backlog, c) \in Seq(Clients) /\ Append(backlog, c) # <<>>
      <4>1. backlog \in Seq(Clients)
        BY DEF OrcaTypeOK
      <4>2. Append(backlog, c) \in Seq(Clients) /\ Append(backlog, c) # <<>>
        BY <4>1, AppendProperties
      <4> QED BY <4>1, <4>2
    <3> QED BY <2>1, <3>1
  <2>3. \A d \in Clients : client[d] \in {"sent", "acked"} => client'[d] = client[d]
    BY <2>1 DEF OrcaTypeOK
  <2>4. \A d \in Clients : client'[d] = "acked" => client[d] = "acked"
    BY <2>1 DEF OrcaTypeOK
  <2>5. OrcaTypeOK'
    BY <2>1, <2>2 DEF OrcaTypeOK, loopState
  <2>6. ConnInv'
    BY <2>1, <2>2, <2>3 DEF ConnInv, loopState
  <2>7. AckedWhenActive'
    BY <2>1, <2>4 DEF AckedWhenActive
  <2>8. SchedInv' /\ RoundInv' /\ ListenInv'
    BY <2>1 DEF SchedInv, RoundInv, ListenInv, Fired, loopState, schedState
  <2> QED BY <2>5, <2>6, <2>7, <2>8
<1> QED BY <1>1, <1>2

LEMMA OrcaInvHolds == OrcaSpec => []OrcaInv
<1>1. OrcaInv /\ UNCHANGED orcaVars => OrcaInv'
  BY DEF orcaVars, OrcaInv, OrcaTypeOK, SchedInv, ConnInv, RoundInv, ListenInv, Fired,
         AckedWhenActive
<1>2. OrcaInv /\ [OrcaNext]_orcaVars => OrcaInv'
  BY <1>1, LoopKeepsInv, OthersKeepInv DEF OrcaNext
<1> QED BY <1>2, OrcaInitInv, PTL DEF OrcaSpec

\* "Only one scheduling agent runs at a time" (run_scheduler): terminate_child
\* has waited for the old scheduler, and only Orca starts one.
THEOREM OneAtATime == OrcaSpec => []OneSchedulerAtATime
<1>1. OrcaInv => OneSchedulerAtATime
  BY DEF OrcaInv, SchedInv, OneSchedulerAtATime
<1> QED BY <1>1, OrcaInvHolds, PTL

\* A client's ack (sched_ready.once) is for the scheduler started for it or a
\* later one; an ack for the line of the one before can only happen in the very
\* round of the event loop that served the client, and is for the last line of
\* the scheduler just replaced.
THEOREM AcksAreForTheirScheduler == OrcaSpec => []AckedWhenActive
<1>1. OrcaInv => AckedWhenActive
  BY DEF OrcaInv
<1> QED BY <1>1, OrcaInvHolds, PTL
===============================================================================
