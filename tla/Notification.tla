----------------------------- MODULE Notification -----------------------------
(***************************************************************************)
(* ghost::Notification of lib/base.h and lib/base.cc: a resettable trigger *)
(* on one atomic word and a futex.  The word records whether anybody may   *)
(* be asleep, so that Notify() makes the system call only when it has to.  *)
(*                                                                         *)
(* Every load, compare-and-exchange and futex call is a step of its own.   *)
(* compare_exchange_weak does not fail spuriously on x86-64, the only      *)
(* architecture the repository builds for.  A thread is in at most one     *)
(* call at a time; `op' is where it is in that call.  The modules that use *)
(* notifications (AgentLifecycle, AgentRpc) extend this one.               *)
(***************************************************************************)
EXTENDS Integers

CONSTANTS
  Threads,
  Notes,     \* the Notification objects
  NoNote

ASSUME NoteAssumption == NoNote \notin Notes

VARIABLES
  notified,  \* Notification::notified_ of each object
  op,        \* the call each thread is in
  aborted    \* has a CHECK failed?

noteVars == <<notified, op, aborted>>

NotifiedStates == {"kNoWaiter", "kWaiter", "kNotified"}

WaitLabels == {"load", "cas", "futex", "asleep", "woken"}
NotifyLabels == {"notify_load", "notify_cas", "wake"}

\* v is Notify()'s local copy of the word.
Ops == [at : {"idle"} \cup WaitLabels \cup NotifyLabels,
        on : Notes \cup {NoNote}, v : NotifiedStates]

Idle == [at |-> "idle", on |-> NoNote, v |-> "kNoWaiter"]

NoteTypeOK ==
  /\ notified \in [Notes -> NotifiedStates]
  /\ op \in [Threads -> Ops]
  /\ \A th \in Threads : op[th].at # "idle" => op[th].on \in Notes
  /\ aborted \in BOOLEAN

NoteInit ==
  /\ notified = [n \in Notes |-> "kNoWaiter"]
  /\ op = [th \in Threads |-> Idle]
  /\ aborted = FALSE

\* Thread th is at label l of a call; a failed CHECK ends the process.
OpAt(th, l) == ~aborted /\ op[th].at = l

NotInCall(th) == OpAt(th, "idle")

Word(th) == notified[op[th].on]

OpGoto(th, l) == op' = [op EXCEPT ![th].at = l]

OpReturn(th) == op' = [op EXCEPT ![th] = Idle]

-------------------------------------------------------------------------------
(* WaitForNotification and Futex::Wait.                                     *)

StartWait(th, n) ==
  op' = [op EXCEPT ![th] = [at |-> "load", on |-> n, v |-> "kNoWaiter"]]

WaitLoad(th) ==
  /\ OpAt(th, "load")
  /\ \/ Word(th) = "kNotified" /\ OpReturn(th)
     \/ Word(th) = "kNoWaiter" /\ OpGoto(th, "cas")
     \/ Word(th) = "kWaiter" /\ OpGoto(th, "futex")
  /\ UNCHANGED <<notified, aborted>>

\* Whether or not the exchange succeeds, the loop loads the word again.
WaitCas(th) ==
  /\ OpAt(th, "cas")
  /\ notified' = [notified EXCEPT ![op[th].on] = IF @ = "kNoWaiter" THEN "kWaiter" ELSE @]
  /\ OpGoto(th, "load")
  /\ UNCHANGED aborted

\* Mutant: the thread goes to sleep without FUTEX_WAIT's look at the word.
FutexWaitBlindly(th) ==
  /\ OpAt(th, "futex")
  /\ OpGoto(th, "asleep")
  /\ UNCHANGED <<notified, aborted>>

\* FUTEX_WAIT compares the word and goes to sleep atomically, or EAGAIN.
FutexWait(th) ==
  /\ OpAt(th, "futex")
  /\ IF Word(th) = "kWaiter" THEN OpGoto(th, "asleep") ELSE OpReturn(th)
  /\ UNCHANGED <<notified, aborted>>

\* Mutant: a spurious wakeup is taken for the notification.
FutexRecheckNot(th) ==
  /\ OpAt(th, "woken")
  /\ OpReturn(th)
  /\ UNCHANGED <<notified, aborted>>

\* FUTEX_WAIT returned 0: was the wakeup spurious?
FutexRecheck(th) ==
  /\ OpAt(th, "woken")
  /\ IF Word(th) # "kWaiter" THEN OpReturn(th) ELSE OpGoto(th, "futex")
  /\ UNCHANGED <<notified, aborted>>

\* The kernel may wake the thread for no reason, or because of a signal.
SpuriousWakeup(th) ==
  /\ OpAt(th, "asleep")
  /\ OpGoto(th, "woken") \/ OpGoto(th, "futex")
  /\ UNCHANGED <<notified, aborted>>

-------------------------------------------------------------------------------
(* Notify and Reset.                                                        *)

StartNotify(th, n) ==
  op' = [op EXCEPT ![th] = [at |-> "notify_load", on |-> n, v |-> "kNoWaiter"]]

NotifyLoad(th) ==
  /\ OpAt(th, "notify_load")
  /\ IF Word(th) = "kNotified"
       THEN aborted' = TRUE /\ UNCHANGED op
       ELSE /\ op' = [op EXCEPT ![th].at = "notify_cas", ![th].v = Word(th)]
            /\ UNCHANGED aborted
  /\ UNCHANGED notified

\* Mutant: Notify stores kNotified without comparing with what it has loaded.
NotifyStore(th) ==
  /\ OpAt(th, "notify_cas")
  /\ notified' = [notified EXCEPT ![op[th].on] = "kNotified"]
  /\ IF op[th].v = "kWaiter" THEN OpGoto(th, "wake") ELSE OpReturn(th)
  /\ UNCHANGED aborted

NotifyCas(th) ==
  /\ OpAt(th, "notify_cas")
  /\ IF Word(th) = op[th].v
       THEN /\ notified' = [notified EXCEPT ![op[th].on] = "kNotified"]
            /\ IF op[th].v = "kWaiter" THEN OpGoto(th, "wake") ELSE OpReturn(th)
       ELSE /\ OpGoto(th, "notify_load")
            /\ UNCHANGED notified
  /\ UNCHANGED aborted

\* Futex::Wake wakes every thread that sleeps on the word.
NotifyWake(th) ==
  /\ OpAt(th, "wake")
  /\ op' = [u \in Threads |->
              IF u = th THEN Idle
              ELSE IF op[u].at = "asleep" /\ op[u].on = op[th].on
                THEN [op[u] EXCEPT !.at = "woken"] ELSE op[u]]
  /\ UNCHANGED <<notified, aborted>>

ResetNote(n) == notified' = [notified EXCEPT ![n] = "kNoWaiter"]

\* ~Notification CHECKs that nobody waits.
DestroyOk(n) == notified[n] # "kWaiter"

OpStep(th) ==
  \/ WaitLoad(th) \/ WaitCas(th) \/ FutexWait(th) \/ FutexRecheck(th)
  \/ NotifyLoad(th) \/ NotifyCas(th) \/ NotifyWake(th)
===============================================================================
