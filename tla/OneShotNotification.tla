------------------------- MODULE OneShotNotification -------------------------
(***************************************************************************)
(* A Notification on its own, notified once: any thread may wait for it,   *)
(* and one thread, its notifier, notifies it.  That is how Agent uses      *)
(* ready_, finished_, enclave_ready_ and do_exit_.                         *)
(***************************************************************************)
EXTENDS Notification

CONSTANT Notifier

ASSUME NotifierAssumption == Notifier \in [Notes -> Threads]

CallWait(th, n) ==
  NotInCall(th) /\ th # Notifier[n] /\ StartWait(th, n) /\ UNCHANGED <<notified, aborted>>

CallNotify(n) ==
  /\ NotInCall(Notifier[n]) /\ notified[n] # "kNotified"
  /\ StartNotify(Notifier[n], n)
  /\ UNCHANGED <<notified, aborted>>

NoteNext ==
  \/ \E th \in Threads : OpStep(th) \/ SpuriousWakeup(th)
  \/ \E th \in Threads, n \in Notes : CallWait(th, n)
  \/ \E n \in Notes : CallNotify(n)

NoteSpec == NoteInit /\ [][NoteNext]_noteVars

\* A thread inside a call keeps running; nothing obliges one to make a call.
NoteFairSpec == NoteSpec /\ \A th \in Threads : WF_noteVars(OpStep(th))

-------------------------------------------------------------------------------
(***************************************************************************)
(* No waiter is left behind: a thread that sleeps on a notification has    *)
(* kWaiter in the word, so that Notify() will call Futex::Wake, or a       *)
(* notifier is just about to call it.                                      *)
(***************************************************************************)
SleepersAreSeen ==
  \A th \in Threads : op[th].at = "asleep" =>
    \/ notified[op[th].on] = "kWaiter"
    \/ \E u \in Threads : op[u].at = "wake" /\ op[u].on = op[th].on

(***************************************************************************)
(* The object is a trigger (module Trigger): WaitForNotification returns   *)
(* only after Notify, and every waiter returns after it.                   *)
(***************************************************************************)
Triggers == INSTANCE Trigger
  WITH set <- {n \in Notes : notified[n] = "kNotified"},
       waiting <- {p \in Threads \X Notes :
                     op[p[1]].at \in WaitLabels /\ op[p[1]].on = p[2]}

IsTrigger == Triggers!TriggerSpec
===============================================================================
