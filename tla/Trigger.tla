------------------------------- MODULE Trigger -------------------------------
(***************************************************************************)
(* What ghost::Notification objects promise (the comment above the class   *)
(* in lib/base.h): "Threads can sleep while the trigger has not been set   *)
(* and will wake up once the trigger is set".  A thread that waits for a   *)
(* trigger returns only after it is set, and then it does return.          *)
(***************************************************************************)
CONSTANTS Threads, Notes

VARIABLES
  set,       \* the triggers that have been set
  waiting    \* who is in WaitForNotification() of what: pairs <<th, n>>

triggerVars == <<set, waiting>>

TriggerInit == set = {} /\ waiting = {}

Set(n) == n \notin set /\ set' = set \cup {n} /\ UNCHANGED waiting

Wait(th, n) ==
  /\ \A m \in Notes : <<th, m>> \notin waiting
  /\ waiting' = waiting \cup {<<th, n>>}
  /\ UNCHANGED set

Return(th, n) ==
  /\ n \in set /\ <<th, n>> \in waiting
  /\ waiting' = waiting \ {<<th, n>>}
  /\ UNCHANGED set

TriggerNext == \E n \in Notes : Set(n) \/ \E th \in Threads : Wait(th, n) \/ Return(th, n)

TriggerSafety == TriggerInit /\ [][TriggerNext]_triggerVars

TriggerSpec ==
  /\ TriggerSafety
  /\ \A th \in Threads, n \in Notes : WF_triggerVars(Return(th, n))
==============================================================================
