---------------------------- MODULE MCSharedMemory ----------------------------
(***************************************************************************)
(* The memory an agent shares with someone who does not wait for it, for   *)
(* TLC: the words of a Notification (other threads), the ring of a Channel *)
(* and the status words (the kernel), and a PrioTable (the clients).  The  *)
(* four do not interact, so each behaviour is of one of them.              *)
(***************************************************************************)
EXTENDS OneShotNotification, ChannelRing, PrioTable, TaskDiscovery

CONSTANT Main

MainNotifies == [n \in Notes |-> Main]

VARIABLE system

memVars == <<system, noteVars, ringVars, tableVars, discVars>>

MemInit ==
  /\ system \in {"notification", "channel", "prio_table", "status_words"}
  /\ NoteInit /\ RingInit /\ TableInit /\ DiscInit

NoteSystem(A) ==
  system = "notification" /\ A /\ UNCHANGED <<system, ringVars, tableVars, discVars>>

MemNext ==
  \/ NoteSystem(NoteNext)
  \/ system = "channel" /\ RingNext /\ UNCHANGED <<system, noteVars, tableVars, discVars>>
  \/ system = "prio_table" /\ TableNext /\ UNCHANGED <<system, noteVars, ringVars, discVars>>
  \/ system = "status_words" /\ DiscNext /\ UNCHANGED <<system, noteVars, ringVars, tableVars>>

\* The fairness of NoteFairSpec.
MemSpec ==
  /\ MemInit /\ [][MemNext]_memVars
  /\ \A th \in Threads : WF_memVars(NoteSystem(OpStep(th)))
===============================================================================
