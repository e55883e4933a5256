------------------------- MODULE AgentLifecycleProofs -------------------------
(***************************************************************************)
(* Proofs about AgentLifecycle, for any number of CPUs.  Each of the four  *)
(* Notifications of an agent is notified once, by one thread, and waited   *)
(* for at most once, by one other.  What has been notified is therefore a  *)
(* function of where the threads are (NoteInv), and what a thread has been *)
(* released by tells it where the others are; the rest of the invariant is *)
(* what the main thread knows of the agents in its loops over them.        *)
(***************************************************************************)
EXTENDS AgentLifecycle, NotifyProofs

\* The thread that notifies n, and the one that waits for it.
Notifier(n) == IF n[1] = "ready" THEN n[2] ELSE Main
Waiter(n) == IF n[1] = "ready" THEN Main ELSE n[2]

Terminating == {"finish", "ping", "exit", "join", "can_free", "detach", "gone"}
Online == {"AdvertiseOnline", "serving"} \cup Terminating

\* The call of Notify() for n has begun.
NotifyBegun(n) ==
  \/ n[1] = "ready" /\ pc[n[2]] \notin
       {"none", "WaitForOldAgent", "enter", "AttachAgent", "SignalReady"}
  \/ n[1] = "enclave_ready" /\ \/ pc[Main] \in Online
                               \/ pc[Main] = "EnclaveReady" /\ n[2] < k
  \/ n[1] = "finished" /\ \/ pc[Main] \in {"join", "can_free", "detach", "gone"}
                          \/ pc[Main] \in {"finish", "ping", "exit"} /\ n[2] < k
                          \/ pc[Main] \in {"ping", "exit"} /\ n[2] = k
  \/ n[1] = "do_exit" /\ \/ pc[Main] \in {"join", "can_free", "detach", "gone"}
                         \/ pc[Main] \in {"finish", "ping", "exit"} /\ n[2] < k

\* The call of WaitForNotification() for n has begun.
WaitBegun(n) ==
  \/ n[1] = "ready" /\ pc[Main] # "StartBegin" /\ (pc[Main] = "StartComplete" => n[2] < k)
  \/ n[1] = "enclave_ready" /\ pc[n[2]] \in
       {"loop", "barrier", "schedule", "WaitForExit", "exiting", "exited", "dead"}
  \/ n[1] = "do_exit" /\ pc[n[2]] \in {"exiting", "exited", "dead"}

Announces(th, n) == op[th].at \in Announcing /\ op[th].on = n
Awaits(th, n) == op[th].at \in WaitLabels /\ op[th].on = n

NoteInv ==
  /\ \A th \in Threads : \A n \in Notes :
       /\ Announces(th, n) => th = Notifier(n) /\ NotifyBegun(n)
       /\ Awaits(th, n) => th = Waiter(n) /\ WaitBegun(n)
       /\ op[th].at \in {"futex", "asleep", "woken"} /\ op[th].on = n => notified[n] # "kNoWaiter"
  /\ \A n \in Notes :
       /\ (notified[n] = "kNotified") <=> (NotifyBegun(n) /\ ~Announces(Notifier(n), n))
       /\ notified[n] = "kWaiter" => Awaits(Waiter(n), n)
       /\ WaitBegun(n) => notified[n] = "kNotified" \/ Awaits(Waiter(n), n)

\* What the place of an agent says of the enclave.
PlaceInv ==
  \A c \in Cpus :
    /\ pc[c] \notin {"none", "WaitForOldAgent"} => ~oldOnline
    /\ c \in attached => pc[c] \notin {"none", "WaitForOldAgent", "enter", "AttachAgent"}
    /\ pc[c] \in {"exited", "dead"} => op[c].at = "idle"

\* What the main thread has done to the agents.
MainInv ==
  /\ pc[Main] \in {"Ready", "AdvertiseOnline", "serving"} => k = 0
  /\ pc[Main] = "StartBegin" => \A c \in Cpus : k <= c => pc[c] = "none"
  /\ pc[Main] \in {"EnclaveReady"} \cup (Online \ {"detach", "gone"}) => attached = Cpus
  /\ pc[Main] \in {"join", "can_free"} => \A c \in Cpus : c < k => pc[c] = "dead"
  /\ pc[Main] \in {"detach", "gone"} => \A c \in Cpus : pc[c] = "dead"

StateOK ==
  /\ NoteTypeOK
  /\ pc \in [Threads -> MainLabels \cup AgentLabels]
  /\ pc[Main] \in MainLabels /\ \A c \in Cpus : pc[c] \in AgentLabels
  /\ k \in Cpus
  /\ attached \subseteq Cpus
  /\ oldOnline \in BOOLEAN

LifeInv == StateOK /\ ChecksHold /\ NoteInv /\ PlaceInv /\ MainInv-------------------------------------------------------------------------------
(* What the steps of the threads do to the Notifications.                   *)

LEMMA Basics ==
  /\ Main \in Threads /\ 0 \in Cpus /\ NCpus \in Nat \ {0}
  /\ \A c \in Cpus : c \in Threads /\ c # Main /\ c \in Int
  /\ \A th \in Threads : th = Main \/ th \in Cpus
  /\ \A n \in Notes : /\ n = <<n[1], n[2]>> /\ n[2] \in Cpus
                      /\ n[1] \in {"ready", "finished", "enclave_ready", "do_exit"}
  /\ \A kind \in {"ready", "finished", "enclave_ready", "do_exit"} : \A c \in Cpus :
       <<kind, c>> \in Notes
BY LifecycleAssumption DEF Cpus

LEMMA Ends ==
  ASSUME NEW n \in Notes
  PROVE  Notifier(n) \in Threads /\ Waiter(n) \in Threads /\ Notifier(n) # Waiter(n)
BY Basics DEF Notifier, Waiter

LEMMA LifeCalls == LifeInv => CallsOK
<1> SUFFICES ASSUME LifeInv PROVE CallsOK
  OBVIOUS
<1>1. NoteTypeOK /\ ~aborted
  BY DEF LifeInv, StateOK, ChecksHold
<1>2. ASSUME NEW th \in Threads
      PROVE  /\ op[th].at \in Announcing => notified[op[th].on] # "kNotified"
             /\ op[th].at \in {"futex", "asleep", "woken"} => notified[op[th].on] # "kNoWaiter"
  <2>1. op[th].at # "idle" => op[th].on \in Notes
    BY <1>1 DEF NoteTypeOK
  <2> QED BY <2>1 DEF LifeInv, NoteInv, Announces, Announcing
<1> QED BY <1>1, <1>2 DEF CallsOK

\* What has been begun, before and after a step.
SameNotifies == \A n \in Notes : NotifyBegun(n)' <=> NotifyBegun(n)
SameWaits == \A n \in Notes : WaitBegun(n)' <=> WaitBegun(n)

LEMMA QuietStep ==
  ASSUME NoteInv, SameNotifies, SameWaits, UNCHANGED <<notified, op>>
  PROVE  NoteInv'
BY Ends DEF NoteInv, SameNotifies, SameWaits, Announces, Awaits

Begins(th, n, l) ==
  /\ op[th].at = "idle"
  /\ op' = [op EXCEPT ![th] = [at |-> l, on |-> n, v |-> "kNoWaiter"]]
  /\ UNCHANGED <<notified, aborted>>

LEMMA BeginTypes ==
  ASSUME NoteTypeOK, NEW th \in Threads, NEW n \in Notes,
         NEW l \in {"load", "notify_load"}, Begins(th, n, l)
  PROVE  /\ NoteTypeOK'
         /\ op'[th].at = l /\ op'[th].on = n
         /\ \A u \in Threads : u # th => op'[u] = op[u]
<1>1. [at |-> l, on |-> n, v |-> "kNoWaiter"] \in Ops
  BY DEF Ops, NotifiedStates, WaitLabels, NotifyLabels
<1>2. op' \in [Threads -> Ops] /\ op'[th] = [at |-> l, on |-> n, v |-> "kNoWaiter"]
      /\ \A u \in Threads : u # th => op'[u] = op[u]
  BY <1>1 DEF NoteTypeOK, Begins
<1>3. op'[th].at = l /\ op'[th].on = n
  BY <1>2
<1> QED BY <1>2, <1>3 DEF NoteTypeOK, Begins

\* A thread calls Notify(), for the first and only time.
LEMMA NotifyStep ==
  ASSUME NoteInv, NoteTypeOK, NEW n \in Notes, Begins(Notifier(n), n, "notify_load"),
         ~NotifyBegun(n), SameWaits,
         NotifyBegun(n)', \A m \in Notes : m # n => (NotifyBegun(m)' <=> NotifyBegun(m))
  PROVE  NoteInv' /\ NoteTypeOK'
<1> DEFINE th == Notifier(n)
<1>0. th \in Threads
  BY Ends
<1>1. /\ NoteTypeOK' /\ op'[th].at = "notify_load" /\ op'[th].on = n
      /\ \A u \in Threads : u # th => op'[u] = op[u]
      /\ op[th].at = "idle" /\ notified' = notified
  BY <1>0, BeginTypes DEF Begins
<1>2. \A u \in Threads : \A m \in Notes :
        /\ Announces(u, m)' <=> Announces(u, m) \/ (u = th /\ m = n)
        /\ Awaits(u, m)' <=> Awaits(u, m)
        /\ (op'[u].at \in {"futex", "asleep", "woken"} /\ op'[u].on = m) =>
             (op[u].at \in {"futex", "asleep", "woken"} /\ op[u].on = m)
  BY <1>1 DEF Announces, Awaits, Announcing, WaitLabels
<1> QED BY <1>0, <1>1, <1>2, Ends DEF NoteInv, SameWaits

LEMMA WaitStep ==
  ASSUME NoteInv, NoteTypeOK, NEW n \in Notes, Begins(Waiter(n), n, "load"),
         SameNotifies,
         WaitBegun(n)', \A m \in Notes : m # n => (WaitBegun(m)' <=> WaitBegun(m))
  PROVE  NoteInv' /\ NoteTypeOK'
<1> DEFINE th == Waiter(n)
<1>0. th \in Threads
  BY Ends
<1>1. /\ NoteTypeOK' /\ op'[th].at = "load" /\ op'[th].on = n
      /\ \A u \in Threads : u # th => op'[u] = op[u]
      /\ op[th].at = "idle" /\ notified' = notified
  BY <1>0, BeginTypes DEF Begins
<1>2. \A u \in Threads : \A m \in Notes :
        /\ Announces(u, m)' <=> Announces(u, m)
        /\ Awaits(u, m)' <=> Awaits(u, m) \/ (u = th /\ m = n)
        /\ (op'[u].at \in {"futex", "asleep", "woken"} /\ op'[u].on = m) =>
             (op[u].at \in {"futex", "asleep", "woken"} /\ op[u].on = m)
  BY <1>1 DEF Announces, Awaits, Announcing, WaitLabels
<1> QED BY <1>0, <1>1, <1>2, Ends DEF NoteInv, SameNotifies
\* A step inside a call.
LEMMA CallNotes ==
  ASSUME LifeInv, NEW th \in Threads, OpStep(th) \/ SpuriousWakeup(th), UNCHANGED <<pc, k>>
  PROVE  /\ NoteTypeOK' /\ ~aborted' /\ NoteInv'
         /\ \A u \in Threads : op[u].at = "idle" => op'[u].at = "idle"
<1>0. /\ NoteTypeOK' /\ ~aborted' /\ OthersAtMostWoken(th)
      /\ \/ WaitGoesOn(th) \/ WaitEnds(th)
         \/ NotifyGoesOn(th) \/ NotifyTakesEffect(th) \/ NotifyEnds(th)
  BY LifeCalls, OpEffect
<1>1. /\ NoteTypeOK /\ NoteInv
      /\ op[th].at # "idle" /\ op[th].on \in Notes
  <2>1. NoteTypeOK /\ NoteInv
    BY DEF LifeInv, StateOK
  <2>2. op[th].at # "idle"
    BY <1>0 DEF WaitGoesOn, WaitEnds, NotifyGoesOn, NotifyTakesEffect, NotifyEnds,
                WaitLabels, Announcing
  <2> QED BY <2>1, <2>2 DEF NoteTypeOK
<1>2. \A u \in Threads : op[u].at = "idle" => op'[u].at = "idle"
  BY <1>0, <1>1 DEF OthersAtMostWoken
<1>3. /\ \A n \in Notes : NotifyBegun(n)' <=> NotifyBegun(n)
      /\ \A n \in Notes : WaitBegun(n)' <=> WaitBegun(n)
  BY DEF NotifyBegun, WaitBegun
\* The calls of the other threads stay what they are.
<1>4. \A u \in Threads : u # th =>
        /\ \A n \in Notes : Announces(u, n)' <=> Announces(u, n)
        /\ \A n \in Notes : Awaits(u, n)' <=> Awaits(u, n)
        /\ op'[u].at \in {"futex", "asleep", "woken"} =>
             op[u].at \in {"futex", "asleep", "woken"} /\ op'[u].on = op[u].on
  BY <1>0 DEF OthersAtMostWoken, Announces, Awaits, Announcing, WaitLabels
<1>n. PICK m \in Notes : m = op[th].on
  BY <1>1
<1>5. CASE WaitGoesOn(th)
  <2>1. /\ Awaits(th, m) /\ \A n \in Notes : Awaits(th, n)' <=> n = m
        /\ \A n \in Notes : Awaits(th, n) <=> n = m
        /\ \A n \in Notes : ~Announces(th, n) /\ ~Announces(th, n)'
        /\ op'[th].on = m
    BY <1>1, <1>n, <1>5 DEF WaitGoesOn, Announces, Awaits, WaitLabels, Announcing
  <2>2. th = Waiter(m) /\ WaitBegun(m)
    BY <1>1, <2>1 DEF NoteInv
  <2>3. \A n \in Notes :
          /\ (notified'[n] = "kNotified") <=> (notified[n] = "kNotified")
          /\ notified[n] # "kNoWaiter" => notified'[n] # "kNoWaiter"
          /\ notified'[n] = "kWaiter" => notified[n] = "kWaiter" \/ n = m
    BY <1>5, <1>n DEF WaitGoesOn
  <2>4. op'[th].at \in {"futex", "asleep", "woken"} => notified'[m] # "kNoWaiter"
    BY <1>5, <1>n DEF WaitGoesOn
  <2>5. ASSUME NEW u \in Threads, NEW n \in Notes
        PROVE  /\ Announces(u, n)' => u = Notifier(n) /\ NotifyBegun(n)
               /\ Awaits(u, n)' => u = Waiter(n) /\ WaitBegun(n)
               /\ op'[u].at \in {"futex", "asleep", "woken"} /\ op'[u].on = n =>
                    notified'[n] # "kNoWaiter"
    BY <1>1, <1>4, <2>1, <2>2, <2>3, <2>4 DEF NoteInv
  <2>6. ASSUME NEW n \in Notes
        PROVE  /\ (notified'[n] = "kNotified") <=> (NotifyBegun(n) /\ ~Announces(Notifier(n), n)')
               /\ notified'[n] = "kWaiter" => Awaits(Waiter(n), n)'
               /\ WaitBegun(n) => notified'[n] = "kNotified" \/ Awaits(Waiter(n), n)'
    BY <1>1, <1>4, <2>1, <2>2, <2>3, Ends DEF NoteInv
  <2>7. NoteInv'
    BY <1>3, <2>5, <2>6 DEF NoteInv
  <2> QED BY <1>0, <1>2, <2>7
<1>6. CASE WaitEnds(th)
  <2>1. /\ \A n \in Notes : ~Awaits(th, n)' /\ (Awaits(th, n) <=> n = m)
        /\ \A n \in Notes : ~Announces(th, n) /\ ~Announces(th, n)'
        /\ op'[th].at = "idle" /\ notified' = notified /\ notified[m] = "kNotified"
    BY <1>1, <1>n, <1>6 DEF WaitEnds, Announces, Awaits, WaitLabels, Announcing
  <2>5. ASSUME NEW u \in Threads, NEW n \in Notes
        PROVE  /\ Announces(u, n)' => u = Notifier(n) /\ NotifyBegun(n)
               /\ Awaits(u, n)' => u = Waiter(n) /\ WaitBegun(n)
               /\ op'[u].at \in {"futex", "asleep", "woken"} /\ op'[u].on = n =>
                    notified'[n] # "kNoWaiter"
    BY <1>1, <1>4, <2>1 DEF NoteInv
  <2>6. ASSUME NEW n \in Notes
        PROVE  /\ (notified'[n] = "kNotified") <=> (NotifyBegun(n) /\ ~Announces(Notifier(n), n)')
               /\ notified'[n] = "kWaiter" => Awaits(Waiter(n), n)'
               /\ WaitBegun(n) => notified'[n] = "kNotified" \/ Awaits(Waiter(n), n)'
    BY <1>1, <1>4, <2>1, Ends DEF NoteInv
  <2>7. NoteInv'
    BY <1>3, <2>5, <2>6 DEF NoteInv
  <2> QED BY <1>0, <1>2, <2>7
<1>7. CASE NotifyGoesOn(th)
  <2>1. /\ \A n \in Notes : ~Awaits(th, n)' /\ ~Awaits(th, n)
        /\ \A n \in Notes : Announces(th, n)' <=> Announces(th, n)
        /\ op'[th].at \notin {"futex", "asleep", "woken"} /\ notified' = notified
    BY <1>1, <1>n, <1>7 DEF NotifyGoesOn, Announces, Awaits, WaitLabels, Announcing
  <2>7. NoteInv'
    BY <1>1, <1>3, <1>4, <2>1, Ends DEF NoteInv
  <2> QED BY <1>0, <1>2, <2>7
<1>8. CASE NotifyTakesEffect(th)
  <2>1. /\ \A n \in Notes : ~Awaits(th, n)' /\ ~Awaits(th, n)
        /\ Announces(th, m) /\ \A n \in Notes : ~Announces(th, n)' /\ (Announces(th, n) <=> n = m)
        /\ op'[th].at \notin {"futex", "asleep", "woken"}
    BY <1>1, <1>n, <1>8 DEF NotifyTakesEffect, Announces, Awaits, WaitLabels, Announcing
  <2>2. th = Notifier(m) /\ NotifyBegun(m)
    BY <1>1, <2>1 DEF NoteInv
  <2>3. notified'[m] = "kNotified" /\ \A n \in Notes : n # m => notified'[n] = notified[n]
    BY <1>1, <1>8, <1>n DEF NotifyTakesEffect, NoteTypeOK
  <2>5. ASSUME NEW u \in Threads, NEW n \in Notes
        PROVE  /\ Announces(u, n)' => u = Notifier(n) /\ NotifyBegun(n)
               /\ Awaits(u, n)' => u = Waiter(n) /\ WaitBegun(n)
               /\ op'[u].at \in {"futex", "asleep", "woken"} /\ op'[u].on = n =>
                    notified'[n] # "kNoWaiter"
    BY <1>1, <1>4, <2>1, <2>3 DEF NoteInv
  <2>6. ASSUME NEW n \in Notes
        PROVE  /\ (notified'[n] = "kNotified") <=> (NotifyBegun(n) /\ ~Announces(Notifier(n), n)')
               /\ notified'[n] = "kWaiter" => Awaits(Waiter(n), n)'
               /\ WaitBegun(n) => notified'[n] = "kNotified" \/ Awaits(Waiter(n), n)'
    BY <1>1, <1>4, <2>1, <2>2, <2>3, Ends DEF NoteInv
  <2>7. NoteInv'
    BY <1>3, <2>5, <2>6 DEF NoteInv
  <2> QED BY <1>0, <1>2, <2>7
<1>9. CASE NotifyEnds(th)
  <2>1. /\ \A n \in Notes : ~Awaits(th, n)' /\ ~Awaits(th, n)
        /\ \A n \in Notes : ~Announces(th, n)' /\ ~Announces(th, n)
        /\ op'[th].at \notin {"futex", "asleep", "woken"} /\ notified' = notified
    BY <1>1, <1>n, <1>9 DEF NotifyEnds, Announces, Awaits, WaitLabels, Announcing
  <2>7. NoteInv'
    BY <1>1, <1>3, <1>4, <2>1, Ends DEF NoteInv
  <2> QED BY <1>0, <1>2, <2>7
<1> QED BY <1>0, <1>5, <1>6, <1>7, <1>8, <1>9-------------------------------------------------------------------------------
(* The agent threads.                                                       *)

LEMMA LifeInitInv == Init => LifeInv
<1> SUFFICES ASSUME Init PROVE LifeInv
  OBVIOUS
<1> USE DEF Init, NoteInit
<1>1. NoteTypeOK
  BY DEF NoteTypeOK, Ops, Idle, NotifiedStates
<1>2. /\ pc[Main] = "StartBegin" /\ \A c \in Cpus : pc[c] = "none"
      /\ \A th \in Threads : op[th].at = "idle"
      /\ \A n \in Notes : notified[n] = "kNoWaiter"
  BY Basics DEF Idle
<1>3. StateOK
  BY <1>1, <1>2, Basics DEF StateOK, MainLabels, AgentLabels
<1>4. \A n \in Notes : ~NotifyBegun(n) /\ ~WaitBegun(n)
  BY <1>2, Basics DEF NotifyBegun, WaitBegun, Online, Terminating
<1>5. \A th \in Threads : \A n \in Notes : ~Announces(th, n) /\ ~Awaits(th, n)
  BY <1>2 DEF Announces, Awaits, Announcing, WaitLabels
<1>6. NoteInv
  BY <1>2, <1>4, <1>5 DEF NoteInv
<1>7. PlaceInv /\ MainInv
  BY <1>2, Basics DEF PlaceInv, MainInv, Online, Terminating
<1> QED BY <1>3, <1>6, <1>7 DEF LifeInv, ChecksHold

\* The places of an agent between which neither Notify() nor
\* WaitForNotification() is called.
Starting == {"none", "WaitForOldAgent", "enter", "AttachAgent", "SignalReady"}
Scheduling == {"loop", "barrier", "schedule", "WaitForExit"}
Leaving == {"exiting", "exited", "dead"}

\* Agent c goes on to l.
AgentMoves(c, l) ==
  /\ pc' = [pc EXCEPT ![c] = l] /\ l \in AgentLabels \ {"none", "WaitForOldAgent"}
  /\ pc[c] \notin {"none", "dead"} /\ (pc[c] = "WaitForOldAgent" => ~oldOnline)
  /\ UNCHANGED <<k, oldOnline>>
  /\ \/ attached' = attached /\ (pc[c] \in Starting => l \in {"enter", "AttachAgent"} \/ pc[c] = "SignalReady")
     \/ attached' = attached \cup {c} /\ l = "SignalReady"
  /\ l \in {"enter", "AttachAgent"} => pc[c] \in Starting \ {"SignalReady"}
  /\ l \in {"exited", "dead"} => op[c].at = "idle" /\ UNCHANGED op

LEMMA AgentPlace ==
  ASSUME LifeInv, NEW c \in Cpus, NEW l, AgentMoves(c, l),
         \A u \in Threads : u # c => op'[u] = op[u]
  PROVE  /\ PlaceInv' /\ MainInv'
         /\ pc' \in [Threads -> MainLabels \cup AgentLabels]
         /\ pc'[Main] = pc[Main] /\ pc'[c] = l /\ \A d \in Cpus : d # c => pc'[d] = pc[d]
         /\ pc'[Main] \in MainLabels /\ \A d \in Cpus : pc'[d] \in AgentLabels
         /\ attached' \subseteq Cpus
<1> USE Basics
<1>1. /\ pc' \in [Threads -> MainLabels \cup AgentLabels]
      /\ pc'[Main] = pc[Main] /\ pc'[c] = l /\ \A d \in Cpus : d # c => pc'[d] = pc[d]
      /\ pc'[Main] \in MainLabels /\ \A d \in Cpus : pc'[d] \in AgentLabels
      /\ k' = k /\ oldOnline' = oldOnline
  BY DEF LifeInv, StateOK, AgentMoves
<1>2. attached' \subseteq Cpus /\ (attached = Cpus => attached' = Cpus)
      /\ \A d \in Cpus : d # c => (d \in attached' <=> d \in attached)
  BY DEF LifeInv, StateOK, AgentMoves
<1>3. ASSUME NEW d \in Cpus
      PROVE  /\ pc'[d] \notin {"none", "WaitForOldAgent"} => ~oldOnline
             /\ d \in attached' => pc'[d] \notin {"none", "WaitForOldAgent", "enter", "AttachAgent"}
             /\ pc'[d] \in {"exited", "dead"} => op'[d].at = "idle"
  <2>1. CASE d = c
    BY <1>1, <2>1 DEF LifeInv, PlaceInv, AgentMoves, Starting
  <2>2. CASE d # c
    BY <1>1, <1>2, <2>2 DEF LifeInv, PlaceInv
  <2> QED BY <2>1, <2>2
<1>4. PlaceInv'
  BY <1>1, <1>3 DEF PlaceInv
<1>5. MainInv'
  BY <1>1, <1>2 DEF LifeInv, MainInv, AgentMoves
<1> QED BY <1>1, <1>2, <1>4, <1>5

LEMMA AgentQuiet ==
  ASSUME LifeInv, NEW c \in Cpus, NEW l, AgentMoves(c, l), UNCHANGED noteVars,
         \/ pc[c] \in Starting /\ l \in Starting
         \/ pc[c] \in Scheduling /\ l \in Scheduling
         \/ pc[c] \in Leaving /\ l \in Leaving
  PROVE  LifeInv'
<1> USE Basics
<1>1. /\ PlaceInv' /\ MainInv'
      /\ pc' \in [Threads -> MainLabels \cup AgentLabels]
      /\ pc'[Main] = pc[Main] /\ pc'[c] = l /\ \A d \in Cpus : d # c => pc'[d] = pc[d]
      /\ pc'[Main] \in MainLabels /\ \A d \in Cpus : pc'[d] \in AgentLabels
      /\ attached' \subseteq Cpus /\ k' = k /\ oldOnline' = oldOnline
  BY AgentPlace DEF noteVars, AgentMoves
<1>2. SameNotifies
  BY <1>1 DEF SameNotifies, NotifyBegun, Starting, Scheduling, Leaving
<1>3. SameWaits
  BY <1>1 DEF SameWaits, WaitBegun, Starting, Scheduling, Leaving
<1>4. NoteInv'
  BY <1>2, <1>3, QuietStep DEF LifeInv, noteVars
<1> QED BY <1>1, <1>4 DEF LifeInv, StateOK, ChecksHold, NoteTypeOK, noteVars

LEMMA AgentKeeps ==
  ASSUME LifeInv, NEW c \in Cpus, AgentStep(c) \/ KAgentDead(c)
  PROVE  LifeInv'
<1> USE Basics DEF At, NotInCall, OpAt, Goto, kernelVars
<1>1. CASE WaitForOldAgent(c)
  <2>1. AgentMoves(c, "enter") /\ UNCHANGED noteVars /\ pc[c] = "WaitForOldAgent"
    BY <1>1 DEF WaitForOldAgent, AgentMoves, AgentLabels, Starting
  <2> QED BY <2>1, AgentQuiet DEF Starting
<1>2. CASE EnterGhost(c)
  <2>1. AgentMoves(c, "AttachAgent") /\ UNCHANGED noteVars /\ pc[c] = "enter"
    BY <1>2 DEF EnterGhost, AgentMoves, AgentLabels, Starting
  <2> QED BY <2>1, AgentQuiet DEF Starting
<1>3. CASE AttachAgent(c)
  <2>1. AgentMoves(c, "SignalReady") /\ UNCHANGED noteVars /\ pc[c] = "AttachAgent"
    BY <1>3 DEF AttachAgent, AgentMoves, AgentLabels, Starting
  <2> QED BY <2>1, AgentQuiet DEF Starting
<1>4. CASE LoopTop(c) \/ LoopBarrier(c) \/ Schedule(c)
  <2>1. PICK l \in Scheduling : pc' = [pc EXCEPT ![c] = l]
    BY <1>4 DEF LoopTop, LoopBarrier, Schedule, ReadBarrier, TestFinished, Scheduling
  <2>2. /\ UNCHANGED <<noteVars, k, attached, oldOnline>>
        /\ pc[c] \in {"loop", "barrier", "schedule"}
    BY <1>4 DEF LoopTop, LoopBarrier, Schedule, LoopAt, ReadBarrier, TestFinished
  <2>3. AgentMoves(c, l)
    BY <2>1, <2>2 DEF AgentMoves, AgentLabels, Starting, Scheduling
  <2> QED BY <2>2, <2>3, AgentQuiet DEF Scheduling
<1>5. CASE ThreadExit(c)
  <2>1. AgentMoves(c, "exited") /\ UNCHANGED noteVars /\ pc[c] = "exiting"
    BY <1>5 DEF ThreadExit, AgentMoves, AgentLabels, Starting, noteVars
  <2> QED BY <2>1, AgentQuiet DEF Leaving
<1>6. CASE KAgentDead(c)
  <2>1. pc[c] = "exited" /\ op[c].at = "idle"
    BY <1>6 DEF KAgentDead, LifeInv, PlaceInv
  <2>2. AgentMoves(c, "dead") /\ UNCHANGED noteVars
    BY <1>6, <2>1 DEF KAgentDead, AgentMoves, AgentLabels, Starting, noteVars
  <2> QED BY <2>1, <2>2, AgentQuiet DEF Leaving
\* The three steps that begin a call.
<1>7. ASSUME NEW l, NEW n \in Notes, NEW lbl \in {"load", "notify_load"},
             AgentMoves(c, l), Begins(c, n, lbl), NoteInv' /\ NoteTypeOK'
      PROVE  LifeInv'
  <2>1. /\ \A u \in Threads : u # c => op'[u] = op[u]
        /\ k' = k /\ oldOnline' = oldOnline /\ aborted' = aborted
    BY <1>7 DEF AgentMoves, Begins, LifeInv, StateOK, NoteTypeOK
  <2>2. /\ PlaceInv' /\ MainInv'
        /\ pc' \in [Threads -> MainLabels \cup AgentLabels]
        /\ pc'[Main] \in MainLabels /\ \A d \in Cpus : pc'[d] \in AgentLabels
        /\ attached' \subseteq Cpus
    BY <1>7, <2>1, AgentPlace
  <2> QED BY <1>7, <2>1, <2>2 DEF LifeInv, StateOK, ChecksHold
<1>8. CASE SignalReady(c)
  <2> DEFINE n == <<"ready", c>>
  <2>1. /\ AgentMoves(c, "WaitForEnclaveReady") /\ pc[c] = "SignalReady"
        /\ Begins(c, n, "notify_load") /\ n \in Notes /\ Notifier(n) = c
    BY <1>8 DEF SignalReady, AgentMoves, AgentLabels, Starting, StartNotify, Begins, Notifier
  <2>2. /\ pc'[Main] = pc[Main] /\ pc'[c] = "WaitForEnclaveReady" /\ k' = k
        /\ \A d \in Cpus : d # c => pc'[d] = pc[d]
    BY <2>1 DEF AgentMoves, LifeInv, StateOK
  <2>3. ~NotifyBegun(n) /\ NotifyBegun(n)'
    BY <2>1, <2>2 DEF NotifyBegun
  <2>4. \A m \in Notes : m # n => (NotifyBegun(m)' <=> NotifyBegun(m))
    BY <2>2 DEF NotifyBegun
  <2>5. SameWaits
    BY <2>1, <2>2 DEF SameWaits, WaitBegun
  <2>6. NoteInv' /\ NoteTypeOK'
    <3> HIDE DEF n
    <3> QED BY <2>1, <2>3, <2>4, <2>5, NotifyStep DEF LifeInv, StateOK
  <2> QED BY <1>7, <2>1, <2>6
<1>9. CASE WaitForEnclaveReady(c)
  <2> DEFINE n == <<"enclave_ready", c>>
  <2>1. /\ AgentMoves(c, "loop") /\ pc[c] = "WaitForEnclaveReady"
        /\ Begins(c, n, "load") /\ n \in Notes /\ Waiter(n) = c
    BY <1>9 DEF WaitForEnclaveReady, AgentMoves, AgentLabels, Starting, StartWait, Begins, Waiter
  <2>2. /\ pc'[Main] = pc[Main] /\ pc'[c] = "loop" /\ k' = k
        /\ \A d \in Cpus : d # c => pc'[d] = pc[d]
    BY <2>1 DEF AgentMoves, LifeInv, StateOK
  <2>3. WaitBegun(n)'
    BY <2>1, <2>2 DEF WaitBegun
  <2>4. \A m \in Notes : m # n => (WaitBegun(m)' <=> WaitBegun(m))
    BY <2>1, <2>2 DEF WaitBegun
  <2>5. SameNotifies
    BY <2>1, <2>2 DEF SameNotifies, NotifyBegun
  <2>6. NoteInv' /\ NoteTypeOK'
    <3> HIDE DEF n
    <3> QED BY <2>1, <2>3, <2>4, <2>5, WaitStep DEF LifeInv, StateOK
  <2> QED BY <1>7, <2>1, <2>6
<1>10. CASE WaitForExit(c)
  <2> DEFINE n == <<"do_exit", c>>
  <2>1. /\ AgentMoves(c, "exiting") /\ pc[c] = "WaitForExit"
        /\ Begins(c, n, "load") /\ n \in Notes /\ Waiter(n) = c
    BY <1>10 DEF WaitForExit, AgentMoves, AgentLabels, Starting, StartWait, Begins, Waiter
  <2>2. /\ pc'[Main] = pc[Main] /\ pc'[c] = "exiting" /\ k' = k
        /\ \A d \in Cpus : d # c => pc'[d] = pc[d]
    BY <2>1 DEF AgentMoves, LifeInv, StateOK
  <2>3. WaitBegun(n)'
    BY <2>1, <2>2 DEF WaitBegun
  <2>4. \A m \in Notes : m # n => (WaitBegun(m)' <=> WaitBegun(m))
    BY <2>1, <2>2 DEF WaitBegun
  <2>5. SameNotifies
    BY <2>1, <2>2 DEF SameNotifies, NotifyBegun
  <2>6. NoteInv' /\ NoteTypeOK'
    <3> HIDE DEF n
    <3> QED BY <2>1, <2>3, <2>4, <2>5, WaitStep DEF LifeInv, StateOK
  <2> QED BY <1>7, <2>1, <2>6
<1> QED
  BY <1>1, <1>2, <1>3, <1>4, <1>5, <1>6, <1>8, <1>9, <1>10 DEF AgentStep-------------------------------------------------------------------------------
(* The main thread.                                                         *)

\* The main thread goes on to l, at agent j.
MainMoves(l, j) ==
  /\ pc' = [pc EXCEPT ![Main] = l] /\ l \in MainLabels
  /\ k' = j /\ j \in Cpus
  /\ attached' \subseteq attached /\ oldOnline' = oldOnline

LEMMA MainPlace ==
  ASSUME LifeInv, NEW l, NEW j, MainMoves(l, j),
         \A c \in Cpus : op'[c] = op[c], NoteTypeOK', NoteInv', ~aborted', MainInv'
  PROVE  LifeInv'
<1> USE Basics
<1>1. /\ pc' \in [Threads -> MainLabels \cup AgentLabels]
      /\ pc'[Main] = l /\ \A c \in Cpus : pc'[c] = pc[c]
      /\ k' \in Cpus /\ attached' \subseteq attached /\ oldOnline' = oldOnline
  BY DEF MainMoves, LifeInv, StateOK
<1>2. PlaceInv'
  BY <1>1 DEF LifeInv, PlaceInv
<1>3. StateOK'
  BY <1>1 DEF LifeInv, StateOK, MainMoves
<1> QED BY <1>2, <1>3 DEF LifeInv, ChecksHold

\* The loops over the agents reach all of them.
LEMMA Loop ==
  ASSUME k \in Cpus
  PROVE  /\ k = NCpus - 1 => \A c \in Cpus : c < k \/ c = k
         /\ k # NCpus - 1 => k + 1 \in Cpus /\ \A c \in Cpus : c < k + 1 <=> c < k \/ c = k
         /\ \A c \in Cpus : ~(c < 0) /\ ~(k < k)
BY Basics DEF Cpus

LEMMA MainKeeps ==
  ASSUME LifeInv, MainStep
  PROVE  LifeInv'
<1> USE Basics DEF At, NotInCall, OpAt, Goto, kernelVars, noteVars
<1>0. /\ StateOK /\ NoteTypeOK /\ NoteInv /\ PlaceInv /\ MainInv /\ aborted = FALSE /\ k \in Cpus
      /\ pc \in [Threads -> MainLabels \cup AgentLabels]
  BY DEF LifeInv, StateOK, ChecksHold, NoteTypeOK
\* A step that is in no call.
<1>1. ASSUME NEW l, NEW j, MainMoves(l, j), UNCHANGED <<notified, op>>, aborted' = FALSE,
             SameNotifies, SameWaits, MainInv'
      PROVE  LifeInv'
  <2>1. NoteTypeOK'
    BY <1>0, <1>1 DEF NoteTypeOK
  <2>2. NoteInv'
    BY <1>0, <1>1, QuietStep
  <2> QED BY <1>1, <2>1, <2>2, MainPlace
\* A step that begins a call.
<1>2. ASSUME NEW l, NEW j, MainMoves(l, j), NEW n \in Notes, NEW lbl \in {"load", "notify_load"},
             Begins(Main, n, lbl), NoteTypeOK', NoteInv', MainInv'
      PROVE  LifeInv'
  <2>1. (\A c \in Cpus : op'[c] = op[c]) /\ ~aborted'
    BY <1>0, <1>2 DEF Begins, NoteTypeOK
  <2> QED BY <1>2, <2>1, MainPlace
<1>3. ASSUME NEW l, NEW j, MainMoves(l, j)
      PROVE  pc'[Main] = l /\ k' = j /\ j \in Cpus /\ l \in MainLabels
             /\ \A c \in Cpus : pc'[c] = pc[c]
  BY <1>0, <1>3 DEF MainMoves
<1>4. CASE StartBegin
  <2>1. PICK c \in Cpus : c = k
    BY <1>0
  <2>2. pc[c] = "none" /\ pc[Main] = "StartBegin"
    BY <1>0, <1>4, <2>1 DEF StartBegin, MainInv
  <2>3. PICK l, j :
          /\ pc' = [pc EXCEPT ![c] = "WaitForOldAgent", ![Main] = l] /\ k' = j
          /\ \/ c = NCpus - 1 /\ l = "StartComplete" /\ j = 0
             \/ c # NCpus - 1 /\ l = "StartBegin" /\ j = c + 1
    <3>1. CASE c = NCpus - 1
      BY <1>4, <2>1, <3>1 DEF StartBegin
    <3>2. CASE c # NCpus - 1
      <4>1. pc' = [pc EXCEPT ![c] = "WaitForOldAgent"] /\ k' = c + 1
        BY <1>4, <2>1, <3>2 DEF StartBegin
      <4>2. pc' = [pc EXCEPT ![c] = "WaitForOldAgent", ![Main] = "StartBegin"]
        BY <1>0, <2>2, <4>1
      <4> QED BY <3>2, <4>1, <4>2
    <3> QED BY <3>1, <3>2
  <2>4. /\ pc' \in [Threads -> MainLabels \cup AgentLabels]
        /\ pc'[Main] = l /\ pc'[c] = "WaitForOldAgent" /\ k' = j /\ j \in Cpus
        /\ \A d \in Cpus : d # c => pc'[d] = pc[d]
        /\ UNCHANGED <<noteVars, attached, oldOnline>>
    BY <1>0, <1>4, <2>1, <2>3, Loop DEF StartBegin, MainLabels, AgentLabels
  <2>5. SameNotifies
    BY <2>2, <2>3, <2>4 DEF SameNotifies, NotifyBegun, Online, Terminating
  <2>6. SameWaits
    BY <1>0, <2>2, <2>3, <2>4, Loop DEF SameWaits, WaitBegun
  <2>7. NoteInv' /\ NoteTypeOK' /\ ~aborted'
    BY <1>0, <2>4, <2>5, <2>6, QuietStep DEF NoteTypeOK
  <2>8. PlaceInv'
    BY <1>0, <2>2, <2>4 DEF PlaceInv
  <2>9. MainInv'
    <3>1. \A d \in Cpus : c + 1 <= d => c <= d /\ c # d
      BY DEF Cpus
    <3> QED BY <1>0, <2>1, <2>2, <2>3, <2>4, <3>1 DEF MainInv, Online, Terminating
  <2>10. StateOK'
    BY <1>0, <2>3, <2>4, <2>7 DEF StateOK, MainLabels, AgentLabels
  <2> QED BY <2>7, <2>8, <2>9, <2>10 DEF LifeInv, ChecksHold
<1>5. CASE StartComplete
  <2>1. PICK n \in Notes : n = <<"ready", k>>
    BY <1>0
  <2>2. PICK l, j : /\ MainMoves(l, j)
                    /\ \/ k = NCpus - 1 /\ l = "Ready" /\ j = 0
                       \/ k # NCpus - 1 /\ l = "StartComplete" /\ j = k + 1
    BY <1>0, <1>5, Loop DEF StartComplete, NextAgent, MainMoves, MainLabels
  <2>3. Begins(Main, n, "load") /\ Waiter(n) = Main /\ pc[Main] = "StartComplete"
        /\ UNCHANGED attached
    BY <1>5, <2>1 DEF StartComplete, StartWait, Begins, Waiter
  <2>4. pc'[Main] = l /\ k' = j /\ \A c \in Cpus : pc'[c] = pc[c]
    BY <1>3, <2>2
  <2>5. SameNotifies
    BY <2>2, <2>3, <2>4 DEF SameNotifies, NotifyBegun, Online, Terminating
  <2>6. WaitBegun(n)' /\ \A m \in Notes : m # n => (WaitBegun(m)' <=> WaitBegun(m))
    BY <1>0, <2>1, <2>2, <2>3, <2>4, Loop DEF WaitBegun
  <2>7. NoteInv' /\ NoteTypeOK'
    BY <1>0, <2>3, <2>5, <2>6, WaitStep
  <2>8. MainInv'
    BY <1>0, <2>2, <2>3, <2>4 DEF MainInv, Online, Terminating
  <2> QED BY <1>2, <2>2, <2>3, <2>7, <2>8
<1>6. CASE Ready
  <2>1. /\ MainMoves("EnclaveReady", k) /\ UNCHANGED <<notified, op>> /\ aborted' = FALSE
        /\ pc[Main] = "Ready" /\ attached' = Cpus /\ k = 0
    BY <1>0, <1>6 DEF Ready, MainMoves, MainLabels, MainInv
  <2>2. pc'[Main] = "EnclaveReady" /\ k' = k /\ \A c \in Cpus : pc'[c] = pc[c]
    BY <1>3, <2>1
  <2>3. SameNotifies
    BY <1>0, <2>1, <2>2, Loop DEF SameNotifies, NotifyBegun, Online, Terminating
  <2>4. SameWaits
    BY <2>1, <2>2 DEF SameWaits, WaitBegun
  <2>5. MainInv'
    BY <2>1, <2>2 DEF MainInv
  <2> QED BY <1>1, <2>1, <2>3, <2>4, <2>5
<1>7. CASE EnclaveReady
  <2>1. PICK n \in Notes : n = <<"enclave_ready", k>>
    BY <1>0
  <2>2. PICK l, j : /\ MainMoves(l, j)
                    /\ \/ k = NCpus - 1 /\ l = "AdvertiseOnline" /\ j = 0
                       \/ k # NCpus - 1 /\ l = "EnclaveReady" /\ j = k + 1
    BY <1>0, <1>7, Loop DEF EnclaveReady, NextAgent, MainMoves, MainLabels
  <2>3. Begins(Main, n, "notify_load") /\ Notifier(n) = Main /\ pc[Main] = "EnclaveReady"
        /\ UNCHANGED attached
    BY <1>7, <2>1 DEF EnclaveReady, StartNotify, Begins, Notifier
  <2>4. pc'[Main] = l /\ k' = j /\ \A c \in Cpus : pc'[c] = pc[c]
    BY <1>3, <2>2
  <2>5. SameWaits
    BY <2>2, <2>3, <2>4 DEF SameWaits, WaitBegun
  <2>6. /\ ~NotifyBegun(n) /\ NotifyBegun(n)'
        /\ \A m \in Notes : m # n => (NotifyBegun(m)' <=> NotifyBegun(m))
    BY <1>0, <2>1, <2>2, <2>3, <2>4, Loop DEF NotifyBegun, Online, Terminating
  <2>7. NoteInv' /\ NoteTypeOK'
    BY <1>0, <2>3, <2>5, <2>6, NotifyStep
  <2>8. MainInv'
    BY <1>0, <2>2, <2>3, <2>4 DEF MainInv, Online, Terminating
  <2> QED BY <1>2, <2>2, <2>3, <2>7, <2>8
<1>8. CASE AdvertiseOnline
  <2>1. /\ MainMoves("serving", k) /\ UNCHANGED <<notified, op, attached>> /\ aborted' = oldOnline
        /\ pc[Main] = "AdvertiseOnline" /\ attached = Cpus /\ k = 0
    BY <1>0, <1>8 DEF AdvertiseOnline, MainMoves, MainLabels, MainInv, Online
  \* Agent 0 is attached, so it has waited for the older process.
  <2>2. aborted' = FALSE
    BY <1>0, <2>1 DEF PlaceInv, StateOK
  <2>3. pc'[Main] = "serving" /\ k' = k /\ \A c \in Cpus : pc'[c] = pc[c]
    BY <1>3, <2>1
  <2>4. SameNotifies
    BY <2>1, <2>3 DEF SameNotifies, NotifyBegun, Online, Terminating
  <2>5. SameWaits
    BY <2>1, <2>3 DEF SameWaits, WaitBegun
  <2>6. MainInv'
    BY <2>1, <2>3 DEF MainInv
  <2> QED BY <1>1, <2>1, <2>2, <2>4, <2>5, <2>6
<1>9. CASE Terminate
  <2>1. /\ MainMoves("finish", k) /\ UNCHANGED <<notified, op, attached>> /\ aborted' = FALSE
        /\ pc[Main] = "serving" /\ attached = Cpus /\ k = 0
    BY <1>0, <1>9 DEF Terminate, MainMoves, MainLabels, MainInv, Online
  <2>3. pc'[Main] = "finish" /\ k' = k /\ \A c \in Cpus : pc'[c] = pc[c]
    BY <1>3, <2>1
  <2>4. SameNotifies
    BY <1>0, <2>1, <2>3, Loop DEF SameNotifies, NotifyBegun, Online, Terminating
  <2>5. SameWaits
    BY <2>1, <2>3 DEF SameWaits, WaitBegun
  <2>6. MainInv'
    BY <2>1, <2>3 DEF MainInv
  <2> QED BY <1>1, <2>1, <2>4, <2>5, <2>6
<1>10. CASE TerminateFinish
  <2>1. PICK n \in Notes : n = <<"finished", k>>
    BY <1>0
  <2>2. MainMoves("ping", k)
    BY <1>0, <1>10 DEF TerminateFinish, MainMoves, MainLabels
  <2>3. Begins(Main, n, "notify_load") /\ Notifier(n) = Main /\ pc[Main] = "finish"
        /\ UNCHANGED attached
    BY <1>10, <2>1 DEF TerminateFinish, StartNotify, Begins, Notifier
  <2>4. pc'[Main] = "ping" /\ k' = k /\ \A c \in Cpus : pc'[c] = pc[c]
    BY <1>3, <2>2
  <2>5. SameWaits
    BY <2>3, <2>4 DEF SameWaits, WaitBegun
  <2>6. /\ ~NotifyBegun(n) /\ NotifyBegun(n)'
        /\ \A m \in Notes : m # n => (NotifyBegun(m)' <=> NotifyBegun(m))
    BY <1>0, <2>1, <2>3, <2>4, Loop DEF NotifyBegun, Online, Terminating
  <2>7. NoteInv' /\ NoteTypeOK'
    BY <1>0, <2>3, <2>5, <2>6, NotifyStep
  <2>8. MainInv'
    BY <1>0, <2>3, <2>4 DEF MainInv, Online, Terminating
  <2> QED BY <1>2, <2>2, <2>3, <2>7, <2>8
<1>11. CASE TerminatePing
  <2>1. /\ MainMoves("exit", k) /\ UNCHANGED <<notified, op, attached>> /\ aborted' = FALSE
        /\ pc[Main] = "ping"
    BY <1>0, <1>11 DEF TerminatePing, MainMoves, MainLabels
  <2>3. pc'[Main] = "exit" /\ k' = k /\ \A c \in Cpus : pc'[c] = pc[c]
    BY <1>3, <2>1
  <2>4. SameNotifies
    BY <2>1, <2>3 DEF SameNotifies, NotifyBegun, Online, Terminating
  <2>5. SameWaits
    BY <2>1, <2>3 DEF SameWaits, WaitBegun
  <2>6. MainInv'
    BY <1>0, <2>1, <2>3 DEF MainInv, Online, Terminating
  <2> QED BY <1>1, <2>1, <2>4, <2>5, <2>6
<1>12. CASE TerminateExit
  <2>1. PICK n \in Notes : n = <<"do_exit", k>>
    BY <1>0
  <2>2. PICK l, j : /\ MainMoves(l, j)
                    /\ \/ k = NCpus - 1 /\ l = "join" /\ j = 0
                       \/ k # NCpus - 1 /\ l = "finish" /\ j = k + 1
    BY <1>0, <1>12, Loop DEF TerminateExit, NextAgent, MainMoves, MainLabels
  <2>3. Begins(Main, n, "notify_load") /\ Notifier(n) = Main /\ pc[Main] = "exit"
        /\ UNCHANGED attached
    BY <1>12, <2>1 DEF TerminateExit, StartNotify, Begins, Notifier
  <2>4. pc'[Main] = l /\ k' = j /\ \A c \in Cpus : pc'[c] = pc[c]
    BY <1>3, <2>2
  <2>5. SameWaits
    BY <2>2, <2>3, <2>4 DEF SameWaits, WaitBegun
  <2>6. /\ ~NotifyBegun(n) /\ NotifyBegun(n)'
        /\ \A m \in Notes : m # n => (NotifyBegun(m)' <=> NotifyBegun(m))
    BY <1>0, <2>1, <2>2, <2>3, <2>4, Loop DEF NotifyBegun, Online, Terminating
  <2>7. NoteInv' /\ NoteTypeOK'
    BY <1>0, <2>3, <2>5, <2>6, NotifyStep
  <2>8. MainInv'
    BY <1>0, <2>2, <2>3, <2>4, Loop DEF MainInv, Online, Terminating
  <2> QED BY <1>2, <2>2, <2>3, <2>7, <2>8
<1>13. CASE Join
  <2>1. /\ MainMoves("can_free", k) /\ UNCHANGED <<notified, op, attached>> /\ aborted' = FALSE
        /\ pc[Main] = "join"
    BY <1>0, <1>13 DEF Join, MainMoves, MainLabels
  <2>3. pc'[Main] = "can_free" /\ k' = k /\ \A c \in Cpus : pc'[c] = pc[c]
    BY <1>3, <2>1
  <2>4. SameNotifies
    BY <2>1, <2>3 DEF SameNotifies, NotifyBegun, Online, Terminating
  <2>5. SameWaits
    BY <2>1, <2>3 DEF SameWaits, WaitBegun
  <2>6. MainInv'
    BY <1>0, <2>1, <2>3 DEF MainInv, Online, Terminating
  <2> QED BY <1>1, <2>1, <2>4, <2>5, <2>6
<1>14. CASE CanFree
  <2>1. PICK l, j : /\ MainMoves(l, j)
                    /\ \/ k = NCpus - 1 /\ l = "detach" /\ j = 0
                       \/ k # NCpus - 1 /\ l = "join" /\ j = k + 1
    BY <1>0, <1>14, Loop DEF CanFree, NextAgent, MainMoves, MainLabels
  <2>2. UNCHANGED <<notified, op, attached>> /\ aborted' = FALSE /\ pc[Main] = "can_free" /\ pc[k] = "dead"
    BY <1>0, <1>14 DEF CanFree
  <2>3. pc'[Main] = l /\ k' = j /\ \A c \in Cpus : pc'[c] = pc[c]
    BY <1>3, <2>1
  <2>4. SameNotifies
    BY <2>1, <2>2, <2>3 DEF SameNotifies, NotifyBegun, Online, Terminating
  <2>5. SameWaits
    BY <2>1, <2>2, <2>3 DEF SameWaits, WaitBegun
  <2>6. MainInv'
    BY <1>0, <2>1, <2>2, <2>3, Loop DEF MainInv, Online, Terminating
  <2> QED BY <1>1, <2>1, <2>2, <2>4, <2>5, <2>6
<1>15. CASE Detach
  <2>1. PICK l, j : /\ MainMoves(l, j)
                    /\ \/ k = NCpus - 1 /\ l = "gone" /\ j = 0
                       \/ k # NCpus - 1 /\ l = "detach" /\ j = k + 1
    BY <1>0, <1>15, Loop DEF Detach, NextAgent, MainMoves, MainLabels
  <2>2. UNCHANGED <<notified, op>> /\ pc[Main] = "detach" /\ op[Main].at = "idle"
    BY <1>15 DEF Detach
  \* Nobody waits: the agents are dead and the main thread is here.
  <2>3. aborted' = FALSE
    <3>1. \A th \in Threads : op[th].at = "idle"
      BY <1>0, <2>2 DEF MainInv, PlaceInv
    <3>2. \A n \in Notes : notified[n] # "kWaiter"
      BY <1>0, <3>1, Ends DEF NoteInv, Awaits, WaitLabels
    <3> QED BY <1>15, <3>2 DEF Detach, DestroyOk
  <2>4. pc'[Main] = l /\ k' = j /\ \A c \in Cpus : pc'[c] = pc[c]
    BY <1>3, <2>1
  <2>5. SameNotifies
    BY <2>1, <2>2, <2>4 DEF SameNotifies, NotifyBegun, Online, Terminating
  <2>6. SameWaits
    BY <2>1, <2>2, <2>4 DEF SameWaits, WaitBegun
  <2>7. MainInv'
    BY <1>0, <2>1, <2>2, <2>4 DEF MainInv, Online, Terminating
  <2> QED BY <1>1, <2>1, <2>2, <2>3, <2>5, <2>6, <2>7
<1> QED
  BY <1>4, <1>5, <1>6, <1>7, <1>8, <1>9, <1>10, <1>11, <1>12, <1>13, <1>14, <1>15 DEF MainStep
-------------------------------------------------------------------------------
LEMMA LifeStepInv == LifeInv /\ [Next]_vars => LifeInv'
<1> SUFFICES ASSUME LifeInv, [Next]_vars PROVE LifeInv'
  OBVIOUS
<1> USE DEF kernelVars
\* The kernel and the client tasks leave everything that matters here alone.
<1>1. ASSUME UNCHANGED <<noteVars, pc, k, attached>>, oldOnline' \in BOOLEAN,
             oldOnline' => oldOnline
      PROVE  LifeInv'
  <2>1. StateOK' /\ ChecksHold'
    BY <1>1 DEF LifeInv, StateOK, NoteTypeOK, ChecksHold, noteVars
  <2>2. NoteInv'
    BY <1>1, QuietStep DEF LifeInv, SameNotifies, SameWaits, NotifyBegun, WaitBegun, noteVars
  <2>3. PlaceInv' /\ MainInv'
    BY <1>1 DEF LifeInv, PlaceInv, MainInv, noteVars
  <2> QED BY <2>1, <2>2, <2>3 DEF LifeInv
<1>2. oldOnline \in BOOLEAN
  BY DEF LifeInv, StateOK
<1>3. CASE \E th \in Threads : Call(th) \/ Interrupted(th)
  <2>1. PICK th \in Threads : Call(th) \/ Interrupted(th)
    BY <1>3
  <2>2. /\ NoteTypeOK' /\ ~aborted' /\ NoteInv' /\ UNCHANGED <<pc, k, attached, oldOnline>>
        /\ \A u \in Threads : op[u].at = "idle" => op'[u].at = "idle"
    BY <2>1, CallNotes DEF Call, Interrupted
  <2> QED BY <2>2, Basics DEF LifeInv, StateOK, ChecksHold, PlaceInv, MainInv
<1>4. CASE OldCloses \/ \E c \in Cpus : OldLeaves(c) \/ KTaskArrives(c) \/ KTaskBlocks(c)
  BY <1>1, <1>2, <1>4 DEF OldCloses, OldLeaves, KTaskArrives, KTaskBlocks
<1>5. CASE UNCHANGED vars
  BY <1>1, <1>2, <1>5 DEF vars
<1> QED BY <1>3, <1>4, <1>5, AgentKeeps, MainKeeps DEF Next

LEMMA LifeInvHolds == Spec => []LifeInv
BY LifeInitInv, LifeStepInv, PTL DEF Spec

(***************************************************************************)
(* No CHECK of the life cycle fails, for any number of CPUs: none of the   *)
(* four Notifications of an Agent is notified twice or destroyed while     *)
(* somebody waits for it, and agent_online is free when it is opened.      *)
(***************************************************************************)
THEOREM LifecycleChecks == Spec => []ChecksHold
<1>1. LifeInv => ChecksHold
  BY DEF LifeInv
<1> QED BY <1>1, LifeInvHolds, PTL

(***************************************************************************)
(* An agent is in its loop only when every agent is attached and           *)
(* Enclave::Ready has discovered the tasks: it has returned from           *)
(* enclave_ready_, which the main thread notifies after that.              *)
(***************************************************************************)
THEOREM DiscoveryFirst == Spec => []SchedulesAfterDiscovery
<1>1. ASSUME LifeInv, NEW c \in Cpus, InLoop(c)
      PROVE  attached = Cpus /\ pc[Main] \notin {"StartBegin", "StartComplete", "Ready"}
  <2>1. PICK n \in Notes : n = <<"enclave_ready", c>>
    BY Basics
  <2>2. op[c].at = "idle" /\ WaitBegun(n) /\ Waiter(n) = c
    BY <1>1, <2>1 DEF InLoop, WaitBegun, Waiter
  <2>3. NotifyBegun(n)
    BY <1>1, <2>2 DEF LifeInv, NoteInv, Awaits, WaitLabels
  <2>4. pc[Main] \in Online \cup {"EnclaveReady"}
    BY <2>1, <2>3 DEF NotifyBegun
  <2>5. pc[Main] \notin {"detach", "gone"}
    BY <1>1 DEF LifeInv, MainInv, InLoop
  <2> QED BY <1>1, <2>4, <2>5 DEF LifeInv, MainInv, Online, Terminating
<1>2. LifeInv => SchedulesAfterDiscovery
  BY <1>1 DEF SchedulesAfterDiscovery
<1> QED BY <1>2, LifeInvHolds, PTL

(***************************************************************************)
(* TerminateAgentTasks detaches an agent only when the kernel is done with *)
(* all of them.                                                            *)
(***************************************************************************)
THEOREM JoinedFirst == Spec => []DetachedAfterAllJoined
<1>1. LifeInv => DetachedAfterAllJoined
  BY DEF LifeInv, MainInv, DetachedAfterAllJoined, Online, Terminating
<1> QED BY <1>1, LifeInvHolds, PTL

(***************************************************************************)
(* TerminateBegin pings an agent thread that exists: the agent cannot have *)
(* returned from the wait for do_exit_, which is notified after the ping.  *)
(***************************************************************************)
THEOREM PingsAreSafe == Spec => []PingsLiveAgent
<1>1. ASSUME LifeInv, pc[Main] = "ping", pc[k] \in {"exited", "dead"}
      PROVE  FALSE
  <2>1. PICK n \in Notes : n = <<"do_exit", k>> /\ k \in Cpus
    BY <1>1, Basics DEF LifeInv, StateOK
  <2>2. op[k].at = "idle" /\ WaitBegun(n) /\ Waiter(n) = k
    BY <1>1, <2>1 DEF LifeInv, PlaceInv, WaitBegun, Waiter
  <2>3. NotifyBegun(n)
    BY <1>1, <2>2 DEF LifeInv, NoteInv, Awaits, WaitLabels
  <2> QED BY <1>1, <2>1, <2>3, Loop DEF NotifyBegun
<1>2. LifeInv => PingsLiveAgent
  BY <1>1 DEF PingsLiveAgent
<1> QED BY <1>2, LifeInvHolds, PTL
===============================================================================
