-------------------------- MODULE SharedMemoryProofs --------------------------
(***************************************************************************)
(* Memory that an agent shares with others: the word of a Notification,    *)
(* for any number of threads, a PrioTable, for any number of clients,      *)
(* items and cells, the ring of a Channel, for any sizes and widths, and   *)
(* the status words, for any number of them and of threads.                *)
(***************************************************************************)
EXTENDS OneShotNotification, PrioTable, ChannelRing, TaskDiscovery, TLAPS

(***************************************************************************)
(* OneShotNotification: types, and that no sleeping waiter is ever left    *)
(* behind. SleepersAreSeen is inductive together with the types; that a    *)
(* waiter returns only after Notify also needs WaitersAreSeen.             *)
(***************************************************************************)

\* A thread that has got as far as Futex::Wait has left its mark in the word.
WaitersAreSeen ==
  \A th \in Threads : op[th].at \in {"futex", "asleep", "woken"} =>
    notified[op[th].on] # "kNoWaiter"

NoteInv == NoteTypeOK /\ SleepersAreSeen /\ WaitersAreSeen

\* What a thread does to its own call keeps the invariant unless it drops a
\* Futex::Wake that it owes, or falls asleep on another word than kWaiter.
LEMMA OwnStep ==
  ASSUME NoteInv, NEW th \in Threads, NEW x \in Ops,
         x.at # "idle" => x.on \in Notes,
         op' = [op EXCEPT ![th] = x],
         op[th].at # "wake",
         x.at = "asleep" => notified'[x.on] = "kWaiter",
         x.at \in {"futex", "woken"} => notified'[x.on] # "kNoWaiter",
         notified' \in [Notes -> NotifiedStates], aborted' \in BOOLEAN,
         \A n \in Notes : notified[n] # "kNoWaiter" => notified'[n] # "kNoWaiter",
         \A n \in Notes : \/ notified[n] = "kWaiter" => notified'[n] = "kWaiter"
                          \/ x.at = "wake" /\ x.on = n
  PROVE  NoteInv'
<1>1. NoteTypeOK'
  BY DEF NoteInv, NoteTypeOK
<1>2. SleepersAreSeen'
  <2> SUFFICES ASSUME NEW u \in Threads, op'[u].at = "asleep"
               PROVE  \/ notified'[op'[u].on] = "kWaiter"
                      \/ \E w \in Threads : op'[w].at = "wake" /\ op'[w].on = op'[u].on
    BY DEF SleepersAreSeen
  <2>1. op \in [Threads -> Ops]
    BY DEF NoteInv, NoteTypeOK
  <2>2. CASE u = th
    BY <2>1, <2>2
  <2>3. CASE u # th
    <3>1. op'[u] = op[u] /\ op[u].on \in Notes /\ op'[th] = x
      BY <2>1, <2>3 DEF NoteInv, NoteTypeOK
    <3>2. CASE notified[op[u].on] = "kWaiter"
      BY <3>1, <3>2
    <3>3. CASE \E w \in Threads : op[w].at = "wake" /\ op[w].on = op[u].on
      <4>1. PICK w \in Threads : op[w].at = "wake" /\ op[w].on = op[u].on
        BY <3>3
      <4>2. w # th /\ op'[w] = op[w]
        BY <2>1, <4>1
      <4> QED BY <3>1, <4>1, <4>2
    <3> QED BY <3>1, <3>2, <3>3 DEF NoteInv, SleepersAreSeen
  <2> QED BY <2>2, <2>3
<1>3. WaitersAreSeen'
  BY DEF NoteInv, NoteTypeOK, WaitersAreSeen
<1> QED BY <1>1, <1>2, <1>3 DEF NoteInv

\* Every step inside a call keeps the invariant.
LEMMA OpKeepsInv ==
  ASSUME NoteInv, NEW th \in Threads, OpStep(th) \/ SpuriousWakeup(th)
  PROVE  NoteInv'
<1> DEFINE n == op[th].on
<1>0. /\ notified \in [Notes -> NotifiedStates] /\ op \in [Threads -> Ops]
      /\ aborted \in BOOLEAN /\ Idle.at = "idle"
      /\ op[th].at # "idle" => n \in Notes
      /\ NotifiedStates = {"kNoWaiter", "kWaiter", "kNotified"}
  BY DEF NoteInv, NoteTypeOK, NotifiedStates, Idle
<1>1. Idle \in Ops
  BY DEF Idle, Ops, NotifiedStates
<1>2. \A l \in WaitLabels \cup NotifyLabels, s \in NotifiedStates :
        /\ [op[th] EXCEPT !.at = l] \in Ops
        /\ [op[th] EXCEPT !.at = l].at = l /\ [op[th] EXCEPT !.at = l].on = n
        /\ [op[th] EXCEPT !.at = l, !.v = s] \in Ops
        /\ [op[th] EXCEPT !.at = l, !.v = s].at = l
        /\ [op[th] EXCEPT !.at = l, !.v = s].on = n
  BY <1>0 DEF Ops
<1>3. ASSUME NEW l \in WaitLabels \cup NotifyLabels, OpGoto(th, l)
      PROVE  op' = [op EXCEPT ![th] = [op[th] EXCEPT !.at = l]]
  BY <1>0, <1>3 DEF OpGoto
<1>4. ASSUME OpReturn(th), op[th].at # "wake", UNCHANGED aborted, UNCHANGED notified
      PROVE  NoteInv'
  BY <1>0, <1>1, <1>4, OwnStep DEF OpReturn, NotifiedStates
<1>5. ASSUME NEW l \in {"load", "cas", "futex", "woken", "notify_load", "notify_cas"},
             OpGoto(th, l), op[th].at \notin {"wake", "idle"}, UNCHANGED <<notified, aborted>>,
             l \in {"futex", "woken"} => notified[n] # "kNoWaiter"
      PROVE  NoteInv'
  <2>1. l \in WaitLabels \cup NotifyLabels /\ l \notin {"asleep", "idle"}
    BY DEF WaitLabels, NotifyLabels
  <2>2. op' = [op EXCEPT ![th] = [op[th] EXCEPT !.at = l]]
    BY <1>3, <1>5, <2>1
  <2>3. /\ [op[th] EXCEPT !.at = l] \in Ops /\ [op[th] EXCEPT !.at = l].at = l
        /\ [op[th] EXCEPT !.at = l].on = n
    BY <1>0, <1>2, <2>1
  <2> HIDE DEF n
  <2> QED BY <1>0, <1>5, <2>1, <2>2, <2>3, OwnStep
<1>6. CASE WaitLoad(th)
  BY <1>4, <1>5, <1>6 DEF WaitLoad, OpAt, Word
<1>7. CASE WaitCas(th)
  <2>1. /\ op' = [op EXCEPT ![th] = [op[th] EXCEPT !.at = "load"]]
        /\ notified' = [notified EXCEPT ![n] = IF @ = "kNoWaiter" THEN "kWaiter" ELSE @]
        /\ UNCHANGED aborted /\ op[th].at = "cas"
    BY <1>3, <1>7 DEF WaitCas, OpAt, WaitLabels
  <2>2. /\ notified' \in [Notes -> NotifiedStates]
        /\ \A m \in Notes : notified[m] = "kWaiter" => notified'[m] = "kWaiter"
    BY <1>0, <2>1
  <2>3. /\ [op[th] EXCEPT !.at = "load"] \in Ops /\ [op[th] EXCEPT !.at = "load"].at = "load"
        /\ [op[th] EXCEPT !.at = "load"].on = n
    BY <1>0, <1>2 DEF WaitLabels
  <2> HIDE DEF n
  <2> QED BY <1>0, <2>1, <2>2, <2>3, OwnStep
<1>8. CASE FutexWait(th)
  <2>1. CASE Word(th) = "kWaiter"
    <3>1. /\ op' = [op EXCEPT ![th] = [op[th] EXCEPT !.at = "asleep"]]
          /\ UNCHANGED <<notified, aborted>> /\ op[th].at = "futex"
          /\ notified[n] = "kWaiter"
      BY <1>3, <1>8, <2>1 DEF FutexWait, OpAt, WaitLabels, Word
    <3>2. /\ [op[th] EXCEPT !.at = "asleep"] \in Ops
          /\ [op[th] EXCEPT !.at = "asleep"].at = "asleep"
          /\ [op[th] EXCEPT !.at = "asleep"].on = n
      BY <1>0, <1>2 DEF WaitLabels
    <3> HIDE DEF n
    <3> QED BY <1>0, <3>1, <3>2, OwnStep
  <2>2. CASE Word(th) # "kWaiter"
    BY <1>4, <1>8, <2>2 DEF FutexWait, OpAt
  <2> QED BY <2>1, <2>2
<1>9. CASE FutexRecheck(th)
  BY <1>4, <1>5, <1>9 DEF FutexRecheck, OpAt, Word
<1>10. CASE SpuriousWakeup(th)
  BY <1>5, <1>10 DEF SpuriousWakeup, OpAt, NoteInv, WaitersAreSeen
<1>11. CASE NotifyLoad(th)
  <2>1. CASE Word(th) = "kNotified"
    BY <1>0, <1>11, <2>1 DEF NotifyLoad, NoteInv, NoteTypeOK, SleepersAreSeen, WaitersAreSeen
  <2>2. CASE Word(th) # "kNotified"
    <3> DEFINE x == [op[th] EXCEPT !.at = "notify_cas", !.v = Word(th)]
    <3>1. /\ op' = [op EXCEPT ![th] = x]
          /\ UNCHANGED <<notified, aborted>> /\ op[th].at = "notify_load"
      BY <1>0, <1>11, <2>2 DEF NotifyLoad, OpAt
    <3>2. x \in Ops /\ x.at = "notify_cas" /\ x.on = n
      <4>1. Word(th) \in NotifiedStates
        BY <1>0, <3>1 DEF Word
      <4>2. "notify_cas" \in WaitLabels \cup NotifyLabels
        BY DEF NotifyLabels
      <4> QED BY <1>2, <4>1, <4>2
    <3> HIDE DEF n, x
    <3> QED BY <1>0, <3>1, <3>2, OwnStep
  <2> QED BY <2>1, <2>2
<1>12. CASE NotifyCas(th)
  <2>1. CASE Word(th) # op[th].v
    BY <1>5, <1>12, <2>1 DEF NotifyCas, OpAt
  <2>2. CASE Word(th) = op[th].v
    <3>1. /\ notified' = [notified EXCEPT ![n] = "kNotified"]
          /\ UNCHANGED aborted /\ op[th].at = "notify_cas" /\ notified[n] = op[th].v
          /\ IF op[th].v = "kWaiter" THEN OpGoto(th, "wake") ELSE OpReturn(th)
      BY <1>12, <2>2 DEF NotifyCas, OpAt, Word
    <3>2. /\ notified' \in [Notes -> NotifiedStates]
          /\ \A m \in Notes : notified[m] = "kWaiter" => notified'[m] = "kWaiter" \/ m = n
      BY <1>0, <3>1
    <3>3. CASE op[th].v = "kWaiter"
      <4>1. op' = [op EXCEPT ![th] = [op[th] EXCEPT !.at = "wake"]]
        BY <1>3, <3>1, <3>3 DEF NotifyLabels
      <4>2. /\ [op[th] EXCEPT !.at = "wake"] \in Ops
            /\ [op[th] EXCEPT !.at = "wake"].at = "wake"
            /\ [op[th] EXCEPT !.at = "wake"].on = n
        BY <1>0, <1>2 DEF NotifyLabels
      <4> HIDE DEF n
      <4> QED BY <1>0, <3>1, <3>2, <4>1, <4>2, OwnStep
    <3>4. CASE op[th].v # "kWaiter"
      <4>1. \A m \in Notes : notified[m] = "kWaiter" => notified'[m] = "kWaiter"
        BY <3>1, <3>2, <3>4
      <4> HIDE DEF n
      <4> QED BY <1>0, <1>1, <3>1, <3>2, <3>4, <4>1, OwnStep DEF OpReturn
    <3> QED BY <3>3, <3>4
  <2> QED BY <2>1, <2>2
<1>13. CASE NotifyWake(th)
  <2>1. /\ UNCHANGED <<notified, aborted>> /\ op' \in [Threads -> Ops]
        /\ op'[th] = Idle
        /\ \A u \in Threads : u # th =>
             \/ op[u].at = "asleep" /\ op[u].on = n /\ op'[u].at = "woken" /\ op'[u].on = n
             \/ ~(op[u].at = "asleep" /\ op[u].on = n) /\ op'[u] = op[u]
    BY <1>0, <1>1, <1>13 DEF NotifyWake, Ops, WaitLabels
  <2>2. NoteTypeOK'
    BY <1>0, <2>1 DEF NoteInv, NoteTypeOK
  <2>3. SleepersAreSeen'
    BY <1>0, <2>1 DEF NoteInv, SleepersAreSeen
  <2>4. WaitersAreSeen'
    BY <1>0, <2>1 DEF NoteInv, WaitersAreSeen
  <2> QED BY <2>2, <2>3, <2>4 DEF NoteInv
<1> QED BY <1>6, <1>7, <1>8, <1>9, <1>10, <1>11, <1>12, <1>13 DEF OpStep

\* So does the beginning of a call.
LEMMA CallKeepsInv ==
  ASSUME NoteInv, NEW th \in Threads, NEW n \in Notes,
         op[th].at = "idle", UNCHANGED <<notified, aborted>>,
         StartWait(th, n) \/ StartNotify(th, n)
  PROVE  NoteInv'
<1>1. \A l \in {"load", "notify_load"} : [at |-> l, on |-> n, v |-> "kNoWaiter"] \in Ops
  BY DEF Ops, WaitLabels, NotifyLabels, NotifiedStates
<1>2. notified \in [Notes -> NotifiedStates] /\ aborted \in BOOLEAN
  BY DEF NoteInv, NoteTypeOK
<1>3. CASE StartWait(th, n)
  BY <1>1, <1>2, <1>3, OwnStep DEF StartWait
<1>4. CASE StartNotify(th, n)
  BY <1>1, <1>2, <1>4, OwnStep DEF StartNotify
<1> QED BY <1>3, <1>4

LEMMA NoteInvHolds == NoteSpec => []NoteInv
<1>1. NoteInit => NoteInv
  <2>1. Idle \in Ops /\ Idle.at = "idle"
    BY DEF Idle, Ops, NotifiedStates
  <2> QED BY <2>1 DEF NoteInit, NoteInv, NoteTypeOK, SleepersAreSeen, WaitersAreSeen,
                      NotifiedStates
<1>2. NoteInv /\ [NoteNext]_noteVars => NoteInv'
  <2> SUFFICES ASSUME NoteInv, [NoteNext]_noteVars PROVE NoteInv'
    OBVIOUS
  <2>1. CASE UNCHANGED noteVars
    BY <2>1 DEF noteVars, NoteInv, NoteTypeOK, SleepersAreSeen, WaitersAreSeen
  <2>2. ASSUME NEW th \in Threads, OpStep(th) \/ SpuriousWakeup(th) PROVE NoteInv'
    BY <2>2, OpKeepsInv
  <2>3. ASSUME NEW th \in Threads, NEW n \in Notes, CallWait(th, n) PROVE NoteInv'
    BY <2>3, CallKeepsInv DEF CallWait, NotInCall, OpAt
  <2>4. ASSUME NEW n \in Notes, CallNotify(n) PROVE NoteInv'
    BY <2>4, CallKeepsInv, NotifierAssumption DEF CallNotify, NotInCall, OpAt
  <2> QED BY <2>1, <2>2, <2>3, <2>4 DEF NoteNext
<1> QED BY <1>1, <1>2, PTL DEF NoteSpec

\* Notification (lib/base.cc): whatever the number of threads and of
\* notifications, a thread asleep in Futex::Wait is either announced by
\* kWaiter or about to be woken by a notifier that has taken kWaiter away.
THEOREM NoWaiterLeftBehind == NoteSpec => []SleepersAreSeen
<1>1. NoteInv => SleepersAreSeen
  BY DEF NoteInv
<1> QED BY <1>1, NoteInvHolds, PTL

-------------------------------------------------------------------------------
(* Refinement: the steps of a call are steps of Trigger, or stutter.        *)

\* The refinement mapping of OneShotNotification.
SetNotes == {n \in Notes : notified[n] = "kNotified"}
WaitingPairs == {p \in Threads \X Notes :
                   op[p[1]].at \in WaitLabels /\ op[p[1]].on = p[2]}

LEMMA WaitingStays ==
  ASSUME \A u \in Threads :
           /\ op'[u].at \in WaitLabels <=> op[u].at \in WaitLabels
           /\ op[u].at \in WaitLabels => op'[u].on = op[u].on
  PROVE  WaitingPairs' = WaitingPairs
<1>1. \A p \in Threads \X Notes : p[1] \in Threads
  OBVIOUS
<1> QED BY <1>1 DEF WaitingPairs

\* A step that changes only the call of th, between labels of one kind.
LEMMA SameKind ==
  ASSUME NoteTypeOK, NEW th \in Threads, NEW x \in Ops, op' = [op EXCEPT ![th] = x],
         x.at \in WaitLabels <=> op[th].at \in WaitLabels,
         op[th].at \in WaitLabels => x.on = op[th].on
  PROVE  WaitingPairs' = WaitingPairs
<1>1. \A u \in Threads : op'[u] = IF u = th THEN x ELSE op[u]
  BY DEF NoteTypeOK
<1> QED BY <1>1, WaitingStays

\* The return of a waiter, after the trigger was set.
LEMMA ReturnStep ==
  ASSUME NoteTypeOK, NEW th \in Threads, NEW n \in Notes, OpReturn(th),
         op[th].at \in WaitLabels, op[th].on = n, notified[n] = "kNotified",
         notified' = notified
  PROVE  Triggers!Return(th, n)
<1>1. \A u \in Threads : op'[u] = IF u = th THEN Idle ELSE op[u]
  BY DEF NoteTypeOK, OpReturn
<1>2. Idle.at \notin WaitLabels
  BY DEF Idle, WaitLabels
<1>3. WaitingPairs' = WaitingPairs \ {<<th, n>>}
  <2>1. \A p \in Threads \X Notes : p \in WaitingPairs' <=> p \in WaitingPairs /\ p # <<th, n>>
    <3> SUFFICES ASSUME NEW u \in Threads, NEW m \in Notes
                 PROVE  <<u, m>> \in WaitingPairs' <=>
                          <<u, m>> \in WaitingPairs /\ <<u, m>> # <<th, n>>
      OBVIOUS
    <3> QED BY <1>1, <1>2 DEF WaitingPairs
  <2>2. WaitingPairs \subseteq Threads \X Notes /\ WaitingPairs' \subseteq Threads \X Notes
    BY DEF WaitingPairs
  <2> QED BY <2>1, <2>2
<1>4. n \in SetNotes /\ <<th, n>> \in WaitingPairs /\ SetNotes' = SetNotes
  BY DEF SetNotes, WaitingPairs
<1> QED BY <1>3, <1>4 DEF Triggers!Return, SetNotes, WaitingPairs

\* The beginning of a wait.
LEMMA WaitStep ==
  ASSUME NoteTypeOK, NEW th \in Threads, NEW n \in Notes, StartWait(th, n),
         op[th].at = "idle", notified' = notified
  PROVE  Triggers!Wait(th, n)
<1>1. \A u \in Threads : op'[u] = IF u = th THEN [at |-> "load", on |-> n, v |-> "kNoWaiter"]
                                   ELSE op[u]
  BY DEF NoteTypeOK, StartWait
<1>2. "load" \in WaitLabels /\ "idle" \notin WaitLabels
  BY DEF WaitLabels
<1>3. WaitingPairs' = WaitingPairs \cup {<<th, n>>}
  <2>1. \A p \in Threads \X Notes : p \in WaitingPairs' <=> p \in WaitingPairs \/ p = <<th, n>>
    <3> SUFFICES ASSUME NEW u \in Threads, NEW m \in Notes
                 PROVE  <<u, m>> \in WaitingPairs' <=>
                          <<u, m>> \in WaitingPairs \/ <<u, m>> = <<th, n>>
      OBVIOUS
    <3> QED BY <1>1, <1>2 DEF WaitingPairs
  <2>2. WaitingPairs \subseteq Threads \X Notes /\ WaitingPairs' \subseteq Threads \X Notes
    BY DEF WaitingPairs
  <2> QED BY <2>1, <2>2
<1>4. /\ \A m \in Notes : <<th, m>> \notin WaitingPairs
      /\ SetNotes' = SetNotes
  BY <1>2 DEF SetNotes, WaitingPairs
<1> QED BY <1>3, <1>4 DEF Triggers!Wait, SetNotes, WaitingPairs

\* Every step inside a call is a step of Trigger, or stutters.
LEMMA OpImplementsTrigger ==
  ASSUME NoteInv, NEW th \in Threads, OpStep(th) \/ SpuriousWakeup(th)
  PROVE  [Triggers!TriggerNext]_(Triggers!triggerVars)
<1>n. PICK n : n = op[th].on
  OBVIOUS
<1>0. /\ n = op[th].on
      /\ NoteTypeOK /\ WaitersAreSeen /\ op[th] \in Ops
      /\ notified \in [Notes -> NotifiedStates]
      /\ op[th].at # "idle" => n \in Notes
  BY <1>n DEF NoteInv, NoteTypeOK
<1>1. ASSUME WaitingPairs' = WaitingPairs, SetNotes' = SetNotes
      PROVE  [Triggers!TriggerNext]_(Triggers!triggerVars)
  BY <1>1 DEF Triggers!triggerVars, SetNotes, WaitingPairs
<1>2. ASSUME OpReturn(th), op[th].at \in WaitLabels, notified[n] = "kNotified",
             notified' = notified
      PROVE  [Triggers!TriggerNext]_(Triggers!triggerVars)
  <2>1. n \in Notes
    BY <1>0, <1>2 DEF WaitLabels
  <2>2. Triggers!Return(th, n)
    BY <1>0, <1>2, <2>1, ReturnStep
  <2>3. \E u \in Threads : Triggers!Wait(u, n) \/ Triggers!Return(u, n)
    BY <2>2
  <2> QED BY <2>1, <2>3 DEF Triggers!TriggerNext
<1>3. ASSUME NEW l \in WaitLabels, OpGoto(th, l), op[th].at \in WaitLabels
      PROVE  WaitingPairs' = WaitingPairs
  <2>1. /\ op' = [op EXCEPT ![th] = [op[th] EXCEPT !.at = l]]
        /\ [op[th] EXCEPT !.at = l] \in Ops
        /\ [op[th] EXCEPT !.at = l].at = l /\ [op[th] EXCEPT !.at = l].on = n
    BY <1>0, <1>3 DEF OpGoto, Ops, NoteTypeOK
  <2> QED BY <1>0, <1>3, <2>1, SameKind
<1>4. ASSUME NEW x \in Ops, op' = [op EXCEPT ![th] = x],
             x.at \notin WaitLabels, op[th].at \notin WaitLabels
      PROVE  WaitingPairs' = WaitingPairs
  BY <1>0, <1>4, SameKind
<1>5. ASSUME notified' = notified PROVE SetNotes' = SetNotes
  BY <1>5 DEF SetNotes
<1>6. WaitLabels = {"load", "cas", "futex", "asleep", "woken"} /\ Idle \in Ops
      /\ Idle.at = "idle"
  BY DEF WaitLabels, Idle, Ops, NotifiedStates
<1>7. CASE WaitLoad(th)
  BY <1>0, <1>1, <1>2, <1>3, <1>5, <1>6, <1>7 DEF WaitLoad, OpAt, Word
<1>8. CASE WaitCas(th)
  <2>1. WaitingPairs' = WaitingPairs
    BY <1>3, <1>6, <1>8 DEF WaitCas, OpAt
  <2>2. SetNotes' = SetNotes
    <3>1. \A m \in Notes : notified'[m] = "kNotified" <=> notified[m] = "kNotified"
      BY <1>0, <1>8 DEF WaitCas
    <3> QED BY <3>1 DEF SetNotes
  <2> QED BY <1>1, <2>1, <2>2
<1>9. CASE FutexWait(th)
  <2>1. op[th].at = "futex" /\ n \in Notes /\ notified[n] \in {"kWaiter", "kNotified"}
    BY <1>0, <1>9 DEF FutexWait, OpAt, WaitersAreSeen, NotifiedStates
  <2> QED BY <1>0, <1>1, <1>2, <1>3, <1>5, <1>6, <1>9, <2>1 DEF FutexWait, Word
<1>10. CASE FutexRecheck(th)
  <2>1. op[th].at = "woken" /\ n \in Notes /\ notified[n] \in {"kWaiter", "kNotified"}
    BY <1>0, <1>10 DEF FutexRecheck, OpAt, WaitersAreSeen, NotifiedStates
  <2> QED BY <1>0, <1>1, <1>2, <1>3, <1>5, <1>6, <1>10, <2>1 DEF FutexRecheck, Word
<1>11. CASE SpuriousWakeup(th)
  BY <1>1, <1>3, <1>5, <1>6, <1>11 DEF SpuriousWakeup, OpAt
<1>12. CASE NotifyLoad(th)
  <2>1. CASE UNCHANGED op
    BY <1>1, <1>5, <1>12, <2>1 DEF NotifyLoad, WaitingPairs
  <2>2. CASE op' = [op EXCEPT ![th].at = "notify_cas", ![th].v = Word(th)]
    <3> DEFINE x == [op[th] EXCEPT !.at = "notify_cas", !.v = Word(th)]
    <3>1. n \in Notes /\ op[th].at = "notify_load" /\ Word(th) \in NotifiedStates
      BY <1>0, <1>12 DEF NotifyLoad, OpAt, Word
    <3>2. x \in Ops /\ op' = [op EXCEPT ![th] = x] /\ x.at = "notify_cas"
      BY <1>0, <2>2, <3>1 DEF Ops, NotifyLabels, NoteTypeOK
    <3> HIDE DEF x
    <3> QED BY <1>1, <1>4, <1>5, <1>6, <1>12, <3>1, <3>2 DEF NotifyLoad
  <2> QED BY <1>12, <2>1, <2>2 DEF NotifyLoad
<1>13. CASE NotifyCas(th)
  <2>1. op[th].at = "notify_cas" /\ n \in Notes
    BY <1>0, <1>13 DEF NotifyCas, OpAt
  <2>2. WaitingPairs' = WaitingPairs
    <3>1. \A l \in {"wake", "notify_load"} :
            /\ [op[th] EXCEPT !.at = l] \in Ops /\ [op[th] EXCEPT !.at = l].at = l
            /\ OpGoto(th, l) => op' = [op EXCEPT ![th] = [op[th] EXCEPT !.at = l]]
      BY <1>0 DEF Ops, NotifyLabels, OpGoto, NoteTypeOK
    <3>2. ASSUME NEW l \in {"wake", "notify_load"}, OpGoto(th, l)
          PROVE  WaitingPairs' = WaitingPairs
      BY <1>4, <1>6, <2>1, <3>1, <3>2
    <3>3. ASSUME OpReturn(th) PROVE WaitingPairs' = WaitingPairs
      BY <1>4, <1>6, <2>1, <3>3 DEF OpReturn
    <3> QED BY <1>13, <3>2, <3>3 DEF NotifyCas
  <2>3. CASE notified' = notified
    BY <1>1, <1>5, <2>2, <2>3
  <2>4. CASE notified' = [notified EXCEPT ![n] = "kNotified"]
    <3>1. SetNotes' = SetNotes \cup {n}
      <4>1. \A m \in Notes : notified'[m] = "kNotified" <=> notified[m] = "kNotified" \/ m = n
        BY <1>0, <2>1, <2>4
      <4> QED BY <2>1, <4>1 DEF SetNotes
    <3>2. CASE n \in SetNotes
      <4>1. SetNotes' = SetNotes
        BY <3>1, <3>2
      <4> QED BY <1>1, <2>2, <4>1
    <3>3. CASE n \notin SetNotes
      <4>1. Triggers!Set(n)
        BY <2>2, <3>1, <3>3 DEF Triggers!Set, SetNotes, WaitingPairs
      <4> QED BY <2>1, <4>1 DEF Triggers!TriggerNext
    <3> QED BY <3>2, <3>3
  <2> QED BY <1>0, <1>13, <2>3, <2>4 DEF NotifyCas
<1>14. CASE NotifyWake(th)
  <2>1. \A u \in Threads :
          /\ op'[u].at \in WaitLabels <=> op[u].at \in WaitLabels
          /\ op[u].at \in WaitLabels => op'[u].on = op[u].on
    <3> SUFFICES ASSUME NEW u \in Threads
                 PROVE  /\ op'[u].at \in WaitLabels <=> op[u].at \in WaitLabels
                        /\ op[u].at \in WaitLabels => op'[u].on = op[u].on
      OBVIOUS
    <3>1. op[u] \in Ops /\ op[th].at = "wake"
      BY <1>0, <1>14 DEF NoteTypeOK, NotifyWake, OpAt
    <3>2. op'[u] = IF u = th THEN Idle
                   ELSE IF op[u].at = "asleep" /\ op[u].on = n
                     THEN [op[u] EXCEPT !.at = "woken"] ELSE op[u]
      BY <1>0, <1>14 DEF NotifyWake
    <3>3. [op[u] EXCEPT !.at = "woken"].at = "woken" /\ [op[u] EXCEPT !.at = "woken"].on = op[u].on
      BY <3>1 DEF Ops
    <3> QED BY <1>6, <3>1, <3>2, <3>3
  <2> QED BY <1>1, <1>5, <1>14, <2>1, WaitingStays DEF NotifyWake
<1> QED BY <1>7, <1>8, <1>9, <1>10, <1>11, <1>12, <1>13, <1>14 DEF OpStep

\* Notification (lib/base.cc) implements the trigger that its comment
\* describes: for every number of threads and notifications,
\* WaitForNotification returns only from a notification that was notified,
\* and notifying is final.  (That the waiters do return is left to TLC.)
THEOREM ImplementsTrigger == NoteSpec => Triggers!TriggerSafety
<1>1. NoteInit => Triggers!TriggerInit
  <2>1. ASSUME NoteInit PROVE SetNotes = {} /\ WaitingPairs = {}
    BY <2>1 DEF NoteInit, SetNotes, WaitingPairs, Idle, WaitLabels
  <2> QED BY <2>1 DEF Triggers!TriggerInit, SetNotes, WaitingPairs
<1>2. NoteInv /\ [NoteNext]_noteVars => [Triggers!TriggerNext]_(Triggers!triggerVars)
  <2> SUFFICES ASSUME NoteInv, [NoteNext]_noteVars
               PROVE  [Triggers!TriggerNext]_(Triggers!triggerVars)
    OBVIOUS
  <2>1. CASE UNCHANGED noteVars
    BY <2>1 DEF noteVars, Triggers!triggerVars
  <2>2. ASSUME NEW th \in Threads, OpStep(th) \/ SpuriousWakeup(th)
        PROVE  [Triggers!TriggerNext]_(Triggers!triggerVars)
    BY <2>2, OpImplementsTrigger
  <2>3. ASSUME NEW th \in Threads, NEW n \in Notes, CallWait(th, n)
        PROVE  [Triggers!TriggerNext]_(Triggers!triggerVars)
    <3>1. Triggers!Wait(th, n)
      BY <2>3, WaitStep DEF CallWait, NotInCall, OpAt, NoteInv
    <3>2. \E u \in Threads : Triggers!Wait(u, n) \/ Triggers!Return(u, n)
      BY <3>1
    <3> QED BY <3>2 DEF Triggers!TriggerNext
  <2>4. ASSUME NEW n \in Notes, CallNotify(n)
        PROVE  [Triggers!TriggerNext]_(Triggers!triggerVars)
    <3> DEFINE x == [at |-> "notify_load", on |-> n, v |-> "kNoWaiter"]
    <3>1. /\ Notifier[n] \in Threads /\ op[Notifier[n]].at = "idle"
          /\ op' = [op EXCEPT ![Notifier[n]] = x] /\ UNCHANGED notified
      BY <2>4, NotifierAssumption DEF CallNotify, NotInCall, OpAt, StartNotify
    <3>2. x \in Ops /\ x.at \notin WaitLabels /\ "idle" \notin WaitLabels
      BY DEF Ops, NotifyLabels, NotifiedStates, WaitLabels
    <3>3. WaitingPairs' = WaitingPairs
      BY <3>1, <3>2, SameKind DEF NoteInv
    <3> QED BY <3>1, <3>3 DEF Triggers!triggerVars, WaitingPairs
  <2> QED BY <2>1, <2>2, <2>3, <2>4 DEF NoteNext
<1> QED BY <1>1, <1>2, NoteInvHolds, PTL DEF NoteSpec, Triggers!TriggerSafety
-------------------------------------------------------------------------------
(***************************************************************************)
(* PrioTable, for updates without bound: no copy is torn, and no update is *)
(* lost. The inductive invariant has four parts: the types; the seqcount   *)
(* as a lock (WriteInv); what the agent may conclude from a seqcount that  *)
(* has not changed (ReadInv); and, for every item whose copy is out of     *)
(* date, where the news of it is at the moment (NewsInv).                  *)
(***************************************************************************)

Items == [seqnum : Nat, gpid : Nat, flags : BOOLEAN, deadline : Nat]
Copies == [seqcount : Nat, gpid : Nat, flags : BOOLEAN, deadline : Nat]
Cells == 0 .. StCap - 1

WriteLabels == {"write", "write_deadline", "write_end"}
ReadLabels == {"read", "read_deadline", "read_end"}

Calls == [at : {"idle", "write_begin", "mark", "cell", "cas", "scrape"} \cup WriteLabels,
          sid : Sids, runnable : BOOLEAN, try : Nat]
Scans == [at : {"top", "exchange", "cell", "clear", "read_begin"} \cup ReadLabels,
          sid : Nat, full : BOOLEAN, begin : Nat, gpid : Nat, flags : BOOLEAN, deadline : Nat]

TableTypeOK ==
  /\ item \in [Sids -> Items]
  /\ entries \in [Cells -> Sids \cup {Free}]
  /\ scrape_all \in Nat /\ updates \in Nat
  /\ client \in [Clients -> Calls]
  /\ cached \in [Sids -> Copies]
  /\ scan \in Scans

\* The agent's index is that of a cell or of an item, and a cell that it found
\* taken stays taken.
ScanInv ==
  /\ scan.at \in {"top", "exchange"} => scan.sid = 0
  /\ scan.at \in {"cell", "clear"} => scan.sid \in Cells
  /\ scan.at = "clear" => entries[scan.sid] # Free
  /\ scan.at \in {"read_begin"} \cup ReadLabels => scan.sid \in Sids

Writing(c, s) == client[c].at \in WriteLabels /\ client[c].sid = s

\* An odd seqcount is a lock with one holder; without one, and when the holder
\* is about to let go of it, the fields are of one update.
WriteInv ==
  /\ \A s \in Sids : Locked(item[s].seqnum) <=> \E c \in Clients : Writing(c, s)
  /\ \A c, d \in Clients : \A s \in Sids : Writing(c, s) /\ Writing(d, s) => c = d
  /\ \A s \in Sids : ~Locked(item[s].seqnum) => item[s].gpid = item[s].deadline
  /\ \A c \in Clients :
       /\ ClientAt(c, "write_deadline") => Item(c).gpid = Item(c).seqnum
       /\ ClientAt(c, "write_end") => Item(c).gpid = Item(c).deadline

UpToDate(s) ==
  /\ ~Locked(item[s].seqnum)
  /\ cached[s] = [seqcount |-> item[s].seqnum, gpid |-> item[s].gpid,
                  flags |-> item[s].flags, deadline |-> item[s].deadline]

\* What has been read under a seqcount that is even and has not changed is
\* what the item holds, and so is a copy with that seqcount.
ReadInv ==
  /\ \A s \in Sids :
       /\ cached[s].gpid = cached[s].deadline
       /\ cached[s].seqcount <= item[s].seqnum
       /\ cached[s].seqcount = item[s].seqnum /\ ~Locked(item[s].seqnum) => UpToDate(s)
  /\ scan.at \in ReadLabels => scan.begin <= item[scan.sid].seqnum
  /\ scan.at \in ReadLabels \ {"read"} /\ ReadEndOk =>
       scan.gpid = item[scan.sid].gpid /\ scan.flags = item[scan.sid].flags
  /\ scan.at = "read_end" /\ ReadEndOk => scan.deadline = item[scan.sid].deadline

\* The item's number is on its way to the agent.
Announced(s) ==
  \/ \E c \in Clients : ~ClientAt(c, "idle") /\ client[c].sid = s
  \/ \E i \in Cells : entries[i] = s
  \/ scrape_all > 0

\* The agent is going to look at the item, or is copying it successfully.
LookedAt(s) ==
  \/ scan.full /\ scan.at \in {"cell", "clear"}
  \/ scan.full /\ scan.at \in {"read_begin"} \cup ReadLabels /\ scan.sid < s
  \/ scan.at = "read_begin" /\ scan.sid = s
  \/ scan.at \in ReadLabels /\ scan.sid = s /\ ReadEndOk

\* A copy that is going to fail is of an item that is announced again.
NewsInv ==
  /\ \A s \in Sids : UpToDate(s) \/ Announced(s) \/ LookedAt(s)
  /\ scan.at \in ReadLabels /\ ~ReadEndOk => Announced(scan.sid)

TableInv == TableTypeOK /\ ScanInv /\ WriteInv /\ ReadInv /\ NewsInv

-------------------------------------------------------------------------------
(* Parity, which is all the arithmetic there is.                            *)

LEMMA Parity ==
  ASSUME NEW n \in Nat
  PROVE  /\ n + 1 \in Nat
         /\ Locked(n + 1) <=> ~Locked(n)
BY DEF Locked

LEMMA InitInv == TableInit => TableInv
<1> SUFFICES ASSUME TableInit PROVE TableInv
  OBVIOUS
<1>0. 0 \in Sids /\ 0 \in Cells /\ ~Locked(0)
  BY TableAssumption DEF Sids, Cells, Locked
<1>1. TableTypeOK
  BY <1>0, TableAssumption DEF TableInit, TableTypeOK, Items, Copies, Calls, Scans, NoCall, NoScan, Cells
<1>2. ScanInv
  BY DEF TableInit, ScanInv, NoScan, ReadLabels
<1>3. WriteInv
  BY <1>0 DEF TableInit, WriteInv, NoCall, Writing, WriteLabels, ClientAt
<1>4. ReadInv
  <2>1. scan.at = "top"
    BY DEF TableInit, NoScan
  <2>2. \A s \in Sids : /\ cached[s].gpid = cached[s].deadline
                        /\ cached[s].seqcount <= item[s].seqnum
                        /\ UpToDate(s)
    <3> SUFFICES ASSUME NEW s \in Sids
                 PROVE  /\ cached[s].gpid = cached[s].deadline
                        /\ cached[s].seqcount <= item[s].seqnum
                        /\ UpToDate(s)
      OBVIOUS
    <3>1. /\ item[s] = [seqnum |-> 0, gpid |-> 0, flags |-> FALSE, deadline |-> 0]
          /\ cached[s] = [seqcount |-> 0, gpid |-> 0, flags |-> FALSE, deadline |-> 0]
      BY DEF TableInit
    <3>2. item[s].seqnum = 0 /\ item[s].gpid = 0 /\ item[s].flags = FALSE /\ item[s].deadline = 0
      BY <3>1
    <3> QED BY <1>0, <3>1, <3>2 DEF UpToDate
  <2>3. scan.at \notin ReadLabels /\ scan.at # "read_end"
    BY <2>1 DEF ReadLabels
  <2> HIDE DEF UpToDate
  <2> QED BY <2>2, <2>3, Zenon DEF ReadInv
<1>5. NewsInv
  BY <1>0 DEF TableInit, NewsInv, UpToDate, NoScan, ReadLabels
<1> QED BY <1>1, <1>2, <1>3, <1>4, <1>5 DEF TableInv

-------------------------------------------------------------------------------
(* Types.                                                                   *)

LEMMA ClientTypes ==
  ASSUME TableTypeOK, NEW c \in Clients,
         ClientStep(c) \/ \E s \in Sids, b \in BOOLEAN : StartUpdate(c, s, b)
  PROVE  TableTypeOK'
<1> USE DEF TableTypeOK
<1>0. client[c] \in Calls /\ client[c].sid \in Sids /\ Item(c) \in Items
  BY DEF Calls, Item
<1>1. ASSUME NEW s \in Sids, NEW b \in BOOLEAN, StartUpdate(c, s, b) PROVE TableTypeOK'
  BY <1>1 DEF StartUpdate, Calls
<1>2. CASE WriteBegin(c)
  BY <1>0, <1>2 DEF WriteBegin, Calls, WriteLabels, ClientGoto, Items
<1>3. CASE WriteFields(c)
  BY <1>0, <1>3 DEF WriteFields, Calls, WriteLabels, ClientGoto, Items
<1>4. CASE WriteDeadline(c)
  BY <1>0, <1>4 DEF WriteDeadline, Calls, WriteLabels, ClientGoto, Items
<1>5. CASE WriteEnd(c)
  BY <1>0, <1>5 DEF WriteEnd, Calls, WriteLabels, ClientGoto, Items
<1>6. CASE MarkUpdatedIndex(c)
  BY <1>0, <1>6 DEF MarkUpdatedIndex, Calls, ClientGoto
<1>7. CASE MarkLoad(c)
  <2>1. /\ [client[c] EXCEPT !.at = "cas"] \in Calls
        /\ [client[c] EXCEPT !.try = client[c].try + 1] \in Calls
        /\ [client[c] EXCEPT !.at = "scrape"] \in Calls
    <3>1. client[c].try + 1 \in Nat
      BY <1>0 DEF Calls
    <3> QED BY <1>0, <3>1 DEF Calls
  <2>2. \/ client' = [client EXCEPT ![c] = [client[c] EXCEPT !.at = "cas"]]
        \/ client' = [client EXCEPT ![c] = [client[c] EXCEPT !.try = client[c].try + 1]]
        \/ client' = [client EXCEPT ![c] = [client[c] EXCEPT !.at = "scrape"]]
    <3> DEFINE cell == (client[c].sid + client[c].try) % StCap
    <3>1. CASE entries[cell] = Free
      BY <1>7, <3>1 DEF MarkLoad
    <3>2. CASE entries[cell] # Free /\ client[c].try < NumRetries
      BY <1>0, <1>7, <3>2 DEF MarkLoad, Calls
    <3>3. CASE entries[cell] # Free /\ ~(client[c].try < NumRetries)
      BY <1>7, <3>3 DEF MarkLoad
    <3> QED BY <3>1, <3>2, <3>3
  <2> QED BY <1>7, <2>1, <2>2 DEF MarkLoad
<1>8. CASE MarkCas(c)
  <2>1. (client[c].sid + client[c].try) % StCap \in Cells
    BY <1>0, TableAssumption DEF Calls, Sids, Cells
  <2>2. /\ [client[c] EXCEPT !.at = "cell", !.try = client[c].try + 1] \in Calls
        /\ [client[c] EXCEPT !.at = "scrape"] \in Calls
        /\ NoCall \in Calls
    <3>1. 0 \in Sids
      BY TableAssumption DEF Sids
    <3>2. NoCall \in Calls
      BY <3>1 DEF Calls, NoCall
    <3>3. client[c].try + 1 \in Nat
      BY <1>0 DEF Calls
    <3> QED BY <1>0, <3>2, <3>3 DEF Calls
  <2>3. entries' \in [Cells -> Sids \cup {Free}]
    BY <1>0, <1>8, <2>1 DEF MarkCas
  <2>4. \/ client' = [client EXCEPT ![c] = NoCall]
        \/ client' = [client EXCEPT ![c] = [client[c] EXCEPT !.at = "cell", !.try = client[c].try + 1]]
        \/ client' = [client EXCEPT ![c] = [client[c] EXCEPT !.at = "scrape"]]
    <3> DEFINE cell == (client[c].sid + client[c].try) % StCap
    <3>1. CASE entries[cell] = Free
      BY <1>8, <3>1 DEF MarkCas
    <3>2. CASE entries[cell] # Free /\ client[c].try < NumRetries
      BY <1>0, <1>8, <3>2 DEF MarkCas, Calls
    <3>3. CASE entries[cell] # Free /\ ~(client[c].try < NumRetries)
      BY <1>8, <3>3 DEF MarkCas
    <3> QED BY <3>1, <3>2, <3>3
  <2> QED BY <1>8, <2>2, <2>3, <2>4 DEF MarkCas
<1>9. CASE MarkScrape(c)
  BY <1>0, <1>9, TableAssumption DEF MarkScrape, Calls, NoCall, Sids
<1> QED
  BY <1>1, <1>2, <1>3, <1>4, <1>5, <1>6, <1>7, <1>8, <1>9 DEF ClientStep

LEMMA ScanTypes ==
  ASSUME TableTypeOK, ScanInv, ScanStep
  PROVE  TableTypeOK' /\ ScanInv'
<1> USE TableAssumption DEF TableTypeOK, ScanInv
<1>0. /\ scan.sid \in Nat /\ scan.full \in BOOLEAN /\ Free \notin Sids /\ 0 \in Cells /\ 0 \in Sids
      /\ NoScan \in Scans /\ NoScan.at = "top" /\ NoScan.sid = 0
  BY DEF Scans, Free, Sids, Cells, NoScan
<1>1. CASE NextUpdatedIndex
  BY <1>0, <1>1 DEF NextUpdatedIndex, ScanGoto, Scans, ReadLabels
<1>2. CASE Exchange
  BY <1>0, <1>2 DEF Exchange, Scans, ReadLabels
<1>3. ASSUME scan.at \in {"cell", "clear"}
      PROVE  /\ NextCell \in Scans /\ NextCell.at \in {"cell", "read_begin", "top"}
             /\ NextCell.at = "cell" => NextCell.sid \in Cells
             /\ NextCell.at # "cell" => NextCell.sid = 0
  <2>1. CASE scan.sid < StCap - 1
    <3>1. NextCell = [scan EXCEPT !.at = "cell", !.sid = scan.sid + 1]
      BY <2>1 DEF NextCell
    <3>2. scan.sid + 1 \in Cells /\ scan.sid + 1 \in Nat
      BY <1>0, <1>3, <2>1 DEF Cells
    <3> QED BY <3>1, <3>2 DEF Scans
  <2>2. CASE ~(scan.sid < StCap - 1) /\ scan.full
    BY <1>0, <1>3, <2>2 DEF NextCell, Scans, NoScan
  <2>3. CASE ~(scan.sid < StCap - 1) /\ ~scan.full
    BY <1>0, <1>3, <2>3 DEF NextCell
  <2> QED BY <2>1, <2>2, <2>3
<1>4. CASE ScanCell
  <2>1. CASE entries[scan.sid] = Free
    BY <1>0, <1>3, <1>4, <2>1 DEF ScanCell, ReadLabels
  <2>2. CASE entries[scan.sid] # Free
    BY <1>0, <1>4, <2>2 DEF ScanCell, ReadLabels, Scans
  <2> QED BY <2>1, <2>2
<1>5. CASE ClearCell
  <2>1. entries' \in [Cells -> Sids \cup {Free}]
    BY <1>5 DEF ClearCell
  <2>2. CASE scan.full
    BY <1>0, <1>3, <1>5, <2>1, <2>2 DEF ClearCell, ReadLabels
  <2>3. CASE ~scan.full
    <3>1. entries[scan.sid] \in Sids
      BY <1>5 DEF ClearCell
    <3>2. /\ scan' = [NoScan EXCEPT !.at = "read_begin", !.sid = entries[scan.sid]]
          /\ entries[scan.sid] \in Nat
      BY <1>5, <2>3, <3>1 DEF ClearCell, Sids
    <3>3. scan' \in Scans
      BY <3>2 DEF NoScan, Scans
    <3> QED BY <1>5, <2>1, <3>1, <3>2, <3>3 DEF ClearCell, NoScan, ReadLabels
  <2> QED BY <2>2, <2>3
<1>6. ASSUME scan.at \in {"read_begin"} \cup ReadLabels
      PROVE  /\ NextItem \in Scans /\ NextItem.at \in {"read_begin", "top"}
             /\ NextItem.at = "read_begin" => NextItem.sid \in Sids
             /\ NextItem.at = "top" => NextItem.sid = 0
  <2>1. CASE scan.full /\ scan.sid < NItems - 1
    <3>1. NextItem = [NoScan EXCEPT !.at = "read_begin", !.sid = scan.sid + 1, !.full = TRUE]
      BY <2>1 DEF NextItem
    <3>2. scan.sid + 1 \in Sids /\ scan.sid + 1 \in Nat
      BY <1>0, <2>1 DEF Sids
    <3> QED BY <3>1, <3>2 DEF NoScan, Scans
  <2>2. CASE ~(scan.full /\ scan.sid < NItems - 1)
    BY <1>0, <2>2 DEF NextItem
  <2> QED BY <2>1, <2>2
<1>7. CASE ReadBegin
  <2>1. scan.sid \in Sids /\ item[scan.sid].seqnum \in Nat
    BY <1>7 DEF ReadBegin, Items
  <2>2. CASE item[scan.sid].seqnum = cached[scan.sid].seqcount
    BY <1>0, <1>6, <1>7, <2>2 DEF ReadBegin, ReadLabels
  <2>3. CASE item[scan.sid].seqnum # cached[scan.sid].seqcount
    BY <1>0, <1>7, <2>1, <2>3 DEF ReadBegin, ReadLabels, Scans
  <2> QED BY <2>2, <2>3
<1>8. CASE ReadFields
  BY <1>0, <1>8 DEF ReadFields, Scans, Items, ReadLabels
<1>9. CASE ReadDeadline
  BY <1>0, <1>9 DEF ReadDeadline, Scans, Items, ReadLabels
<1>10. CASE ReadEnd
  <2>1. cached' \in [Sids -> Copies]
    BY <1>10 DEF ReadEnd, Scans, Copies, ReadLabels
  <2> QED BY <1>0, <1>6, <1>10, <2>1 DEF ReadEnd, ReadLabels
<1> QED
  BY <1>1, <1>2, <1>4, <1>5, <1>7, <1>8, <1>9, <1>10 DEF ScanStep

-------------------------------------------------------------------------------
(* The clients.  A step of client c changes only its own call, and of the   *)
(* items only the one that it is writing.                                   *)

LEMMA OwnCall ==
  ASSUME TableTypeOK, NEW c \in Clients,
         ClientStep(c) \/ \E s \in Sids, b \in BOOLEAN : StartUpdate(c, s, b)
  PROVE  /\ \A d \in Clients : d # c => client'[d] = client[d]
         /\ client[c].at # "idle" /\ client'[c].at # "idle" => client'[c].sid = client[c].sid
         /\ UNCHANGED <<cached, scan>>
<1> USE DEF TableTypeOK, ClientAt
<1>1. ASSUME NEW s \in Sids, NEW b \in BOOLEAN, StartUpdate(c, s, b)
      PROVE  /\ \A d \in Clients : d # c => client'[d] = client[d]
             /\ client[c].at = "idle" /\ UNCHANGED <<cached, scan>>
  BY <1>1 DEF StartUpdate
<1>2. ASSUME NEW l, ClientGoto(c, l)
      PROVE  /\ \A d \in Clients : d # c => client'[d] = client[d]
             /\ client'[c].sid = client[c].sid
  BY <1>2 DEF ClientGoto, Calls
<1>3. CASE WriteBegin(c) \/ WriteFields(c) \/ WriteDeadline(c) \/ WriteEnd(c) \/ MarkUpdatedIndex(c)
  BY <1>2, <1>3 DEF WriteBegin, WriteFields, WriteDeadline, WriteEnd, MarkUpdatedIndex
<1>4. CASE MarkLoad(c)
  BY <1>4 DEF MarkLoad, Calls
<1>5. CASE MarkCas(c)
  <2>1. client[c].at # "idle" /\ UNCHANGED <<cached, scan>>
    BY <1>5 DEF MarkCas
  <2>2. CASE client' = [client EXCEPT ![c] = NoCall]
    BY <2>1, <2>2 DEF NoCall
  <2>3. CASE client' # [client EXCEPT ![c] = NoCall]
    BY <1>5, <2>1, <2>3 DEF MarkCas, Calls
  <2> QED BY <2>2, <2>3
<1>6. CASE MarkScrape(c)
  BY <1>6 DEF MarkScrape, NoCall
<1> QED BY <1>1, <1>3, <1>4, <1>5, <1>6 DEF ClientStep

\* The steps outside the critical section.
LEMMA OutsideWrite ==
  ASSUME TableTypeOK, TableTypeOK', WriteInv, NEW c \in Clients, UNCHANGED item,
         \A d \in Clients : d # c => client'[d] = client[d],
         client[c].at \notin WriteLabels, client'[c].at \notin WriteLabels
  PROVE  WriteInv'
<1>1. \A d \in Clients, s \in Sids : Writing(d, s)' <=> Writing(d, s)
  BY DEF Writing
<1>2. \A d \in Clients : /\ ClientAt(d, "write_deadline")' => ClientAt(d, "write_deadline") /\ Item(d)' = Item(d)
                         /\ ClientAt(d, "write_end")' => ClientAt(d, "write_end") /\ Item(d)' = Item(d)
  BY DEF ClientAt, Item, WriteLabels
<1> QED BY <1>1, <1>2 DEF WriteInv

\* The steps of the critical section, by what they do to item s and its lock.
LEMMA InsideWrite ==
  ASSUME TableTypeOK, TableTypeOK', WriteInv, NEW c \in Clients, NEW s \in Sids,
         client[c].sid = s, client'[c].sid = s,
         \A d \in Clients : d # c => client'[d] = client[d],
         \A r \in Sids : r # s => item'[r] = item[r],
         client[c].at \in WriteLabels \/ ~Locked(item[s].seqnum),
         Locked(item'[s].seqnum) <=> client'[c].at \in WriteLabels,
         ~Locked(item'[s].seqnum) => item'[s].gpid = item'[s].deadline,
         client'[c].at = "write_deadline" => item'[s].gpid = item'[s].seqnum,
         client'[c].at = "write_end" => item'[s].gpid = item'[s].deadline
  PROVE  WriteInv'
<1>1. \A d \in Clients : d # c => ~Writing(d, s)
  BY DEF WriteInv, Writing
<1>2. /\ \A d \in Clients, r \in Sids : d # c => (Writing(d, r)' <=> Writing(d, r))
      /\ \A r \in Sids : Writing(c, r)' <=> r = s /\ client'[c].at \in WriteLabels
      /\ \A r \in Sids : Writing(c, r) => r = s
  BY DEF Writing
<1>3. \A r \in Sids : Locked(item'[r].seqnum) <=> \E d \in Clients : Writing(d, r)'
  <2> SUFFICES ASSUME NEW r \in Sids
               PROVE  Locked(item'[r].seqnum) <=> \E d \in Clients : Writing(d, r)'
    OBVIOUS
  <2>1. CASE r = s
    BY <1>1, <1>2, <2>1
  <2>2. CASE r # s
    BY <1>2, <2>2 DEF WriteInv
  <2> QED BY <2>1, <2>2
<1>4. \A d, e \in Clients : \A r \in Sids : Writing(d, r)' /\ Writing(e, r)' => d = e
  BY <1>1, <1>2 DEF WriteInv
<1>5. \A r \in Sids : ~Locked(item'[r].seqnum) => item'[r].gpid = item'[r].deadline
  BY DEF WriteInv
<1>6. ASSUME NEW d \in Clients
      PROVE  /\ ClientAt(d, "write_deadline")' => Item(d).gpid' = Item(d).seqnum'
             /\ ClientAt(d, "write_end")' => Item(d).gpid' = Item(d).deadline'
  <2>1. CASE d = c
    BY <2>1 DEF ClientAt, Item
  <2>2. CASE d # c
    <3>1. ClientAt(d, "write_deadline")' \/ ClientAt(d, "write_end")' => Writing(d, client[d].sid)
      BY <2>2 DEF ClientAt, Writing, WriteLabels
    <3>2. client[d].sid \in Sids
      BY DEF TableTypeOK, Calls
    <3>3. ClientAt(d, "write_deadline")' \/ ClientAt(d, "write_end")' => Item(d)' = Item(d)
      BY <1>1, <2>2, <3>1, <3>2 DEF Item
    <3> QED BY <2>2, <3>3 DEF WriteInv, ClientAt
  <2> QED BY <2>1, <2>2
<1> QED BY <1>3, <1>4, <1>5, <1>6 DEF WriteInv

\* A write is noticed by its odd seqcount or by one that has grown.
LEMMA WriteKeepsReadInv ==
  ASSUME TableTypeOK, TableTypeOK', ScanInv, ReadInv, NEW s \in Sids,
         UNCHANGED <<cached, scan>>,
         \A r \in Sids : r # s => item'[r] = item[r],
         item'[s].seqnum >= item[s].seqnum,
         Locked(item'[s].seqnum) \/ item'[s].seqnum > item[s].seqnum
  PROVE  ReadInv'
<1>0. /\ \A r \in Sids : item[r].seqnum \in Nat /\ item'[r].seqnum \in Nat /\ cached[r].seqcount \in Nat
      /\ scan.begin \in Nat
      /\ scan.at \in ReadLabels => scan.sid \in Sids
  BY DEF TableTypeOK, Items, Copies, Scans, ScanInv
<1>1. ASSUME NEW r \in Sids
      PROVE  /\ cached'[r].gpid = cached'[r].deadline
             /\ cached'[r].seqcount <= item'[r].seqnum
             /\ cached'[r].seqcount = item'[r].seqnum /\ ~Locked(item'[r].seqnum) => UpToDate(r)'
  <2>1. CASE r = s
    BY <1>0, <2>1 DEF ReadInv
  <2>2. CASE r # s
    BY <1>0, <2>2 DEF ReadInv, UpToDate
  <2> QED BY <2>1, <2>2
<1>2. ASSUME scan.at \in ReadLabels
      PROVE  /\ scan.begin <= item'[scan.sid].seqnum
             /\ ReadEndOk' => ReadEndOk /\ item'[scan.sid] = item[scan.sid]
  <2>0. scan.begin <= item[scan.sid].seqnum
    BY <1>2, Zenon DEF ReadInv
  <2>1. scan.begin <= item[scan.sid].seqnum /\ scan.sid \in Sids
    BY <1>0, <1>2, <2>0
  <2>2. ReadEndOk' => ~Locked(scan.begin) /\ scan.begin = item'[scan.sid].seqnum
    BY DEF ReadEndOk
  <2>3. CASE scan.sid = s
    <3>1. scan.begin <= item'[s].seqnum
      BY <1>0, <2>1, <2>3
    <3>2. ASSUME ReadEndOk' PROVE FALSE
      <4>1. ~Locked(item'[s].seqnum) /\ scan.begin = item'[s].seqnum
        BY <2>2, <2>3, <3>2
      <4>2. item'[s].seqnum > item[s].seqnum
        BY <4>1
      <4> QED BY <1>0, <2>1, <2>3, <4>1, <4>2
    <3> QED BY <2>3, <3>1, <3>2
  <2>4. CASE scan.sid # s
    BY <2>1, <2>2, <2>4 DEF ReadEndOk
  <2> QED BY <2>3, <2>4
<1>3. /\ scan'.at \in ReadLabels => scan'.begin <= item'[scan'.sid].seqnum
      /\ scan'.at \in ReadLabels \ {"read"} /\ ReadEndOk' =>
           scan'.gpid = item'[scan'.sid].gpid /\ scan'.flags = item'[scan'.sid].flags
      /\ scan'.at = "read_end" /\ ReadEndOk' => scan'.deadline = item'[scan'.sid].deadline
  BY <1>2 DEF ReadInv, ReadLabels
<1> QED BY <1>1, <1>3 DEF ReadInv

\* News of an item s that has changed is with the client; the news of the
\* others stays where it is or moves on.
LEMMA ClientNews ==
  ASSUME TableTypeOK, ScanInv, NewsInv, NEW s \in Sids,
         UNCHANGED <<cached, scan>>,
         \A r \in Sids : item'[r] # item[r] => r = s /\ Announced(r)',
         \A r \in Sids : Announced(r) => Announced(r)'
  PROVE  NewsInv'
<1>1. ASSUME NEW r \in Sids
      PROVE  UpToDate(r)' \/ Announced(r)' \/ LookedAt(r)'
  <2>1. CASE item'[r] # item[r]
    BY <2>1
  <2>2. CASE item'[r] = item[r]
    BY <2>2 DEF NewsInv, UpToDate, LookedAt, ReadEndOk
  <2> QED BY <2>1, <2>2
<1>2. ASSUME scan.at \in ReadLabels, ~ReadEndOk' PROVE Announced(scan.sid)'
  <2>1. scan.sid \in Sids
    BY <1>2 DEF ScanInv
  <2>2. CASE item'[scan.sid] # item[scan.sid]
    BY <2>1, <2>2
  <2>3. CASE item'[scan.sid] = item[scan.sid]
    BY <1>2, <2>1, <2>3 DEF NewsInv, ReadEndOk
  <2> QED BY <2>2, <2>3
<1> QED BY <1>1, <1>2 DEF NewsInv

\* A call that goes on, or ends by filling a cell or by counting in
\* scrape_all, keeps every announcement.
LEMMA AnnouncementsStay ==
  ASSUME TableTypeOK, NEW c \in Clients, NEW r \in Sids, Announced(r),
         \A d \in Clients : d # c => client'[d] = client[d],
         scrape_all \in Nat /\ scrape_all' \in Nat /\ scrape_all' >= scrape_all,
         \A i \in Cells : entries[i] # Free => entries'[i] = entries[i],
         \/ client'[c].at # "idle" /\ client'[c].sid = client[c].sid
         \/ client[c].at = "idle"
         \/ scrape_all' > 0
         \/ \E i \in Cells : entries'[i] = client[c].sid
  PROVE  Announced(r)'
<1>1. CASE scrape_all > 0
  BY <1>1 DEF Announced
<1>2. CASE \E i \in Cells : entries[i] = r
  <2>1. r # Free
    BY TableAssumption DEF Sids, Free
  <2> QED BY <1>2, <2>1 DEF Announced
<1>3. ASSUME NEW d \in Clients, ~ClientAt(d, "idle"), client[d].sid = r
      PROVE  Announced(r)'
  <2>1. CASE d # c
    BY <1>3, <2>1 DEF Announced, ClientAt
  <2>2. CASE d = c
    BY <1>3, <2>2 DEF Announced, ClientAt
  <2> QED BY <2>1, <2>2
<1> QED BY <1>1, <1>2, <1>3 DEF Announced

LEMMA StartKeepsInv ==
  ASSUME TableInv, NEW c \in Clients, NEW s \in Sids, NEW b \in BOOLEAN, StartUpdate(c, s, b)
  PROVE  TableInv'
<1> USE DEF TableInv
<1>1. TableTypeOK'
  BY ClientTypes
<1>2. /\ \A d \in Clients : d # c => client'[d] = client[d]
      /\ UNCHANGED <<item, entries, scrape_all, cached, scan>>
      /\ client[c].at = "idle" /\ client'[c].at = "write_begin"
  BY DEF StartUpdate, ClientAt, TableTypeOK
<1>3. ScanInv'
  BY <1>2 DEF ScanInv
<1>4. WriteInv'
  BY <1>1, <1>2, OutsideWrite DEF WriteLabels
<1>5. ReadInv'
  BY <1>2 DEF ReadInv, UpToDate, ReadEndOk
<1>6. \A r \in Sids : Announced(r) => Announced(r)'
  BY <1>1, <1>2, AnnouncementsStay DEF TableTypeOK
<1>7. NewsInv'
  BY <1>2, <1>6, ClientNews
<1> QED BY <1>1, <1>3, <1>4, <1>5, <1>7

\* A step of the critical section of the seqcount.
LEMMA WriteKeepsInv ==
  ASSUME TableInv, NEW c \in Clients,
         WriteBegin(c) \/ WriteFields(c) \/ WriteDeadline(c) \/ WriteEnd(c)
  PROVE  TableInv'
<1> USE DEF TableInv
<1> DEFINE s == client[c].sid
<1>0. /\ s \in Sids /\ item[s] \in Items /\ item[s].seqnum \in Nat
      /\ item \in [Sids -> Items] /\ client \in [Clients -> Calls] /\ client[c] \in Calls
  BY DEF TableTypeOK, Calls, Items
<1>1. TableTypeOK'
  BY ClientTypes DEF ClientStep
<1>2. /\ \A d \in Clients : d # c => client'[d] = client[d]
      /\ UNCHANGED <<entries, scrape_all, cached, scan>>
      /\ client[c].at # "idle" /\ client'[c].at # "idle" /\ client'[c].sid = s
      /\ \A r \in Sids : r # s => item'[r] = item[r]
  BY <1>0 DEF WriteBegin, WriteFields, WriteDeadline, WriteEnd, ClientAt, ClientGoto, Calls
<1>3. /\ WriteInv'
      /\ item'[s].seqnum >= item[s].seqnum
      /\ Locked(item'[s].seqnum) \/ item'[s].seqnum > item[s].seqnum
  <2> USE DEF ClientAt, ClientGoto, WriteLabels, Item
  <2>1. CASE WriteBegin(c)
    <3>1. /\ item'[s].seqnum = item[s].seqnum + 1 /\ client'[c].at = "write"
          /\ ~Locked(item[s].seqnum)
      BY <1>0, <2>1 DEF WriteBegin, Items, Calls
    <3>2. Locked(item'[s].seqnum)
      BY <1>0, <3>1, Parity
    <3> QED BY <1>0, <1>1, <1>2, <3>1, <3>2, InsideWrite
  <2>2. ASSUME client[c].at \in WriteLabels PROVE Locked(item[s].seqnum)
    BY <1>0, <2>2 DEF WriteInv, Writing
  <2>3. CASE WriteFields(c)
    <3>1. /\ item'[s].seqnum = item[s].seqnum /\ item'[s].gpid = item'[s].seqnum
          /\ client[c].at = "write" /\ client'[c].at = "write_deadline"
      BY <1>0, <2>3 DEF WriteFields, Items, Calls
    <3> QED BY <1>0, <1>1, <1>2, <2>2, <3>1, InsideWrite
  <2>4. CASE WriteDeadline(c)
    <3>1. /\ item'[s].seqnum = item[s].seqnum /\ item'[s].deadline = item[s].seqnum
          /\ item'[s].gpid = item[s].gpid
          /\ client[c].at = "write_deadline" /\ client'[c].at = "write_end"
      BY <1>0, <2>4 DEF WriteDeadline, Items, Calls
    <3>2. item[s].gpid = item[s].seqnum
      BY <3>1 DEF WriteInv
    <3> QED BY <1>0, <1>1, <1>2, <2>2, <3>1, <3>2, InsideWrite
  <2>5. CASE WriteEnd(c)
    <3>1. /\ item'[s].seqnum = item[s].seqnum + 1 /\ item'[s].gpid = item[s].gpid
          /\ item'[s].deadline = item[s].deadline
          /\ client[c].at = "write_end" /\ client'[c].at = "mark"
      BY <1>0, <2>5 DEF WriteEnd, Items, Calls
    <3>2. item[s].gpid = item[s].deadline
      BY <3>1 DEF WriteInv
    <3>3. ~Locked(item'[s].seqnum)
      BY <1>0, <2>2, <3>1, Parity
    <3> QED BY <1>0, <1>1, <1>2, <3>1, <3>2, <3>3, InsideWrite
  <2> QED BY <2>1, <2>3, <2>4, <2>5
<1>4. ScanInv'
  BY <1>2 DEF ScanInv
<1>5. ReadInv'
  BY <1>0, <1>1, <1>2, <1>3, WriteKeepsReadInv
<1>6. \A r \in Sids : Announced(r) => Announced(r)'
  BY <1>2, AnnouncementsStay DEF TableTypeOK
<1>7. Announced(s)'
  BY <1>2 DEF Announced, ClientAt
<1>8. NewsInv'
  BY <1>0, <1>2, <1>6, <1>7, ClientNews
<1> QED BY <1>1, <1>3, <1>4, <1>5, <1>8

\* MarkUpdatedIndex, which passes the news on to a cell or to scrape_all.
LEMMA MarkKeepsInv ==
  ASSUME TableInv, NEW c \in Clients,
         MarkUpdatedIndex(c) \/ MarkLoad(c) \/ MarkCas(c) \/ MarkScrape(c)
  PROVE  TableInv'
<1> USE DEF TableInv
<1>0. /\ client[c].sid \in Sids /\ client \in [Clients -> Calls] /\ client[c] \in Calls
      /\ entries \in [Cells -> Sids \cup {Free}] /\ scrape_all \in Nat
  BY DEF TableTypeOK, Calls
<1>1. TableTypeOK'
  BY ClientTypes DEF ClientStep
<1>2. \A d \in Clients : d # c => client'[d] = client[d]
  BY OwnCall DEF ClientStep
<1>3. /\ UNCHANGED <<item, cached, scan>> /\ scrape_all' \in Nat /\ scrape_all' >= scrape_all
      /\ client[c].at \notin WriteLabels /\ client[c].at # "idle"
  BY <1>0, <1>1 DEF MarkUpdatedIndex, MarkLoad, MarkCas, MarkScrape, ClientAt, WriteLabels, TableTypeOK
<1>4. /\ client'[c].at \notin WriteLabels
      /\ \A i \in Cells : entries[i] # Free => entries'[i] = entries[i]
      /\ \/ client'[c].at # "idle" /\ client'[c].sid = client[c].sid
         \/ scrape_all' > 0
         \/ \E i \in Cells : entries'[i] = client[c].sid
  <2> USE DEF ClientAt, WriteLabels
  <2>1. CASE MarkUpdatedIndex(c)
    BY <1>0, <2>1 DEF MarkUpdatedIndex, ClientGoto, Calls
  <2>2. CASE MarkLoad(c)
    BY <1>0, <2>2 DEF MarkLoad, Calls
  <2>3. CASE MarkCas(c)
    <3> DEFINE cell == (client[c].sid + client[c].try) % StCap
    <3>1. cell \in Cells
      BY <1>0, TableAssumption DEF Calls, Sids, Cells
    <3>2. CASE entries[cell] = Free
      BY <1>0, <2>3, <3>1, <3>2 DEF MarkCas, NoCall
    <3>3. CASE entries[cell] # Free
      <4>1. entries' = entries
        BY <2>3, <3>3 DEF MarkCas
      <4>2. CASE client[c].try < NumRetries
        <5>1. client'[c] = [client[c] EXCEPT !.at = "cell", !.try = client[c].try + 1]
          BY <1>0, <2>3, <3>3, <4>2 DEF MarkCas
        <5> QED BY <1>0, <4>1, <5>1 DEF Calls
      <4>3. CASE ~(client[c].try < NumRetries)
        <5>1. client'[c] = [client[c] EXCEPT !.at = "scrape"]
          BY <1>0, <2>3, <3>3, <4>3 DEF MarkCas
        <5> QED BY <1>0, <4>1, <5>1 DEF Calls
      <4> QED BY <4>2, <4>3
    <3> QED BY <3>2, <3>3
  <2>4. CASE MarkScrape(c)
    BY <1>0, <2>4 DEF MarkScrape, NoCall
  <2> QED BY <2>1, <2>2, <2>3, <2>4
<1>5. ScanInv'
  BY <1>3, <1>4 DEF ScanInv
<1>6. WriteInv'
  BY <1>1, <1>2, <1>3, <1>4, OutsideWrite
<1>7. ReadInv'
  BY <1>3 DEF ReadInv, UpToDate, ReadEndOk
<1>8. \A r \in Sids : Announced(r) => Announced(r)'
  BY <1>0, <1>2, <1>3, <1>4, AnnouncementsStay
<1>9. NewsInv'
  BY <1>0, <1>3, <1>8, ClientNews
<1> QED BY <1>1, <1>5, <1>6, <1>7, <1>9

-------------------------------------------------------------------------------
(* The agent.                                                               *)

\* The clients and the items are left alone.
LEMMA ScanKeepsWriteInv ==
  ASSUME WriteInv, ScanStep
  PROVE  WriteInv' /\ UNCHANGED <<item, client>>
<1>1. UNCHANGED <<item, client>>
  BY DEF ScanStep, NextUpdatedIndex, Exchange, ScanCell, ClearCell, ReadBegin,
         ReadFields, ReadDeadline, ReadEnd
<1> QED BY <1>1 DEF WriteInv, Writing, ClientAt, Item

LEMMA ScanKeepsReadInv ==
  ASSUME TableInv, ScanStep
  PROVE  ReadInv'
<1> USE DEF TableInv
<1>0. /\ scan \in Scans /\ UNCHANGED item
      /\ \A r \in Sids : /\ item[r].seqnum \in Nat /\ cached[r].seqcount \in Nat
                          /\ item[r] \in Items /\ cached[r] \in Copies
  BY ScanKeepsWriteInv DEF TableTypeOK, Items, Copies
<1>1. ASSUME UNCHANGED cached, scan'.at \notin ReadLabels PROVE ReadInv'
  BY <1>0, <1>1 DEF ReadInv, UpToDate, ReadLabels
<1>2. ASSUME scan.at \in {"cell", "clear"} PROVE NextCell.at \notin ReadLabels
  BY <1>2 DEF NextCell, NoScan, ReadLabels, Scans, TableTypeOK
<1>3. NextItem.at \notin ReadLabels
  BY DEF NextItem, NoScan, ReadLabels
<1>4. CASE NextUpdatedIndex \/ Exchange
  BY <1>0, <1>1, <1>4 DEF NextUpdatedIndex, Exchange, ScanGoto, ReadLabels, Scans
<1>5. CASE ScanCell
  BY <1>0, <1>1, <1>2, <1>5 DEF ScanCell, ReadLabels, Scans
<1>6. CASE ClearCell
  BY <1>0, <1>1, <1>2, <1>6 DEF ClearCell, ReadLabels, NoScan
<1>7. CASE ReadBegin
  <2>1. UNCHANGED cached /\ scan.sid \in Sids
    BY <1>7 DEF ReadBegin, ScanInv
  <2>2. CASE item[scan.sid].seqnum = cached[scan.sid].seqcount
    BY <1>1, <1>3, <1>7, <2>1, <2>2 DEF ReadBegin
  <2>3. CASE item[scan.sid].seqnum # cached[scan.sid].seqcount
    <3>1. scan'.at = "read" /\ scan'.sid = scan.sid /\ scan'.begin = item[scan.sid].seqnum
      BY <1>0, <1>7, <2>3 DEF ReadBegin, Scans
    <3>2. scan'.begin <= item'[scan'.sid].seqnum
      BY <1>0, <2>1, <3>1
    <3> QED BY <1>0, <2>1, <3>1, <3>2 DEF ReadInv, UpToDate, ReadLabels
  <2> QED BY <2>2, <2>3
<1>8. CASE ReadFields
  <2>1. /\ UNCHANGED cached /\ scan.sid \in Sids /\ scan.at = "read"
        /\ scan'.at = "read_deadline" /\ scan'.sid = scan.sid /\ scan'.begin = scan.begin
        /\ scan'.gpid = item[scan.sid].gpid /\ scan'.flags = item[scan.sid].flags
    BY <1>0, <1>8 DEF ReadFields, Scans, ScanInv, ReadLabels
  <2> QED BY <1>0, <2>1 DEF ReadInv, UpToDate, ReadLabels
<1>9. CASE ReadDeadline
  <2>1. /\ UNCHANGED cached /\ scan.sid \in Sids /\ scan.at = "read_deadline"
        /\ scan'.at = "read_end" /\ scan'.sid = scan.sid /\ scan'.begin = scan.begin
        /\ scan'.gpid = scan.gpid /\ scan'.flags = scan.flags
        /\ scan'.deadline = item[scan.sid].deadline
    BY <1>0, <1>9 DEF ReadDeadline, Scans, ScanInv, ReadLabels
  <2>2. ReadEndOk' <=> ReadEndOk
    BY <1>0, <2>1 DEF ReadEndOk
  <2> QED BY <1>0, <2>1, <2>2 DEF ReadInv, UpToDate, ReadLabels
<1>10. CASE ReadEnd
  <2>1. /\ scan.sid \in Sids /\ scan.at = "read_end" /\ scan'.at \notin ReadLabels
        /\ \A r \in Sids : r # scan.sid => cached'[r] = cached[r]
        /\ scan.begin \in Nat /\ scan.begin <= item[scan.sid].seqnum
    BY <1>0, <1>3, <1>10 DEF ReadEnd, ScanInv, ReadLabels, TableTypeOK, Scans, ReadInv
  <2>2. ASSUME NEW s \in Sids, s = scan.sid
        PROVE  /\ cached'[s].gpid = cached'[s].deadline
               /\ cached'[s].seqcount <= item[s].seqnum
               /\ cached'[s].seqcount = item[s].seqnum /\ ~Locked(item[s].seqnum) => UpToDate(s)'
    <3>1. CASE ReadEndOk
      <4>1. /\ scan.gpid = item[s].gpid /\ scan.flags = item[s].flags
            /\ scan.deadline = item[s].deadline /\ scan.begin = item[s].seqnum
            /\ ~Locked(item[s].seqnum)
        BY <2>1, <2>2, <3>1 DEF ReadInv, ReadEndOk, ReadLabels
      <4>2. cached'[s] = [seqcount |-> scan.begin, gpid |-> scan.gpid,
                          flags |-> scan.flags, deadline |-> scan.deadline]
        BY <1>10, <2>1, <2>2, <3>1 DEF ReadEnd, TableTypeOK
      <4>3. item[s].gpid = item[s].deadline
        BY <2>1, <4>1 DEF WriteInv
      <4> QED BY <1>0, <2>1, <4>1, <4>2, <4>3 DEF UpToDate
    <3>2. CASE ~ReadEndOk /\ cached[s].flags
      <4>1. cached'[s] = cached[s]
        BY <1>10, <2>1, <2>2, <3>2 DEF ReadEnd, TableTypeOK
      <4> QED BY <1>0, <2>1, <4>1 DEF ReadInv, UpToDate
    <3>3. CASE ~ReadEndOk /\ ~cached[s].flags
      <4>1. cached'[s] = [cached[s] EXCEPT !.seqcount = scan.begin, !.flags = TRUE]
        BY <1>10, <2>1, <2>2, <3>3 DEF ReadEnd, TableTypeOK
      <4>2. /\ cached'[s].seqcount = scan.begin
            /\ cached'[s].gpid = cached[s].gpid /\ cached'[s].deadline = cached[s].deadline
        BY <1>0, <2>1, <4>1 DEF Copies
      <4>3. ~(scan.begin = item[s].seqnum /\ ~Locked(item[s].seqnum))
        BY <2>2, <3>3 DEF ReadEndOk
      <4> QED BY <2>1, <2>2, <4>2, <4>3 DEF ReadInv
    <3> QED BY <3>1, <3>2, <3>3
  <2>3. \A r \in Sids : r # scan.sid => (UpToDate(r)' <=> UpToDate(r))
    BY <1>0, <2>1 DEF UpToDate
  <2>4. \A r \in Sids :
          /\ cached'[r].gpid = cached'[r].deadline
          /\ cached'[r].seqcount <= item'[r].seqnum
          /\ cached'[r].seqcount = item'[r].seqnum /\ ~Locked(item'[r].seqnum) => UpToDate(r)'
    BY <1>0, <2>1, <2>2, <2>3 DEF ReadInv
  <2> QED BY <2>1, <2>4 DEF ReadInv, ReadLabels
<1> QED
  BY <1>4, <1>5, <1>6, <1>7, <1>8, <1>9, <1>10 DEF ScanStep

\* The news of an item: taken out of its cell, or of scrape_all, it is with the
\* agent, which looks at the item, or at all of them, before it starts anew.
LEMMA ScanKeepsNewsInv ==
  ASSUME TableInv, ScanStep, ReadInv'
  PROVE  NewsInv'
<1> USE DEF TableInv
<1>0. /\ scan \in Scans /\ scan.sid \in Nat /\ scan.full \in BOOLEAN
      /\ UNCHANGED <<item, client>>
      /\ entries \in [Cells -> Sids \cup {Free}] /\ cached \in [Sids -> Copies]
      /\ \A r \in Sids : r \in Nat /\ r < NItems
  BY ScanKeepsWriteInv, TableAssumption DEF TableTypeOK, Scans, Sids
<1>1. ASSUME NEW r \in Sids, cached'[r] = cached[r] PROVE UpToDate(r)' <=> UpToDate(r)
  BY <1>0, <1>1 DEF UpToDate
<1>2. ASSUME NEW r \in Sids, UNCHANGED <<entries, scrape_all>> PROVE Announced(r)' <=> Announced(r)
  BY <1>0, <1>2 DEF Announced, ClientAt
<1>3. ASSUME NEW r \in Sids, Locked(item[r].seqnum) PROVE Announced(r)
  BY <1>3 DEF WriteInv, Writing, Announced, ClientAt, WriteLabels
<1>4. ASSUME NEW r \in Sids PROVE UpToDate(r) \/ Announced(r) \/ LookedAt(r)
  BY DEF NewsInv
<1>5. ASSUME scan.at \in {"cell", "clear"}, scan' = NextCell
      PROVE  scan'.at \notin ReadLabels /\ (scan.full => \A r \in Sids : LookedAt(r)')
  <2>1. CASE scan.sid < StCap - 1
    BY <1>0, <1>5, <2>1 DEF NextCell, Scans, ReadLabels, LookedAt
  <2>2. CASE ~(scan.sid < StCap - 1) /\ scan.full
    <3>1. scan'.at = "read_begin" /\ scan'.sid = 0 /\ scan'.full = TRUE
      BY <1>5, <2>2 DEF NextCell, NoScan
    <3> QED BY <1>0, <3>1 DEF ReadLabels, LookedAt
  <2>3. CASE ~(scan.sid < StCap - 1) /\ ~scan.full
    BY <1>5, <2>3 DEF NextCell, NoScan, ReadLabels
  <2> QED BY <2>1, <2>2, <2>3
<1>6. ASSUME scan' = NextItem
      PROVE  scan'.at \notin ReadLabels
             /\ \A r \in Sids : scan.full /\ scan.sid < r => LookedAt(r)'
  <2>1. CASE scan.full /\ scan.sid < NItems - 1
    <3>1. scan'.at = "read_begin" /\ scan'.sid = scan.sid + 1 /\ scan'.full = TRUE
      BY <1>6, <2>1 DEF NextItem, NoScan
    <3> QED BY <1>0, <3>1 DEF ReadLabels, LookedAt
  <2>2. CASE ~(scan.full /\ scan.sid < NItems - 1)
    BY <1>0, <1>6, <2>2, TableAssumption DEF NextItem, NoScan, ReadLabels
  <2> QED BY <2>1, <2>2
<1>7. CASE NextUpdatedIndex
  <2>1. /\ UNCHANGED <<entries, scrape_all, cached>> /\ scan.at = "top"
        /\ scan'.at \notin ReadLabels
    BY <1>0, <1>7 DEF NextUpdatedIndex, ScanGoto, Scans, ReadLabels
  <2>2. \A r \in Sids : ~LookedAt(r)
    BY <2>1 DEF LookedAt, ReadLabels
  <2> QED BY <1>1, <1>2, <1>4, <2>1, <2>2 DEF NewsInv
<1>8. CASE Exchange
  <2>1. scan'.at = "cell" /\ scan'.full = TRUE
    BY <1>0, <1>8 DEF Exchange, Scans
  <2> QED BY <2>1 DEF NewsInv, LookedAt, ReadLabels
<1>9. CASE ScanCell
  <2>1. /\ UNCHANGED <<entries, scrape_all, cached>> /\ scan.at = "cell"
        /\ \A r \in Sids : LookedAt(r) => scan.full
    BY <1>9 DEF ScanCell, LookedAt, ReadLabels
  <2>2. scan'.at \notin ReadLabels /\ (scan.full => \A r \in Sids : LookedAt(r)')
    <3>1. CASE entries[scan.sid] = Free
      BY <1>5, <1>9, <3>1 DEF ScanCell
    <3>2. CASE entries[scan.sid] # Free
      BY <1>0, <1>9, <3>2 DEF ScanCell, Scans, ReadLabels, LookedAt
    <3> QED BY <3>1, <3>2
  <2> QED BY <1>1, <1>2, <1>4, <2>1, <2>2 DEF NewsInv
<1>10. CASE ClearCell
  <2>1. /\ UNCHANGED <<scrape_all, cached>> /\ scan.at = "clear" /\ scan.sid \in Cells
        /\ \A r \in Sids : LookedAt(r) => scan.full
    BY <1>10 DEF ClearCell, LookedAt, ReadLabels, ScanInv
  <2>2. CASE scan.full
    BY <1>5, <1>10, <2>2 DEF ClearCell, NewsInv
  <2>3. CASE ~scan.full
    <3>1. scan'.at = "read_begin" /\ scan'.sid = entries[scan.sid]
      BY <1>10, <2>3 DEF ClearCell, NoScan
    <3>2. \A i \in Cells : i # scan.sid => entries'[i] = entries[i]
      BY <1>0, <1>10 DEF ClearCell
    <3>3. \A r \in Sids : Announced(r) => Announced(r)' \/ LookedAt(r)'
      BY <1>0, <2>1, <3>1, <3>2 DEF Announced, LookedAt, ClientAt
    <3> QED BY <1>1, <1>4, <2>1, <2>3, <3>1, <3>3 DEF NewsInv, ReadLabels
  <2> QED BY <2>2, <2>3
<1>11. CASE ReadBegin
  <2>1. /\ UNCHANGED <<entries, scrape_all, cached>> /\ scan.at = "read_begin" /\ scan.sid \in Sids
        /\ \A r \in Sids : LookedAt(r) => r = scan.sid \/ (scan.full /\ scan.sid < r)
    BY <1>11 DEF ReadBegin, LookedAt, ReadLabels, ScanInv
  <2>2. CASE item[scan.sid].seqnum = cached[scan.sid].seqcount
    <3>1. scan' = NextItem
      BY <1>11, <2>2 DEF ReadBegin
    <3>2. UpToDate(scan.sid) \/ Announced(scan.sid)
      BY <1>3, <2>1, <2>2 DEF ReadInv
    <3> QED BY <1>1, <1>2, <1>4, <1>6, <2>1, <3>1, <3>2 DEF NewsInv
  <2>3. CASE item[scan.sid].seqnum # cached[scan.sid].seqcount
    <3>1. /\ scan'.at = "read" /\ scan'.sid = scan.sid /\ scan'.begin = item[scan.sid].seqnum
          /\ scan'.full = scan.full
      BY <1>0, <1>11, <2>3 DEF ReadBegin, Scans
    <3>2. ReadEndOk' <=> ~Locked(item[scan.sid].seqnum)
      BY <1>0, <3>1 DEF ReadEndOk
    <3>3. ASSUME ~ReadEndOk' PROVE \A r \in Sids : r = scan.sid => Announced(r)'
      BY <1>2, <1>3, <2>1, <3>2, <3>3
    <3>4. ASSUME NEW r \in Sids PROVE UpToDate(r)' \/ Announced(r)' \/ LookedAt(r)'
      <4>1. CASE r = scan.sid
        BY <3>1, <3>3, <4>1 DEF LookedAt, ReadLabels
      <4>2. CASE r # scan.sid
        <5>1. scan.full /\ scan.sid < r => LookedAt(r)'
          BY <3>1 DEF LookedAt, ReadLabels
        <5> QED BY <1>1, <1>2, <1>4, <2>1, <4>2, <5>1
      <4> QED BY <4>1, <4>2
    <3> QED BY <2>1, <3>1, <3>3, <3>4 DEF NewsInv
  <2> QED BY <2>2, <2>3
<1>12. CASE ReadFields \/ ReadDeadline
  <2>1. /\ UNCHANGED <<entries, scrape_all, cached>>
        /\ scan.at \in ReadLabels /\ scan'.at \in ReadLabels /\ scan.sid \in Sids
        /\ scan'.sid = scan.sid /\ scan'.begin = scan.begin /\ scan'.full = scan.full
    BY <1>0, <1>12 DEF ReadFields, ReadDeadline, Scans, ScanInv, ReadLabels
  <2>2. ReadEndOk' <=> ReadEndOk
    BY <1>0, <2>1 DEF ReadEndOk
  <2>3. ASSUME NEW r \in Sids, LookedAt(r) PROVE LookedAt(r)'
    BY <2>1, <2>2, <2>3 DEF LookedAt, ReadLabels
  <2>4. ASSUME ~ReadEndOk' PROVE \A r \in Sids : r = scan.sid => Announced(r)'
    BY <1>2, <2>1, <2>2, <2>4 DEF NewsInv
  <2> QED BY <1>1, <1>2, <1>4, <2>1, <2>3, <2>4 DEF NewsInv
<1>13. CASE ReadEnd
  <2>1. /\ UNCHANGED <<entries, scrape_all>> /\ scan.at = "read_end" /\ scan.sid \in Sids
        /\ scan' = NextItem
        /\ \A r \in Sids : LookedAt(r) => r = scan.sid \/ (scan.full /\ scan.sid < r)
        /\ \A r \in Sids : r # scan.sid => cached'[r] = cached[r]
    BY <1>0, <1>13 DEF ReadEnd, LookedAt, ReadLabels, ScanInv
  <2>2. ASSUME NEW r \in Sids, r = scan.sid PROVE UpToDate(r)' \/ Announced(r)'
    <3>1. CASE ReadEndOk
      <4>1. /\ cached'[r].seqcount = scan.begin /\ scan.begin = item[r].seqnum
            /\ ~Locked(item[r].seqnum)
        BY <1>0, <1>13, <2>2, <3>1 DEF ReadEnd, ReadEndOk
      <4> QED BY <1>0, <4>1 DEF ReadInv
    <3>2. CASE ~ReadEndOk
      BY <1>2, <2>1, <2>2, <3>2 DEF NewsInv, ReadLabels
    <3> QED BY <3>1, <3>2
  <2> QED BY <1>1, <1>2, <1>4, <1>6, <2>1, <2>2 DEF NewsInv
<1> QED
  BY <1>7, <1>8, <1>9, <1>10, <1>11, <1>12, <1>13 DEF ScanStep

LEMMA StepKeepsInv == TableInv /\ [TableNext]_tableVars => TableInv'
<1> SUFFICES ASSUME TableInv, [TableNext]_tableVars PROVE TableInv'
  OBVIOUS
<1>1. CASE UNCHANGED tableVars
  BY <1>1 DEF tableVars, TableInv, TableTypeOK, ScanInv, WriteInv, ReadInv, NewsInv, Writing,
              ClientAt, Item, UpToDate, ReadEndOk, Announced, LookedAt
<1>2. ASSUME NEW c \in Clients, ClientStep(c) PROVE TableInv'
  BY <1>2, WriteKeepsInv, MarkKeepsInv DEF ClientStep
<1>3. CASE ScanStep
  BY <1>3, ScanTypes, ScanKeepsWriteInv, ScanKeepsReadInv, ScanKeepsNewsInv DEF TableInv
<1> QED BY <1>1, <1>2, <1>3, StartKeepsInv DEF TableNext

LEMMA InvHolds == TableSpec => []TableInv
  BY InitInv, StepKeepsInv, PTL DEF TableSpec

-------------------------------------------------------------------------------
\* "We'll only save them into the SchedParams on success" (SeqCopyParams): in
\* every behaviour the fields of a copy are of one update, however the writes
\* of a client fall between the reads of the agent.
THEOREM CopiesAreWhole == TableSpec => []NoTornCopy
<1>1. TableInv => NoTornCopy
  BY DEF TableInv, ReadInv, NoTornCopy
<1> QED BY <1>1, InvHolds, PTL

\* "Thus, we will not miss this sched item" (RefreshSchedParam): whenever the
\* stream is empty and no client is in an update, every copy is its item, for
\* any number of items, cells, retries, overflows and failed copies.
THEOREM UpdatesArrive == TableSpec => []NoUpdateLost
<1>1. TableInv => NoUpdateLost
  <2> SUFFICES ASSUME TableInv, scan.at = "top", scrape_all = 0,
                      \A i \in 0 .. StCap - 1 : entries[i] = Free,
                      \A c \in Clients : ClientAt(c, "idle"),
                      NEW s \in Sids
               PROVE  UpToDate(s)
    BY DEF NoUpdateLost, UpToDate
  <2>1. s # Free
    BY TableAssumption DEF Sids, Free
  <2>2. ~Announced(s)
    BY <2>1 DEF Announced, Cells
  <2>3. ~LookedAt(s)
    BY DEF LookedAt, ReadLabels
  <2> QED BY <2>2, <2>3 DEF TableInv, NewsInv
<1> QED BY <1>1, InvHolds, PTL
-------------------------------------------------------------------------------
(***************************************************************************)
(* ChannelRing.  The invariant lays the queue out in the ring: there are   *)
(* offsets from the tail at which its messages start, each right behind    *)
(* the one before it or behind a MSG_NOP that is shorter than it, and the  *)
(* last one ends at the head.  Seen from the tail neither the array nor    *)
(* the indices wrap around; the lemmas on % carry that over.               *)
(***************************************************************************)

\* A product with a positive integer.
LEMMA MulGE ==
  ASSUME NEW n \in Nat \ {0}, NEW z \in Int, z >= 1
  PROVE  n * z >= n
OBVIOUS

\* What \div and % are.
LEMMA DivDef ==
  ASSUME NEW n \in Nat \ {0}, NEW x \in Int
  PROVE  x = n * (x \div n) + (x % n) /\ x % n \in 0 .. n - 1 /\ x \div n \in Int
OBVIOUS

\* Quotient and remainder are unique.
LEMMA DivUnique ==
  ASSUME NEW n \in Nat \ {0}, NEW x \in Int, NEW q \in Int, NEW r \in 0 .. n - 1, x = n * q + r
  PROVE  x \div n = q /\ x % n = r
<1> DEFINE d == x \div n  m == x % n
<1>1. d \in Int /\ m \in 0 .. n - 1 /\ x = n * d + m
  BY DivDef
<1> HIDE DEF d, m
<1>2. n * q + r = n * d + m
  BY <1>1
<1>3. n * (q - d) = m - r
  BY <1>1, <1>2
<1>4. ~(q - d >= 1)
  BY <1>1, <1>3, MulGE
<1>5. ~(d - q >= 1)
  <2>1. n * (d - q) = r - m
    BY <1>1, <1>3
  <2> QED BY <1>1, <2>1, MulGE
<1>6. d = q
  BY <1>1, <1>4, <1>5
<1>7. m = r
  BY <1>1, <1>2, <1>6
<1> QED BY <1>6, <1>7 DEF d, m

\* Reducing modulo a multiple of n first makes no difference modulo n.
LEMMA ModMod ==
  ASSUME NEW n \in Nat \ {0}, NEW w \in Nat \ {0}, w % n = 0, NEW x \in Int
  PROVE  (x % w) % n = x % n
<1> DEFINE j == w \div n  d == x \div w  m == x % w  e == m \div n  r == m % n
<1>1. j \in Int /\ d \in Int /\ e \in Int /\ m \in Int /\ r \in 0 .. n - 1
  BY DivDef
<1>2. w = n * j /\ x = w * d + m /\ m = n * e + r
  BY DivDef
<1> HIDE DEF j, d, m, e, r
<1>3. x = n * (j * d + e) + r
  BY <1>1, <1>2
<1>4. x % n = r
  BY <1>1, <1>3, DivUnique
<1> QED BY <1>4 DEF m, r

\* A summand may be reduced first.
LEMMA ModAdd ==
  ASSUME NEW n \in Nat \ {0}, NEW x \in Int, NEW y \in Int
  PROVE  ((x % n) + y) % n = (x + y) % n
<1> DEFINE d == x \div n  m == x % n  e == (m + y) \div n  r == (m + y) % n
<1>1. d \in Int /\ e \in Int /\ m \in Int /\ r \in 0 .. n - 1
  BY DivDef
<1>2. x = n * d + m /\ m + y = n * e + r
  BY <1>1, DivDef
<1> HIDE DEF d, m, e, r
<1>3. x + y = n * (d + e) + r
  <2>1. n * (d + e) = n * d + n * e /\ n * d \in Int /\ n * e \in Int
    BY <1>1
  <2> QED BY <1>1, <1>2, <2>1
<1>4. (x + y) % n = r
  <2>1. PICK z \in Int, q \in Int : z = x + y /\ q = d + e
    BY <1>1
  <2>2. z % n = r
    BY <1>1, <1>3, <2>1, DivUnique
  <2> QED BY <2>1, <2>2
<1> QED BY <1>4 DEF m, r

\* A remainder is its own remainder.
LEMMA ModSmall ==
  ASSUME NEW n \in Nat \ {0}, NEW x \in 0 .. n - 1
  PROVE  x % n = x
<1>1. x = n * 0 + x
  OBVIOUS
<1> QED BY <1>1, DivUnique

\* Fewer than n apart, different modulo n.
LEMMA ModApart ==
  ASSUME NEW n \in Nat \ {0}, NEW x \in Int, NEW a \in 0 .. n - 1, NEW b \in 0 .. n - 1,
         (x + a) % n = (x + b) % n
  PROVE  a = b
<1> DEFINE d == (x + a) \div n  e == (x + b) \div n  r == (x + a) % n
<1>1. d \in Int /\ e \in Int /\ r \in Int
  BY DivDef
<1>2. x + a = n * d + r /\ x + b = n * e + r
  <2>1. PICK u \in Int, v \in Int : u = x + a /\ v = x + b
    OBVIOUS
  <2>2. u = n * (u \div n) + (u % n)
    BY ONLY DivDef, n \in Nat \ {0}, u \in Int
  <2>3. v = n * (v \div n) + (v % n)
    BY ONLY DivDef, n \in Nat \ {0}, v \in Int
  <2>4. (x + a) % n = (x + b) % n
    OBVIOUS
  <2> QED BY ONLY <2>1, <2>2, <2>3, <2>4, Zenon
<1> HIDE DEF d, e, r
<1>3. a = n * (d - e) + b
  <2>1. n * (d - e) = n * d - n * e /\ n * d \in Int /\ n * e \in Int
    BY <1>1
  <2>2. PICK v \in Int, w \in Int, z \in Int : v = n * d /\ w = n * e /\ z = n * (d - e)
    BY <1>1, <2>1
  <2>3. z = v - w /\ x + a = v + r /\ x + b = w + r
    BY ONLY <1>2, <2>1, <2>2
  <2>4. a = z + b
    BY <1>1, <2>3
  <2> QED BY ONLY <2>2, <2>4
<1>4. a % n = b
  BY <1>1, <1>3, DivUnique
<1> QED BY <1>4, ModSmall

\* The index of the slot that is o slots behind the tail.
Slot(o) == (tail + o) % NElems

\* How many slots are in use.
Used == (head - tail) % IndexWrap

RingMsgs == [type : {"task"}, length : Lengths, seqnum : {0, 1}]
Nop(pad) == [type |-> "nop", length |-> pad * SlotSize, seqnum |-> 0]

\* A message of n slots starts o slots behind the tail, right behind the s
\* slots before it or behind padding.
Behind(s, o, n) ==
  \/ o = s
  \/ s < o /\ o - s < n /\ msgs[Slot(s)] = Nop(o - s)

\* The messages of the queue are in the ring, off[i] slots behind the tail.
EndOf(off, i) == IF i = 0 THEN 0 ELSE off[i] + SlotsOf(queue[i].length)

Layout(off) ==
  /\ off \in [1 .. Len(queue) -> Nat]
  /\ \A i \in 1 .. Len(queue) :
       /\ msgs[Slot(off[i])] = queue[i]
       /\ Behind(EndOf(off, i - 1), off[i], SlotsOf(queue[i].length))
       /\ EndOf(off, i) <= Used
  /\ \A i, j \in 1 .. Len(queue) : i < j => EndOf(off, i) <= off[j]
  /\ EndOf(off, Len(queue)) = Used

RingTypeOK ==
  /\ head \in 0 .. IndexWrap - 1 /\ tail \in 0 .. IndexWrap - 1
  /\ overflow \in BOOLEAN /\ ringAborted \in BOOLEAN
  /\ DOMAIN msgs = 0 .. NElems - 1 /\ msgs = [i \in DOMAIN msgs |-> msgs[i]]
  /\ peek \in {"idle", "overflow", "message"}
  /\ parity \in {0, 1}
  /\ queue \in Seq(RingMsgs)

\* Once a message has been dropped, there is more in the ring than what the
\* agent has in hand.
DropInv ==
  overflow => Used > 0 /\ (peek = "message" => Used > Consumed(Peeked.length))

RingInv ==
  /\ RingTypeOK /\ Used <= NElems /\ (peek # "idle" => Used > 0)
  /\ (\E off : Layout(off)) /\ DropInv

\* What the constants are.
LEMMA RingConsts ==
  /\ NElems \in Nat \ {0} /\ SlotSize \in Nat \ {0} /\ IndexWrap \in Nat \ {0}
  /\ IndexWrap > NElems /\ IndexWrap % NElems = 0
BY RingAssumption

\* Consume skips exactly what the kernel has filled, in spite of the widths.
LEMMA SlotsFacts ==
  ASSUME NEW len \in Lengths
  PROVE  /\ SlotsOf(len) \in Nat \ {0} /\ 3 * SlotsOf(len) <= NElems
         /\ Consumed(len) = SlotsOf(len)
         /\ \A pad \in Nat : pad < SlotsOf(len) => Consumed(pad * SlotSize) = pad
<1> DEFINE x == len + SlotSize - 1  q == x \div SlotSize  r == x % SlotSize
<1>1. len \in Nat /\ len >= 1 /\ len + SlotSize < IndexWrap /\ x \in Nat
      /\ SlotSize \in Nat \ {0} /\ IndexWrap \in Nat \ {0}
  BY RingAssumption
<1>2. x = SlotSize * q + r /\ r \in 0 .. SlotSize - 1 /\ q \in Int
  <2>1. PICK y \in Int : y = x
    BY <1>1
  <2>2. y = SlotSize * (y \div SlotSize) + (y % SlotSize) /\ y % SlotSize \in 0 .. SlotSize - 1
        /\ y \div SlotSize \in Int
    BY <1>1, DivDef
  <2> QED BY <2>1, <2>2
<1>3. SlotsOf(len) = q
  <2>1. PICK z \in Int : z = q * SlotSize
    BY <1>1, <1>2
  <2>2. z = SlotSize * q + 0 /\ 0 \in 0 .. SlotSize - 1
    BY <1>1, <1>2, <2>1
  <2>3. z \div SlotSize = q
    BY <1>1, <1>2, <2>2, DivUnique
  <2> QED BY <2>1, <2>3 DEF SlotsOf, RoundUp
<1>4. Consumed(len) = q
  <2>1. x \in 0 .. IndexWrap - 1
    BY <1>1
  <2>2. x % IndexWrap = x
    BY <1>1, <2>1, ModSmall
  <2> QED BY <2>2 DEF Consumed
<1> HIDE DEF q, r
<1>5. len = SlotSize * q + r - SlotSize + 1
  BY <1>1, <1>2
<1>6. q >= 1
  <2>1. SUFFICES ASSUME q <= 0 PROVE FALSE
    BY <1>2
  <2>2. SlotSize * q <= 0
    BY <1>1, <1>2, <2>1
  <2> QED BY <1>1, <1>2, <1>5, <2>2
<1>7. ASSUME NEW pad \in Nat, pad < q
      PROVE  Consumed(pad * SlotSize) = pad
  <2>1. SlotSize * (q - 1 - pad) >= 0 /\ SlotSize * (q - 1 - pad) = SlotSize * q - SlotSize - SlotSize * pad
    BY <1>1, <1>2, <1>7
  <2>2. PICK y \in Nat : y = SlotSize * pad
    BY <1>1, <1>7
  <2>3. y <= len
    BY <1>1, <1>2, <1>5, <2>1, <2>2
  <2>4. PICK z \in Nat : z = y + SlotSize - 1
    BY <1>1, <2>2
  <2>5. z \in 0 .. IndexWrap - 1
    BY <1>1, <2>2, <2>3, <2>4
  <2>6. z % IndexWrap = z
    BY <1>1, <2>5, ModSmall
  <2>7. z = SlotSize * pad + (SlotSize - 1) /\ SlotSize - 1 \in 0 .. SlotSize - 1
    BY <1>1, <2>2, <2>4
  <2>8. z \div SlotSize = pad
    BY <1>1, <2>7, DivUnique
  <2>9. pad * SlotSize + SlotSize - 1 = z
    BY <1>1, <2>2, <2>4
  <2> QED BY <2>6, <2>8, <2>9 DEF Consumed
<1> QED BY <1>2, <1>3, <1>4, <1>6, <1>7, RingAssumption

\* Where the head is, seen from the tail.
LEMMA HeadSlot ==
  ASSUME NEW h \in 0 .. IndexWrap - 1, NEW t \in 0 .. IndexWrap - 1, NEW u,
         u = (h - t) % IndexWrap, NEW p \in Nat
  PROVE  u \in 0 .. IndexWrap - 1 /\ (h + p) % NElems = (t + u + p) % NElems
<1> USE RingConsts
<1> DEFINE e == (h - t) \div IndexWrap  j == IndexWrap \div NElems  r == (h + p) % NElems
           f == (h + p) \div NElems
<1>1. h - t \in Int /\ h - t = IndexWrap * e + u /\ e \in Int /\ u \in 0 .. IndexWrap - 1
  <2>1. PICK y \in Int : y = h - t
    OBVIOUS
  <2>2. y = IndexWrap * (y \div IndexWrap) + (y % IndexWrap) /\ y % IndexWrap \in 0 .. IndexWrap - 1
        /\ y \div IndexWrap \in Int
    BY DivDef
  <2> QED BY <2>1, <2>2
<1>2. IndexWrap = NElems * j /\ j \in Int
  BY DivDef
<1>3. h + p = NElems * f + r /\ f \in Int /\ r \in 0 .. NElems - 1
  <2>1. PICK y \in Int : y = h + p
    OBVIOUS
  <2>2. y = NElems * (y \div NElems) + (y % NElems) /\ y % NElems \in 0 .. NElems - 1
        /\ y \div NElems \in Int
    BY DivDef
  <2> QED BY <2>1, <2>2
<1> HIDE DEF e, j, r, f
<1>4. NElems * (j * e) = IndexWrap * e /\ j * e \in Int
  BY <1>1, <1>2
<1>5. t + u + p = NElems * (f - j * e) + r
  <2>1. NElems * (f - j * e) = NElems * f - NElems * (j * e)
    BY <1>3, <1>4
  <2>2. PICK a \in Int, b \in Int : a = NElems * f /\ b = IndexWrap * e
    BY <1>1, <1>3
  <2> QED BY <1>1, <1>3, <1>4, <2>1, <2>2
<1>6. PICK z \in Int, q \in Int : z = t + u + p /\ q = f - j * e
  <2>1. t + u + p \in Int /\ f - j * e \in Int
    BY <1>1, <1>3, <1>4
  <2> QED BY <2>1
<1>7. z % NElems = r
  BY <1>3, <1>5, <1>6, DivUnique
<1> QED BY <1>1, <1>6, <1>7 DEF r

\* The head moves by d slots.
LEMMA MovedHead ==
  ASSUME NEW h \in 0 .. IndexWrap - 1, NEW t \in 0 .. IndexWrap - 1, NEW u,
         u = (h - t) % IndexWrap, NEW d \in Nat, u + d < IndexWrap
  PROVE  (((h + d) % IndexWrap) - t) % IndexWrap = u + d
<1> USE RingConsts
<1> DEFINE e == (h - t) \div IndexWrap  f == (h + d) \div IndexWrap  m == (h + d) % IndexWrap
<1>1. h - t \in Int /\ h - t = IndexWrap * e + u /\ e \in Int /\ u \in 0 .. IndexWrap - 1
  <2>1. PICK y \in Int : y = h - t
    OBVIOUS
  <2>2. y = IndexWrap * (y \div IndexWrap) + (y % IndexWrap) /\ y % IndexWrap \in 0 .. IndexWrap - 1
        /\ y \div IndexWrap \in Int
    BY DivDef
  <2> QED BY <2>1, <2>2
<1>2. h + d \in Int /\ h + d = IndexWrap * f + m /\ f \in Int /\ m \in 0 .. IndexWrap - 1
  <2>1. PICK y \in Int : y = h + d
    OBVIOUS
  <2>2. y = IndexWrap * (y \div IndexWrap) + (y % IndexWrap) /\ y % IndexWrap \in 0 .. IndexWrap - 1
        /\ y \div IndexWrap \in Int
    BY DivDef
  <2> QED BY <2>1, <2>2
<1> HIDE DEF e, f, m
<1>3. m - t = IndexWrap * (e - f) + (u + d)
  <2>1. IndexWrap * (e - f) = IndexWrap * e - IndexWrap * f
    BY <1>1, <1>2
  <2>2. PICK a \in Int, b \in Int : a = IndexWrap * e /\ b = IndexWrap * f
    BY <1>1, <1>2
  <2> QED BY <1>1, <1>2, <2>1, <2>2
<1>4. PICK z \in Int, q \in Int, r \in 0 .. IndexWrap - 1 : z = m - t /\ q = e - f /\ r = u + d
  BY <1>1, <1>2
<1>5. z % IndexWrap = r
  BY <1>3, <1>4, DivUnique
<1> QED BY <1>4, <1>5 DEF m

\* The tail moves by d slots, no further than the head: slot o is slot d + o.
LEMMA MovedTail ==
  ASSUME NEW h \in 0 .. IndexWrap - 1, NEW t \in 0 .. IndexWrap - 1, NEW u,
         u = (h - t) % IndexWrap, NEW d \in Nat, d <= u
  PROVE  /\ (h - ((t + d) % IndexWrap)) % IndexWrap = u - d
         /\ (t + d) % IndexWrap \in 0 .. IndexWrap - 1
         /\ \A o \in Nat : (((t + d) % IndexWrap) + o) % NElems = (t + (d + o)) % NElems
<1> USE RingConsts
<1> DEFINE e == (h - t) \div IndexWrap  f == (t + d) \div IndexWrap  m == (t + d) % IndexWrap
<1>1. h - t \in Int /\ h - t = IndexWrap * e + u /\ e \in Int /\ u \in 0 .. IndexWrap - 1
  <2>1. PICK y \in Int : y = h - t
    OBVIOUS
  <2>2. y = IndexWrap * (y \div IndexWrap) + (y % IndexWrap) /\ y % IndexWrap \in 0 .. IndexWrap - 1
        /\ y \div IndexWrap \in Int
    BY DivDef
  <2> QED BY <2>1, <2>2
<1>2. t + d \in Int /\ t + d = IndexWrap * f + m /\ f \in Int /\ m \in 0 .. IndexWrap - 1
  <2>1. PICK y \in Int : y = t + d
    OBVIOUS
  <2>2. y = IndexWrap * (y \div IndexWrap) + (y % IndexWrap) /\ y % IndexWrap \in 0 .. IndexWrap - 1
        /\ y \div IndexWrap \in Int
    BY DivDef
  <2> QED BY <2>1, <2>2
<1>0. m % NElems = (t + d) % NElems
  BY <1>2, ModMod
<1> HIDE DEF e, f, m
<1>3. h - m = IndexWrap * (e + f) + (u - d)
  <2>1. IndexWrap * (e + f) = IndexWrap * e + IndexWrap * f
    BY <1>1, <1>2
  <2>2. PICK a \in Int, b \in Int : a = IndexWrap * e /\ b = IndexWrap * f
    BY <1>1, <1>2
  <2> QED BY <1>1, <1>2, <2>1, <2>2
<1>4. PICK z \in Int, q \in Int, r \in 0 .. IndexWrap - 1 : z = h - m /\ q = e + f /\ r = u - d
  <2>1. h - m \in Int /\ e + f \in Int /\ u - d \in 0 .. IndexWrap - 1
    BY <1>1, <1>2
  <2> QED BY <2>1
<1>5. z % IndexWrap = r
  BY <1>3, <1>4, DivUnique
<1>6. ASSUME NEW o \in Nat
      PROVE  (m + o) % NElems = (t + (d + o)) % NElems
  <2>0. PICK y \in Int, w \in Int : y = t + d /\ w = m
    BY <1>2
  <2>n. NElems \in Nat \ {0} /\ o \in Int
    OBVIOUS
  <2>1. ((w % NElems) + o) % NElems = (w + o) % NElems
    BY ONLY <2>n, ModAdd, w \in Int
  <2>2. ((y % NElems) + o) % NElems = (y + o) % NElems
    BY ONLY <2>n, ModAdd, y \in Int
  <2>3. y + o = t + (d + o)
    BY <2>0
  <2> QED BY <1>0, <2>0, <2>1, <2>2, <2>3
<1> QED BY <1>2, <1>4, <1>5, <1>6 DEF m

\* Slots less than the size of the ring apart are different, and the head is
\* Used slots behind the tail.
LEMMA SlotFacts ==
  ASSUME RingTypeOK
  PROVE  /\ \A o \in Nat : Slot(o) \in 0 .. NElems - 1
         /\ \A a, b \in 0 .. NElems - 1 : Slot(a) = Slot(b) => a = b
         /\ Used \in 0 .. IndexWrap - 1
         /\ \A p \in Nat : (head + p) % NElems = Slot(Used + p)
         /\ head % NElems = Slot(Used) /\ TailSlot = Slot(0)
         /\ Used = 0 <=> head = tail
<1>0. head \in 0 .. IndexWrap - 1 /\ tail \in 0 .. IndexWrap - 1
  BY DEF RingTypeOK
<1>1. ASSUME NEW o \in Nat PROVE Slot(o) \in 0 .. NElems - 1
  <2>1. PICK x \in Int : x = tail + o
    BY <1>0
  <2>2. x % NElems \in 0 .. NElems - 1
    BY RingConsts, DivDef
  <2> QED BY <2>1, <2>2 DEF Slot
<1>2. ASSUME NEW a \in 0 .. NElems - 1, NEW b \in 0 .. NElems - 1, Slot(a) = Slot(b) PROVE a = b
  <2>1. PICK x \in Int : x = tail
    BY <1>0
  <2>2. (x + a) % NElems = (x + b) % NElems /\ NElems \in Nat \ {0}
    BY <1>2, <2>1, RingConsts DEF Slot
  <2> QED BY ONLY <2>2, ModApart, x \in Int, a \in 0 .. NElems - 1, b \in 0 .. NElems - 1
<1>3. ASSUME NEW p \in Nat
      PROVE  Used \in 0 .. IndexWrap - 1 /\ (head + p) % NElems = Slot(Used + p)
  <2>1. PICK h \in 0 .. IndexWrap - 1, t \in 0 .. IndexWrap - 1, u \in {Used} :
          h = head /\ t = tail /\ u = Used
    BY <1>0
  <2>2. u = (h - t) % IndexWrap
    BY <2>1 DEF Used
  <2>3. u \in 0 .. IndexWrap - 1 /\ (h + p) % NElems = (t + u + p) % NElems
    BY <2>2, HeadSlot
  <2>4. t + u + p = t + (u + p)
    BY <2>3
  <2> QED BY <2>1, <2>3, <2>4 DEF Slot
<1>4. Used \in 0 .. IndexWrap - 1 /\ head % NElems = Slot(Used)
  <2>1. Used \in 0 .. IndexWrap - 1 /\ (head + 0) % NElems = Slot(Used + 0)
    BY <1>3
  <2> QED BY <1>0, <2>1
<1>5. TailSlot = Slot(0)
  BY <1>0 DEF TailSlot, Slot
<1>6. Used = 0 <=> head = tail
  <2>1. PICK x \in Int : x = head - tail
    BY <1>0
  <2>2. x = IndexWrap * (x \div IndexWrap) + (x % IndexWrap) /\ x \div IndexWrap \in Int
        /\ IndexWrap \in Nat \ {0} /\ x % IndexWrap \in Int
    BY RingConsts, DivDef
  <2>3. x = 0 => x % IndexWrap = 0
    BY <2>2, ModSmall
  <2>4. ASSUME x % IndexWrap = 0 PROVE x = 0
    <3>1. PICK q \in Int : q = x \div IndexWrap
      BY <2>2
    <3>2. x = IndexWrap * q
      BY <2>2, <2>4, <3>1
    <3>3. ~(q >= 1) /\ ~(-q >= 1)
      <4>1. q >= 1 => IndexWrap * q >= IndexWrap
        BY <2>2, MulGE
      <4>2. PICK z \in Int : z = -q
        OBVIOUS
      <4>3. z >= 1 => IndexWrap * z >= IndexWrap
        BY <2>2, MulGE
      <4>4. IndexWrap * z = -(IndexWrap * q)
        BY <2>2, <4>2
      <4> QED BY <1>0, <2>1, <2>2, <3>2, <4>1, <4>2, <4>3, <4>4
    <3> QED BY <3>2, <3>3, <2>2
  <2> QED BY <1>0, <2>1, <2>3, <2>4 DEF Used
<1> QED BY <1>1, <1>2, <1>3, <1>4, <1>5, <1>6

\* The messages in the ring follow each other and end at the head.
LEMMA LayoutFacts ==
  ASSUME RingInv, NEW off, Layout(off)
  PROVE  /\ Used \in 0 .. NElems
         /\ \A i \in 1 .. Len(queue) :
              /\ queue[i] \in RingMsgs /\ queue[i].length \in Lengths
              /\ SlotsOf(queue[i].length) \in Nat \ {0} /\ off[i] \in Nat
              /\ EndOf(off, i) = off[i] + SlotsOf(queue[i].length)
              /\ off[i] < EndOf(off, i) /\ EndOf(off, i) <= Used
              /\ EndOf(off, i - 1) \in Nat /\ EndOf(off, i - 1) <= off[i]
<1>1. RingTypeOK /\ Used <= NElems /\ queue \in Seq(RingMsgs) /\ Len(queue) \in Nat
  BY DEF RingInv, RingTypeOK
<1>2. Used \in 0 .. NElems
  BY <1>1, SlotFacts, RingConsts
<1>3. ASSUME NEW i \in 1 .. Len(queue)
      PROVE  /\ queue[i] \in RingMsgs /\ queue[i].length \in Lengths
             /\ SlotsOf(queue[i].length) \in Nat \ {0} /\ off[i] \in Nat
             /\ EndOf(off, i) = off[i] + SlotsOf(queue[i].length)
             /\ off[i] < EndOf(off, i) /\ EndOf(off, i) <= Used
  <2>1. queue[i] \in RingMsgs
    BY <1>1
  <2>2. queue[i].length \in Lengths
    BY <2>1 DEF RingMsgs
  <2>3. SlotsOf(queue[i].length) \in Nat \ {0}
    BY <2>2, SlotsFacts
  <2>4. off[i] \in Nat /\ EndOf(off, i) <= Used
    BY DEF Layout
  <2>5. EndOf(off, i) = off[i] + SlotsOf(queue[i].length)
    BY DEF EndOf
  <2> QED BY <2>1, <2>2, <2>3, <2>4, <2>5
<1>4. ASSUME NEW i \in 1 .. Len(queue)
      PROVE  EndOf(off, i - 1) \in Nat /\ EndOf(off, i - 1) <= off[i]
  <2>1. CASE i = 1
    BY <1>3, <2>1 DEF EndOf
  <2>2. CASE i # 1
    <3>1. PICK j \in 1 .. Len(queue) : j = i - 1
      BY <1>1, <2>2
    <3>2. EndOf(off, j) <= off[i]
      BY <3>1 DEF Layout
    <3>3. EndOf(off, j) \in Nat
      <4>1. PICK a \in Nat, b \in Nat : EndOf(off, j) = a + b
        BY <1>3
      <4> QED BY <4>1
    <3> QED BY <3>1, <3>2, <3>3
  <2> QED BY <2>1, <2>2
<1> QED BY <1>2, <1>3, <1>4

\* The ring is empty exactly if the queue is.
LEMMA EmptyFacts ==
  ASSUME RingInv
  PROVE  /\ Used = 0 <=> queue = <<>>
         /\ Used = 0 <=> head = tail
<1>1. PICK off : Layout(off)
  BY DEF RingInv
<1>2. queue \in Seq(RingMsgs) /\ Len(queue) \in Nat /\ RingTypeOK
  BY DEF RingInv, RingTypeOK
<1>3. CASE queue = <<>>
  BY <1>1, <1>2, <1>3, SlotFacts DEF Layout, EndOf
<1>4. CASE queue # <<>>
  <2>1. Len(queue) \in 1 .. Len(queue)
    BY <1>2, <1>4
  <2>2. Used > 0
    BY <1>1, <2>1, LayoutFacts
  <2> QED BY <1>2, <1>4, <2>2, SlotFacts
<1> QED BY <1>3, <1>4

\* The record at the tail: a message, or the padding before one.
LEMMA TailFacts ==
  ASSUME RingInv, NEW off, Layout(off), Used > 0
  PROVE  /\ 1 \in 1 .. Len(queue) /\ queue # <<>>
         /\ \/ off[1] = 0 /\ Peeked = queue[1] /\ Peeked.type = "task"
               /\ Consumed(Peeked.length) = EndOf(off, 1)
            \/ off[1] > 0 /\ Peeked.type = "nop" /\ Consumed(Peeked.length) = off[1]
         /\ Consumed(Peeked.length) \in Nat \ {0} /\ Consumed(Peeked.length) <= Used
         /\ 3 * Consumed(Peeked.length) <= NElems
<1>1. RingTypeOK /\ queue \in Seq(RingMsgs) /\ Len(queue) \in Nat
  BY DEF RingInv, RingTypeOK
<1>2. queue # <<>> /\ 1 \in 1 .. Len(queue)
  BY <1>1, EmptyFacts
<1>3. Peeked = msgs[Slot(0)]
  BY <1>1, SlotFacts DEF Peeked
<1>u. Used \in Nat /\ NElems \in Nat
  <2>1. Used \in 0 .. IndexWrap - 1
    BY <1>1, SlotFacts
  <2> QED BY <2>1, RingConsts
<1>4. PICK len \in Lengths : len = queue[1].length
  BY <1>2, LayoutFacts
<1>5. /\ SlotsOf(len) \in Nat \ {0} /\ 3 * SlotsOf(len) <= NElems /\ Consumed(len) = SlotsOf(len)
      /\ \A pad \in Nat : pad < SlotsOf(len) => Consumed(pad * SlotSize) = pad
  BY SlotsFacts
<1>6. /\ off[1] \in Nat /\ EndOf(off, 1) = off[1] + SlotsOf(len) /\ EndOf(off, 1) <= Used
      /\ queue[1] \in RingMsgs
  BY <1>2, <1>4, LayoutFacts
<1>7. msgs[Slot(off[1])] = queue[1] /\ Behind(0, off[1], SlotsOf(len))
  BY <1>2, <1>4 DEF Layout, EndOf
<1>8. CASE off[1] = 0
  <2>1. Peeked = queue[1] /\ Peeked.type = "task" /\ Peeked.length = len
    BY <1>3, <1>4, <1>6, <1>7, <1>8 DEF RingMsgs
  <2> QED BY <1>2, <1>5, <1>6, <1>8, <2>1
<1>9. CASE off[1] # 0
  <2>1. Peeked = Nop(off[1]) /\ off[1] < SlotsOf(len) /\ off[1] > 0
    BY <1>3, <1>6, <1>7, <1>9 DEF Behind
  <2>2. Peeked.type = "nop" /\ Peeked.length = off[1] * SlotSize
    BY <2>1 DEF Nop
  <2>3. Consumed(Peeked.length) = off[1]
    BY <1>5, <1>6, <2>1, <2>2
  <2>4. PICK o \in Nat, n \in Nat : o = off[1] /\ n = SlotsOf(len) /\ Consumed(Peeked.length) = o
    BY <1>5, <1>6, <2>3
  <2>5. 3 * o <= NElems /\ o <= Used /\ o \in Nat \ {0}
    <3>1. Used \in Nat /\ o + n <= Used /\ 3 * n <= NElems /\ o < n /\ o > 0 /\ NElems \in Nat
      BY <1>u, <1>5, <1>6, <2>1, <2>4
    <3> QED BY <3>1
  <2> QED BY <1>2, <2>1, <2>2, <2>4, <2>5
<1> QED BY <1>8, <1>9
-------------------------------------------------------------------------------
(* The kernel produces a message of n slots, behind pad slots of padding.   *)

PadFor(len) ==
  IF SlotsOf(len) > NElems - (head % NElems) THEN NElems - (head % NElems) ELSE 0

\* The padding is shorter than the message.
LEMMA PadFacts ==
  ASSUME RingInv, NEW len \in Lengths
  PROVE  PadFor(len) \in Nat /\ PadFor(len) < SlotsOf(len)
<1>1. RingTypeOK /\ Used \in Nat
  <2>1. RingTypeOK
    BY DEF RingInv
  <2>2. Used \in 0 .. IndexWrap - 1
    BY <2>1, SlotFacts
  <2> QED BY <2>1, <2>2, RingConsts
<1>2. head % NElems \in 0 .. NElems - 1
  BY <1>1, SlotFacts
<1>3. PICK n \in Nat \ {0}, x \in 0 .. NElems - 1 : n = SlotsOf(len) /\ x = head % NElems
  BY <1>2, SlotsFacts
<1>4. \/ n > NElems - x /\ PadFor(len) = NElems - x
      \/ PadFor(len) = 0
  BY <1>3 DEF PadFor
<1>5. NElems - x \in Nat \ {0}
  BY <1>3, RingConsts
<1> QED BY <1>3, <1>4, <1>5

\* What the two outcomes are, seen from the tail.
LEMMA ProduceEffect ==
  ASSUME RingInv, NEW len \in Lengths, ProduceMessage(len)
  PROVE  /\ UNCHANGED <<tail, peek, ringAborted>> /\ parity' = 1 - parity
         /\ \/ /\ PadFor(len) + SlotsOf(len) <= NElems - Used
               /\ msgs' = [[msgs EXCEPT ![Slot(Used)] = IF PadFor(len) > 0 THEN Nop(PadFor(len)) ELSE @]
                             EXCEPT ![Slot(Used + PadFor(len))] =
                               [type |-> "task", length |-> len, seqnum |-> parity]]
               /\ head' = (head + (PadFor(len) + SlotsOf(len))) % IndexWrap
               /\ queue' = Append(queue, [type |-> "task", length |-> len, seqnum |-> parity])
               /\ UNCHANGED overflow
            \/ /\ PadFor(len) + SlotsOf(len) > NElems - Used
               /\ overflow' = TRUE /\ UNCHANGED <<head, msgs, queue>>
<1>1. RingTypeOK /\ head \in Nat
  BY DEF RingInv, RingTypeOK
<1>2. PadFor(len) \in Nat /\ SlotsOf(len) \in Nat
  BY PadFacts, SlotsFacts
<1>3. head % NElems = Slot(Used) /\ (head + PadFor(len)) % NElems = Slot(Used + PadFor(len))
  BY <1>1, <1>2, SlotFacts
<1>4. head + PadFor(len) + SlotsOf(len) = head + (PadFor(len) + SlotsOf(len))
  BY <1>1, <1>2
<1> DEFINE n == SlotsOf(len)  x == head % NElems
           p == IF n > NElems - x THEN NElems - x ELSE 0
           u == (head - tail) % IndexWrap  y == (head + p) % NElems
           m == [type |-> "task", length |-> len, seqnum |-> parity]
           nop == [type |-> "nop", length |-> p * SlotSize, seqnum |-> 0]
<1>6. /\ parity' = 1 - parity /\ UNCHANGED <<tail, peek, ringAborted>>
      /\ \/ /\ p + n <= NElems - u
            /\ msgs' = [[msgs EXCEPT ![x] = IF p > 0 THEN nop ELSE @] EXCEPT ![y] = m]
            /\ head' = (head + p + n) % IndexWrap
            /\ queue' = Append(queue, m)
            /\ UNCHANGED overflow
         \/ /\ p + n > NElems - u
            /\ overflow' = TRUE /\ UNCHANGED <<head, msgs, queue>>
  BY Zenon DEF ProduceMessage
<1>7. p = PadFor(len)
  BY DEF PadFor
<1>8. u = Used /\ x = Slot(Used) /\ y = Slot(Used + p) /\ head + p + n = head + (p + n)
      /\ nop = Nop(p)
  <2> HIDE DEF p
  <2> QED BY <1>3, <1>4, <1>7 DEF Used, Nop
<1> HIDE DEF RingInv, p, u, x, y, nop, m
<1> QED BY <1>6, <1>7, <1>8, Zenon DEF n, m

\* A new message goes behind the others and overwrites none.
LEMMA ProduceKeeps ==
  ASSUME RingInv, NEW len \in Lengths, ProduceMessage(len)
  PROVE  RingInv'
<1>0. /\ RingTypeOK /\ Used <= NElems /\ (peek # "idle" => Used > 0) /\ DropInv
      /\ queue \in Seq(RingMsgs) /\ Len(queue) \in Nat
  BY DEF RingInv, RingTypeOK
<1>1. PICK off : Layout(off)
  BY DEF RingInv
<1>2. PICK n \in Nat \ {0}, pad \in Nat, u \in Nat :
        /\ n = SlotsOf(len) /\ pad = PadFor(len) /\ u = Used
        /\ pad < n /\ 3 * n <= NElems /\ u <= NElems
  <2>1. SlotsOf(len) \in Nat \ {0} /\ 3 * SlotsOf(len) <= NElems
    BY SlotsFacts
  <2>2. PadFor(len) \in Nat /\ PadFor(len) < SlotsOf(len)
    BY PadFacts
  <2>3. Used \in Nat /\ Used <= NElems
    BY <1>1, LayoutFacts, RingConsts
  <2> QED BY <2>1, <2>2, <2>3
<1>3. PICK m : m = [type |-> "task", length |-> len, seqnum |-> parity]
  OBVIOUS
<1>4. m \in RingMsgs /\ m.length = len /\ parity' \in {0, 1}
  <2>1. parity \in {0, 1} /\ parity' = 1 - parity
    BY <1>0, ProduceEffect DEF RingTypeOK
  <2>2. parity' \in {0, 1}
    BY <2>1
  <2> QED BY <1>3, <2>1, <2>2 DEF RingMsgs
<1>5. CASE n + pad <= NElems - u
  <2>1. /\ msgs' = [[msgs EXCEPT ![Slot(u)] = IF pad > 0 THEN Nop(pad) ELSE @]
                      EXCEPT ![Slot(u + pad)] = m]
        /\ head' = (head + (pad + n)) % IndexWrap /\ queue' = Append(queue, m)
        /\ UNCHANGED <<tail, peek, ringAborted, overflow>>
    <3>1. ~(pad + n > NElems - u)
      BY <1>2, <1>5, RingConsts
    <3> QED BY <1>2, <1>3, <3>1, ProduceEffect
  <2>2. /\ u \in 0 .. NElems - 1 /\ u + pad \in 0 .. NElems - 1
        /\ Slot(u) \in 0 .. NElems - 1 /\ Slot(u + pad) \in 0 .. NElems - 1
        /\ pad > 0 => Slot(u) # Slot(u + pad)
    <3>1. u \in 0 .. NElems - 1 /\ u + pad \in 0 .. NElems - 1 /\ u + pad \in Nat
      BY <1>2, <1>5, RingConsts
    <3>2. /\ \A o \in Nat : Slot(o) \in 0 .. NElems - 1
          /\ \A a, b \in 0 .. NElems - 1 : Slot(a) = Slot(b) => a = b
      BY <1>0, SlotFacts
    <3>3. pad > 0 => u # u + pad
      BY <1>2
    <3> QED BY <3>1, <3>2, <3>3
  <2>3. /\ DOMAIN msgs' = 0 .. NElems - 1 /\ msgs' = [i \in DOMAIN msgs' |-> msgs'[i]]
        /\ msgs'[Slot(u + pad)] = m
        /\ pad > 0 => msgs'[Slot(u)] = Nop(pad)
        /\ \A s \in 0 .. NElems - 1 : s # Slot(u) /\ s # Slot(u + pad) => msgs'[s] = msgs[s]
    BY <1>0, <2>1, <2>2 DEF RingTypeOK
  <2>4. \A o \in 0 .. NElems - 1 : o < u => msgs'[Slot(o)] = msgs[Slot(o)]
    <3>1. ASSUME NEW o \in 0 .. NElems - 1, o < u PROVE msgs'[Slot(o)] = msgs[Slot(o)]
      <4>1. o # u /\ o # u + pad /\ o \in Nat
        BY <1>2, <3>1
      <4>2. Slot(o) # Slot(u) /\ Slot(o) # Slot(u + pad) /\ Slot(o) \in 0 .. NElems - 1
        BY <1>0, <2>2, <4>1, SlotFacts
      <4> QED BY <2>3, <4>2
    <3> QED BY <3>1
  <2>5. Used' = u + (pad + n) /\ head' \in 0 .. IndexWrap - 1 /\ u + (pad + n) <= NElems
    <3>1. PICK h \in 0 .. IndexWrap - 1, t \in 0 .. IndexWrap - 1 : h = head /\ t = tail
      BY <1>0 DEF RingTypeOK
    <3>2. PICK d \in Nat : d = pad + n
      BY <1>2
    <3>3. u = (h - t) % IndexWrap /\ u + d < IndexWrap /\ u + d <= NElems
      BY <1>2, <1>5, <3>1, <3>2, RingConsts DEF Used
    <3>4. (((h + d) % IndexWrap) - t) % IndexWrap = u + d
      BY <3>3, MovedHead
    <3>5. PICK x \in Int : x = h + d
      OBVIOUS
    <3>6. x % IndexWrap \in 0 .. IndexWrap - 1
      BY RingConsts, DivDef
    <3> QED BY <2>1, <3>1, <3>2, <3>3, <3>4, <3>5, <3>6 DEF Used
  <2>6. PICK k \in Nat : k = Len(queue)
    BY <1>0
  <2>7. /\ queue' \in Seq(RingMsgs) /\ Len(queue') = k + 1 /\ queue'[k + 1] = m
        /\ \A i \in 1 .. k : queue'[i] = queue[i]
    BY <1>0, <1>4, <2>1, <2>6
  <2>8. PICK new : new = [i \in 1 .. k + 1 |-> IF i = k + 1 THEN u + pad ELSE off[i]]
    OBVIOUS
  <2>9. /\ new[k + 1] = u + pad /\ \A i \in 1 .. k : new[i] = off[i]
    BY <2>8
  <2>10. \A o : Slot(o)' = Slot(o)
    BY <2>1 DEF Slot
  \* The old messages.
  <2>11. \A i \in 0 .. k : EndOf(new, i)' = EndOf(off, i)
    BY <2>7, <2>9 DEF EndOf
  <2>12. EndOf(new, k + 1)' = u + (pad + n)
    <3>1. EndOf(new, k + 1)' = new[k + 1] + SlotsOf(queue'[k + 1].length)
      BY <2>6 DEF EndOf
    <3> QED BY <1>2, <1>4, <2>7, <2>9, <3>1
  <2>13. EndOf(off, k) = u
    BY <1>1, <1>2, <2>6 DEF Layout
  <2>14. ASSUME NEW i \in 1 .. k
         PROVE  /\ new[i] \in Nat /\ msgs'[Slot(new[i])'] = queue'[i]
                /\ Behind(EndOf(new, i - 1), new[i], SlotsOf(queue[i].length))'
                /\ EndOf(new, i)' <= Used'
    <3>1. /\ off[i] \in Nat /\ off[i] < EndOf(off, i) /\ EndOf(off, i) <= u
          /\ EndOf(off, i - 1) \in Nat /\ EndOf(off, i - 1) <= off[i]
          /\ SlotsOf(queue[i].length) \in Nat \ {0} /\ EndOf(off, i) = off[i] + SlotsOf(queue[i].length)
      BY <1>1, <1>2, <2>6, LayoutFacts
    <3>2. /\ msgs[Slot(off[i])] = queue[i]
          /\ Behind(EndOf(off, i - 1), off[i], SlotsOf(queue[i].length))
      BY <1>1, <2>6 DEF Layout
    <3>3. off[i] < u /\ EndOf(off, i) \in Nat
      BY <1>2, <3>1
    <3>i. off[i] \in 0 .. NElems - 1
      BY <2>2, <3>1, <3>3, RingConsts
    <3>4. msgs'[Slot(off[i])] = queue[i]
      BY <2>4, <3>2, <3>3, <3>i
    <3>5. PICK s \in Nat, o \in Nat : s = EndOf(off, i - 1) /\ o = off[i]
      BY <3>1
    <3>6. s <= o /\ o < u
      BY <3>1, <3>3, <3>5
    <3>7. msgs'[Slot(s)] = msgs[Slot(s)] \/ s = o
      <4>1. s # o => s < u /\ s \in 0 .. NElems - 1
        BY <1>2, <3>6, <2>2, RingConsts
      <4> QED BY <2>4, <4>1
    <3>8. Behind(s, o, SlotsOf(queue[i].length))'
      <4>1. queue'[i] = queue[i]
        BY <2>7
      <4>2. o = s \/ (s < o /\ o - s < SlotsOf(queue[i].length) /\ msgs[Slot(s)] = Nop(o - s))
        BY <3>2, <3>5 DEF Behind
      <4> QED BY <2>10, <3>7, <4>1, <4>2 DEF Behind
    <3>9. EndOf(new, i - 1)' = s /\ new[i] = o /\ EndOf(new, i)' = EndOf(off, i)
      <4>1. i - 1 \in 0 .. k /\ i \in 0 .. k
        OBVIOUS
      <4> QED BY <2>9, <2>11, <3>5, <4>1
    <3>10. Behind(EndOf(new, i - 1), new[i], SlotsOf(queue[i].length))'
      BY <3>8, <3>9 DEF Behind
    <3>11. EndOf(new, i)' <= Used'
      <4>1. PICK e \in Nat : e = EndOf(off, i)
        BY <3>3
      <4>2. e <= u /\ e <= u + (pad + n)
        BY <1>2, <3>1, <4>1
      <4> QED BY <2>5, <3>9, <4>1, <4>2
    <3> QED BY <2>7, <2>9, <2>10, <3>1, <3>4, <3>10, <3>11
  <2>15. /\ new[k + 1] \in Nat /\ msgs'[Slot(new[k + 1])'] = queue'[k + 1]
         /\ Behind(EndOf(new, k), new[k + 1], SlotsOf(queue[k + 1].length))'
         /\ EndOf(new, k + 1)' = Used'
    <3>1. EndOf(new, k)' = u /\ SlotsOf(queue'[k + 1].length) = n
      BY <1>2, <1>4, <2>7, <2>11, <2>13
    <3>2. u + pad - u = pad
      BY <1>2
    <3>3. Behind(EndOf(new, k), new[k + 1], SlotsOf(queue[k + 1].length))'
      BY <1>2, <2>3, <2>9, <2>10, <3>1, <3>2 DEF Behind
    <3> QED BY <1>2, <2>3, <2>5, <2>7, <2>9, <2>10, <2>12, <3>3
  <2>16. ASSUME NEW i \in 1 .. k + 1, NEW j \in 1 .. k + 1, i < j
         PROVE  EndOf(new, i)' <= new[j]
    <3>1. i \in 1 .. k /\ i \in 0 .. k
      BY <2>16
    <3>2. CASE j = k + 1
      <4>1. EndOf(off, i) <= u /\ off[i] \in Nat /\ SlotsOf(queue[i].length) \in Nat
            /\ EndOf(off, i) = off[i] + SlotsOf(queue[i].length)
        BY <1>1, <1>2, <2>6, <3>1, LayoutFacts
      <4> QED BY <1>2, <2>9, <2>11, <3>1, <3>2, <4>1
    <3>3. CASE j \in 1 .. k
      <4>1. EndOf(off, i) <= off[j]
        BY <1>1, <2>6, <2>16, <3>1, <3>3 DEF Layout
      <4> QED BY <2>9, <2>11, <3>1, <3>3, <4>1
    <3> QED BY <3>2, <3>3
  <2>17. Layout(new)'
    <3>1. new \in [1 .. Len(queue') -> Nat]
      BY <2>7, <2>8, <2>9, <2>14, <2>15
    <3>2. ASSUME NEW i \in 1 .. Len(queue')
          PROVE  /\ msgs'[Slot(new[i])'] = queue'[i]
                 /\ Behind(EndOf(new, i - 1), new[i], SlotsOf(queue[i].length))'
                 /\ EndOf(new, i)' <= Used'
      <4>1. CASE i = k + 1
        BY <1>2, <2>5, <2>15, <4>1
      <4>2. CASE i \in 1 .. k
        BY <2>14, <4>2
      <4> QED BY <2>7, <4>1, <4>2
    <3> QED BY <2>7, <2>15, <2>16, <3>1, <3>2 DEF Layout
  <2>18. Peeked' = Peeked \/ Used = 0
    <3>1. Peeked = msgs[Slot(0)] /\ Peeked' = msgs'[Slot(0)]
      <4>1. TailSlot' = TailSlot /\ TailSlot = Slot(0)
        BY <1>0, <2>1, SlotFacts DEF TailSlot
      <4> QED BY <4>1 DEF Peeked
    <3>2. 0 \in 0 .. NElems - 1
      BY RingConsts
    <3> QED BY <1>2, <2>4, <3>1, <3>2
  <2>19. DropInv' /\ (peek' # "idle" => Used' > 0)
    <3>1. Used' > u /\ Used' > 0
      BY <1>2, <2>5
    <3>2. PICK w \in Nat : w = Used'
      BY <1>2, <2>5
    <3>3. u > 0 => Consumed(Peeked.length) \in Nat
      BY <1>1, <1>2, TailFacts
    <3>4. overflow => u > 0
      BY <1>0, <1>2 DEF DropInv
    <3> QED BY <1>0, <1>2, <2>1, <2>18, <3>1, <3>2, <3>3, <3>4 DEF DropInv
  <2>20. RingTypeOK'
    BY <1>0, <1>4, <2>1, <2>3, <2>5, <2>7 DEF RingTypeOK
  <2> QED BY <2>5, <2>17, <2>19, <2>20 DEF RingInv
<1>6. CASE ~(n + pad <= NElems - u)
  <2>1. overflow' = TRUE /\ UNCHANGED <<head, msgs, queue, tail, peek, ringAborted>>
    <3>1. ~(pad + n <= NElems - u)
      BY <1>2, <1>6, RingConsts
    <3> QED BY <1>2, <3>1, ProduceEffect
  <2>2. Used' = Used /\ Layout(off)' /\ Peeked' = Peeked
    BY <1>1, <2>1 DEF Layout, EndOf, Behind, Slot, Used, Peeked, TailSlot
  \* More than a third of the ring is in use, and what is in hand is less.
  <2>3. u > 0
    BY <1>2, <1>6, RingConsts
  <2>4. PICK h \in Nat : h = Consumed(Peeked.length) /\ 3 * h <= NElems
    BY <1>1, <1>2, <2>3, TailFacts
  <2>5. u > h
    BY <1>2, <1>6, <2>4, RingConsts
  <2>6. DropInv'
    BY <1>2, <2>1, <2>2, <2>3, <2>4, <2>5 DEF DropInv
  <2>7. RingTypeOK'
    BY <1>0, <1>4, <2>1 DEF RingTypeOK
  <2> QED BY <1>0, <2>1, <2>2, <2>6, <2>7 DEF RingInv
<1> QED BY <1>5, <1>6

\* The agent consumes the record at the tail, of d slots.  It is the first q
\* messages of the queue: one, or none if it is padding.
LEMMA ConsumeEffect ==
  ASSUME RingInv, Consume, NEW off, Layout(off)
  PROVE  \E d \in Nat \ {0}, q \in {0, 1} :
           /\ d = Consumed(Peeked.length) /\ d <= Used
           /\ q <= Len(queue) /\ queue' \in Seq(RingMsgs) /\ Len(queue') = Len(queue) - q
           /\ \A i \in 1 .. Len(queue) - q : queue'[i] = queue[i + q]
           /\ q = 1 => off[1] = 0 /\ d = EndOf(off, 1)
           /\ q = 0 => Len(queue) > 0 /\ d = off[1]
<1>1. queue \in Seq(RingMsgs) /\ Used > 0
  BY DEF RingInv, RingTypeOK, Consume
<1>2. PICK d \in Nat \ {0} : d = Consumed(Peeked.length) /\ d <= Used
  BY <1>1, TailFacts
<1>3. queue # <<>> /\ Len(queue) \in Nat \ {0}
  BY <1>1, TailFacts
<1>4. CASE off[1] = 0
  <2>1. Peeked.type = "task" /\ d = EndOf(off, 1)
    BY <1>1, <1>2, <1>4, TailFacts
  <2>2. queue' = Tail(queue)
    BY <1>3, <2>1 DEF Consume
  <2>3. /\ queue' \in Seq(RingMsgs) /\ Len(queue') = Len(queue) - 1
        /\ \A i \in 1 .. Len(queue) - 1 : queue'[i] = queue[i + 1]
    BY <1>1, <1>3, <2>2
  <2> QED BY <1>2, <1>3, <1>4, <2>1, <2>3
<1>5. CASE off[1] # 0
  <2>1. Peeked.type = "nop" /\ d = off[1]
    BY <1>1, <1>2, <1>5, TailFacts
  <2>2. queue' = queue
    BY <2>1 DEF Consume
  <2>3. \A i \in 1 .. Len(queue) - 0 : queue'[i] = queue[i + 0]
    BY <2>2
  <2>4. Len(queue') = Len(queue) - 0 /\ 0 <= Len(queue)
    BY <1>3, <2>2
  <2>5. queue' \in Seq(RingMsgs) /\ 0 # 1 /\ Len(queue) > 0
    BY <1>1, <1>3, <2>2
  <2> WITNESS d \in Nat \ {0}, 0 \in {0, 1}
  <2> QED BY <1>2, <2>1, <2>3, <2>4, <2>5
<1> QED BY <1>4, <1>5

\* Without the record at the tail, the others are d slots nearer.
LEMMA ConsumeKeeps ==
  ASSUME RingInv, Consume
  PROVE  RingInv'
<1>0. /\ RingTypeOK /\ DropInv /\ peek = "message" /\ queue \in Seq(RingMsgs)
  BY DEF RingInv, RingTypeOK, Consume
<1>1. PICK off : Layout(off)
  BY DEF RingInv
<1>2. PICK u \in 0 .. NElems : u = Used
  BY <1>1, LayoutFacts
<1>3. PICK d \in Nat \ {0}, q \in {0, 1} :
        /\ d = Consumed(Peeked.length) /\ d <= u
        /\ q <= Len(queue) /\ queue' \in Seq(RingMsgs) /\ Len(queue') = Len(queue) - q
        /\ \A i \in 1 .. Len(queue) - q : queue'[i] = queue[i + q]
        /\ q = 1 => off[1] = 0 /\ d = EndOf(off, 1)
        /\ q = 0 => Len(queue) > 0 /\ d = off[1]
  BY <1>1, <1>2, ConsumeEffect
<1>4. /\ tail' = (tail + d) % IndexWrap /\ msgs' = [msgs EXCEPT ![Slot(0)] = Junk]
      /\ peek' = "idle" /\ UNCHANGED <<head, overflow, ringAborted, parity>>
  <2>1. TailSlot = Slot(0)
    BY <1>0, SlotFacts
  <2> QED BY <1>3, <2>1 DEF Consume
<1>5. /\ Used' = u - d /\ tail' \in 0 .. IndexWrap - 1
      /\ \A o \in Nat : Slot(o)' = Slot(d + o)
  <2>1. PICK h \in 0 .. IndexWrap - 1, t \in 0 .. IndexWrap - 1 : h = head /\ t = tail
    BY <1>0 DEF RingTypeOK
  <2>2. u = (h - t) % IndexWrap /\ d \in Nat /\ d <= u
    BY <1>2, <1>3, <2>1 DEF Used
  <2>3. /\ (h - ((t + d) % IndexWrap)) % IndexWrap = u - d
        /\ (t + d) % IndexWrap \in 0 .. IndexWrap - 1
        /\ \A o \in Nat : (((t + d) % IndexWrap) + o) % NElems = (t + (d + o)) % NElems
    BY <2>2, MovedTail
  <2> QED BY <1>4, <2>1, <2>3 DEF Used, Slot
<1>6. /\ DOMAIN msgs' = 0 .. NElems - 1 /\ msgs' = [i \in DOMAIN msgs' |-> msgs'[i]]
      /\ \A o \in 1 .. NElems - 1 : msgs'[Slot(o)] = msgs[Slot(o)]
  <2>1. ASSUME NEW o \in 1 .. NElems - 1 PROVE msgs'[Slot(o)] = msgs[Slot(o)]
    <3>1. 0 \in 0 .. NElems - 1 /\ o \in 0 .. NElems - 1 /\ o # 0 /\ o \in Nat
      BY RingConsts
    <3>2. Slot(o) # Slot(0) /\ Slot(o) \in 0 .. NElems - 1
      BY <1>0, <3>1, SlotFacts
    <3> QED BY <1>0, <1>4, <3>2 DEF RingTypeOK
  <2> QED BY <1>0, <1>4, <2>1 DEF RingTypeOK
<1>7. PICK k \in Nat : k = Len(queue) /\ k - q \in Nat
  BY <1>0, <1>3
<1>8. PICK new : new = [i \in 1 .. k - q |-> off[i + q] - d]
  OBVIOUS
\* What was known of the messages that stay, d slots further from the tail.
<1>9. ASSUME NEW i \in 1 .. k - q, NEW j, j = i + q
      PROVE  /\ j \in 1 .. k /\ new[i] = off[j] - d /\ off[j] \in Nat /\ off[j] >= d
             /\ queue'[i] = queue[j] /\ SlotsOf(queue[j].length) \in Nat \ {0}
             /\ EndOf(off, j) = off[j] + SlotsOf(queue[j].length) /\ EndOf(off, j) <= u
             /\ EndOf(new, i)' = EndOf(off, j) - d
  <2>1. j \in 1 .. k /\ i # 0 /\ (q = 1 => 1 < j)
    BY <1>3, <1>7, <1>9
  <2>2. /\ off[j] \in Nat /\ SlotsOf(queue[j].length) \in Nat \ {0}
        /\ EndOf(off, j) = off[j] + SlotsOf(queue[j].length) /\ EndOf(off, j) <= u
    BY <1>1, <1>2, <1>7, <2>1, LayoutFacts
  <2>3. off[j] >= d
    <3>1. 1 \in 1 .. k
      BY <1>7, <2>1
    <3>2. CASE q = 1
      <4>1. EndOf(off, 1) <= off[j]
        BY <1>1, <1>7, <2>1, <3>1, <3>2 DEF Layout
      <4> QED BY <1>3, <2>2, <3>2, <4>1
    <3>3. CASE q = 0 /\ j = 1
      BY <1>3, <2>2, <3>3
    <3>4. CASE q = 0 /\ j # 1
      <4>1. EndOf(off, 1) <= off[j] /\ off[1] \in Nat /\ SlotsOf(queue[1].length) \in Nat \ {0}
            /\ EndOf(off, 1) = off[1] + SlotsOf(queue[1].length)
        <5>1. 1 < j
          BY <2>1, <3>4
        <5>2. EndOf(off, 1) <= off[j]
          BY <1>1, <1>7, <2>1, <3>1, <5>1 DEF Layout
        <5> QED BY <1>1, <1>7, <3>1, <5>2, LayoutFacts
      <4> QED BY <1>3, <2>2, <3>4, <4>1
    <3> QED BY <3>2, <3>3, <3>4
  <2>4. queue'[i] = queue[j] /\ new[i] = off[j] - d
    BY <1>3, <1>7, <1>8, <1>9
  <2>5. EndOf(new, i)' = new[i] + SlotsOf(queue[j].length)
    BY <2>1, <2>4 DEF EndOf
  <2>6. EndOf(new, i)' = EndOf(off, j) - d
    BY <2>2, <2>4, <2>5
  <2> QED BY <2>1, <2>2, <2>3, <2>4, <2>6
<1>10. ASSUME NEW i \in 1 .. k - q
       PROVE  /\ new[i] \in Nat /\ msgs'[Slot(new[i])'] = queue'[i]
              /\ Behind(EndOf(new, i - 1), new[i], SlotsOf(queue[i].length))'
              /\ EndOf(new, i)' <= Used'
  <2>1. PICK j : j = i + q
    OBVIOUS
  <2>2. /\ j \in 1 .. k /\ new[i] = off[j] - d /\ off[j] \in Nat /\ off[j] >= d
        /\ queue'[i] = queue[j] /\ SlotsOf(queue[j].length) \in Nat \ {0}
        /\ EndOf(off, j) = off[j] + SlotsOf(queue[j].length) /\ EndOf(off, j) <= u
        /\ EndOf(new, i)' = EndOf(off, j) - d
    BY <1>9, <2>1
  <2>3. PICK o \in Nat, n \in Nat \ {0} : o = off[j] /\ n = SlotsOf(queue[j].length)
    BY <2>2
  <2>4. /\ o >= d /\ o + n <= u /\ o - d \in Nat /\ d + (o - d) = o /\ new[i] = o - d
        /\ o \in 1 .. NElems - 1 /\ EndOf(new, i)' = o + n - d
    <3>1. o >= d /\ o + n <= u /\ new[i] = o - d /\ EndOf(new, i)' = o + n - d
      BY <2>2, <2>3
    <3>2. d \in Nat \ {0} /\ u \in Nat /\ NElems \in Nat /\ u <= NElems
      BY <1>2, <1>3, RingConsts
    <3>3. o - d \in Nat /\ d + (o - d) = o /\ o \in 1 .. NElems - 1
      BY <2>3, <3>1, <3>2
    <3> QED BY <3>1, <3>3
  <2>5. msgs[Slot(o)] = queue[j] /\ Behind(EndOf(off, j - 1), o, n)
    BY <1>1, <1>7, <2>2, <2>3 DEF Layout
  <2>6. msgs'[Slot(new[i])'] = queue'[i]
    BY <1>5, <1>6, <2>2, <2>4, <2>5
  <2>7. EndOf(new, i)' <= Used'
    <3>1. d \in Nat /\ u \in Nat
      BY <1>2, <1>3, RingConsts
    <3>2. o + n - d <= u - d
      BY <2>3, <2>4, <3>1
    <3> QED BY <1>5, <2>4, <3>2
  <2>8. SlotsOf(queue'[i].length) = n
    BY <2>2, <2>3
  \* The record before the message is still there, or was consumed.
  <2>9. \/ EndOf(new, i - 1)' = new[i]
        \/ EndOf(new, i - 1)' = EndOf(off, j - 1) - d /\ EndOf(off, j - 1) \in Nat
           /\ EndOf(off, j - 1) >= d
    <3>1. CASE i = 1 /\ q = 0
      <4>1. i - 1 = 0 /\ j = 1 /\ o = d /\ new[i] = 0
        BY <1>3, <2>1, <2>3, <2>4, <3>1
      <4>2. EndOf(new, 0)' = 0
        BY DEF EndOf
      <4> QED BY <4>1, <4>2
    <3>2. CASE i = 1 /\ q = 1
      <4>1. i - 1 = 0 /\ j - 1 = 1 /\ EndOf(off, 1) = d
        BY <1>3, <2>1, <3>2
      <4>2. EndOf(new, 0)' = 0
        BY DEF EndOf
      <4> QED BY <1>3, <4>1, <4>2
    <3>3. CASE i # 1
      <4>1. PICK b \in 1 .. k - q : b = i - 1
        BY <1>7, <3>3
      <4>2. PICK c : c = b + q /\ c = j - 1
        BY <1>3, <2>1, <4>1
      <4>3. /\ EndOf(new, b)' = EndOf(off, c) - d /\ off[c] \in Nat /\ off[c] >= d
            /\ EndOf(off, c) = off[c] + SlotsOf(queue[c].length) /\ SlotsOf(queue[c].length) \in Nat
        BY <1>9, <4>2
      <4>4. PICK x \in Nat, y \in Nat : x = off[c] /\ y = SlotsOf(queue[c].length)
        BY <4>3
      <4>5. x + y \in Nat /\ x + y >= d
        BY <1>3, <4>3, <4>4
      <4> QED BY <4>1, <4>2, <4>3, <4>4, <4>5
    <3> QED BY <3>1, <3>2, <3>3
  <2>10. Behind(EndOf(new, i - 1), new[i], SlotsOf(queue[i].length))'
    <3>1. CASE EndOf(new, i - 1)' = new[i]
      BY <3>1 DEF Behind
    <3>2. CASE EndOf(new, i - 1)' # new[i]
      <4>1. PICK s \in Nat : s = EndOf(off, j - 1) /\ s >= d /\ EndOf(new, i - 1)' = s - d
        BY <2>9, <3>2
      <4>2. s # o
        BY <2>4, <3>2, <4>1
      <4>3. s < o /\ o - s < n /\ msgs[Slot(s)] = Nop(o - s)
        BY <2>5, <4>1, <4>2 DEF Behind
      <4>4. /\ s \in 1 .. NElems - 1 /\ s - d \in Nat /\ d + (s - d) = s
            /\ s - d < o - d /\ (o - d) - (s - d) = o - s
        <5>1. d \in Nat \ {0} /\ s >= d /\ s < o /\ o <= NElems - 1 /\ NElems \in Nat /\ o \in Nat
          BY <1>3, <2>3, <2>4, <4>1, <4>3, RingConsts
        <5> QED BY <4>1, <5>1
      <4>5. msgs'[Slot(s - d)'] = Nop(o - s)
        BY <1>5, <1>6, <4>3, <4>4
      <4> QED BY <2>4, <2>8, <4>1, <4>3, <4>4, <4>5 DEF Behind, Nop
    <3> QED BY <3>1, <3>2
  <2> QED BY <2>4, <2>6, <2>7, <2>10
<1>11. ASSUME NEW i \in 1 .. k - q, NEW j \in 1 .. k - q, i < j
       PROVE  EndOf(new, i)' <= new[j]
  <2>1. PICK a, b : a = i + q /\ b = j + q
    OBVIOUS
  <2>2. a \in 1 .. k /\ EndOf(new, i)' = EndOf(off, a) - d /\ off[a] \in Nat
        /\ EndOf(off, a) = off[a] + SlotsOf(queue[a].length) /\ SlotsOf(queue[a].length) \in Nat
    BY <1>9, <2>1
  <2>3. b \in 1 .. k /\ new[j] = off[b] - d /\ off[b] \in Nat
    BY <1>9, <2>1
  <2>4. a < b
    BY <1>3, <1>11, <2>1
  <2>5. EndOf(off, a) <= off[b]
    BY <1>1, <1>7, <2>2, <2>3, <2>4 DEF Layout
  <2>6. EndOf(off, a) \in Nat /\ d \in Nat
    BY <1>3, <2>2
  <2>7. PICK x \in Nat, y \in Nat, z \in Nat : x = EndOf(off, a) /\ y = off[b] /\ z = d
    BY ONLY <2>3, <2>6
  <2>8. x <= y /\ EndOf(new, i)' = x - z /\ new[j] = y - z
    BY ONLY <2>2, <2>3, <2>5, <2>7
  <2>9. x - z <= y - z
    BY ONLY <2>8, x \in Nat, y \in Nat, z \in Nat
  <2> QED BY ONLY <2>8, <2>9
<1>12. EndOf(new, k - q)' = Used'
  <2>1. EndOf(off, k) = u
    BY <1>1, <1>2, <1>7 DEF Layout
  <2>2. CASE k - q = 0
    <3>1. q = 1 /\ k = 1
      BY <1>3, <1>7, <2>2
    <3>2. d = u
      BY <1>3, <2>1, <3>1
    <3>3. EndOf(new, 0)' = 0
      BY DEF EndOf
    <3> QED BY <1>2, <1>5, <2>2, <3>2, <3>3
  <2>3. CASE k - q # 0
    <3>1. PICK i \in 1 .. k - q : i = k - q
      BY <1>7, <2>3
    <3>2. k = i + q
      BY <1>3, <1>7, <3>1
    <3>3. EndOf(new, i)' = EndOf(off, k) - d
      BY <1>9, <3>2
    <3> QED BY <1>5, <2>1, <3>1, <3>3
  <2> QED BY <2>2, <2>3
<1>13. Layout(new)'
  <2>1. Len(queue') = k - q
    BY <1>3, <1>7
  <2>2. new \in [1 .. Len(queue') -> Nat]
    BY <1>8, <1>10, <2>1
  <2> QED BY <1>10, <1>11, <1>12, <2>1, <2>2 DEF Layout
<1>14. DropInv' /\ (peek' # "idle" => Used' > 0) /\ Used' <= NElems
  <2>1. overflow => u > d
    BY <1>0, <1>2, <1>3 DEF DropInv
  <2>2. overflow' => Used' > 0
    BY <1>2, <1>3, <1>4, <1>5, <2>1
  <2>3. Used' <= NElems
    <3>1. Used' = u - d
      BY <1>5
    <3>2. NElems \in Nat
      BY RingConsts
    <3> QED BY <3>1, <3>2
  <2> QED BY <1>4, <2>2, <2>3 DEF DropInv
<1>15. RingTypeOK'
  BY <1>0, <1>3, <1>4, <1>5, <1>6 DEF RingTypeOK
<1> QED BY <1>13, <1>14, <1>15 DEF RingInv

\* An empty ring.
LEMMA RingInitOK == RingInit => RingInv
<1> SUFFICES ASSUME RingInit PROVE RingInv
  OBVIOUS
<1>1. RingTypeOK /\ queue = <<>> /\ Len(queue) = 0
  BY RingConsts DEF RingInit, RingTypeOK
<1>2. Used = 0
  <2>1. head = tail
    BY DEF RingInit
  <2> QED BY <1>1, <2>1, SlotFacts
<1>3. PICK off : off = [i \in 1 .. 0 |-> 0]
  OBVIOUS
<1>4. Layout(off)
  BY <1>1, <1>2, <1>3 DEF Layout, EndOf
<1> QED BY <1>1, <1>2, <1>4, RingConsts DEF RingInv, RingInit, DropInv

\* The invariant is inductive.
LEMMA RingStep ==
  ASSUME RingInv, [RingNext]_ringVars
  PROVE  RingInv'
<1> USE DEF RingInv, RingTypeOK, Layout, EndOf, Behind, Slot, Used, Peeked, TailSlot, DropInv
<1>1. ASSUME NEW len \in Lengths, ProduceMessage(len) PROVE RingInv'
  BY <1>1, ProduceKeeps
<1>2. CASE PeekHead
  <2>1. Used > 0 /\ Used \in Nat
    <3> HIDE DEF RingInv, Used, RingTypeOK
    <3>1. RingTypeOK /\ head # tail
      BY <1>2 DEF RingInv, PeekHead
    <3>2. Used \in 0 .. IndexWrap - 1 /\ Used # 0
      BY <3>1, SlotFacts
    <3> QED BY <3>2
  <2> QED BY <1>2, <2>1 DEF PeekHead
<1>3. CASE PeekOverflow
  BY <1>3 DEF PeekOverflow
<1>4. CASE Consume
  BY <1>4, ConsumeKeeps
<1>5. CASE UNCHANGED ringVars
  BY <1>5 DEF ringVars
<1> QED BY <1>1, <1>2, <1>3, <1>4, <1>5 DEF RingNext

\* The invariant holds.
LEMMA RingInvariant == RingSpec => []RingInv
<1>1. RingInv /\ [RingNext]_ringVars => RingInv'
  BY RingStep
<1> QED BY <1>1, RingInitOK, PTL DEF RingSpec

(***************************************************************************)
(* The ring is a queue: whatever its size, the width of its indices and    *)
(* the lengths of the messages, what the agent has in hand between Peek    *)
(* and Consume is the oldest message, intact, or padding, and the ring is  *)
(* found empty only when every message has been consumed.                  *)
(***************************************************************************)
THEOREM RingIsQueue == RingSpec => []PeeksOldest
<1>1. RingInv => PeeksOldest
  <2> SUFFICES ASSUME RingInv PROVE PeeksOldest
    OBVIOUS
  <2>1. tail = head => queue = <<>>
    BY EmptyFacts
  <2>2. ASSUME peek = "message"
        PROVE  Peeked.type = "nop" \/ (queue # <<>> /\ Peeked = Head(queue))
    <3>1. Used > 0
      BY <2>2 DEF RingInv
    <3>2. PICK off : Layout(off)
      BY DEF RingInv
    <3>3. queue \in Seq(RingMsgs)
      BY DEF RingInv, RingTypeOK
    <3> QED BY <3>1, <3>2, <3>3, TailFacts
  <2> QED BY <2>1, <2>2 DEF PeeksOldest
<1> QED BY <1>1, RingInvariant, PTL

(***************************************************************************)
(* Once the kernel has dropped a message, the agent never finds the ring   *)
(* empty: its next Peek gets as far as the CHECK of the overflow counter.  *)
(***************************************************************************)
THEOREM DropsAreNoticed == RingSpec => []DropIsNoticed
<1>1. RingInv => DropIsNoticed
  <2> SUFFICES ASSUME RingInv PROVE DropIsNoticed
    OBVIOUS
  <2>1. overflow => Used > 0
    BY DEF RingInv, DropInv
  <2>2. Used = 0 <=> head = tail
    BY EmptyFacts
  <2> QED BY <2>1, <2>2 DEF DropIsNoticed
<1> QED BY <1>1, RingInvariant, PTL
-------------------------------------------------------------------------------
(***************************************************************************)
(* TaskDiscovery, for any numbers of threads, status words and kernel      *)
(* events.  What the scheduler knows of a thread is right only once the    *)
(* messages on their way are read, so the invariant (AgreeInv) is about    *)
(* the chain from what is known through those messages to the truth: the   *)
(* first follows what is known, each the one before it, and the last ends  *)
(* in the truth; and a thread whose word the scan has passed sends them    *)
(* here (ToHere).  WordInv and CopyInv say what a status word, and a copy  *)
(* of one that may be old, tell about its thread.  CalmInv is what holds   *)
(* in addition as long as no thread has come back.                         *)
(***************************************************************************)

SwWords == [inuse : BOOLEAN, gtid : Gtids \cup {NoGtid}, barrier : Nat, runnable : BOOLEAN,
            canfree : BOOLEAN, brandnew : BOOLEAN]
Letters == [type : {"TASK_NEW", "TASK_WAKEUP", "TASK_DEPARTED"}, gtid : Gtids, seqnum : Nat,
            runnable : BOOLEAN, word : Words]
Views == {Unknown} \cup [alive : {TRUE}, runnable : BOOLEAN, seqnum : Nat, word : Words]
Copied == {"barrier", "flags", "associate"}

DiscTypeOK ==
  /\ sw \in [Words -> SwWords]
  /\ live \in [Gtids -> Words \cup {NoWord}]
  /\ toQueue \in [Gtids -> {"old", "default"}]
  /\ inbox \in Seq(Letters)
  /\ todoK \in Nat
  /\ past \in [Gtids -> {"never", "early", "late", "churned"}]
  /\ known \in [Gtids -> Views]
  /\ disc \in [at : {"old", "scan", "drain"} \cup Copied, word : Words, barrier : Nat,
               runnable : BOOLEAN, canfree : BOOLEAN, gtid : Gtids \cup {NoGtid}]
  /\ estales \in {0, 1}
  /\ confused \subseteq Gtids
  /\ dfail \in {"none", "AlreadyHadTask", "RepeatedEstale", "DispatchMessage"}

\* A thread in ghOSt has one status word that says so; the others can be freed.
WordInv ==
  /\ \A t \in Gtids : Live(t) => sw[live[t]].gtid = t /\ sw[live[t]].inuse /\ ~sw[live[t]].canfree
  /\ \A w \in Words : ~sw[w].inuse => sw[w] = FreeWord
  /\ \A w \in Words : sw[w].inuse =>
       /\ sw[w].gtid \in Gtids
       /\ sw[w].canfree \/ live[sw[w].gtid] = w
       /\ sw[w].brandnew => sw[w].runnable /\ ~sw[w].canfree /\ sw[w].barrier = 0

\* The copy is of a word in use, which may have changed since.
CopyInv ==
  disc.at \in Copied =>
    LET w == sw[disc.word] IN
    /\ w.inuse
    /\ disc.at \in {"flags", "associate"} => disc.barrier <= w.barrier
    /\ disc.at = "associate" =>
         /\ disc.gtid = w.gtid
         /\ disc.canfree => w.canfree
         /\ disc.barrier = w.barrier => disc.runnable = w.runnable

\* The scan has dealt with word w.
Passed(w) == disc.at = "drain" \/ w < disc.word

DiscScanInv ==
  /\ disc.at = "old" => disc.word = 0 /\ inbox = <<>>
  /\ \A t \in Gtids : disc.at = "old" => toQueue[t] = "old"
  /\ \A t \in Gtids : toQueue[t] = "old" =>
       known[t] = Unknown /\ \A i \in 1 .. Len(inbox) : inbox[i].gtid # t
  /\ \A t \in Gtids : known[t].alive /\ disc.at # "drain" =>
       known[t].word < disc.word /\ sw[known[t].word].inuse /\ sw[known[t].word].gtid = t

-------------------------------------------------------------------------------
(* What the agent knows, once it has read its messages.                     *)

\* What it ought to know of a thread.
Truth(t) ==
  IF Live(t) /\ ~sw[live[t]].brandnew
    THEN [alive |-> TRUE, runnable |-> sw[live[t]].runnable,
          seqnum |-> sw[live[t]].barrier, word |-> live[t]]
    ELSE Unknown

\* What it knows after message m.
After(m) ==
  IF m.type = "TASK_DEPARTED" THEN Unknown
  ELSE [alive |-> TRUE, runnable |-> m.runnable, seqnum |-> m.seqnum, word |-> m.word]

\* Message m can follow what is known.
Follows(k, m) ==
  CASE m.type = "TASK_NEW"    -> k = Unknown
    [] m.type = "TASK_WAKEUP" -> k.alive /\ ~k.runnable /\ k.seqnum < m.seqnum /\ k.word = m.word
                                 /\ m.runnable
    [] OTHER                  -> k.alive /\ k.word = m.word

\* The messages from lo to hi are not of thread t.
Absent(t, lo, hi) == \A l \in lo .. hi : inbox[l].gtid # t

\* The messages of a thread lead from what is known of it to the truth.
FirstOK(t) ==
  \A i \in 1 .. Len(inbox) : inbox[i].gtid = t /\ Absent(t, 1, i - 1) => Follows(known[t], inbox[i])
ChainOK(t) ==
  \A i, j \in 1 .. Len(inbox) :
    i < j /\ inbox[i].gtid = t /\ inbox[j].gtid = t /\ Absent(t, i + 1, j - 1) =>
      Follows(After(inbox[i]), inbox[j])
LastOK(t) ==
  \A i \in 1 .. Len(inbox) :
    inbox[i].gtid = t /\ Absent(t, i + 1, Len(inbox)) => After(inbox[i]) = Truth(t)
NoneOK(t) ==
  toQueue[t] = "default" /\ Absent(t, 1, Len(inbox)) => known[t] = Truth(t)

ViewOK(t) == FirstOK(t) /\ ChainOK(t) /\ LastOK(t) /\ NoneOK(t)

\* A thread that the scan has passed sends its messages here, the last one for
\* a word that is to be freed.
ToHere ==
  /\ \A t \in Gtids : Live(t) /\ toQueue[t] = "old" => ~Passed(live[t])
  /\ \A w \in Words : sw[w].inuse /\ sw[w].canfree /\ Passed(w) =>
       \E i \in 1 .. Len(inbox) :
         inbox[i].type = "TASK_DEPARTED" /\ inbox[i].gtid = sw[w].gtid /\ inbox[i].word = w

AgreeInv ==
  /\ \A t \in Gtids : ViewOK(t)
  /\ ToHere

-------------------------------------------------------------------------------
(* Nobody comes back.                                                       *)

NoChurn == \A t \in Gtids : past[t] # "churned"

\* A word whose barrier does not change while the thread is in ghOSt.
Settled(w) == w.runnable /\ ~w.brandnew

OneEstale ==
  disc.at \in Copied =>
    LET w == sw[disc.word] IN
    /\ estales = 1 /\ ~w.canfree => Settled(w)
    /\ disc.at \in {"flags", "associate"} /\ ~w.canfree =>
         IF estales = 1 THEN disc.barrier = w.barrier ELSE disc.barrier = w.barrier \/ Settled(w)

OneLife ==
  /\ \A t \in Gtids : past[t] = "never" => ~Live(t) /\ \A w \in Words : ~(sw[w].inuse /\ sw[w].gtid = t)
  /\ \A v, w \in Words : sw[v].inuse /\ sw[w].inuse /\ sw[v].gtid = sw[w].gtid => v = w
  /\ \A t \in Gtids : Live(t) /\ toQueue[t] = "default" /\ past[t] = "early" => Passed(live[t])

Departures ==
  \A i \in 1 .. Len(inbox) : inbox[i].type = "TASK_DEPARTED" =>
    LET w == sw[inbox[i].word] IN
    /\ w.inuse /\ w.canfree /\ w.gtid = inbox[i].gtid
    /\ Passed(inbox[i].word)
    /\ Absent(inbox[i].gtid, i + 1, Len(inbox))

CalmInv == confused = {} /\ dfail = "none" /\ OneEstale /\ OneLife /\ Departures

DiscInv ==
  /\ DiscTypeOK /\ WordInv /\ CopyInv
  /\ dfail = "none" => DiscScanInv
  /\ dfail = "none" /\ confused = {} => AgreeInv
  /\ NoChurn => CalmInv
-------------------------------------------------------------------------------
(* Views and the messages that lead to them.                                *)

\* Without messages on the way.
LEMMA ViewAbsent ==
  ASSUME NEW t \in Gtids, Absent(t, 1, Len(inbox))',
         toQueue'[t] = "default" => known'[t] = Truth(t)'
  PROVE  ViewOK(t)'
BY DEF ViewOK, FirstOK, ChainOK, LastOK, NoneOK, Absent

\* Nothing that concerns the thread has happened.
LEMMA ViewSame ==
  ASSUME NEW t \in Gtids, ViewOK(t), inbox' = inbox, known'[t] = known[t],
         Truth(t)' = Truth(t), toQueue'[t] = toQueue[t]
  PROVE  ViewOK(t)'
BY DEF ViewOK, FirstOK, ChainOK, LastOK, NoneOK, Absent

\* A message to another thread is sent.
LEMMA ViewOther ==
  ASSUME NEW t \in Gtids, ViewOK(t), inbox \in Seq(Letters), NEW m \in Letters, m.gtid # t,
         inbox' = Append(inbox, m), known'[t] = known[t],
         Truth(t)' = Truth(t), toQueue'[t] = toQueue[t]
  PROVE  ViewOK(t)'
<1>1. PICK n \in Nat : n = Len(inbox)
  OBVIOUS
<1>2. Len(inbox') = n + 1 /\ inbox'[n + 1] = m /\ \A i \in 1 .. n : inbox'[i] = inbox[i]
  BY <1>1
<1>3. ASSUME NEW i \in 1 .. n + 1, inbox'[i].gtid = t PROVE i \in 1 .. n /\ inbox'[i] = inbox[i]
  BY <1>2, <1>3
<1>4. ASSUME NEW lo \in 1 .. n + 2, NEW hi \in 0 .. n, Absent(t, lo, hi)' PROVE Absent(t, lo, hi)
  BY <1>2, <1>4 DEF Absent
<1>5. FirstOK(t)'
  <2>1. ASSUME NEW i \in 1 .. n + 1, inbox'[i].gtid = t, Absent(t, 1, i - 1)'
        PROVE  Follows(known[t], inbox'[i])
    <3>1. i \in 1 .. n /\ inbox'[i] = inbox[i] /\ Absent(t, 1, i - 1)
      <4>1. i \in 1 .. n /\ inbox'[i] = inbox[i]
        BY <1>3, <2>1
      <4>2. i - 1 \in 0 .. n /\ 1 \in 1 .. n + 2
        BY <4>1
      <4> QED BY <1>4, <2>1, <4>1, <4>2
    <3> QED BY <1>1, <2>1, <3>1 DEF ViewOK, FirstOK
  <2> QED BY <1>2, <2>1 DEF FirstOK, Follows
<1>6. ChainOK(t)'
  <2>1. ASSUME NEW i \in 1 .. n + 1, NEW j \in 1 .. n + 1, i < j, inbox'[i].gtid = t,
               inbox'[j].gtid = t, Absent(t, i + 1, j - 1)'
        PROVE  Follows(After(inbox'[i]), inbox'[j])
    <3>1. i \in 1 .. n /\ inbox'[i] = inbox[i] /\ j \in 1 .. n /\ inbox'[j] = inbox[j]
      BY <1>3, <2>1
    <3>2. i + 1 \in 1 .. n + 2 /\ j - 1 \in 0 .. n
      BY <3>1
    <3>3. Absent(t, i + 1, j - 1)
      BY <1>4, <2>1, <3>2
    <3> QED BY <1>1, <2>1, <3>1, <3>3 DEF ViewOK, ChainOK
  <2> QED BY <1>2, <2>1 DEF ChainOK, Follows, After
<1>7. LastOK(t)'
  <2>1. ASSUME NEW i \in 1 .. n + 1, inbox'[i].gtid = t, Absent(t, i + 1, n + 1)'
        PROVE  After(inbox'[i]) = Truth(t)
    <3>1. i \in 1 .. n /\ inbox'[i] = inbox[i]
      BY <1>3, <2>1
    <3>2. Absent(t, i + 1, n)
      BY <1>2, <2>1, <3>1 DEF Absent
    <3> QED BY <1>1, <2>1, <3>1, <3>2 DEF ViewOK, LastOK
  <2> QED BY <1>2, <2>1 DEF LastOK, After
<1>8. NoneOK(t)'
  <2>1. ASSUME Absent(t, 1, n + 1)' PROVE Absent(t, 1, n)
    BY <1>2, <2>1 DEF Absent
  <2> QED BY <1>1, <1>2, <2>1 DEF ViewOK, NoneOK
<1> QED BY <1>5, <1>6, <1>7, <1>8 DEF ViewOK

\* A message to the thread is sent.
LEMMA ViewSent ==
  ASSUME NEW t \in Gtids, ViewOK(t), inbox \in Seq(Letters), NEW m \in Letters, m.gtid = t,
         inbox' = Append(inbox, m), known'[t] = known[t],
         Absent(t, 1, Len(inbox)) => known[t] = Truth(t),
         Follows(Truth(t), m), After(m) = Truth(t)'
  PROVE  ViewOK(t)'
<1>1. PICK n \in Nat : n = Len(inbox)
  OBVIOUS
<1>2. Len(inbox') = n + 1 /\ inbox'[n + 1] = m /\ \A i \in 1 .. n : inbox'[i] = inbox[i]
  BY <1>1
<1>3. ASSUME NEW lo \in 1 .. n + 2, NEW hi \in 0 .. n, Absent(t, lo, hi)' PROVE Absent(t, lo, hi)
  BY <1>2, <1>3 DEF Absent
<1>4. FirstOK(t)'
  <2>1. ASSUME NEW i \in 1 .. n + 1, inbox'[i].gtid = t, Absent(t, 1, i - 1)'
        PROVE  Follows(known[t], inbox'[i])
    <3>1. i - 1 \in 0 .. n /\ 1 \in 1 .. n + 2
      OBVIOUS
    <3>2. Absent(t, 1, i - 1)
      BY <1>3, <2>1, <3>1
    <3>3. CASE i = n + 1
      <4>1. i - 1 = n
        BY <3>3
      <4> QED BY <1>1, <1>2, <3>2, <3>3, <4>1
    <3>4. CASE i \in 1 .. n
      BY <1>1, <1>2, <2>1, <3>2, <3>4 DEF ViewOK, FirstOK
    <3>5. i = n + 1 \/ i \in 1 .. n
      OBVIOUS
    <3> QED BY <3>3, <3>4, <3>5
  <2> QED BY <1>2, <2>1 DEF FirstOK, Follows
<1>5. ChainOK(t)'
  <2>1. ASSUME NEW i \in 1 .. n + 1, NEW j \in 1 .. n + 1, i < j, inbox'[i].gtid = t,
               inbox'[j].gtid = t, Absent(t, i + 1, j - 1)'
        PROVE  Follows(After(inbox'[i]), inbox'[j])
    <3>1. i \in 1 .. n /\ inbox'[i] = inbox[i] /\ i + 1 \in 1 .. n + 2 /\ j - 1 \in 0 .. n
      BY <1>2, <2>1
    <3>2. Absent(t, i + 1, j - 1)
      BY <1>3, <2>1, <3>1
    <3>3. CASE j = n + 1
      <4>1. j - 1 = n
        BY <3>3
      <4>2. After(inbox[i]) = Truth(t)
        BY <1>1, <2>1, <3>1, <3>2, <4>1 DEF ViewOK, LastOK
      <4> QED BY <1>2, <3>1, <3>3, <4>2
    <3>4. CASE j \in 1 .. n
      BY <1>1, <1>2, <2>1, <3>1, <3>2, <3>4 DEF ViewOK, ChainOK
    <3>5. j = n + 1 \/ j \in 1 .. n
      OBVIOUS
    <3> QED BY <3>3, <3>4, <3>5
  <2> QED BY <1>2, <2>1 DEF ChainOK, Follows, After
<1>6. LastOK(t)'
  <2>1. ASSUME NEW i \in 1 .. n + 1, inbox'[i].gtid = t, Absent(t, i + 1, n + 1)'
        PROVE  After(inbox'[i]) = Truth(t)'
    <3>1. i = n + 1
      <4>1. SUFFICES ASSUME i # n + 1 PROVE FALSE
        OBVIOUS
      <4>2. n + 1 \in i + 1 .. n + 1
        BY <4>1
      <4> QED BY <1>2, <2>1, <4>2 DEF Absent
    <3> QED BY <1>2, <3>1
  <2> QED BY <1>2, <2>1 DEF LastOK, After
<1>7. NoneOK(t)'
  BY <1>2 DEF NoneOK, Absent
<1> QED BY <1>4, <1>5, <1>6, <1>7 DEF ViewOK

\* The first message is handled.
LEMMA ViewRead ==
  ASSUME NEW t \in Gtids, ViewOK(t), inbox \in Seq(Letters), inbox # <<>>, inbox' = Tail(inbox),
         known'[t] = IF Head(inbox).gtid = t THEN After(Head(inbox)) ELSE known[t],
         Truth(t)' = Truth(t), toQueue'[t] = toQueue[t]
  PROVE  ViewOK(t)'
<1>1. PICK n \in Nat : n = Len(inbox) - 1
  OBVIOUS
<1>2. Len(inbox) = n + 1 /\ Len(inbox') = n /\ Head(inbox) = inbox[1]
      /\ \A i \in 1 .. n : inbox'[i] = inbox[i + 1]
  BY <1>1
<1>3. ASSUME NEW lo \in 1 .. n + 1, NEW hi \in 0 .. n, Absent(t, lo, hi)'
      PROVE  Absent(t, lo + 1, hi + 1)
  <2>1. ASSUME NEW l \in lo + 1 .. hi + 1 PROVE inbox[l].gtid # t
    <3>1. l - 1 \in lo .. hi /\ l - 1 \in 1 .. n /\ (l - 1) + 1 = l
      OBVIOUS
    <3> QED BY <1>2, <1>3, <3>1 DEF Absent
  <2> QED BY <2>1 DEF Absent
<1>4. FirstOK(t)'
  <2>1. ASSUME NEW i \in 1 .. n, inbox'[i].gtid = t, Absent(t, 1, i - 1)'
        PROVE  Follows(known'[t], inbox'[i])
    <3>1. i - 1 \in 0 .. n /\ 1 \in 1 .. n + 1 /\ i + 1 \in 1 .. n + 1 /\ 1 \in 1 .. n + 1
          /\ 1 < i + 1 /\ (i - 1) + 1 = i /\ (i + 1) - 1 = i /\ 1 + 1 = 2
      OBVIOUS
    <3>2. Absent(t, 2, i)
      BY <1>3, <2>1, <3>1
    <3>3. inbox'[i] = inbox[i + 1]
      BY <1>2
    <3>4. CASE inbox[1].gtid = t
      <4>1. Follows(After(inbox[1]), inbox[i + 1])
        BY <1>2, <2>1, <3>1, <3>2, <3>3, <3>4 DEF ViewOK, ChainOK
      <4> QED BY <1>2, <3>3, <3>4, <4>1
    <3>5. CASE inbox[1].gtid # t
      <4>1. Absent(t, 1, i)
        BY <3>2, <3>5 DEF Absent
      <4>2. Follows(known[t], inbox[i + 1])
        BY <1>2, <2>1, <3>1, <3>3, <4>1 DEF ViewOK, FirstOK
      <4> QED BY <1>2, <3>3, <3>5, <4>2
    <3> QED BY <3>4, <3>5
  <2> QED BY <1>2, <2>1 DEF FirstOK, Follows
<1>5. ChainOK(t)'
  <2>1. ASSUME NEW i \in 1 .. n, NEW j \in 1 .. n, i < j, inbox'[i].gtid = t,
               inbox'[j].gtid = t, Absent(t, i + 1, j - 1)'
        PROVE  Follows(After(inbox'[i]), inbox'[j])
    <3>1. PICK a \in 1 .. n + 1, b \in 1 .. n + 1 : a = i + 1 /\ b = j + 1
      OBVIOUS
    <3>2. i + 1 \in 1 .. n + 1 /\ j - 1 \in 0 .. n /\ a < b /\ (j - 1) + 1 = b - 1
      BY <2>1, <3>1
    <3>3. Absent(t, a + 1, b - 1)
      BY <1>3, <2>1, <3>1, <3>2
    <3>4. inbox'[i] = inbox[a] /\ inbox'[j] = inbox[b]
      BY <1>2, <3>1
    <3> QED BY <1>2, <2>1, <3>2, <3>3, <3>4 DEF ViewOK, ChainOK
  <2> QED BY <1>2, <2>1 DEF ChainOK, Follows, After
<1>6. LastOK(t)'
  <2>1. ASSUME NEW i \in 1 .. n, inbox'[i].gtid = t, Absent(t, i + 1, n)'
        PROVE  After(inbox'[i]) = Truth(t)
    <3>1. PICK a \in 1 .. n + 1 : a = i + 1
      OBVIOUS
    <3>2. Absent(t, a + 1, n + 1)
      BY <1>3, <2>1, <3>1
    <3>3. inbox'[i] = inbox[a]
      BY <1>2, <3>1
    <3> QED BY <1>2, <2>1, <3>2, <3>3 DEF ViewOK, LastOK
  <2> QED BY <1>2, <2>1 DEF LastOK, After
<1>7. NoneOK(t)'
  <2>1. SUFFICES ASSUME toQueue[t] = "default", Absent(t, 1, n)' PROVE known'[t] = Truth(t)
    BY <1>2 DEF NoneOK
  <2>2. Absent(t, 2, n + 1)
    <3>1. 1 \in 1 .. n + 1 /\ n \in 0 .. n /\ 1 + 1 = 2
      OBVIOUS
    <3> QED BY <1>3, <2>1, <3>1
  <2>3. CASE inbox[1].gtid = t
    <3>1. 1 \in 1 .. n + 1 /\ 1 + 1 = 2
      OBVIOUS
    <3> QED BY <1>2, <2>2, <2>3, <3>1 DEF ViewOK, LastOK
  <2>4. CASE inbox[1].gtid # t
    <3>1. Absent(t, 1, n + 1)
      BY <2>2, <2>4 DEF Absent
    <3> QED BY <1>2, <2>1, <2>4, <3>1 DEF ViewOK, NoneOK
  <2> QED BY <2>3, <2>4
<1> QED BY <1>4, <1>5, <1>6, <1>7 DEF ViewOK
-------------------------------------------------------------------------------
(* The kernel does something to thread t and its word w.                    *)

Letter(t, type, barrier, runnable, w) ==
  [type |-> type, gtid |-> t, seqnum |-> barrier, runnable |-> runnable, word |-> w]

\* The inbox grows by messages of thread t only, if at all.
Grows(t) ==
  /\ inbox' \in Seq(Letters) /\ Len(inbox) \in Nat /\ Len(inbox') \in Nat
  /\ Len(inbox) <= Len(inbox')
  /\ \A i \in 1 .. Len(inbox) : inbox'[i] = inbox[i]
  /\ \A i \in 1 .. Len(inbox') : i \in 1 .. Len(inbox) \/ inbox'[i].gtid = t

\* What Send does to the inbox.
LEMMA SendEffect ==
  ASSUME inbox \in Seq(Letters), NEW t \in Gtids, NEW q,
         NEW type \in {"TASK_NEW", "TASK_WAKEUP", "TASK_DEPARTED"}, NEW b \in Nat,
         NEW r \in BOOLEAN, NEW w \in Words, Send(t, q, type, b, r, w)
  PROVE  /\ Grows(t) /\ Letter(t, type, b, r, w) \in Letters
         /\ q # "default" => inbox' = inbox
         /\ q = "default" => inbox' = Append(inbox, Letter(t, type, b, r, w))
         /\ \A i \in 1 .. Len(inbox') : i \in 1 .. Len(inbox) \/ inbox'[i].type = type
<1>1. PICK m : m = Letter(t, type, b, r, w)
  OBVIOUS
<1>2. m \in Letters /\ m.gtid = t /\ m.type = type
  BY <1>1 DEF Letters, Letter
<1>3. inbox' = IF q = "default" THEN Append(inbox, m) ELSE inbox
  BY <1>1 DEF Send, Letter
<1>4. CASE q = "default"
  <2>1. PICK n \in Nat : n = Len(inbox)
    OBVIOUS
  <2>2. /\ inbox' \in Seq(Letters) /\ Len(inbox') = n + 1 /\ inbox'[n + 1] = m
        /\ \A i \in 1 .. n : inbox'[i] = inbox[i]
    BY <1>2, <1>3, <1>4, <2>1
  <2>3. \A i \in 1 .. n + 1 : i \in 1 .. n \/ i = n + 1
    OBVIOUS
  <2> QED BY <1>1, <1>2, <1>3, <1>4, <2>1, <2>2, <2>3 DEF Grows
<1>5. CASE q # "default"
  BY <1>1, <1>2, <1>3, <1>5 DEF Grows
<1> QED BY <1>4, <1>5

\* What all of its actions have in common.
KernelChange(t, w) ==
  /\ UNCHANGED <<known, disc, estales, confused, dfail>> /\ dfail = "none"
  /\ sw' \in [Words -> SwWords] /\ \A v \in Words \ {w} : sw'[v] = sw[v]
  /\ \A s \in Gtids \ {t} : live'[s] = live[s] /\ toQueue'[s] = toQueue[s] /\ past'[s] = past[s]
  /\ Grows(t) /\ (toQueue'[t] = "old" => inbox' = inbox /\ toQueue[t] = "old")
  /\ disc.at = "old" => toQueue'[t] = "old"
  /\ \/ live[t] = w /\ sw'[w].barrier > sw[w].barrier
     \/ live[t] = NoWord /\ ~sw[w].inuse
  /\ live' \in [Gtids -> Words \cup {NoWord}] /\ live'[t] \in {w, NoWord}
  /\ sw'[w].inuse /\ sw'[w].gtid = t /\ (sw'[w].canfree <=> live'[t] = NoWord)
  /\ sw'[w].brandnew => sw'[w].runnable /\ ~sw'[w].canfree /\ sw'[w].barrier = 0

\* The status words are numbered from 0.
LEMMA WordFacts ==
  /\ Words \subseteq Nat /\ NoWord \notin Words /\ 0 \in Words /\ NWords \in Nat \ {0}
  /\ \A w \in Words : w <= NWords - 1 /\ (w < NWords - 1 => w + 1 \in Words)
BY DiscoveryAssumption DEF Words, NoWord

\* A task that the scheduler has.
LEMMA AliveView ==
  ASSUME NEW k \in Views, k.alive
  PROVE  /\ k.word \in Words /\ k.alive = TRUE /\ k.runnable \in BOOLEAN /\ k.seqnum \in Nat
         /\ k \in [alive : {TRUE}, runnable : BOOLEAN, seqnum : Nat, word : Words]
<1>1. k # Unknown
  BY DEF Unknown
<1>2. k \in [alive : {TRUE}, runnable : BOOLEAN, seqnum : Nat, word : Words]
  BY <1>1 DEF Views
<1> QED BY <1>2

\* It has it or not.
LEMMA ViewAlive ==
  ASSUME NEW k \in Views
  PROVE  k.alive \in BOOLEAN
<1>1. CASE k = Unknown
  BY <1>1 DEF Unknown
<1>2. CASE k # Unknown
  BY <1>2 DEF Views
<1> QED BY <1>1, <1>2

\* Of the word itself.
LEMMA ChangedWord ==
  ASSUME DiscInv, NEW t \in Gtids, NEW w \in Words, KernelChange(t, w)
  PROVE  /\ sw[w].inuse => live[t] = w /\ sw[w].gtid = t /\ ~sw[w].canfree
                           /\ sw'[w].barrier > sw[w].barrier
         /\ \A v \in Words : sw[v].inuse => sw'[v].inuse /\ sw'[v].gtid = sw[v].gtid
<1>1. sw[w].inuse => live[t] = w /\ sw'[w].barrier > sw[w].barrier
  BY DEF KernelChange
<1>2. live[t] = w => sw[w].gtid = t /\ ~sw[w].canfree
  BY WordFacts DEF DiscInv, WordInv, Live
<1>3. ASSUME NEW v \in Words, sw[v].inuse PROVE sw'[v].inuse /\ sw'[v].gtid = sw[v].gtid
  BY <1>1, <1>2, <1>3 DEF KernelChange
<1> QED BY <1>1, <1>2, <1>3

\* The words stay what they are, and the copy of one is no newer than the word.
LEMMA KernelWord ==
  ASSUME DiscInv, NEW t \in Gtids, NEW w \in Words, KernelChange(t, w)
  PROVE  WordInv' /\ CopyInv'
<1>0. DiscTypeOK /\ WordInv /\ CopyInv
  BY DEF DiscInv
<1>1. ASSUME NEW s \in Gtids, live'[s] # NoWord
      PROVE  sw'[live'[s]].gtid = s /\ sw'[live'[s]].inuse /\ ~sw'[live'[s]].canfree
  <2>1. CASE s = t
    BY <1>1, <2>1 DEF KernelChange
  <2>2. CASE s # t
    <3>1. live'[s] = live[s] /\ live[s] \in Words
      BY <1>0, <1>1, <2>2 DEF KernelChange, DiscTypeOK
    <3>2. sw[live[s]].gtid = s /\ sw[live[s]].inuse /\ ~sw[live[s]].canfree
      BY <1>0, <1>1, <3>1 DEF WordInv, Live
    <3>3. live[s] # w
      BY <2>2, <3>2, ChangedWord
    <3> QED BY <3>1, <3>2, <3>3 DEF KernelChange
  <2> QED BY <2>1, <2>2
<1>2. ASSUME NEW v \in Words
      PROVE  /\ ~sw'[v].inuse => sw'[v] = FreeWord
             /\ sw'[v].inuse =>
                  /\ sw'[v].gtid \in Gtids
                  /\ sw'[v].canfree \/ live'[sw'[v].gtid] = v
                  /\ sw'[v].brandnew => sw'[v].runnable /\ ~sw'[v].canfree /\ sw'[v].barrier = 0
  <2>1. CASE v = w
    BY <2>1 DEF KernelChange
  <2>2. CASE v # w
    <3>1. sw'[v] = sw[v]
      BY <2>2 DEF KernelChange
    <3>2. live[t] # v
      BY <2>2, WordFacts DEF KernelChange
    <3>3. \A s \in Gtids \ {t} : live'[s] = live[s]
      BY DEF KernelChange
    <3> QED BY <1>0, <3>1, <3>2, <3>3 DEF WordInv
  <2> QED BY <2>1, <2>2
<1>3. WordInv'
  BY <1>1, <1>2 DEF WordInv, Live, FreeWord
<1>4. CopyInv'
  <2>1. SUFFICES ASSUME disc.at \in Copied
                 PROVE  LET x == sw'[disc.word] IN
                        /\ x.inuse
                        /\ disc.at \in {"flags", "associate"} => disc.barrier <= x.barrier
                        /\ disc.at = "associate" =>
                             /\ disc.gtid = x.gtid
                             /\ disc.canfree => x.canfree
                             /\ disc.barrier = x.barrier => disc.runnable = x.runnable
    BY DEF CopyInv, KernelChange
  <2>2. PICK v \in Words : v = disc.word
    BY <1>0 DEF DiscTypeOK
  <2>3. /\ sw[v].inuse
        /\ disc.at \in {"flags", "associate"} => disc.barrier <= sw[v].barrier
        /\ disc.at = "associate" =>
             /\ disc.gtid = sw[v].gtid
             /\ disc.canfree => sw[v].canfree
             /\ disc.barrier = sw[v].barrier => disc.runnable = sw[v].runnable
    BY <1>0, <2>1, <2>2 DEF CopyInv
  <2>4. CASE v # w
    BY <2>2, <2>3, <2>4 DEF KernelChange
  <2>5. CASE v = w
    <3>1. /\ sw'[v].inuse /\ sw'[v].gtid = sw[v].gtid /\ ~sw[v].canfree
          /\ sw'[v].barrier > sw[v].barrier
      BY <2>3, <2>5, ChangedWord
    <3>2. sw[v].barrier \in Nat /\ sw'[v].barrier \in Nat /\ disc.barrier \in Nat
      BY <1>0 DEF DiscTypeOK, SwWords, KernelChange
    <3> QED BY <2>2, <2>3, <3>1, <3>2
  <2> QED BY <2>4, <2>5
<1> QED BY <1>3, <1>4

\* Threads that are not associated yet stay unknown.
LEMMA KernelScan ==
  ASSUME DiscInv, NEW t \in Gtids, NEW w \in Words, KernelChange(t, w)
  PROVE  DiscScanInv'
<1>0. DiscTypeOK /\ DiscScanInv
  BY DEF DiscInv, KernelChange
<1>1. UNCHANGED <<disc, known>> /\ Grows(t)
  BY DEF KernelChange
<1>2. disc.at = "old" => disc.word = 0 /\ inbox' = <<>>
  BY <1>0 DEF DiscScanInv, KernelChange
<1>3. ASSUME NEW s \in Gtids, disc.at = "old" PROVE toQueue'[s] = "old"
  BY <1>0, <1>3 DEF DiscScanInv, KernelChange
<1>4. ASSUME NEW s \in Gtids, toQueue'[s] = "old"
      PROVE  known[s] = Unknown /\ \A i \in 1 .. Len(inbox') : inbox'[i].gtid # s
  <2>1. toQueue[s] = "old" /\ (s = t => inbox' = inbox)
    BY <1>4 DEF KernelChange
  <2>2. known[s] = Unknown /\ \A i \in 1 .. Len(inbox) : inbox[i].gtid # s
    BY <1>0, <2>1 DEF DiscScanInv
  <2> QED BY <1>1, <2>1, <2>2 DEF Grows
<1>5. ASSUME NEW s \in Gtids, known[s].alive, disc.at # "drain"
      PROVE  /\ known[s].word < disc.word /\ sw'[known[s].word].inuse
             /\ sw'[known[s].word].gtid = s
  <2>1. known[s].word < disc.word /\ sw[known[s].word].inuse /\ sw[known[s].word].gtid = s
    BY <1>0, <1>5 DEF DiscScanInv
  <2>2. known[s].word \in Words
    BY <1>0, <1>5, AliveView DEF DiscTypeOK
  <2> QED BY <2>1, <2>2, ChangedWord
<1> QED BY <1>1, <1>2, <1>3, <1>4, <1>5 DEF DiscScanInv, Unknown

\* What is known of the other threads, and what it leads to.
LEMMA KernelViews ==
  ASSUME DiscInv, NEW t \in Gtids, NEW w \in Words, KernelChange(t, w), confused = {}, ViewOK(t)',
         inbox' = inbox \/ \E m \in Letters : m.gtid = t /\ inbox' = Append(inbox, m),
         live'[t] = w /\ toQueue'[t] = "old" => ~Passed(w),
         live'[t] # w /\ Passed(w) =>
           \E i \in 1 .. Len(inbox') : inbox'[i].type = "TASK_DEPARTED" /\ inbox'[i].gtid = t
                                       /\ inbox'[i].word = w
  PROVE  AgreeInv'
<1>0. DiscTypeOK /\ WordInv /\ AgreeInv /\ inbox \in Seq(Letters) /\ UNCHANGED <<disc, known>>
  BY DEF DiscInv, KernelChange, DiscTypeOK
<1>1. ASSUME NEW s \in Gtids \ {t} PROVE ViewOK(s)' /\ live'[s] = live[s] /\ toQueue'[s] = toQueue[s]
  <2>1. live'[s] = live[s] /\ toQueue'[s] = toQueue[s] /\ ViewOK(s) /\ s \in Gtids
    BY <1>0 DEF KernelChange, AgreeInv
  <2>2. Live(s) => sw'[live[s]] = sw[live[s]]
    <3>1. SUFFICES ASSUME Live(s) PROVE sw'[live[s]] = sw[live[s]]
      OBVIOUS
    <3>2. live[s] \in Words /\ sw[live[s]].gtid = s /\ sw[live[s]].inuse
      BY <1>0, <3>1 DEF DiscTypeOK, WordInv, Live
    <3>3. live[s] # w
      BY <3>2, ChangedWord
    <3> QED BY <3>2, <3>3 DEF KernelChange
  <2>3. Truth(s)' = Truth(s)
    BY <2>1, <2>2 DEF Truth, Live, Unknown
  <2>4. ViewOK(s)'
    <3>1. CASE inbox' = inbox
      BY <1>0, <2>1, <2>3, <3>1, ViewSame
    <3>2. ASSUME NEW m \in Letters, m.gtid = t, inbox' = Append(inbox, m) PROVE ViewOK(s)'
      BY <1>0, <2>1, <2>3, <3>2, ViewOther
    <3> QED BY <3>1, <3>2
  <2> QED BY <2>1, <2>4
<1>2. ASSUME NEW s \in Gtids, live'[s] # NoWord, toQueue'[s] = "old" PROVE ~Passed(live'[s])
  <2>1. CASE s = t
    BY <1>2, <2>1 DEF KernelChange
  <2>2. CASE s # t
    BY <1>0, <1>1, <1>2, <2>2 DEF AgreeInv, ToHere, Live
  <2> QED BY <2>1, <2>2
<1>3. ASSUME NEW v \in Words, sw'[v].inuse, sw'[v].canfree, Passed(v)
      PROVE  \E i \in 1 .. Len(inbox') : inbox'[i].type = "TASK_DEPARTED"
               /\ inbox'[i].gtid = sw'[v].gtid /\ inbox'[i].word = v
  <2>1. CASE v = w
    BY <1>3, <2>1, WordFacts DEF KernelChange
  <2>2. CASE v # w
    <3>1. sw'[v] = sw[v]
      BY <2>2 DEF KernelChange
    <3>2. PICK i \in 1 .. Len(inbox) : inbox[i].type = "TASK_DEPARTED"
            /\ inbox[i].gtid = sw[v].gtid /\ inbox[i].word = v
      BY <1>0, <1>3, <3>1 DEF AgreeInv, ToHere
    <3>3. i \in 1 .. Len(inbox') /\ inbox'[i] = inbox[i]
      BY DEF KernelChange, Grows
    <3> QED BY <3>1, <3>2, <3>3
  <2> QED BY <2>1, <2>2
<1>4. \A v : Passed(v)' <=> Passed(v)
  BY <1>0 DEF Passed
<1>5. ToHere'
  BY <1>2, <1>3, <1>4 DEF ToHere, Live
<1> QED BY <1>1, <1>5 DEF AgreeInv

\* If nobody comes back.
LEMMA KernelCalm ==
  ASSUME DiscInv, NEW t \in Gtids, NEW w \in Words, KernelChange(t, w), NoChurn,
         past'[t] # "never",
         \* The thread is new, or its word was in use.
         past[t] = "never" \/ live[t] = w,
         \* It does not change twice.
         live[t] = w /\ live'[t] = w => ~Settled(sw[w]) /\ Settled(sw'[w]),
         live'[t] # NoWord /\ toQueue'[t] = "default" /\ past'[t] = "early" => Passed(live'[t]),
         \* The last message.
         \A i \in 1 .. Len(inbox') : i \in 1 .. Len(inbox) \/
           (inbox'[i].type = "TASK_DEPARTED" =>
              /\ i = Len(inbox') /\ inbox'[i].word = w
              /\ sw'[w].canfree /\ Passed(w))
  PROVE  CalmInv'
<1>0. /\ DiscTypeOK /\ WordInv /\ CopyInv /\ CalmInv /\ UNCHANGED <<disc, known, estales, confused, dfail>>
  BY DEF DiscInv, KernelChange
<1>1. \A v : Passed(v)' <=> Passed(v)
  BY <1>0 DEF Passed
\* The words of the thread are not others than w.
<1>2. ASSUME NEW v \in Words, sw[v].inuse, sw[v].gtid = t PROVE v = w /\ live[t] = w
  <2>1. past[t] # "never"
    BY <1>0, <1>2 DEF CalmInv, OneLife
  <2>2. live[t] = w /\ sw[w].inuse /\ sw[w].gtid = t
    BY <1>0, <2>1, WordFacts DEF WordInv, Live
  <2> QED BY <1>0, <1>2, <2>2 DEF CalmInv, OneLife
<1>3. OneEstale'
  <2>1. SUFFICES ASSUME disc.at \in Copied
                 PROVE  LET x == sw'[disc.word] IN
                    /\ estales = 1 /\ ~x.canfree => Settled(x)
                    /\ disc.at \in {"flags", "associate"} /\ ~x.canfree =>
                         IF estales = 1 THEN disc.barrier = x.barrier
                                        ELSE disc.barrier = x.barrier \/ Settled(x)
    BY <1>0 DEF OneEstale, Settled
  <2>2. PICK v \in Words : v = disc.word
    BY <1>0 DEF DiscTypeOK
  <2>3. /\ sw[v].inuse /\ (estales = 1 /\ ~sw[v].canfree => Settled(sw[v]))
        /\ disc.at \in {"flags", "associate"} /\ ~sw[v].canfree =>
             IF estales = 1 THEN disc.barrier = sw[v].barrier
                            ELSE disc.barrier = sw[v].barrier \/ Settled(sw[v])
    BY <1>0, <2>1, <2>2 DEF CalmInv, OneEstale, CopyInv
  <2>4. CASE v # w
    BY <2>2, <2>3, <2>4 DEF KernelChange
  <2>5. CASE v = w /\ sw'[v].canfree
    BY <2>2, <2>5
  <2>6. CASE v = w /\ ~sw'[v].canfree
    <3>1. live[t] = w /\ live'[t] = w /\ ~sw[w].canfree
      BY <2>3, <2>6, ChangedWord DEF KernelChange
    <3>2. ~Settled(sw[v]) /\ Settled(sw'[v]) /\ estales = 0
      BY <1>0, <2>3, <2>6, <3>1 DEF DiscTypeOK
    <3> QED BY <2>2, <3>2
  <2> QED BY <2>4, <2>5, <2>6
<1>4. OneLife'
  <2>1. ASSUME NEW s \in Gtids, past'[s] = "never"
        PROVE  live'[s] = NoWord /\ \A v \in Words : ~(sw'[v].inuse /\ sw'[v].gtid = s)
    <3>1. s # t /\ past[s] = "never" /\ live'[s] = live[s]
      BY <2>1 DEF KernelChange
    <3>2. live[s] = NoWord /\ \A v \in Words : ~(sw[v].inuse /\ sw[v].gtid = s)
      BY <1>0, <3>1 DEF CalmInv, OneLife, Live
    <3> QED BY <3>1, <3>2 DEF KernelChange
  <2>2. ASSUME NEW u \in Words, NEW v \in Words, sw'[u].inuse, sw'[v].inuse, sw'[u].gtid = sw'[v].gtid
        PROVE  u = v
    <3>1. \A x \in Words : x # w /\ sw'[x].inuse => sw[x].inuse /\ sw'[x].gtid = sw[x].gtid /\ sw[x].gtid # t
      BY <1>2 DEF KernelChange
    <3>2. sw'[w].gtid = t
      BY DEF KernelChange
    <3> QED BY <1>0, <2>2, <3>1, <3>2 DEF CalmInv, OneLife
  <2>3. ASSUME NEW s \in Gtids, live'[s] # NoWord, toQueue'[s] = "default", past'[s] = "early"
        PROVE  Passed(live'[s])
    <3>1. CASE s = t
      BY <2>3, <3>1
    <3>2. CASE s # t
      BY <1>0, <2>3, <3>2 DEF CalmInv, OneLife, Live, KernelChange
    <3> QED BY <3>1, <3>2
  <2> QED BY <1>1, <2>1, <2>2, <2>3 DEF OneLife, Live
<1>5. Departures'
  <2>0. Grows(t)
    BY DEF KernelChange
  <2>1. ASSUME NEW i \in 1 .. Len(inbox'), inbox'[i].type = "TASK_DEPARTED"
        PROVE  /\ sw'[inbox'[i].word].inuse /\ sw'[inbox'[i].word].canfree
               /\ sw'[inbox'[i].word].gtid = inbox'[i].gtid /\ Passed(inbox'[i].word)
               /\ Absent(inbox[i].gtid, i + 1, Len(inbox))'
    <3>1. CASE i \in 1 .. Len(inbox)
      <4>1. inbox'[i] = inbox[i] /\ inbox[i] \in Letters
        BY <2>0, <3>1 DEF Grows
      <4>2. PICK v \in Words : v = inbox[i].word
        BY <4>1 DEF Letters
      <4>3. /\ sw[v].inuse /\ sw[v].canfree /\ sw[v].gtid = inbox[i].gtid /\ Passed(v)
            /\ Absent(inbox[i].gtid, i + 1, Len(inbox))
        BY <1>0, <2>1, <3>1, <4>1, <4>2 DEF CalmInv, Departures
      <4>4. sw[v].gtid # t /\ v # w
        BY <1>2, <4>3, ChangedWord
      <4>5. sw'[v] = sw[v]
        BY <4>4 DEF KernelChange
      <4>6. Absent(inbox[i].gtid, i + 1, Len(inbox))'
        <5>1. ASSUME NEW l \in i + 1 .. Len(inbox') PROVE inbox'[l].gtid # inbox[i].gtid
          <6>1. l \in 1 .. Len(inbox')
            BY <2>0, <3>1 DEF Grows
          <6>2. CASE l \in 1 .. Len(inbox)
            <7>1. l \in i + 1 .. Len(inbox)
              BY <2>0, <3>1, <6>2 DEF Grows
            <7> QED BY <2>0, <4>3, <6>2, <7>1 DEF Absent, Grows
          <6>3. CASE l \notin 1 .. Len(inbox)
            BY <2>0, <4>3, <4>4, <6>1, <6>3 DEF Grows
          <6> QED BY <6>2, <6>3
        <5> QED BY <4>1, <5>1 DEF Absent
      <4> QED BY <4>1, <4>2, <4>3, <4>5, <4>6
    <3>2. CASE i \notin 1 .. Len(inbox)
      <4>1. i = Len(inbox') /\ inbox'[i].word = w /\ sw'[w].canfree /\ Passed(w)
        BY <2>1, <3>2
      <4>2. inbox'[i].gtid = t
        BY <2>0, <3>2 DEF Grows
      <4>3. Absent(inbox[i].gtid, i + 1, Len(inbox))'
        BY <2>0, <4>1 DEF Absent, Grows
      <4> QED BY <4>1, <4>2, <4>3 DEF KernelChange
    <3> QED BY <3>1, <3>2
  <2> QED BY <1>1, <2>1 DEF Departures
<1> QED BY <1>0, <1>3, <1>4, <1>5 DEF CalmInv

\* With no message of the thread on its way, the scheduler knows the truth.
LEMMA KnownTruth ==
  ASSUME DiscInv, dfail = "none", confused = {}, NEW t \in Gtids, Absent(t, 1, Len(inbox)),
         toQueue[t] = "default" \/ Truth(t) = Unknown
  PROVE  known[t] = Truth(t)
<1>1. AgreeInv /\ DiscScanInv /\ toQueue[t] \in {"old", "default"}
  BY DEF DiscInv, DiscTypeOK
<1> QED BY <1>1 DEF AgreeInv, DiscScanInv, ViewOK, NoneOK

\* The messages of a thread that is not associated yet do not come here.
LEMMA OldView ==
  ASSUME DiscInv, NEW t \in Gtids, NEW w, KernelChange(t, w), toQueue'[t] = "old"
  PROVE  ViewOK(t)'
<1>1. inbox' = inbox /\ toQueue[t] = "old" /\ DiscScanInv
  BY DEF KernelChange, DiscInv
<1>2. Absent(t, 1, Len(inbox))'
  BY <1>1 DEF DiscScanInv, Absent
<1> QED BY <1>2, ViewAbsent

\* A message that says how the truth has changed.
LEMMA SentView ==
  ASSUME DiscInv, dfail = "none", confused = {}, NEW t \in Gtids, NEW m \in Letters, m.gtid = t,
         inbox' = Append(inbox, m), known' = known, Follows(Truth(t), m), After(m) = Truth(t)',
         toQueue[t] = "default" \/ Truth(t) = Unknown
  PROVE  ViewOK(t)'
<1>1. ViewOK(t) /\ inbox \in Seq(Letters)
  BY DEF DiscInv, AgreeInv, DiscTypeOK
<1>2. Absent(t, 1, Len(inbox)) => known[t] = Truth(t)
  BY KnownTruth
<1> QED BY <1>1, <1>2, ViewSent

\* A thread enters ghOSt; it may be one that is being created.
LEMMA EnterKeeps ==
  ASSUME DiscInv, NEW t \in Gtids, NEW r \in BOOLEAN, NEW c \in BOOLEAN, KEnter(t, r, c)
  PROVE  DiscInv'
<1>0. /\ DiscTypeOK /\ WordInv /\ DiscScanInv /\ dfail = "none" /\ live[t] = NoWord /\ (c => r)
      /\ inbox \in Seq(Letters)
  BY DEF DiscInv, KEnter, KernelDoes, Live, DiscTypeOK
<1>1. PICK q \in {"old", "default"} : q = IF disc.at = "old" THEN "old" ELSE "default"
  OBVIOUS
<1>2. PICK w \in Words : ~sw[w].inuse
        /\ sw' = [sw EXCEPT ![w] = [inuse |-> TRUE, gtid |-> t, canfree |-> FALSE,
                                    barrier |-> IF c THEN 0 ELSE 1, runnable |-> r, brandnew |-> c]]
        /\ live' = [live EXCEPT ![t] = w]
        /\ IF c THEN inbox' = inbox ELSE Send(t, q, "TASK_NEW", 1, r, w)
  BY <1>1 DEF KEnter
<1>3. /\ toQueue' = [toQueue EXCEPT ![t] = q]
      /\ past' = [past EXCEPT ![t] = IF @ # "never" THEN "churned"
                                     ELSE IF disc.at = "old" THEN "early" ELSE "late"]
      /\ UNCHANGED <<known, disc, estales, confused, dfail>> /\ todoK' = todoK - 1 /\ todoK > 0
  BY <1>1 DEF KEnter, KernelDoes
<1>4. /\ sw' \in [Words -> SwWords] /\ \A v \in Words \ {w} : sw'[v] = sw[v]
      /\ sw'[w].inuse /\ sw'[w].gtid = t /\ ~sw'[w].canfree /\ sw'[w].runnable = r
      /\ sw'[w].brandnew = c /\ (~c => sw'[w].barrier = 1) /\ (c => sw'[w].barrier = 0)
  <2>1. [inuse |-> TRUE, gtid |-> t, canfree |-> FALSE, barrier |-> IF c THEN 0 ELSE 1,
         runnable |-> r, brandnew |-> c] \in SwWords
    BY DEF SwWords
  <2>2. sw \in [Words -> SwWords]
    BY <1>0 DEF DiscTypeOK
  <2> QED BY <1>2, <2>1, <2>2
<1>5. /\ live' \in [Gtids -> Words \cup {NoWord}] /\ live'[t] = w /\ toQueue'[t] = q
      /\ toQueue' \in [Gtids -> {"old", "default"}]
      /\ past' \in [Gtids -> {"never", "early", "late", "churned"}]
      /\ past'[t] # "never" /\ (past[t] # "never" => past'[t] = "churned")
      /\ (past'[t] = "early" => disc.at = "old")
      /\ \A s \in Gtids \ {t} : live'[s] = live[s] /\ toQueue'[s] = toQueue[s] /\ past'[s] = past[s]
  BY <1>0, <1>2, <1>3 DEF DiscTypeOK
<1>6. /\ Grows(t) /\ (q = "old" \/ c => inbox' = inbox)
      /\ q = "default" /\ ~c => /\ inbox' = Append(inbox, Letter(t, "TASK_NEW", 1, r, w))
                                /\ Letter(t, "TASK_NEW", 1, r, w) \in Letters
      /\ \A i \in 1 .. Len(inbox') : i \in 1 .. Len(inbox) \/ inbox'[i].type = "TASK_NEW"
  <2>1. CASE c
    BY <1>0, <1>2, <2>1 DEF Grows
  <2>2. CASE ~c
    <3>1. Send(t, q, "TASK_NEW", 1, r, w)
      BY <1>2, <2>2
    <3> QED BY <1>0, <1>1, <2>2, <3>1, SendEffect
  <2> QED BY <2>1, <2>2
<1>7. DiscTypeOK'
  <2>1. todoK' \in Nat
    BY <1>0, <1>3 DEF DiscTypeOK
  <2> QED BY <1>0, <1>3, <1>4, <1>5, <1>6, <2>1 DEF DiscTypeOK, Grows
<1>8. KernelChange(t, w)
  <2>1. q = "old" => disc.at = "old" /\ toQueue[t] = "old"
    BY <1>0, <1>1 DEF DiscScanInv
  <2>2. disc.at = "old" => q = "old"
    BY <1>1
  <2> QED BY <1>0, <1>2, <1>3, <1>4, <1>5, <1>6, <2>1, <2>2, WordFacts DEF KernelChange
<1>9. ASSUME confused = {} PROVE AgreeInv'
  <2>1. Truth(t) = Unknown
    BY <1>0 DEF Truth, Live
  <2>2. ViewOK(t)'
    <3>1. CASE q = "old"
      BY <1>5, <1>8, <3>1, OldView
    <3>2. CASE q = "default" /\ c
      <4>1. inbox' = inbox /\ known' = known /\ Truth(t)' = Unknown /\ toQueue'[t] = "default"
        BY <1>3, <1>4, <1>5, <1>6, <3>2 DEF Truth, Live, Unknown
      <4>2. CASE toQueue[t] = "default"
        <5>1. ViewOK(t)
          BY <1>0, <1>9 DEF DiscInv, AgreeInv
        <5> QED BY <2>1, <4>1, <4>2, <5>1, ViewSame
      <4>3. CASE toQueue[t] = "old"
        <5>1. Absent(t, 1, Len(inbox))' /\ known[t] = Unknown
          BY <1>0, <4>1, <4>3 DEF DiscScanInv, Absent
        <5> QED BY <4>1, <5>1, ViewAbsent
      <4> QED BY <1>0, <4>2, <4>3 DEF DiscTypeOK
    <3>3. CASE q = "default" /\ ~c
      <4>1. PICK m \in Letters : m = Letter(t, "TASK_NEW", 1, r, w) /\ inbox' = Append(inbox, m)
        BY <1>6, <3>3
      <4>2. m.gtid = t /\ m.type = "TASK_NEW"
            /\ After(m) = [alive |-> TRUE, runnable |-> r, seqnum |-> 1, word |-> w]
        BY <4>1 DEF Letter, After
      <4>3. Truth(t)' = [alive |-> TRUE, runnable |-> r, seqnum |-> 1, word |-> w]
        <5>1. Live(t)'
          BY <1>5, WordFacts DEF Live
        <5> QED BY <1>4, <1>5, <3>3, <5>1 DEF Truth
      <4>4. Follows(Truth(t), m)
        BY <2>1, <4>2 DEF Follows
      <4> QED BY <1>0, <1>3, <1>9, <2>1, <4>1, <4>2, <4>3, <4>4, SentView
    <3> QED BY <3>1, <3>2, <3>3
  <2>3. q = "old" => ~Passed(w)
    BY <1>0, <1>1, WordFacts DEF DiscScanInv, Passed
  <2>4. inbox' = inbox \/ \E m \in Letters : m.gtid = t /\ inbox' = Append(inbox, m)
    <3>1. Letter(t, "TASK_NEW", 1, r, w).gtid = t
      BY DEF Letter
    <3> QED BY <1>6, <3>1
  <2> QED BY <1>5, <1>8, <1>9, <2>2, <2>3, <2>4, KernelViews
<1>10. ASSUME NoChurn' PROVE CalmInv'
  <2>1. NoChurn /\ past[t] = "never"
    BY <1>5, <1>10 DEF NoChurn
  <2>2. past'[t] = "early" => toQueue'[t] = "old"
    BY <1>1, <1>5
  <2>3. live[t] # w
    BY <1>0, WordFacts
  <2> QED BY <1>5, <1>6, <1>8, <2>1, <2>2, <2>3, KernelCalm
<1> QED BY <1>3, <1>7, <1>8, <1>9, <1>10, KernelWord, KernelScan DEF DiscInv

\* What the three others have in common: the thread is in ghOSt, and sends a
\* message with its next barrier.
LEMMA LiveFacts ==
  ASSUME DiscInv, NEW t \in Gtids, Live(t)
  PROVE  /\ live[t] \in Words /\ sw[live[t]] \in SwWords /\ sw[live[t]].barrier \in Nat
         /\ sw[live[t]].inuse /\ sw[live[t]].gtid = t /\ ~sw[live[t]].canfree
         /\ sw[live[t]].brandnew => sw[live[t]].runnable /\ sw[live[t]].barrier = 0
         /\ sw[live[t]].runnable \in BOOLEAN /\ sw[live[t]].brandnew \in BOOLEAN
         /\ inbox \in Seq(Letters) /\ Words \subseteq Nat /\ live[t] # NoWord
<1>1. live[t] \in Words /\ sw[live[t]] \in SwWords /\ inbox \in Seq(Letters)
  BY DEF DiscInv, DiscTypeOK, Live
<1>2. sw[live[t]].inuse /\ sw[live[t]].gtid = t /\ ~sw[live[t]].canfree
  BY DEF DiscInv, WordInv
<1>3. sw[live[t]].brandnew => sw[live[t]].runnable /\ sw[live[t]].barrier = 0
  BY <1>1, <1>2 DEF DiscInv, WordInv
<1>4. sw[live[t]].barrier \in Nat /\ sw[live[t]].runnable \in BOOLEAN /\ sw[live[t]].brandnew \in BOOLEAN
  BY <1>1 DEF SwWords
<1> QED BY <1>1, <1>2, <1>3, <1>4, WordFacts DEF Live

\* The three actions at once: the thread gets status word x, and stays in ghOSt or
\* leaves it.
LEMMA LiveKeeps ==
  ASSUME DiscInv, NEW t \in Gtids, Live(t), dfail = "none",
         NEW w \in Words, w = live[t], NEW x \in SwWords, NEW l,
         sw' = [sw EXCEPT ![w] = x], live' = [live EXCEPT ![t] = l], l \in {w, NoWord},
         x.inuse, x.gtid = t, x.canfree <=> l = NoWord, x.barrier > sw[w].barrier, ~x.brandnew,
         NEW type \in {"TASK_NEW", "TASK_WAKEUP", "TASK_DEPARTED"},
         type = "TASK_DEPARTED" <=> l = NoWord,
         Send(t, toQueue[t], type, x.barrier, x.runnable /\ l = w, w),
         \* As it was.
         sw[w].brandnew <=> type = "TASK_NEW", type = "TASK_WAKEUP" => ~sw[w].runnable,
         type # "TASK_DEPARTED" => x.runnable,
         todoK' \in Nat, UNCHANGED <<toQueue, known, disc, estales, confused, dfail>>,
         past' \in [Gtids -> {"never", "early", "late", "churned"}],
         \A s \in Gtids \ {t} : past'[s] = past[s],
         past'[t] \in {past[t], "churned"},
         type = "TASK_DEPARTED" /\ past[t] = "late" /\ disc.at # "drain" => past'[t] = "churned"
  PROVE  DiscInv'
<1>0. /\ DiscTypeOK /\ WordInv /\ DiscScanInv
  BY DEF DiscInv
<1>f. /\ sw[w].barrier \in Nat /\ sw[w].inuse /\ sw[w].gtid = t /\ ~sw[w].canfree
      /\ sw[w].runnable \in BOOLEAN /\ sw[w].brandnew \in BOOLEAN
      /\ inbox \in Seq(Letters) /\ w # NoWord
  BY LiveFacts
<1>x. x.barrier \in Nat /\ x.runnable \in BOOLEAN /\ x.canfree \in BOOLEAN
  BY DEF SwWords
<1>q. PICK q \in {"old", "default"} : q = toQueue[t]
  BY <1>0 DEF DiscTypeOK
<1>r. PICK r \in BOOLEAN : r = (x.runnable /\ l = w)
  <2>1. (x.runnable /\ l = w) \in BOOLEAN
    OBVIOUS
  <2> QED BY <2>1
<1>m. PICK m : m = Letter(t, type, x.barrier, r, w)
  OBVIOUS
<1>1. q = toQueue[t] /\ m = Letter(t, type, x.barrier, r, w) /\ r = (x.runnable /\ l = w)
  BY <1>q, <1>r, <1>m
<1>2. /\ sw' \in [Words -> SwWords] /\ (\A v \in Words \ {w} : sw'[v] = sw[v]) /\ sw'[w] = x
      /\ live' \in [Gtids -> Words \cup {NoWord}] /\ live'[t] = l
      /\ \A s \in Gtids \ {t} : live'[s] = live[s]
  BY <1>0 DEF DiscTypeOK
<1>3. /\ Grows(t) /\ m \in Letters /\ (q = "old" => inbox' = inbox)
      /\ q = "default" => inbox' = Append(inbox, m)
      /\ \A i \in 1 .. Len(inbox') : i \in 1 .. Len(inbox) \/ inbox'[i].type = type
  <2>0. PICK b \in Nat : b = x.barrier
    BY <1>x
  <2>1. Send(t, q, type, b, r, w)
    BY <1>1, <2>0 DEF Send
  <2>2. /\ Grows(t) /\ Letter(t, type, b, r, w) \in Letters
        /\ q # "default" => inbox' = inbox
        /\ q = "default" => inbox' = Append(inbox, Letter(t, type, b, r, w))
        /\ \A i \in 1 .. Len(inbox') : i \in 1 .. Len(inbox) \/ inbox'[i].type = type
    <3>1. /\ inbox \in Seq(Letters) /\ t \in Gtids /\ b \in Nat /\ r \in BOOLEAN /\ w \in Words
          /\ type \in {"TASK_NEW", "TASK_WAKEUP", "TASK_DEPARTED"}
      BY <1>f
    <3> QED BY ONLY <2>1, <3>1, SendEffect
  <2> QED BY <1>1, <2>0, <2>2
<1>4. m.gtid = t /\ m.type = type /\ m.seqnum = x.barrier /\ m.runnable = r /\ m.word = w
  BY <1>1 DEF Letter
<1>5. DiscTypeOK'
  BY <1>0, <1>2, <1>3 DEF DiscTypeOK, Grows
<1>6. KernelChange(t, w)
  <2>1. disc.at = "old" => toQueue'[t] = "old"
    BY <1>0 DEF DiscScanInv
  <2> QED BY <1>0, <1>1, <1>2, <1>3, <2>1 DEF KernelChange
<1>7. ASSUME confused = {} PROVE AgreeInv'
  <2>0. AgreeInv
    BY <1>7 DEF DiscInv
  <2>1. ViewOK(t)'
    <3>1. CASE q = "old"
      BY <1>1, <1>6, <3>1, OldView
    <3>2. CASE q = "default"
      <4>1. Truth(t) = IF ~sw[w].brandnew
                         THEN [alive |-> TRUE, runnable |-> sw[w].runnable,
                               seqnum |-> sw[w].barrier, word |-> w]
                         ELSE Unknown
        BY DEF Truth
      <4>2. Truth(t)' = IF l = w
                          THEN [alive |-> TRUE, runnable |-> x.runnable,
                                seqnum |-> x.barrier, word |-> w]
                          ELSE Unknown
        BY <1>f, <1>2 DEF Truth, Live, Unknown
      <4>3. After(m) = Truth(t)'
        BY <1>1, <1>4, <1>f, <4>2 DEF After
      <4>4. Follows(Truth(t), m)
        BY <1>f, <1>x, <1>1, <1>4, <4>1 DEF Follows
      <4>5. /\ dfail = "none" /\ confused = {} /\ m \in Letters /\ m.gtid = t
            /\ inbox' = Append(inbox, m) /\ known' = known /\ toQueue[t] = "default" /\ t \in Gtids
        BY <1>1, <1>3, <1>4, <1>7, <3>2
      <4> QED BY ONLY DiscInv, <4>3, <4>4, <4>5, SentView
    <3> QED BY <3>1, <3>2
  <2>2. q = "old" => ~Passed(w)
    BY <1>1, <2>0 DEF AgreeInv, ToHere
  <2>3. l # w /\ Passed(w) =>
          \E i \in 1 .. Len(inbox') : inbox'[i].type = "TASK_DEPARTED" /\ inbox'[i].gtid = t
                                      /\ inbox'[i].word = w
    <3>1. SUFFICES ASSUME l # w, Passed(w)
                   PROVE  \E i \in 1 .. Len(inbox') : inbox'[i].type = "TASK_DEPARTED"
                            /\ inbox'[i].gtid = t /\ inbox'[i].word = w
      OBVIOUS
    <3>2. inbox' = Append(inbox, m) /\ type = "TASK_DEPARTED"
      BY <1>3, <2>2, <3>1
    <3>3. Len(inbox') \in 1 .. Len(inbox') /\ inbox'[Len(inbox')] = m
      BY <1>f, <1>3, <3>2
    <3> QED BY <1>4, <3>2, <3>3
  <2>4. inbox' = inbox \/ \E y \in Letters : y.gtid = t /\ inbox' = Append(inbox, y)
    BY <1>3, <1>4
  <2> QED BY <1>1, <1>2, <1>6, <1>7, <2>1, <2>2, <2>3, <2>4, KernelViews
<1>8. ASSUME NoChurn' PROVE CalmInv'
  <2>1. NoChurn /\ past'[t] = past[t]
    BY <1>8 DEF NoChurn
  <2>2. CalmInv
    BY <2>1 DEF DiscInv
  <2>3. past[t] # "never"
    BY <1>f, <2>2 DEF CalmInv, OneLife
  <2>4. l = w => ~Settled(sw[w]) /\ Settled(x)
    BY <1>f, <1>x DEF Settled
  <2>5. q = "default" /\ past[t] = "early" => Passed(w)
    BY <1>1, <2>2 DEF CalmInv, OneLife
  <2>6. ASSUME NEW i \in 1 .. Len(inbox'), i \notin 1 .. Len(inbox), inbox'[i].type = "TASK_DEPARTED"
        PROVE  i = Len(inbox') /\ inbox'[i].word = w /\ x.canfree /\ Passed(w)
    <3>1. type = "TASK_DEPARTED" /\ q = "default" /\ x.canfree
      BY <1>3, <2>6
    <3>2. i = Len(inbox') /\ inbox'[i] = m
      BY <1>f, <1>3, <2>6, <3>1
    <3>3. past[t] = "early" \/ disc.at = "drain"
      BY <1>0, <1>8, <2>1, <2>3, <3>1 DEF NoChurn, DiscTypeOK
    <3> QED BY <1>4, <2>5, <3>1, <3>2, <3>3 DEF Passed
  <2> QED BY <1>1, <1>2, <1>6, <2>1, <2>3, <2>4, <2>5, <2>6, KernelCalm
<1> QED BY <1>5, <1>6, <1>7, <1>8, KernelWord, KernelScan DEF DiscInv

\* A new thread is off the CPU for the first time.
LEMMA OffCpuKeeps ==
  ASSUME DiscInv, NEW t \in Gtids, KOffCpu(t)
  PROVE  DiscInv'
<1>1. Live(t) /\ dfail = "none"
  BY DEF KOffCpu
<1>2. PICK w \in Words : w = live[t] /\ w # NoWord
  BY <1>1, LiveFacts
<1>3. /\ sw[w] \in SwWords /\ sw[w].inuse /\ sw[w].gtid = t /\ ~sw[w].canfree
      /\ sw[w].runnable = TRUE /\ sw[w].barrier = 0 /\ sw[w].brandnew
  BY <1>1, <1>2, LiveFacts DEF KOffCpu
<1>4. PICK x : x = [sw[w] EXCEPT !.brandnew = FALSE, !.barrier = 1]
  OBVIOUS
<1>5. /\ x \in SwWords /\ x.inuse /\ x.gtid = t /\ ~x.canfree /\ x.runnable = TRUE /\ x.barrier = 1
      /\ ~x.brandnew /\ x.barrier > sw[w].barrier
  <2>1. x \in SwWords
    BY <1>3, <1>4 DEF SwWords
  <2>2. DOMAIN sw[w] = {"inuse", "gtid", "barrier", "runnable", "canfree", "brandnew"}
    BY <1>3 DEF SwWords
  <2> QED BY <1>3, <1>4, <2>1, <2>2
<1>6. /\ sw' = [sw EXCEPT ![w] = x] /\ live' = [live EXCEPT ![t] = w] /\ todoK' \in Nat
      /\ Send(t, toQueue[t], "TASK_NEW", x.barrier, x.runnable /\ w = w, w)
      /\ past' \in [Gtids -> {"never", "early", "late", "churned"}] /\ past' = past
      /\ UNCHANGED <<toQueue, known, disc, estales, confused, dfail>>
  <2>1. sw \in [Words -> SwWords] /\ live \in [Gtids -> Words \cup {NoWord}] /\ todoK \in Nat
        /\ past \in [Gtids -> {"never", "early", "late", "churned"}]
    BY DEF DiscInv, DiscTypeOK
  <2>2. sw' = [sw EXCEPT ![w] = x]
    BY <1>2, <1>4, <2>1 DEF KOffCpu
  <2>3. Send(t, toQueue[t], "TASK_NEW", 1, TRUE, w)
    BY <1>2 DEF KOffCpu
  <2>4. (x.runnable /\ w = w) = TRUE
    BY <1>5
  <2> QED BY <1>2, <1>5, <2>1, <2>2, <2>3, <2>4 DEF KOffCpu
<1>7. PICK l \in {w, NoWord}, type \in {"TASK_NEW", "TASK_WAKEUP", "TASK_DEPARTED"} :
        l = w /\ type = "TASK_NEW"
  OBVIOUS
<1>8. /\ live' = [live EXCEPT ![t] = l] /\ (x.canfree <=> l = NoWord)
      /\ (type = "TASK_DEPARTED" <=> l = NoWord)
      /\ Send(t, toQueue[t], type, x.barrier, x.runnable /\ l = w, w)
      /\ (sw[w].brandnew <=> type = "TASK_NEW") /\ (type = "TASK_WAKEUP" => ~sw[w].runnable)
      /\ (type # "TASK_DEPARTED" => x.runnable)
  BY <1>2, <1>3, <1>5, <1>6, <1>7
<1> QED BY <1>1, <1>2, <1>5, <1>6, <1>7, <1>8, LiveKeeps

\* A thread wakes up.
LEMMA WakeKeeps ==
  ASSUME DiscInv, NEW t \in Gtids, KWake(t)
  PROVE  DiscInv'
<1>1. Live(t) /\ dfail = "none"
  BY DEF KWake, KernelDoes
<1>2. PICK w \in Words : w = live[t] /\ w # NoWord
  BY <1>1, LiveFacts
<1>3. /\ sw[w] \in SwWords /\ sw[w].inuse /\ sw[w].gtid = t /\ ~sw[w].canfree
      /\ ~sw[w].runnable /\ sw[w].barrier \in Nat /\ ~sw[w].brandnew
  BY <1>1, <1>2, LiveFacts DEF KWake
<1>4. PICK x : x = [sw[w] EXCEPT !.runnable = TRUE, !.barrier = sw[w].barrier + 1]
  OBVIOUS
<1>5. /\ x \in SwWords /\ x.inuse /\ x.gtid = t /\ ~x.canfree /\ x.runnable = TRUE
      /\ x.barrier = sw[w].barrier + 1 /\ ~x.brandnew /\ x.barrier > sw[w].barrier
  <2>0. PICK b \in Nat : b = sw[w].barrier + 1
    BY <1>3
  <2>1. x \in SwWords
    BY <1>3, <1>4, <2>0 DEF SwWords
  <2>2. DOMAIN sw[w] = {"inuse", "gtid", "barrier", "runnable", "canfree", "brandnew"}
    BY <1>3 DEF SwWords
  <2> QED BY <1>3, <1>4, <2>1, <2>2
<1>6. /\ sw' = [sw EXCEPT ![w] = x] /\ live' = [live EXCEPT ![t] = w] /\ todoK' \in Nat
      /\ Send(t, toQueue[t], "TASK_WAKEUP", x.barrier, x.runnable /\ w = w, w)
      /\ past' \in [Gtids -> {"never", "early", "late", "churned"}] /\ past' = past
      /\ UNCHANGED <<toQueue, known, disc, estales, confused, dfail>>
  <2>1. sw \in [Words -> SwWords] /\ live \in [Gtids -> Words \cup {NoWord}] /\ todoK \in Nat
        /\ past \in [Gtids -> {"never", "early", "late", "churned"}]
    BY DEF DiscInv, DiscTypeOK
  <2>2. sw' = [sw EXCEPT ![w] = x]
    BY <1>2, <1>4, <2>1 DEF KWake
  <2>3. Send(t, toQueue[t], "TASK_WAKEUP", x.barrier, TRUE, w)
    BY <1>2, <1>5 DEF KWake
  <2>4. (x.runnable /\ w = w) = TRUE
    BY <1>5
  <2>5. todoK' \in Nat
    BY <2>1 DEF KWake, KernelDoes
  <2> QED BY <1>2, <2>1, <2>2, <2>3, <2>4, <2>5 DEF KWake
<1>7. PICK l \in {w, NoWord}, type \in {"TASK_NEW", "TASK_WAKEUP", "TASK_DEPARTED"} :
        l = w /\ type = "TASK_WAKEUP"
  OBVIOUS
<1>8. /\ live' = [live EXCEPT ![t] = l] /\ (x.canfree <=> l = NoWord)
      /\ (type = "TASK_DEPARTED" <=> l = NoWord)
      /\ Send(t, toQueue[t], type, x.barrier, x.runnable /\ l = w, w)
      /\ (sw[w].brandnew <=> type = "TASK_NEW") /\ (type = "TASK_WAKEUP" => ~sw[w].runnable)
      /\ (type # "TASK_DEPARTED" => x.runnable)
  BY <1>2, <1>3, <1>5, <1>6, <1>7
<1> QED BY <1>1, <1>2, <1>5, <1>6, <1>7, <1>8, LiveKeeps

\* A thread leaves ghOSt.
LEMMA LeaveKeeps ==
  ASSUME DiscInv, NEW t \in Gtids, KLeave(t)
  PROVE  DiscInv'
<1>1. Live(t) /\ dfail = "none"
  BY DEF KLeave, KernelDoes
<1>2. PICK w \in Words : w = live[t] /\ w # NoWord
  BY <1>1, LiveFacts
<1>3. /\ sw[w] \in SwWords /\ sw[w].inuse /\ sw[w].gtid = t
      /\ sw[w].barrier \in Nat /\ ~sw[w].brandnew
  BY <1>1, <1>2, LiveFacts DEF KLeave
<1>4. PICK x : x = [sw[w] EXCEPT !.canfree = TRUE, !.barrier = sw[w].barrier + 1]
  OBVIOUS
<1>5. /\ x \in SwWords /\ x.inuse /\ x.gtid = t /\ x.canfree
      /\ x.barrier = sw[w].barrier + 1 /\ ~x.brandnew /\ x.barrier > sw[w].barrier
  <2>0. PICK b \in Nat : b = sw[w].barrier + 1
    BY <1>3
  <2>1. x \in SwWords
    BY <1>3, <1>4, <2>0 DEF SwWords
  <2>2. DOMAIN sw[w] = {"inuse", "gtid", "barrier", "runnable", "canfree", "brandnew"}
    BY <1>3 DEF SwWords
  <2> QED BY <1>3, <1>4, <2>1, <2>2
<1>6. /\ sw' = [sw EXCEPT ![w] = x] /\ live' = [live EXCEPT ![t] = NoWord] /\ todoK' \in Nat
      /\ Send(t, toQueue[t], "TASK_DEPARTED", x.barrier, x.runnable /\ NoWord = w, w)
      /\ past' \in [Gtids -> {"never", "early", "late", "churned"}]
      /\ \A s \in Gtids \ {t} : past'[s] = past[s]
      /\ past'[t] \in {past[t], "churned"}
      /\ past[t] = "late" /\ disc.at # "drain" => past'[t] = "churned"
      /\ UNCHANGED <<toQueue, known, disc, estales, confused, dfail>>
  <2>1. sw \in [Words -> SwWords] /\ todoK \in Nat
        /\ past \in [Gtids -> {"never", "early", "late", "churned"}]
    BY DEF DiscInv, DiscTypeOK
  <2>2. sw' = [sw EXCEPT ![w] = x]
    BY <1>2, <1>4, <2>1 DEF KLeave
  <2>3. Send(t, toQueue[t], "TASK_DEPARTED", x.barrier, FALSE, w)
    BY <1>2, <1>5 DEF KLeave
  <2>4. (x.runnable /\ NoWord = w) = FALSE
    BY <1>2
  <2>5. todoK' \in Nat
    BY <2>1 DEF KLeave, KernelDoes
  <2>6. /\ past' \in [Gtids -> {"never", "early", "late", "churned"}]
        /\ \A s \in Gtids \ {t} : past'[s] = past[s]
        /\ past'[t] \in {past[t], "churned"}
        /\ past[t] = "late" /\ disc.at # "drain" => past'[t] = "churned"
    BY <2>1 DEF KLeave
  <2> QED BY <2>2, <2>3, <2>4, <2>5, <2>6 DEF KLeave
<1>7. PICK l \in {w, NoWord}, type \in {"TASK_NEW", "TASK_WAKEUP", "TASK_DEPARTED"} :
        l = NoWord /\ type = "TASK_DEPARTED"
  OBVIOUS
<1>8. /\ live' = [live EXCEPT ![t] = l] /\ (x.canfree <=> l = NoWord)
      /\ (type = "TASK_DEPARTED" <=> l = NoWord)
      /\ Send(t, toQueue[t], type, x.barrier, x.runnable /\ l = w, w)
      /\ (sw[w].brandnew <=> type = "TASK_NEW") /\ (type = "TASK_WAKEUP" => ~sw[w].runnable)
      /\ (type # "TASK_DEPARTED" => x.runnable)
  BY <1>2, <1>3, <1>5, <1>6, <1>7
<1> QED BY <1>1, <1>2, <1>5, <1>6, <1>7, <1>8, LiveKeeps
-------------------------------------------------------------------------------
(* The scan goes on, and may free the word it is at.                        *)

DiscTypes == [at : {"old", "scan", "drain"} \cup Copied, word : Words, barrier : Nat,
              runnable : BOOLEAN, canfree : BOOLEAN, gtid : Gtids \cup {NoGtid}]

\* No thread in ghOSt is concerned, and no word in use is passed over.
ScanMoves ==
  /\ UNCHANGED <<live, toQueue, inbox, todoK, past, known, confused, dfail>> /\ dfail = "none"
  /\ sw' \in [Words -> SwWords] /\ \A v \in Words \ {disc.word} : sw'[v] = sw[v]
  /\ \/ sw' = sw
     \/ sw'[disc.word] = FreeWord /\ sw[disc.word].inuse /\ sw[disc.word].canfree
  /\ disc.at # "drain" /\ disc' \in DiscTypes /\ estales' \in {0, 1}
  /\ disc'.at # "old" /\ (disc'.at = "drain" \/ disc.word <= disc'.word)
  /\ \A v \in Words : Passed(v)' => Passed(v) \/ (v = disc.word /\ ~sw'[v].inuse)

\* With the copy and the ESTALEs in order, such a step keeps the invariant.
LEMMA ScanMovesKeep ==
  ASSUME DiscInv, ScanMoves, CopyInv', NoChurn => OneEstale'
  PROVE  DiscInv'
<1>0. DiscTypeOK /\ WordInv /\ DiscScanInv
  BY DEF DiscInv, ScanMoves
<1>t. /\ live \in [Gtids -> Words \cup {NoWord}] /\ disc.word \in Words /\ inbox \in Seq(Letters)
      /\ known \in [Gtids -> Views]
  BY <1>0 DEF DiscTypeOK
<1>1. DiscTypeOK'
  BY <1>0 DEF DiscTypeOK, ScanMoves, DiscTypes
\* The words in use: those of the threads in ghOSt are as they were.
<1>2. \A v \in Words : sw'[v].inuse => sw'[v] = sw[v]
  BY DEF ScanMoves, FreeWord
<1>3. ASSUME NEW s \in Gtids, Live(s) PROVE sw'[live[s]] = sw[live[s]] /\ live[s] \in Words
  <2>1. live[s] \in Words /\ ~sw[live[s]].canfree
    BY <1>0, <1>t, <1>3 DEF WordInv, Live
  <2> QED BY <2>1 DEF ScanMoves
<1>4. WordInv'
  <2>1. ASSUME NEW s \in Gtids, Live(s)
        PROVE  sw'[live[s]].gtid = s /\ sw'[live[s]].inuse /\ ~sw'[live[s]].canfree
    BY <1>0, <1>3, <2>1 DEF WordInv
  <2>2. ASSUME NEW v \in Words, ~sw'[v].inuse PROVE sw'[v] = FreeWord
    BY <1>0, <2>2 DEF WordInv, ScanMoves
  <2>3. ASSUME NEW v \in Words, sw'[v].inuse
        PROVE  /\ sw'[v].gtid \in Gtids
               /\ sw'[v].canfree \/ live[sw'[v].gtid] = v
               /\ sw'[v].brandnew => sw'[v].runnable /\ ~sw'[v].canfree /\ sw'[v].barrier = 0
    BY <1>0, <1>2, <2>3 DEF WordInv
  <2>4. live' = live
    BY DEF ScanMoves
  <2> QED BY <2>1, <2>2, <2>3, <2>4 DEF WordInv, Live, FreeWord
<1>5. \A v \in Words : Passed(v) => Passed(v)'
  <2>1. ASSUME NEW v \in Words, Passed(v) PROVE Passed(v)'
    <3>1. v < disc.word /\ v \in Nat /\ disc.word \in Nat /\ disc'.word \in Nat
      BY <1>t, <2>1, WordFacts DEF Passed, ScanMoves, DiscTypes
    <3> QED BY <3>1 DEF Passed, ScanMoves
  <2> QED BY <2>1
<1>6. DiscScanInv'
  <2>1. ASSUME NEW s \in Gtids, known[s].alive, disc'.at # "drain"
        PROVE  /\ known[s].word < disc'.word /\ sw'[known[s].word].inuse
               /\ sw'[known[s].word].gtid = s
    <3>1. known[s].word < disc.word /\ sw[known[s].word].inuse /\ sw[known[s].word].gtid = s
      BY <1>0, <2>1 DEF DiscScanInv, ScanMoves
    <3>2. known[s].word \in Words
      BY <1>t, <2>1, AliveView
    <3>3. known[s].word \in Nat /\ disc.word \in Nat /\ disc'.word \in Nat
      BY <1>t, <3>2, WordFacts DEF ScanMoves, DiscTypes
    <3>4. known[s].word # disc.word /\ known[s].word < disc'.word
      BY <2>1, <3>1, <3>3 DEF ScanMoves
    <3> QED BY <3>1, <3>2, <3>4 DEF ScanMoves
  <2>2. UNCHANGED <<toQueue, inbox, known>> /\ disc'.at # "old"
    BY DEF ScanMoves
  <2>3. ASSUME NEW s \in Gtids, toQueue[s] = "old"
        PROVE  known[s] = Unknown /\ \A i \in 1 .. Len(inbox) : inbox[i].gtid # s
    BY <1>0, <2>3 DEF DiscScanInv
  <2> QED BY <2>1, <2>2, <2>3 DEF DiscScanInv, Unknown
<1>7. ASSUME confused = {} PROVE AgreeInv'
  <2>0. AgreeInv
    BY <1>7 DEF DiscInv, ScanMoves
  <2>1. ASSUME NEW s \in Gtids PROVE ViewOK(s)'
    <3>1. Truth(s)' = Truth(s)
      BY <1>3 DEF Truth, Live, Unknown, ScanMoves
    <3> QED BY <2>0, <3>1, ViewSame DEF AgreeInv, ScanMoves
  <2>2. ASSUME NEW s \in Gtids, Live(s), toQueue[s] = "old" PROVE ~Passed(live[s])'
    <3>1. ~Passed(live[s]) /\ live[s] \in Words /\ sw'[live[s]].inuse
      BY <1>0, <1>3, <2>0, <2>2 DEF AgreeInv, ToHere, WordInv
    <3>2. live' = live
      BY DEF ScanMoves
    <3>3. PICK v \in Words : v = live[s]
      BY <3>1
    <3>4. ~Passed(v)'
      BY <3>1, <3>3 DEF ScanMoves
    <3> QED BY <3>2, <3>3, <3>4 DEF Passed
  <2>3. ASSUME NEW v \in Words, sw'[v].inuse, sw'[v].canfree, Passed(v)'
        PROVE  \E i \in 1 .. Len(inbox) :
                 inbox[i].type = "TASK_DEPARTED" /\ inbox[i].gtid = sw'[v].gtid /\ inbox[i].word = v
    <3>1. Passed(v) /\ sw'[v] = sw[v]
      BY <1>2, <2>3 DEF ScanMoves
    <3> QED BY <2>0, <2>3, <3>1 DEF AgreeInv, ToHere
  <2> QED BY <2>1, <2>2, <2>3 DEF AgreeInv, ToHere, ScanMoves, Live, Passed
<1>8. ASSUME NoChurn PROVE CalmInv'
  <2>0. CalmInv /\ UNCHANGED <<live, inbox, toQueue, past, confused, dfail>>
    BY <1>8 DEF DiscInv, ScanMoves
  <2>1. OneLife'
    <3>1. ASSUME NEW s \in Gtids, past[s] = "never"
          PROVE  ~Live(s) /\ \A w \in Words : ~(sw'[w].inuse /\ sw'[w].gtid = s)
      BY <1>2, <2>0, <3>1 DEF CalmInv, OneLife
    <3>2. ASSUME NEW v \in Words, NEW w \in Words, sw'[v].inuse, sw'[w].inuse,
                 sw'[v].gtid = sw'[w].gtid
          PROVE  v = w
      <4>1. sw'[v] = sw[v] /\ sw'[w] = sw[w]
        BY <1>2, <3>2
      <4> QED BY <2>0, <3>2, <4>1 DEF CalmInv, OneLife
    <3>3. ASSUME NEW s \in Gtids, Live(s), toQueue[s] = "default", past[s] = "early"
          PROVE  Passed(live[s])'
      <4>1. PICK v \in Words : v = live[s]
        BY <1>3, <3>3
      <4>2. Passed(v)'
        BY <1>5, <2>0, <3>3, <4>1 DEF CalmInv, OneLife
      <4> QED BY <2>0, <4>1, <4>2 DEF Passed
    <3> QED BY <2>0, <3>1, <3>2, <3>3 DEF OneLife, Live
  <2>2. Departures'
    <3>1. ASSUME NEW i \in 1 .. Len(inbox), inbox[i].type = "TASK_DEPARTED"
          PROVE  /\ sw'[inbox[i].word].inuse /\ sw'[inbox[i].word].canfree
                 /\ sw'[inbox[i].word].gtid = inbox[i].gtid
                 /\ Passed(inbox[i].word)'
                 /\ Absent(inbox[i].gtid, i + 1, Len(inbox))
      <4>1. inbox[i] \in Letters
        BY <1>t
      <4>2. PICK v \in Words : v = inbox[i].word
        BY <4>1 DEF Letters
      <4>3. /\ sw[v].inuse /\ sw[v].canfree /\ sw[v].gtid = inbox[i].gtid /\ Passed(v)
            /\ Absent(inbox[i].gtid, i + 1, Len(inbox))
        BY <2>0, <3>1, <4>2 DEF CalmInv, Departures
      <4>4. v # disc.word
        BY <1>t, <4>3, WordFacts DEF Passed, ScanMoves
      <4>5. Passed(v)' /\ sw'[v] = sw[v]
        BY <1>5, <4>3, <4>4 DEF ScanMoves
      <4> QED BY <2>0, <4>2, <4>3, <4>5 DEF Passed
    <3> QED BY <2>0, <3>1 DEF Departures, Absent, Passed
  <2>3. OneEstale'
    BY <1>8
  <2> QED BY <2>0, <2>1, <2>2, <2>3 DEF CalmInv
<1> QED BY <1>1, <1>4, <1>6, <1>7, <1>8 DEF DiscInv, ScanMoves, NoChurn

\* On to the next word.
LEMMA NextWordFacts ==
  ASSUME DiscInv, disc.at # "drain", disc' = NextWord
  PROVE  /\ disc' \in DiscTypes /\ disc'.at \notin Copied /\ disc'.at \in {"scan", "drain"}
         /\ disc'.at = "drain" \/ (disc.word < disc'.word /\ disc.word <= disc'.word)
         /\ \A v \in Words : Passed(v)' <=> Passed(v) \/ v = disc.word
<1>1. disc.word \in Words /\ disc.word \in Nat /\ disc.word <= NWords - 1 /\ NWords \in Nat
  BY WordFacts DEF DiscInv, DiscTypeOK
<1>2. CASE disc.word < NWords - 1
  <2>1. PICK w \in Words : w = disc.word + 1
    BY <1>1, <1>2, WordFacts
  <2>2. disc' = [at |-> "scan", word |-> w, barrier |-> 0, runnable |-> FALSE,
                 canfree |-> FALSE, gtid |-> NoGtid]
    BY <1>2, <2>1 DEF NextWord, NoCopy
  <2>3. disc' \in DiscTypes /\ disc'.at = "scan" /\ disc'.word = w
    BY <2>2 DEF DiscTypes
  <2>4. ASSUME NEW v \in Words PROVE v < w <=> v < disc.word \/ v = disc.word
    BY <1>1, <2>1, WordFacts
  <2> QED BY <1>1, <2>1, <2>3, <2>4 DEF Passed, Copied
<1>3. CASE ~(disc.word < NWords - 1)
  <2>1. disc' = [at |-> "drain", word |-> 0, barrier |-> 0, runnable |-> FALSE,
                 canfree |-> FALSE, gtid |-> NoGtid]
    BY <1>3 DEF NextWord, NoCopy
  <2>2. disc' \in DiscTypes /\ disc'.at = "drain"
    BY <2>1, WordFacts DEF DiscTypes
  <2>3. ASSUME NEW v \in Words PROVE v < disc.word \/ v = disc.word
    BY <1>1, <1>3, WordFacts
  <2> QED BY <2>2, <2>3 DEF Passed, Copied
<1> QED BY <1>2, <1>3

\* The steps up to the association only read.
LEMMA QuietScanSteps ==
  ASSUME DiscInv, SetEnclaveDefault \/ ScanWord \/ ReadSwBarrier \/ ReadSwFlags
  PROVE  DiscInv'
<1>0. /\ DiscTypeOK /\ CopyInv /\ WordInv /\ dfail = "none" /\ UNCHANGED <<swVars, known, confused, dfail>>
      /\ disc \in DiscTypes /\ disc.word \in Words /\ sw \in [Words -> SwWords] /\ estales \in {0, 1}
      /\ disc.at # "drain"
  BY DEF DiscInv, DiscTypeOK, DiscTypes, SetEnclaveDefault, ScanWord, ReadSwBarrier, ReadSwFlags, DiscAt
<1>s. UNCHANGED <<sw, live, toQueue, inbox, todoK, past>>
  BY <1>0 DEF swVars
<1>w. sw[disc.word].barrier \in Nat /\ sw[disc.word].runnable \in BOOLEAN
      /\ sw[disc.word].canfree \in BOOLEAN /\ sw[disc.word].gtid \in Gtids \cup {NoGtid}
  BY <1>0 DEF SwWords
\* Steps that do not go on to the next word.
<1>1. ASSUME disc' \in DiscTypes, disc'.at \notin {"old", "drain"}, disc'.word = disc.word,
             estales' \in {0, 1}, CopyInv', NoChurn => OneEstale'
      PROVE  DiscInv'
  <2>1. \A v \in Words : Passed(v)' => Passed(v)
    BY <1>1 DEF Passed
  <2>2. disc.word \in Nat /\ disc.word <= disc'.word
    <3>1. disc.word \in Nat
      BY <1>0, WordFacts
    <3> QED BY <1>1, <3>1
  <2>3. ScanMoves
    BY <1>0, <1>1, <1>s, <2>1, <2>2 DEF ScanMoves
  <2> QED BY <1>1, <2>3, ScanMovesKeep
<1>2. CASE SetEnclaveDefault
  <2>1. disc' = [disc EXCEPT !.at = "scan"] /\ estales' = estales
    BY <1>2 DEF SetEnclaveDefault, DiscGoto
  <2>2. disc' \in DiscTypes /\ disc'.at = "scan" /\ disc'.word = disc.word
    BY <1>0, <2>1 DEF DiscTypes
  <2>3. CopyInv' /\ OneEstale'
    BY <2>2 DEF CopyInv, OneEstale, Copied
  <2> QED BY <1>0, <1>1, <2>1, <2>2, <2>3
<1>3. CASE ScanWord /\ sw[disc.word].inuse
  <2>1. disc' = [disc EXCEPT !.at = "barrier"] /\ estales' = 0
    BY <1>3 DEF ScanWord
  <2>2. disc' \in DiscTypes /\ disc'.at = "barrier" /\ disc'.word = disc.word
    BY <1>0, <2>1 DEF DiscTypes, Copied
  <2>3. CopyInv' /\ OneEstale'
    BY <1>s, <1>3, <2>1, <2>2 DEF CopyInv, OneEstale, Copied, Settled
  <2> QED BY <1>1, <2>1, <2>2, <2>3
<1>4. CASE ScanWord /\ ~sw[disc.word].inuse
  <2>1. disc' = NextWord /\ estales' = 0
    BY <1>4 DEF ScanWord
  <2>2. /\ disc' \in DiscTypes /\ disc'.at \notin Copied /\ disc'.at \in {"scan", "drain"}
        /\ disc'.at = "drain" \/ disc.word <= disc'.word
        /\ \A v \in Words : Passed(v)' <=> Passed(v) \/ v = disc.word
    BY <1>0, <2>1, NextWordFacts
  <2>4. CopyInv' /\ OneEstale'
    BY <2>2 DEF CopyInv, OneEstale
  <2>5. ScanMoves
    BY <1>0, <1>s, <1>4, <2>1, <2>2 DEF ScanMoves
  <2> QED BY <2>4, <2>5, ScanMovesKeep
<1>5. CASE ReadSwBarrier
  <2>1. disc.at = "barrier" /\ disc' = [disc EXCEPT !.at = "flags", !.barrier = sw[disc.word].barrier]
        /\ estales' = estales
    BY <1>5 DEF ReadSwBarrier, DiscAt
  <2>2. disc' \in DiscTypes /\ disc'.at = "flags" /\ disc'.word = disc.word
        /\ disc'.barrier = sw[disc.word].barrier
    BY <1>0, <1>w, <2>1 DEF DiscTypes, Copied
  <2>3. CopyInv'
    BY <1>0, <1>s, <1>w, <2>1, <2>2 DEF CopyInv, Copied
  <2>4. NoChurn => OneEstale'
    BY <1>0, <1>s, <2>1, <2>2 DEF DiscInv, CalmInv, OneEstale, Copied, Settled
  <2> QED BY <1>0, <1>1, <2>1, <2>2, <2>3, <2>4
<1>6. CASE ReadSwFlags
  <2>1. disc.at = "flags" /\ estales' = estales
        /\ disc' = [disc EXCEPT !.at = "associate", !.runnable = sw[disc.word].runnable,
                          !.canfree = sw[disc.word].canfree, !.gtid = sw[disc.word].gtid]
    BY <1>6 DEF ReadSwFlags, DiscAt
  <2>2. disc' \in DiscTypes /\ disc'.at = "associate" /\ disc'.word = disc.word
        /\ disc'.barrier = disc.barrier /\ disc'.runnable = sw[disc.word].runnable
        /\ disc'.canfree = sw[disc.word].canfree /\ disc'.gtid = sw[disc.word].gtid
    BY <1>0, <1>w, <2>1 DEF DiscTypes, Copied
  <2>3. CopyInv'
    BY <1>0, <1>s, <2>1, <2>2 DEF CopyInv, Copied
  <2>4. NoChurn => OneEstale'
    BY <1>0, <1>s, <2>1, <2>2 DEF DiscInv, CalmInv, OneEstale, Copied, Settled
  <2> QED BY <1>0, <1>1, <2>1, <2>2, <2>3, <2>4
<1> QED BY <1>2, <1>3, <1>4, <1>5, <1>6

\* What the scan has of the word it is about to associate.
LEMMA AtAssociate ==
  ASSUME DiscInv, DiscAt("associate")
  PROVE  /\ disc.word \in Words /\ disc.gtid \in Gtids /\ sw[disc.word].inuse
         /\ sw[disc.word].gtid = disc.gtid /\ (disc.canfree => sw[disc.word].canfree)
         /\ sw[disc.word] \in SwWords
         /\ disc.barrier = sw[disc.word].barrier => disc.runnable = sw[disc.word].runnable
         /\ ~Live(disc.gtid) => sw[disc.word].canfree
<1>1. DiscTypeOK /\ CopyInv /\ WordInv /\ disc.at = "associate"
  BY DEF DiscInv, DiscAt
<1>2. disc.word \in Words /\ sw[disc.word] \in SwWords
  BY <1>1 DEF DiscTypeOK
<1>3. /\ sw[disc.word].inuse /\ sw[disc.word].gtid = disc.gtid /\ (disc.canfree => sw[disc.word].canfree)
      /\ disc.barrier = sw[disc.word].barrier => disc.runnable = sw[disc.word].runnable
  BY <1>1 DEF CopyInv, Copied
<1>4. disc.gtid \in Gtids /\ (sw[disc.word].canfree \/ live[disc.gtid] = disc.word)
  BY <1>1, <1>2, <1>3 DEF WordInv
<1> QED BY <1>2, <1>3, <1>4, WordFacts DEF Live

\* The word is freed.
LEMMA ScanFrees ==
  ASSUME DiscInv, DiscAt("associate"), sw[disc.word].canfree, FreeWordInfo(disc.word),
         disc' = NextWord, UNCHANGED <<known, estales, confused, dfail>>
  PROVE  DiscInv'
<1>0. DiscTypeOK /\ disc.at # "drain" /\ dfail = "none"
  BY DEF DiscInv, DiscAt
<1>1. disc.word \in Words /\ sw[disc.word].inuse
  BY AtAssociate
<1>2. /\ sw' = [sw EXCEPT ![disc.word] = FreeWord] /\ UNCHANGED <<live, toQueue, inbox, todoK, past>>
  BY DEF FreeWordInfo
<1>3. FreeWord \in SwWords /\ ~FreeWord.inuse
  BY DEF FreeWord, SwWords
<1>4. /\ sw' \in [Words -> SwWords] /\ sw'[disc.word] = FreeWord
      /\ \A v \in Words \ {disc.word} : sw'[v] = sw[v]
  BY <1>0, <1>1, <1>2, <1>3 DEF DiscTypeOK
<1>5. /\ disc' \in DiscTypes /\ disc'.at \notin Copied /\ disc'.at \in {"scan", "drain"}
      /\ disc'.at = "drain" \/ disc.word <= disc'.word
      /\ \A v \in Words : Passed(v)' <=> Passed(v) \/ v = disc.word
  BY <1>0, NextWordFacts
<1>7. CopyInv' /\ OneEstale'
  BY <1>5 DEF CopyInv, OneEstale
<1>8. \A v \in Words : Passed(v)' => Passed(v) \/ (v = disc.word /\ ~sw'[v].inuse)
  BY <1>3, <1>4, <1>5
<1>9. ScanMoves
  BY <1>0, <1>1, <1>2, <1>4, <1>5, <1>8 DEF ScanMoves, DiscTypeOK
<1> QED BY <1>7, <1>9, ScanMovesKeep

\* The process ends, which only a thread that came back can bring about.
LEMMA FailKeeps ==
  ASSUME DiscInv, NEW where \in {"AlreadyHadTask", "RepeatedEstale", "DispatchMessage"},
         Fail(where), ~NoChurn
  PROVE  DiscInv'
<1>1. /\ UNCHANGED <<sw, live, toQueue, inbox, todoK, past, known, disc, estales, confused>>
      /\ dfail' = where /\ where # "none"
  BY DEF Fail, swVars
<1>2. DiscTypeOK' /\ WordInv' /\ CopyInv' /\ ~NoChurn'
  BY <1>1 DEF DiscInv, DiscTypeOK, WordInv, CopyInv, NoChurn, Live, FreeWord
<1> QED BY <1>1, <1>2 DEF DiscInv

\* ENOENT: the thread has left.
LEMMA NoentKeeps ==
  ASSUME DiscInv, AssociateNoent
  PROVE  DiscInv'
<1>0. DiscAt("associate") /\ ~Live(disc.gtid) /\ dfail = "none"
  BY DEF AssociateNoent, DiscAt
<1>1. sw[disc.word].canfree /\ disc.gtid \in Gtids /\ disc.word \in Words /\ sw[disc.word].inuse
      /\ sw[disc.word].gtid = disc.gtid
  BY <1>0, AtAssociate
<1>2. CASE FreeWordInfo(disc.word) /\ disc' = NextWord /\ UNCHANGED <<known, estales, confused, dfail>>
  BY <1>0, <1>1, <1>2, ScanFrees
<1>3. CASE known[disc.gtid].alive /\ Fail("AlreadyHadTask")
  <2>1. ~NoChurn
    <3>1. SUFFICES ASSUME NoChurn PROVE FALSE
      OBVIOUS
    <3>2. DiscScanInv /\ OneLife /\ known[disc.gtid] \in Views /\ disc.at # "drain"
      BY <1>0, <1>1, <3>1 DEF DiscInv, CalmInv, DiscTypeOK, DiscAt
    <3>3. PICK v \in Words : v = known[disc.gtid].word
      BY <1>3, <3>2, AliveView
    <3>4. v < disc.word /\ sw[v].inuse /\ sw[v].gtid = disc.gtid
      BY <1>1, <1>3, <3>2, <3>3 DEF DiscScanInv
    <3>5. v = disc.word
      BY <1>1, <3>2, <3>4 DEF OneLife
    <3> QED BY <1>1, <3>4, <3>5, WordFacts
  <2> QED BY <1>3, <2>1, FailKeeps
<1> QED BY <1>1, <1>2, <1>3 DEF AssociateNoent

\* ESTALE: the word has changed, or is of an earlier life of the thread.
LEMMA StaleKeeps ==
  ASSUME DiscInv, AssociateStale
  PROVE  DiscInv'
<1>0. /\ DiscAt("associate") /\ Live(disc.gtid) /\ dfail = "none" /\ disc.at = "associate"
      /\ sw[live[disc.gtid]].barrier # disc.barrier
  BY DEF AssociateStale, DiscAt
<1>1. /\ disc.gtid \in Gtids /\ disc.word \in Words /\ sw[disc.word].inuse
      /\ sw[disc.word].gtid = disc.gtid /\ (disc.canfree => sw[disc.word].canfree)
  BY <1>0, AtAssociate
\* If nobody comes back, the word is the thread's.
<1>2. ASSUME NoChurn
      PROVE  /\ live[disc.gtid] = disc.word /\ ~sw[disc.word].canfree
             /\ estales = 0 /\ Settled(sw[disc.word])
  <2>1. OneLife /\ OneEstale /\ WordInv /\ DiscTypeOK
    BY <1>2 DEF DiscInv, CalmInv
  <2>2. live[disc.gtid] \in Words /\ sw[live[disc.gtid]].inuse /\ sw[live[disc.gtid]].gtid = disc.gtid
        /\ ~sw[live[disc.gtid]].canfree
    BY <1>0, <1>1, LiveFacts
  <2>3. live[disc.gtid] = disc.word
    BY <1>1, <2>1, <2>2 DEF OneLife
  <2> QED BY <1>0, <2>1, <2>2, <2>3 DEF OneEstale, DiscTypeOK, Copied
<1>3. CASE disc.canfree /\ FreeWordInfo(disc.word) /\ disc' = NextWord
           /\ UNCHANGED <<known, estales, confused, dfail>>
  BY <1>0, <1>1, <1>3, ScanFrees
<1>4. CASE estales = 0 /\ estales' = 1 /\ DiscGoto("barrier") /\ UNCHANGED <<swVars, known, confused, dfail>>
  <2>0. /\ UNCHANGED <<sw, live, toQueue, inbox, todoK, past, known, confused, dfail>>
        /\ disc \in DiscTypes /\ sw \in [Words -> SwWords]
    BY <1>4 DEF swVars, DiscInv, DiscTypeOK, DiscTypes
  <2>1. disc' = [disc EXCEPT !.at = "barrier"]
    BY <1>4 DEF DiscGoto
  <2>2. disc' \in DiscTypes /\ disc'.at = "barrier" /\ disc'.word = disc.word
    BY <2>0, <2>1 DEF DiscTypes, Copied
  <2>3. CopyInv'
    BY <1>1, <2>0, <2>2 DEF CopyInv, Copied
  <2>4. NoChurn => OneEstale'
    BY <1>2, <2>0, <2>2 DEF OneEstale, Copied, Settled
  <2>5. disc.word <= disc'.word /\ \A v \in Words : Passed(v)' => Passed(v)
    <3>1. disc.word \in Nat
      BY <1>1, WordFacts
    <3> QED BY <2>2, <3>1 DEF Passed
  <2>6. ScanMoves
    BY <1>0, <1>4, <2>0, <2>2, <2>5 DEF ScanMoves
  <2> QED BY <2>3, <2>4, <2>6, ScanMovesKeep
<1>5. CASE estales = 1 /\ Fail("RepeatedEstale")
  <2>1. ~NoChurn
    BY <1>2, <1>5
  <2> QED BY <1>5, <2>1, FailKeeps
<1> QED BY <1>3, <1>4, <1>5 DEF AssociateStale

\* The thread is associated: from now on its messages come here.
LEMMA SucceedsKeeps ==
  ASSUME DiscInv, AssociateSucceeds
  PROVE  DiscInv'
<1>0. /\ DiscAt("associate") /\ Live(disc.gtid) /\ dfail = "none" /\ disc.at = "associate"
      /\ sw[live[disc.gtid]].barrier = disc.barrier /\ DiscTypeOK /\ WordInv /\ DiscScanInv
  BY DEF AssociateSucceeds, DiscAt, DiscInv
<1>1. /\ disc.gtid \in Gtids /\ disc.word \in Words /\ sw[disc.word].inuse
      /\ sw[disc.word].gtid = disc.gtid
      /\ disc.barrier = sw[disc.word].barrier => disc.runnable = sw[disc.word].runnable
  BY <1>0, AtAssociate
<1>2. PICK t \in Gtids, w \in Words : t = disc.gtid /\ w = disc.word
  BY <1>1
<1>t. /\ disc \in DiscTypes /\ known \in [Gtids -> Views] /\ inbox \in Seq(Letters)
      /\ toQueue \in [Gtids -> {"old", "default"}] /\ confused \subseteq Gtids
      /\ live \in [Gtids -> Words \cup {NoWord}]
  BY <1>0 DEF DiscTypeOK, DiscTypes
<1>3. /\ UNCHANGED <<sw, live, inbox, todoK, past, estales>>
      /\ confused' = (IF live[t] # w THEN confused \cup {t} ELSE confused)
      /\ toQueue' = [toQueue EXCEPT ![t] = "default"]
  BY <1>2 DEF AssociateSucceeds
<1>4. /\ toQueue' \in [Gtids -> {"old", "default"}] /\ toQueue'[t] = "default"
      /\ \A s \in Gtids \ {t} : toQueue'[s] = toQueue[s]
      /\ confused' \subseteq Gtids /\ confused \subseteq confused' /\ (confused' = {} => live[t] = w)
  BY <1>3, <1>t
<1>5. PICK k : k = [alive |-> TRUE, runnable |-> disc.runnable, seqnum |-> disc.barrier, word |-> w]
  OBVIOUS
<1>6. /\ k \in Views /\ k.alive = TRUE /\ k.runnable = disc.runnable /\ k.seqnum = disc.barrier /\ k.word = w
  BY <1>5, <1>t DEF Views, DiscTypes
\* The three outcomes.
<1>7. \/ Skipped /\ disc' = NextWord /\ UNCHANGED <<known, dfail>>
      \/ ~Skipped /\ known' = [known EXCEPT ![t] = k] /\ disc' = NextWord /\ UNCHANGED dfail
      \/ ~Skipped /\ known[t].alive /\ dfail' = "AlreadyHadTask" /\ UNCHANGED <<known, disc>>
  BY <1>2, <1>5 DEF AssociateSucceeds
<1>8. ~Skipped => toQueue[t] = "old" /\ ~sw[live[t]].brandnew /\ known[t] = Unknown
                  /\ Absent(t, 1, Len(inbox))
  BY <1>0, <1>2, <1>t DEF Skipped, DiscScanInv, Absent
<1>9. WordInv'
  BY <1>0, <1>3 DEF WordInv, Live, FreeWord
<1>10. CASE disc' = NextWord /\ UNCHANGED dfail
  <2>1. /\ disc' \in DiscTypes /\ disc'.at \notin Copied /\ disc'.at \in {"scan", "drain"}
        /\ disc'.at = "drain" \/ (disc.word < disc'.word /\ disc.word <= disc'.word)
        /\ \A v \in Words : Passed(v)' <=> Passed(v) \/ v = w
    BY <1>0, <1>2, <1>10, NextWordFacts
  <2>2. known' \in [Gtids -> Views] /\ \A s \in Gtids \ {t} : known'[s] = known[s]
    BY <1>6, <1>7, <1>8, <1>10, <1>t DEF Unknown
  <2>3. \/ known'[t] = known[t] /\ Skipped
        \/ known'[t] = k /\ ~Skipped
    <3>1. ~Skipped => ~known[t].alive
      BY <1>8 DEF Unknown
    <3> QED BY <1>7, <1>t, <3>1
  <2>4. DiscTypeOK'
    BY <1>0, <1>3, <1>4, <1>10, <2>1, <2>2 DEF DiscTypeOK, DiscTypes
  <2>5. CopyInv' /\ OneEstale'
    BY <2>1 DEF CopyInv, OneEstale
  <2>6. DiscScanInv'
    <3>1. ASSUME NEW s \in Gtids, toQueue'[s] = "old"
          PROVE  known'[s] = Unknown /\ \A i \in 1 .. Len(inbox) : inbox[i].gtid # s
      <4>1. s # t /\ toQueue[s] = "old" /\ known'[s] = known[s]
        BY <1>4, <2>2, <3>1
      <4> QED BY <1>0, <4>1 DEF DiscScanInv
    <3>2. ASSUME NEW s \in Gtids, known'[s].alive, disc'.at # "drain"
          PROVE  /\ known'[s].word < disc'.word /\ sw[known'[s].word].inuse
                 /\ sw[known'[s].word].gtid = s
      <4>1. CASE known'[s] = known[s]
        <5>1. known[s].word < disc.word /\ sw[known[s].word].inuse /\ sw[known[s].word].gtid = s
          BY <1>0, <3>2, <4>1 DEF DiscScanInv
        <5>2. known[s].word \in Nat
          <6>1. known[s].word \in Words
            BY <1>t, <3>2, <4>1, AliveView
          <6> QED BY <6>1, WordFacts
        <5>3. disc.word \in Nat /\ disc'.word \in Nat /\ disc.word <= disc'.word
          BY <1>1, <2>1, <3>2, WordFacts DEF DiscTypes
        <5> QED BY <4>1, <5>1, <5>2, <5>3
      <4>2. CASE s = t /\ known'[t] = k
        BY <1>1, <1>2, <1>6, <2>1, <3>2, <4>2
      <4> QED BY <2>2, <2>3, <4>1, <4>2
    <3> QED BY <1>3, <2>1, <3>1, <3>2 DEF DiscScanInv, Unknown
  <2>7. ASSUME confused' = {} PROVE AgreeInv'
    <3>0. AgreeInv /\ live[t] = w /\ UNCHANGED <<inbox, live, sw>>
      BY <1>0, <1>3, <1>4, <2>7 DEF DiscInv
    <3>1. \A s \in Gtids : Truth(s)' = Truth(s)
      BY <3>0 DEF Truth, Live, Unknown
    <3>2. ASSUME NEW s \in Gtids PROVE ViewOK(s)'
      <4>1. CASE s # t \/ toQueue[t] = "default"
        <5>1. known'[s] = known[s] /\ toQueue'[s] = toQueue[s]
          BY <1>2, <1>4, <1>8, <2>2, <2>3, <4>1 DEF Skipped
        <5> QED BY <3>0, <3>1, <5>1, ViewSame DEF AgreeInv
      <4>2. CASE s = t /\ toQueue[t] = "old"
        <5>1. Absent(t, 1, Len(inbox)) /\ known[t] = Unknown
          BY <1>0, <4>2 DEF DiscScanInv, Absent
        <5>2. Absent(t, 1, Len(inbox))'
          BY <3>0, <5>1 DEF Absent
        <5>3. known'[t] = Truth(t)
          <6>1. CASE Skipped
            <7>1. sw[live[t]].brandnew
              BY <1>2, <4>2, <6>1 DEF Skipped
            <7> QED BY <2>3, <5>1, <6>1, <7>1 DEF Truth
          <6>2. CASE ~Skipped
            <7>1. known'[t] = k /\ ~sw[w].brandnew
              BY <1>8, <2>3, <3>0, <6>2
            <7>2. sw[w].barrier = disc.barrier /\ sw[w].runnable = disc.runnable /\ Live(t)
              BY <1>0, <1>1, <1>2, <3>0
            <7> QED BY <1>5, <3>0, <7>1, <7>2 DEF Truth
          <6> QED BY <6>1, <6>2
        <5> QED BY <3>1, <4>2, <5>2, <5>3, ViewAbsent
      <4> QED BY <1>t, <4>1, <4>2
    <3>3. ASSUME NEW s \in Gtids, Live(s), toQueue'[s] = "old" PROVE ~Passed(live[s])'
      <4>1. s # t /\ toQueue[s] = "old"
        BY <1>4, <3>3
      <4>2. live[s] # w /\ live[s] \in Words /\ ~Passed(live[s])
        <5>1. sw[live[s]].gtid = s /\ live[s] \in Words
          BY <3>3, LiveFacts
        <5> QED BY <1>1, <1>2, <3>0, <3>3, <4>1, <5>1 DEF AgreeInv, ToHere
      <4>3. PICK v \in Words : v = live[s]
        BY <4>2
      <4>4. ~Passed(v)'
        BY <2>1, <4>2, <4>3
      <4> QED BY <3>0, <4>3, <4>4 DEF Passed
    <3>4. ASSUME NEW v \in Words, sw[v].inuse, sw[v].canfree, Passed(v)'
          PROVE  \E i \in 1 .. Len(inbox) :
                   inbox[i].type = "TASK_DEPARTED" /\ inbox[i].gtid = sw[v].gtid /\ inbox[i].word = v
      <4>1. v # w
        BY <1>0, <1>2, <3>0, <3>4, LiveFacts
      <4> QED BY <2>1, <3>0, <3>4, <4>1 DEF AgreeInv, ToHere
    <3> QED BY <3>0, <3>2, <3>3, <3>4 DEF AgreeInv, ToHere, Live, Passed
  <2>8. ASSUME NoChurn' PROVE CalmInv'
    <3>0. CalmInv /\ UNCHANGED <<inbox, live, sw, past>>
      BY <1>3, <2>8 DEF DiscInv, NoChurn
    <3>1. live[t] = w
      <4>1. live[t] \in Words /\ sw[live[t]].inuse /\ sw[live[t]].gtid = t
        BY <1>0, <1>2, LiveFacts
      <4> QED BY <1>1, <1>2, <3>0, <4>1 DEF CalmInv, OneLife
    <3>2. confused' = {} /\ dfail' = "none"
      BY <1>0, <1>3, <1>10, <3>0, <3>1 DEF CalmInv
    <3>3. \A v \in Words : Passed(v) => Passed(v)'
      BY <2>1
    <3>4. ASSUME NEW s \in Gtids, Live(s), toQueue'[s] = "default", past[s] = "early"
          PROVE  Passed(live[s])'
      <4>1. PICK v \in Words : v = live[s]
        BY <3>4, LiveFacts
      <4>2. Passed(v)'
        BY <1>4, <2>1, <3>0, <3>1, <3>3, <3>4, <4>1 DEF CalmInv, OneLife
      <4> QED BY <3>0, <4>1, <4>2 DEF Passed
    <3>5. OneLife'
      BY <3>0, <3>4 DEF CalmInv, OneLife, Live
    <3>6. Departures'
      <4>1. ASSUME NEW i \in 1 .. Len(inbox), inbox[i].type = "TASK_DEPARTED"
            PROVE  Passed(inbox[i].word)'
        <5>1. inbox[i] \in Letters /\ Passed(inbox[i].word)
          BY <1>t, <3>0, <4>1 DEF CalmInv, Departures
        <5>2. PICK v \in Words : v = inbox[i].word
          BY <5>1 DEF Letters
        <5>3. Passed(v)'
          BY <3>3, <5>1, <5>2
        <5> QED BY <3>0, <5>2, <5>3 DEF Passed
      <4> QED BY <3>0, <4>1 DEF CalmInv, Departures, Absent, Passed
    <3> QED BY <2>5, <3>2, <3>5, <3>6 DEF CalmInv
  <2> QED BY <1>9, <2>4, <2>5, <2>6, <2>7, <2>8 DEF DiscInv
<1>11. CASE ~Skipped /\ known[t].alive
  BY <1>8, <1>11 DEF Unknown
<1> QED BY <1>7, <1>10, <1>11

-------------------------------------------------------------------------------
(* The default channel is read.                                             *)

\* A message is read: the task follows it.
LEMMA DispatchKeeps ==
  ASSUME DiscInv, DispatchNext
  PROVE  DiscInv'
<1>0. /\ DiscTypeOK /\ WordInv /\ DiscScanInv /\ dfail = "none" /\ disc.at = "drain"
      /\ inbox \in Seq(Letters) /\ inbox # <<>> /\ known \in [Gtids -> Views]
      /\ sw \in [Words -> SwWords]
  BY DEF DispatchNext, DiscAt, DiscInv, DiscTypeOK
<1>1. PICK m \in Letters, n \in Nat : m = Head(inbox) /\ m = inbox[1] /\ Len(inbox) = n + 1
  <2>1. Head(inbox) \in Letters /\ Head(inbox) = inbox[1] /\ Len(inbox) - 1 \in Nat
    BY <1>0
  <2>2. Len(inbox) = (Len(inbox) - 1) + 1
    BY <1>0
  <2> QED BY <2>1, <2>2
<1>2. PICK t \in Gtids : t = m.gtid
  BY DEF Letters
<1>3. m.type \in {"TASK_NEW", "TASK_WAKEUP", "TASK_DEPARTED"} /\ m.runnable \in BOOLEAN
      /\ m.seqnum \in Nat /\ m.word \in Words
  BY DEF Letters
<1>4. PICK ignored \in BOOLEAN : ignored <=> ((m.type = "TASK_NEW") = known[t].alive)
  OBVIOUS
<1>5. PICK ok \in BOOLEAN : ok <=>
        /\ m.type = "TASK_WAKEUP" => ~known[t].runnable /\ m.seqnum > known[t].seqnum
        /\ m.type = "TASK_DEPARTED" => sw[known[t].word].canfree
  OBVIOUS
<1>6. PICK k : k = CASE m.type = "TASK_NEW" -> [alive |-> TRUE, runnable |-> m.runnable,
                                                seqnum |-> m.seqnum, word |-> m.word]
                     [] m.type = "TASK_WAKEUP" -> [known[t] EXCEPT !.runnable = TRUE, !.seqnum = m.seqnum]
                     [] OTHER -> Unknown
  OBVIOUS
<1>7. \/ /\ ignored /\ inbox' = Tail(inbox) /\ UNCHANGED <<live, toQueue, todoK, past>>
         /\ UNCHANGED <<sw, known, disc, estales, confused, dfail>>
      \/ /\ ~ignored /\ ok /\ inbox' = Tail(inbox) /\ UNCHANGED <<live, toQueue, todoK, past>>
         /\ known' = [known EXCEPT ![t] = k]
         /\ sw' = IF m.type = "TASK_DEPARTED" THEN [sw EXCEPT ![known[t].word] = FreeWord] ELSE sw
         /\ UNCHANGED <<disc, estales, confused, dfail>>
      \/ ~ignored /\ ~ok /\ Fail("DispatchMessage")
  BY <1>0, <1>1, <1>2, <1>3, <1>4, <1>5, <1>6 DEF DispatchNext
\* The message follows what is known, so it is not ignored.
<1>8. ASSUME confused = {}
      PROVE  /\ Follows(known[t], m) /\ ~ignored /\ AgreeInv
             /\ m.type = "TASK_WAKEUP" => ok
             /\ m.type # "TASK_NEW" => known[t].alive /\ known[t].word = m.word
  <2>1. AgreeInv
    BY <1>0, <1>8 DEF DiscInv
  <2>2. Follows(known[t], m)
    <3>1. 1 \in 1 .. Len(inbox) /\ Absent(t, 1, 1 - 1)
      BY <1>1 DEF Absent
    <3> QED BY <1>1, <1>2, <2>1, <3>1 DEF AgreeInv, ViewOK, FirstOK
  <2>3. m.type = "TASK_NEW" => known[t].alive = FALSE
    BY <2>2 DEF Follows, Unknown
  <2>4. m.type # "TASK_NEW" => known[t].alive = TRUE /\ known[t].word = m.word
                               /\ known[t].seqnum \in Nat
    BY <1>0, <1>3, <2>2, AliveView DEF Follows
  <2>5. m.type = "TASK_WAKEUP" => ok
    BY <1>3, <1>5, <2>2, <2>4 DEF Follows
  <2> QED BY <1>3, <1>4, <2>1, <2>2, <2>3, <2>4, <2>5
<1>9. ASSUME NoChurn PROVE ok /\ CalmInv /\ confused = {}
  <2>1. CalmInv /\ confused = {}
    BY <1>9 DEF DiscInv, CalmInv
  <2>2. m.type = "TASK_DEPARTED" => sw[m.word].canfree
    <3>1. 1 \in 1 .. Len(inbox)
      BY <1>1
    <3> QED BY <1>1, <2>1, <3>1 DEF CalmInv, Departures
  <2> QED BY <1>3, <1>5, <1>8, <2>1, <2>2
<1>10. CASE ~ok /\ Fail("DispatchMessage")
  BY <1>9, <1>10, FailKeeps
<1>11. CASE \/ /\ ignored /\ inbox' = Tail(inbox) /\ UNCHANGED <<live, toQueue, todoK, past>>
               /\ UNCHANGED <<sw, known, disc, estales, confused, dfail>>
            \/ /\ ~ignored /\ ok /\ inbox' = Tail(inbox) /\ UNCHANGED <<live, toQueue, todoK, past>>
               /\ known' = [known EXCEPT ![t] = k]
               /\ sw' = IF m.type = "TASK_DEPARTED" THEN [sw EXCEPT ![known[t].word] = FreeWord] ELSE sw
               /\ UNCHANGED <<disc, estales, confused, dfail>>
  <2>1. /\ inbox' = Tail(inbox) /\ UNCHANGED <<live, toQueue, todoK, past, disc, estales, confused, dfail>>
    BY <1>11
  <2>2. /\ inbox' \in Seq(Letters) /\ Len(inbox') = n /\ \A i \in 1 .. n : inbox'[i] = inbox[i + 1]
        /\ \A i \in 1 .. n : i + 1 \in 1 .. n + 1
    BY <1>0, <1>1, <2>1
  <2>3. known' \in [Gtids -> Views] /\ \A s \in Gtids \ {t} : known'[s] = known[s]
    <3>1. CASE ignored
      BY <1>0, <1>11, <3>1
    <3>2. CASE ~ignored
      <4>1. k \in Views
        <5>1. CASE m.type = "TASK_NEW"
          BY <1>3, <1>6, <5>1 DEF Views
        <5>2. CASE m.type = "TASK_WAKEUP"
          <6>1. known[t] \in Views /\ known[t].alive
            <7>1. known[t] \in Views /\ known[t].alive \in BOOLEAN
              BY <1>0, ViewAlive
            <7> QED BY <1>4, <3>2, <5>2, <7>1
          <6>2. known[t] \in [alive : {TRUE}, runnable : BOOLEAN, seqnum : Nat, word : Words]
            BY <6>1, AliveView
          <6>3. k = [known[t] EXCEPT !.runnable = TRUE, !.seqnum = m.seqnum]
            BY <1>6, <5>2
          <6> QED BY <1>3, <6>2, <6>3 DEF Views
        <5>3. CASE m.type = "TASK_DEPARTED"
          BY <1>6, <5>3 DEF Views
        <5> QED BY <1>3, <5>1, <5>2, <5>3
      <4> QED BY <1>0, <1>11, <3>2, <4>1
    <3> QED BY <3>1, <3>2
  \* A word that can be freed is freed, if the thread departs.
  <2>4. /\ sw' \in [Words -> SwWords]
        /\ \A v \in Words : sw'[v] = sw[v] \/
             (sw'[v] = FreeWord /\ sw[v].canfree /\ m.type = "TASK_DEPARTED" /\ v = known[t].word)
        /\ m.type = "TASK_DEPARTED" /\ ~ignored => known[t].word \in Words /\ sw'[known[t].word] = FreeWord
    <3>1. FreeWord \in SwWords
      BY DEF FreeWord, SwWords
    <3>2. CASE ~ignored /\ m.type = "TASK_DEPARTED"
      <4>1. known[t].alive
        <5>1. known[t] \in Views /\ known[t].alive \in BOOLEAN
          BY <1>0, ViewAlive
        <5> QED BY <1>4, <3>2, <5>1
      <4>2. known[t].word \in Words /\ sw[known[t].word].canfree
        BY <1>0, <1>5, <1>11, <3>2, <4>1, AliveView
      <4> QED BY <1>0, <1>11, <3>1, <3>2, <4>2
    <3>3. CASE ignored \/ m.type # "TASK_DEPARTED"
      BY <1>0, <1>11, <3>3
    <3> QED BY <3>2, <3>3
  <2>5. \A v \in Words : sw'[v].inuse => sw'[v] = sw[v]
    BY <2>4 DEF FreeWord
  <2>6. ASSUME NEW s \in Gtids, Live(s) PROVE sw'[live[s]] = sw[live[s]] /\ live[s] \in Words
    <3>1. live[s] \in Words /\ ~sw[live[s]].canfree
      BY <2>6, LiveFacts
    <3> QED BY <2>4, <3>1
  <2>7. DiscTypeOK'
    BY <1>0, <2>1, <2>2, <2>3, <2>4 DEF DiscTypeOK
  <2>8. WordInv'
    <3>1. ASSUME NEW s \in Gtids, Live(s)
          PROVE  sw'[live[s]].gtid = s /\ sw'[live[s]].inuse /\ ~sw'[live[s]].canfree
      BY <1>0, <2>6, <3>1 DEF WordInv
    <3>2. ASSUME NEW v \in Words, ~sw'[v].inuse PROVE sw'[v] = FreeWord
      BY <1>0, <2>4, <3>2 DEF WordInv
    <3>3. ASSUME NEW v \in Words, sw'[v].inuse
          PROVE  /\ sw'[v].gtid \in Gtids
                 /\ sw'[v].canfree \/ live[sw'[v].gtid] = v
                 /\ sw'[v].brandnew => sw'[v].runnable /\ ~sw'[v].canfree /\ sw'[v].barrier = 0
      BY <1>0, <2>5, <3>3 DEF WordInv
    <3> QED BY <2>1, <3>1, <3>2, <3>3 DEF WordInv, Live, FreeWord
  <2>9. CopyInv' /\ OneEstale'
    BY <1>0, <2>1 DEF CopyInv, OneEstale, Copied
  <2>10. DiscScanInv'
    <3>1. ASSUME NEW s \in Gtids, toQueue[s] = "old"
          PROVE  known'[s] = Unknown /\ \A i \in 1 .. n : inbox'[i].gtid # s
      <4>1. known[s] = Unknown /\ \A i \in 1 .. n + 1 : inbox[i].gtid # s
        BY <1>0, <1>1, <3>1 DEF DiscScanInv
      <4>2. s # t
        BY <1>1, <1>2, <4>1
      <4> QED BY <2>2, <2>3, <4>1, <4>2
    <3> QED BY <1>0, <2>1, <2>2, <3>1 DEF DiscScanInv, Unknown
  <2>11. ASSUME confused = {} PROVE AgreeInv'
    <3>0. /\ AgreeInv /\ ~ignored /\ known' = [known EXCEPT ![t] = k] /\ Follows(known[t], m)
          /\ m.type # "TASK_NEW" => known[t].alive /\ known[t].word = m.word
      BY <1>8, <1>11, <2>11
    <3>1. known'[t] = After(m)
      <4>1. known'[t] = k
        BY <1>0, <3>0
      <4>2. CASE m.type = "TASK_WAKEUP"
        <5>1. known[t] \in [alive : {TRUE}, runnable : BOOLEAN, seqnum : Nat, word : Words]
          BY <1>0, <3>0, <4>2, AliveView
        <5>2. k = [known[t] EXCEPT !.runnable = TRUE, !.seqnum = m.seqnum] /\ m.runnable = TRUE
          BY <1>3, <1>6, <3>0, <4>2 DEF Follows
        <5>3. k = [alive |-> TRUE, runnable |-> TRUE, seqnum |-> m.seqnum, word |-> m.word]
          BY <3>0, <4>2, <5>1, <5>2
        <5> QED BY <4>1, <4>2, <5>2, <5>3 DEF After
      <4>3. CASE m.type # "TASK_WAKEUP"
        BY <1>3, <1>6, <4>1, <4>3 DEF After
      <4> QED BY <4>2, <4>3
    <3>2. ASSUME NEW s \in Gtids PROVE ViewOK(s)'
      <4>1. Truth(s)' = Truth(s)
        BY <2>1, <2>6 DEF Truth, Live, Unknown
      <4>2. known'[s] = IF Head(inbox).gtid = s THEN After(Head(inbox)) ELSE known[s]
        BY <1>1, <1>2, <2>3, <3>1
      <4> QED BY <1>0, <2>1, <3>0, <4>1, <4>2, ViewRead DEF AgreeInv
    <3>3. ASSUME NEW v \in Words, sw'[v].inuse, sw'[v].canfree
          PROVE  \E i \in 1 .. n : inbox'[i].type = "TASK_DEPARTED"
                   /\ inbox'[i].gtid = sw'[v].gtid /\ inbox'[i].word = v
      <4>1. sw'[v] = sw[v] /\ Passed(v)
        BY <1>0, <2>5, <3>3 DEF Passed
      <4>2. PICK i \in 1 .. n + 1 : inbox[i].type = "TASK_DEPARTED"
              /\ inbox[i].gtid = sw[v].gtid /\ inbox[i].word = v
        BY <1>1, <3>0, <3>3, <4>1 DEF AgreeInv, ToHere
      <4>3. i # 1
        <5>1. SUFFICES ASSUME i = 1 PROVE FALSE
          OBVIOUS
        <5>2. m.type = "TASK_DEPARTED" /\ v = known[t].word
          BY <1>1, <3>0, <4>2, <5>1
        <5> QED BY <2>4, <3>0, <3>3, <5>2 DEF FreeWord
      <4>4. PICK j \in 1 .. n : j + 1 = i
        <5>1. i - 1 \in 1 .. n /\ (i - 1) + 1 = i
          BY <4>3
        <5> QED BY <5>1
      <4> QED BY <2>2, <4>1, <4>2, <4>4
    <3>4. \A s \in Gtids : ~(Live(s) /\ toQueue[s] = "old")
      BY <1>0, <3>0 DEF AgreeInv, ToHere, Passed
    <3> QED BY <2>1, <2>2, <3>2, <3>3, <3>4 DEF AgreeInv, ToHere, Live
  <2>12. ASSUME NoChurn' PROVE CalmInv'
    <3>0. NoChurn /\ CalmInv /\ confused = {} /\ ~ignored
      BY <1>8, <1>9, <2>1, <2>12 DEF NoChurn
    <3>1. OneLife'
      <4>1. ASSUME NEW s \in Gtids, past[s] = "never"
            PROVE  ~Live(s) /\ \A w \in Words : ~(sw'[w].inuse /\ sw'[w].gtid = s)
        BY <2>5, <3>0, <4>1 DEF CalmInv, OneLife
      <4>2. ASSUME NEW v \in Words, NEW w \in Words, sw'[v].inuse, sw'[w].inuse,
                   sw'[v].gtid = sw'[w].gtid
            PROVE  v = w
        <5>1. sw'[v] = sw[v] /\ sw'[w] = sw[w]
          BY <2>5, <4>2
        <5> QED BY <3>0, <4>2, <5>1 DEF CalmInv, OneLife
      <4> QED BY <1>0, <2>1, <4>1, <4>2 DEF OneLife, Live, Passed
    <3>2. Departures'
      <4>1. ASSUME NEW i \in 1 .. n, inbox'[i].type = "TASK_DEPARTED"
            PROVE  /\ sw'[inbox'[i].word].inuse /\ sw'[inbox'[i].word].canfree
                   /\ sw'[inbox'[i].word].gtid = inbox'[i].gtid
                   /\ Absent(inbox[i].gtid, i + 1, Len(inbox))'
        <5>1. PICK j \in 1 .. n + 1 : j = i + 1 /\ inbox'[i] = inbox[j] /\ inbox[j] \in Letters
          <6>1. i + 1 \in 1 .. n + 1 /\ inbox'[i] = inbox[i + 1]
            BY <2>2
          <6>2. inbox[i + 1] \in Letters
            BY <1>0, <1>1, <6>1
          <6> QED BY <6>1, <6>2
        <5>2. PICK v \in Words : v = inbox[j].word
          BY <5>1 DEF Letters
        <5>3. /\ sw[v].inuse /\ sw[v].canfree /\ sw[v].gtid = inbox[j].gtid
              /\ Absent(inbox[j].gtid, j + 1, n + 1)
          BY <1>1, <3>0, <4>1, <5>1, <5>2 DEF CalmInv, Departures
        \* The thread that has just departed has no other message.
        <5>4. sw'[v] = sw[v]
          <6>1. SUFFICES ASSUME sw'[v] # sw[v] PROVE FALSE
            OBVIOUS
          <6>2. m.type = "TASK_DEPARTED" /\ v = m.word
            BY <1>8, <2>4, <3>0, <6>1
          <6>3. sw[v].gtid = t /\ Absent(t, 1 + 1, n + 1)
            <7>1. 1 \in 1 .. Len(inbox)
              BY <1>1
            <7> QED BY <1>1, <1>2, <3>0, <6>2, <7>1 DEF CalmInv, Departures
          <6>4. j \in 1 + 1 .. n + 1
            BY <5>1
          <6> QED BY <5>3, <6>3, <6>4 DEF Absent
        <5>5. ASSUME NEW l \in i + 1 .. n PROVE inbox'[l].gtid # inbox[j].gtid
          <6>1. l + 1 \in j + 1 .. n + 1 /\ l \in 1 .. n
            BY <5>1
          <6> QED BY <2>2, <5>3, <6>1 DEF Absent
        <5>6. Absent(inbox[i].gtid, i + 1, Len(inbox))'
          BY <2>2, <5>1, <5>5 DEF Absent
        <5> QED BY <5>1, <5>2, <5>3, <5>4, <5>6
      <4>2. \A v : Passed(v)'
        BY <1>0, <2>1 DEF Passed
      <4> QED BY <2>2, <4>1, <4>2 DEF Departures
    <3> QED BY <1>0, <2>1, <2>9, <3>0, <3>1, <3>2 DEF CalmInv
  <2> QED BY <2>1, <2>7, <2>8, <2>9, <2>10, <2>11, <2>12 DEF DiscInv
<1> QED BY <1>7, <1>10, <1>11

\* Before discovery.
LEMMA DiscInitOK == DiscInit => DiscInv
<1> SUFFICES ASSUME DiscInit PROVE DiscInv
  OBVIOUS
<1>1. /\ sw = [w \in Words |-> FreeWord] /\ live = [t \in Gtids |-> NoWord]
      /\ toQueue = [t \in Gtids |-> "old"] /\ inbox = <<>> /\ todoK = MaxKernel
      /\ past = [t \in Gtids |-> "never"] /\ known = [t \in Gtids |-> Unknown]
      /\ disc = NoCopy /\ estales = 0 /\ confused = {} /\ dfail = "none"
  BY DEF DiscInit
<1>2. DiscTypeOK
  <2>1. FreeWord \in SwWords /\ Unknown \in Views /\ todoK \in Nat
    BY <1>1, DiscoveryAssumption DEF FreeWord, SwWords, Views
  <2>2. disc \in DiscTypes
    BY <1>1, WordFacts DEF NoCopy, DiscTypes
  <2>3. inbox \in Seq(Letters)
    BY <1>1
  <2> QED BY <1>1, <2>1, <2>2, <2>3 DEF DiscTypeOK, DiscTypes
<1>3. WordInv /\ CopyInv
  BY <1>1 DEF WordInv, CopyInv, Live, FreeWord, NoCopy, Copied
<1>4. DiscScanInv
  BY <1>1 DEF DiscScanInv, NoCopy, Unknown
<1>5. AgreeInv
  BY <1>1 DEF AgreeInv, ViewOK, FirstOK, ChainOK, LastOK, NoneOK, ToHere, Live, FreeWord
<1>6. CalmInv
  BY <1>1 DEF CalmInv, OneEstale, OneLife, Departures, NoCopy, Copied, Live, FreeWord
<1> QED BY <1>2, <1>3, <1>4, <1>5, <1>6 DEF DiscInv

\* Nothing happens.
LEMMA DiscStutter ==
  ASSUME DiscInv, UNCHANGED discVars
  PROVE  DiscInv'
<1>1. /\ UNCHANGED <<sw, live, toQueue, inbox, todoK, past, known, disc, estales, confused, dfail>>
  BY DEF discVars, swVars
<1>2. DiscTypeOK' /\ WordInv' /\ CopyInv' /\ (dfail' = "none" => DiscScanInv')
  BY <1>1 DEF DiscInv, DiscTypeOK, WordInv, CopyInv, DiscScanInv, Live, FreeWord, Unknown
<1>3. dfail = "none" /\ confused = {} => AgreeInv'
  <2>1. SUFFICES ASSUME AgreeInv PROVE AgreeInv'
    BY DEF DiscInv
  <2>2. \A t \in Gtids : Truth(t)' = Truth(t)
    BY <1>1 DEF Truth, Live, Unknown
  <2>3. \A t \in Gtids : ViewOK(t)'
    BY <1>1, <2>1, <2>2, ViewSame DEF AgreeInv
  <2> QED BY <1>1, <2>1, <2>3 DEF AgreeInv, ToHere, Live, Passed
<1>4. NoChurn' => CalmInv'
  BY <1>1 DEF DiscInv, NoChurn, CalmInv, OneEstale, OneLife, Departures, Live, Passed, Absent, Settled
<1> QED BY <1>1, <1>2, <1>3, <1>4 DEF DiscInv

\* The invariant holds.
LEMMA DiscInvariant == DiscSpec => []DiscInv
<1>1. ASSUME DiscInv, [DiscNext]_discVars PROVE DiscInv'
  <2>1. CASE KernelActs
    BY <2>1, <1>1, EnterKeeps, OffCpuKeeps, WakeKeeps, LeaveKeeps DEF KernelActs
  <2>2. CASE DiscStep
    BY <2>2, <1>1, QuietScanSteps, NoentKeeps, StaleKeeps, SucceedsKeeps, DispatchKeeps DEF DiscStep
  <2>3. CASE UNCHANGED discVars
    BY <2>3, <1>1, DiscStutter
  <2> QED BY <1>1, <2>1, <2>2, <2>3 DEF DiscNext
<1> QED BY <1>1, DiscInitOK, PTL DEF DiscSpec

(***************************************************************************)
(* Discovery is exact: with the status words scanned and the default       *)
(* channel read, a scheduler knows every thread in ghOSt, its state,       *)
(* sequence number and status word, and every other status word is freed,  *)
(* however many threads come, wake up, leave and come back meanwhile, as   *)
(* long as no word of an earlier life has had the barrier of the new one.  *)
(***************************************************************************)
THEOREM DiscoveryIsExact == DiscSpec => []DiscoveryAgrees
<1>1. DiscInv => DiscoveryAgrees
  <2> SUFFICES ASSUME DiscInv, DiscAt("drain"), inbox = <<>>, confused = {}
               PROVE  /\ \A t \in Gtids : known[t] = Truth(t)
                      /\ \A w \in Words : sw[w].inuse => live[sw[w].gtid] = w
    BY DEF DiscoveryAgrees, Truth
  <2>1. AgreeInv /\ DiscScanInv /\ WordInv /\ DiscTypeOK /\ dfail = "none" /\ disc.at = "drain"
    BY DEF DiscInv, DiscAt
  <2>2. ASSUME NEW t \in Gtids PROVE known[t] = Truth(t)
    <3>1. Absent(t, 1, Len(inbox))
      BY DEF Absent
    <3>2. toQueue[t] = "default" \/ Truth(t) = Unknown
      BY <2>1 DEF AgreeInv, ToHere, Passed, Truth, DiscTypeOK
    <3> QED BY <2>1, <3>1, <3>2, KnownTruth
  <2>3. ASSUME NEW w \in Words, sw[w].inuse PROVE live[sw[w].gtid] = w
    <3>1. ~sw[w].canfree
      BY <2>1, <2>3 DEF AgreeInv, ToHere, Passed
    <3> QED BY <2>1, <2>3, <3>1 DEF WordInv
  <2> QED BY <2>2, <2>3
<1> QED BY <1>1, DiscInvariant, PTL

(***************************************************************************)
(* Discovery ends in no CHECK or GHOST_ERROR, in particular in no second   *)
(* ESTALE for a word, unless a thread has come back to ghOSt, or entered   *)
(* and left it within the scan.                                            *)
(***************************************************************************)
THEOREM DiscoveryIsSafe == DiscSpec => []AbortsOnlyOnReentry
<1>1. DiscInv => AbortsOnlyOnReentry
  BY DEF DiscInv, NoChurn, CalmInv, AbortsOnlyOnReentry
<1> QED BY <1>1, DiscInvariant, PTL
===============================================================================
