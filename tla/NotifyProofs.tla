----------------------------- MODULE NotifyProofs -----------------------------
(***************************************************************************)
(* What a step inside a call of a Notification does, seen from the caller: *)
(* the facts that the proofs about the users of Notification rest on.  The *)
(* users have to see to it that nobody notifies what is notified and that  *)
(* nobody resets a Notification that somebody is about to sleep on.        *)
(***************************************************************************)
EXTENDS Notification, TLAPS

\* Notify() before its compare-and-exchange.
Announcing == {"notify_load", "notify_cas"}

CallsOK ==
  /\ NoteTypeOK /\ ~aborted
  /\ \A th \in Threads :
       /\ op[th].at \in Announcing => notified[op[th].on] # "kNotified"
       /\ op[th].at \in {"futex", "asleep", "woken"} => notified[op[th].on] # "kNoWaiter"

\* A call has three kinds of labels.
LEMMA Labels ==
  ASSUME NoteTypeOK, NEW th \in Threads
  PROVE  /\ op[th].at = "idle" \/ op[th].at \in WaitLabels \/ op[th].at \in NotifyLabels
         /\ ~(op[th].at \in WaitLabels /\ op[th].at \in NotifyLabels)
         /\ op[th].at \in Announcing => op[th].at \in NotifyLabels
         /\ op[th].at = "wake" => op[th].at \in NotifyLabels \ Announcing
         /\ op[th].at \in Announcing => op[th].at # "idle"
         /\ op[th].at \in WaitLabels => op[th].at # "idle"
         /\ op[th].at # "idle" => op[th].on \in Notes
BY DEF NoteTypeOK, Ops, WaitLabels, NotifyLabels, Announcing

OthersAtMostWoken(th) ==
  \A u \in Threads : u # th =>
    \/ op'[u] = op[u]
    \/ op[u].at = "asleep" /\ op'[u].at = "woken" /\ op'[u].on = op[u].on

WaitGoesOn(th) ==
  /\ op[th].at \in WaitLabels /\ op'[th].at \in WaitLabels /\ op'[th].on = op[th].on
  /\ op'[th].at \in {"futex", "asleep", "woken"} => notified'[op[th].on] # "kNoWaiter"
  /\ \A n \in Notes :
       \/ notified'[n] = notified[n]
       \/ n = op[th].on /\ notified[n] = "kNoWaiter" /\ notified'[n] = "kWaiter"

WaitEnds(th) ==
  /\ op[th].at \in WaitLabels /\ op'[th].at = "idle"
  /\ notified[op[th].on] = "kNotified" /\ UNCHANGED notified

NotifyGoesOn(th) ==
  /\ op[th].at \in Announcing /\ op'[th].at \in Announcing /\ op'[th].on = op[th].on
  /\ UNCHANGED notified

NotifyTakesEffect(th) ==
  /\ op[th].at \in Announcing /\ op'[th].at \in {"wake", "idle"}
  /\ op'[th].at = "wake" => op'[th].on = op[th].on
  /\ notified' = [notified EXCEPT ![op[th].on] = "kNotified"]

NotifyEnds(th) ==
  /\ op[th].at = "wake" /\ op'[th].at = "idle" /\ UNCHANGED notified

LEMMA OpEffect ==
  ASSUME CallsOK, NEW th \in Threads, OpStep(th) \/ SpuriousWakeup(th)
  PROVE  /\ NoteTypeOK' /\ ~aborted' /\ OthersAtMostWoken(th)
         /\ \/ WaitGoesOn(th) \/ WaitEnds(th)
            \/ NotifyGoesOn(th) \/ NotifyTakesEffect(th) \/ NotifyEnds(th)
<1> USE DEF OpAt, Word
<1>0. /\ op \in [Threads -> Ops] /\ op[th] \in Ops /\ notified \in [Notes -> NotifiedStates]
      /\ op[th].at # "idle" => op[th].on \in Notes
      /\ \A u \in Threads : op[u].at # "idle" => op[u].on \in Notes
      /\ aborted = FALSE
  BY DEF CallsOK, NoteTypeOK
<1>i. Idle \in Ops /\ Idle.at = "idle"
  BY DEF Idle, Ops, NotifiedStates

\* Enough: what the step does to the thread's own call and to its word.
<1>1. ASSUME NEW x \in Ops, op' = [op EXCEPT ![th] = x], x.at # "idle" => x.on \in Notes,
             notified' \in [Notes -> NotifiedStates], UNCHANGED aborted
      PROVE  NoteTypeOK' /\ ~aborted' /\ OthersAtMostWoken(th) /\ op'[th] = x
  <2>1. op' \in [Threads -> Ops] /\ op'[th] = x /\ \A u \in Threads : u # th => op'[u] = op[u]
    BY <1>0, <1>1
  <2> QED BY <1>0, <1>1, <2>1 DEF NoteTypeOK, OthersAtMostWoken
<1>2. ASSUME NEW l \in {"idle"} \cup WaitLabels \cup NotifyLabels
      PROVE  /\ [op[th] EXCEPT !.at = l] \in Ops /\ [op[th] EXCEPT !.at = l].at = l
             /\ [op[th] EXCEPT !.at = l].on = op[th].on
  BY <1>0 DEF Ops
<1>3. ASSUME NEW l, OpGoto(th, l) PROVE op' = [op EXCEPT ![th] = [op[th] EXCEPT !.at = l]]
  BY <1>3 DEF OpGoto
<1>4. CASE WaitLoad(th)
  <2>1. CASE Word(th) = "kNotified"
    BY <1>0, <1>i, <1>1, <1>4, <2>1 DEF WaitLoad, OpReturn, WaitEnds, WaitLabels
  <2>2. CASE Word(th) = "kNoWaiter"
    <3>1. op' = [op EXCEPT ![th] = [op[th] EXCEPT !.at = "cas"]] /\ UNCHANGED <<notified, aborted>>
          /\ op[th].at = "load"
      BY <1>3, <1>4, <2>2 DEF WaitLoad
    <3> QED BY <1>0, <1>1, <1>2, <3>1 DEF WaitGoesOn, WaitLabels
  <2>3. CASE Word(th) = "kWaiter"
    <3>1. op' = [op EXCEPT ![th] = [op[th] EXCEPT !.at = "futex"]] /\ UNCHANGED <<notified, aborted>>
          /\ op[th].at = "load"
      BY <1>3, <1>4, <2>3 DEF WaitLoad
    <3> QED BY <1>0, <1>1, <1>2, <2>3, <3>1 DEF WaitGoesOn, WaitLabels
  <2> QED BY <1>4, <2>1, <2>2, <2>3 DEF WaitLoad
<1>5. CASE WaitCas(th)
  <2>1. op' = [op EXCEPT ![th] = [op[th] EXCEPT !.at = "load"]] /\ UNCHANGED aborted
        /\ op[th].at = "cas"
    BY <1>3, <1>5 DEF WaitCas
  <2>2. /\ notified' \in [Notes -> NotifiedStates]
        /\ \A n \in Notes :
             \/ notified'[n] = notified[n]
             \/ n = op[th].on /\ notified[n] = "kNoWaiter" /\ notified'[n] = "kWaiter"
    <3>1. CASE Word(th) = "kNoWaiter"
      BY <1>0, <1>5, <3>1 DEF WaitCas, NotifiedStates
    <3>2. CASE Word(th) # "kNoWaiter"
      BY <1>0, <1>5, <3>2 DEF WaitCas, NotifiedStates
    <3> QED BY <3>1, <3>2
  <2> QED BY <1>0, <1>1, <1>2, <2>1, <2>2 DEF WaitGoesOn, WaitLabels
<1>6. CASE FutexWait(th)
  <2>0. op[th].at = "futex" /\ UNCHANGED <<notified, aborted>> /\ op[th].on \in Notes
    BY <1>0, <1>6 DEF FutexWait
  <2>1. CASE Word(th) = "kWaiter"
    <3>1. op' = [op EXCEPT ![th] = [op[th] EXCEPT !.at = "asleep"]]
      BY <1>3, <1>6, <2>1 DEF FutexWait
    <3> QED BY <1>0, <1>1, <1>2, <2>0, <2>1, <3>1 DEF WaitGoesOn, WaitLabels
  <2>2. CASE Word(th) # "kWaiter"
    <3>1. notified[op[th].on] = "kNotified"
      BY <1>0, <2>0, <2>2 DEF CallsOK, NotifiedStates
    <3> QED BY <1>0, <1>i, <1>1, <1>6, <2>0, <2>2, <3>1 DEF FutexWait, OpReturn, WaitEnds, WaitLabels
  <2> QED BY <2>1, <2>2
<1>7. CASE FutexRecheck(th)
  <2>0. op[th].at = "woken" /\ UNCHANGED <<notified, aborted>> /\ op[th].on \in Notes
    BY <1>0, <1>7 DEF FutexRecheck
  <2>1. CASE Word(th) = "kWaiter"
    <3>1. op' = [op EXCEPT ![th] = [op[th] EXCEPT !.at = "futex"]]
      BY <1>3, <1>7, <2>1 DEF FutexRecheck
    <3> QED BY <1>0, <1>1, <1>2, <2>0, <2>1, <3>1 DEF WaitGoesOn, WaitLabels
  <2>2. CASE Word(th) # "kWaiter"
    <3>1. notified[op[th].on] = "kNotified"
      BY <1>0, <2>0, <2>2 DEF CallsOK, NotifiedStates
    <3> QED BY <1>0, <1>i, <1>1, <1>7, <2>0, <2>2, <3>1 DEF FutexRecheck, OpReturn, WaitEnds, WaitLabels
  <2> QED BY <2>1, <2>2
<1>8. CASE SpuriousWakeup(th)
  <2>0. op[th].at = "asleep" /\ UNCHANGED <<notified, aborted>> /\ op[th].on \in Notes
    BY <1>0, <1>8 DEF SpuriousWakeup
  <2>1. notified[op[th].on] # "kNoWaiter"
    BY <2>0 DEF CallsOK
  <2>2. CASE OpGoto(th, "woken")
    <3>1. op' = [op EXCEPT ![th] = [op[th] EXCEPT !.at = "woken"]]
      BY <1>3, <2>2
    <3> QED BY <1>0, <1>1, <1>2, <2>0, <2>1, <3>1 DEF WaitGoesOn, WaitLabels
  <2>3. CASE OpGoto(th, "futex")
    <3>1. op' = [op EXCEPT ![th] = [op[th] EXCEPT !.at = "futex"]]
      BY <1>3, <2>3
    <3> QED BY <1>0, <1>1, <1>2, <2>0, <2>1, <3>1 DEF WaitGoesOn, WaitLabels
  <2> QED BY <1>8, <2>2, <2>3 DEF SpuriousWakeup
<1>9. CASE NotifyLoad(th)
  <2>0. op[th].at = "notify_load" /\ UNCHANGED notified /\ op[th].on \in Notes
    BY <1>0, <1>9 DEF NotifyLoad
  <2>1. Word(th) # "kNotified"
    BY <2>0 DEF CallsOK, Announcing
  <2>2. UNCHANGED aborted /\ op' = [op EXCEPT ![th].at = "notify_cas", ![th].v = Word(th)]
    BY <1>9, <2>1 DEF NotifyLoad
  <2> DEFINE x == [op[th] EXCEPT !.at = "notify_cas", !.v = Word(th)]
  <2>3. x \in Ops /\ x.at = "notify_cas" /\ x.on = op[th].on
    BY <1>0, <2>0 DEF Ops, NotifyLabels
  <2>4. op' = [op EXCEPT ![th] = x]
    BY <1>0, <2>2
  <2> QED BY <1>0, <1>1, <2>0, <2>2, <2>3, <2>4 DEF NotifyGoesOn, Announcing
<1>10. CASE NotifyCas(th)
  <2>0. op[th].at = "notify_cas" /\ UNCHANGED aborted /\ op[th].on \in Notes
    BY <1>0, <1>10 DEF NotifyCas
  <2>1. CASE Word(th) # op[th].v
    <3>1. op' = [op EXCEPT ![th] = [op[th] EXCEPT !.at = "notify_load"]] /\ UNCHANGED notified
      BY <1>3, <1>10, <2>1 DEF NotifyCas
    <3> QED BY <1>0, <1>1, <1>2, <2>0, <3>1 DEF NotifyGoesOn, Announcing, NotifyLabels
  <2>2. CASE Word(th) = op[th].v
    <3>0. /\ notified' = [notified EXCEPT ![op[th].on] = "kNotified"]
          /\ notified' \in [Notes -> NotifiedStates]
      BY <1>0, <1>10, <2>0, <2>2 DEF NotifyCas, NotifiedStates
    <3>1. CASE op[th].v = "kWaiter"
      <4>1. op' = [op EXCEPT ![th] = [op[th] EXCEPT !.at = "wake"]]
        BY <1>3, <1>10, <2>2, <3>1 DEF NotifyCas
      <4> QED BY <1>0, <1>1, <1>2, <2>0, <3>0, <4>1 DEF NotifyTakesEffect, Announcing, NotifyLabels
    <3>2. CASE op[th].v # "kWaiter"
      BY <1>0, <1>i, <1>1, <1>10, <2>0, <2>2, <3>0, <3>2
         DEF NotifyCas, OpReturn, NotifyTakesEffect, Announcing
    <3> QED BY <3>1, <3>2
  <2> QED BY <2>1, <2>2
<1>11. CASE NotifyWake(th)
  <2>0. op[th].at = "wake" /\ UNCHANGED <<notified, aborted>> /\ op'[th] = Idle
    BY <1>0, <1>11 DEF NotifyWake
  <2>1. ASSUME NEW u \in Threads
        PROVE  /\ op'[u] \in Ops /\ (op'[u].at # "idle" => op'[u].on \in Notes)
               /\ u # th => \/ op'[u] = op[u]
                            \/ op[u].at = "asleep" /\ op'[u].at = "woken" /\ op'[u].on = op[u].on
    <3>1. CASE u = th
      BY <1>i, <2>0, <3>1
    <3>2. CASE u # th /\ op[u].at = "asleep" /\ op[u].on = op[th].on
      <4>1. op'[u] = [op[u] EXCEPT !.at = "woken"] /\ op[u] \in Ops
        BY <1>0, <1>11, <3>2 DEF NotifyWake
      <4>2. op'[u] \in Ops /\ op'[u].at = "woken" /\ op'[u].on = op[u].on
        BY <4>1 DEF Ops, WaitLabels
      <4> QED BY <1>0, <3>2, <4>2
    <3>3. CASE u # th /\ ~(op[u].at = "asleep" /\ op[u].on = op[th].on)
      <4>1. op'[u] = op[u]
        BY <1>11, <3>3 DEF NotifyWake
      <4> QED BY <1>0, <4>1
    <3> QED BY <3>1, <3>2, <3>3
  <2>2. op' = [u \in Threads |-> op'[u]]
    BY <1>11 DEF NotifyWake
  <2>3. op' \in [Threads -> Ops]
    BY <2>1, <2>2
  <2> QED BY <1>0, <1>i, <2>0, <2>1, <2>3 DEF NoteTypeOK, OthersAtMostWoken, NotifyEnds
<1> QED
  BY <1>4, <1>5, <1>6, <1>7, <1>8, <1>9, <1>10, <1>11 DEF OpStep
===============================================================================
