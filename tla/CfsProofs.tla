------------------------------ MODULE CfsProofs ------------------------------
(***************************************************************************)
(* The CFS scheduler, for every number of tasks and CPUs: every task is in *)
(* exactly one place, no CHECK of the handlers fails, the scheduler agrees *)
(* with the kernel once it has read the messages of a task, and no wakeup  *)
(* is lost.  A thread that leaves ghOSt does not come back ("reenter" is   *)
(* not among the events, as in the run cfs), and CfsAssumption leaves out  *)
(* switchto.  Between PickNextTask and the assignment of cs->current the   *)
(* place of a task is told by what was picked (Chosen): cs->current is     *)
(* then out of date, and may be a task that has been freed (the run        *)
(* cfs_current), so nothing here speaks of it.                             *)
(*                                                                         *)
(* What a task's messages lead to is what makes the rest inductive: read   *)
(* in the order of the channel, they lead from the state in the CfsTask    *)
(* to the state in the kernel (MessageInv), all of them in the channel of  *)
(* the CPU whose mutex guards the task.  CpuInv ties the tasks on the CPUs *)
(* to the agents that put them there, PlaceInv the queues to the states of *)
(* the tasks, AgentInv the locals of an agent to where it is.              *)
(***************************************************************************)
EXTENDS CfsScheduler, QueueProofs, FiniteSetTheorems

-------------------------------------------------------------------------------
(* The tasks and their places, the messages on their way, and the agents.   *)

\* What the scheduler makes of a task.
View(t) ==
  IF ~task[t].known \/ Is(t, "kDone") THEN "none" ELSE IF Is(t, "kBlocked") THEN "blocked" ELSE "ready"

\* What the kernel makes of it.
Truth(t) ==
  IF kst[t] \in {"new", "dead", "departed"} THEN "none"
  ELSE IF kst[t] = "runnable" THEN "ready" ELSE "blocked"

\* What one can make of it.
Views == {"none", "blocked", "ready"}

\* The messages of a task that has left its CPU but not ghOSt.
OffCpu == {"TASK_BLOCKED", "TASK_YIELD", "TASK_PREEMPT"}

\* May message m come when the view is v?
MayCome(v, m) ==
  /\ m.type = "TASK_NEW" => v = "none"
  /\ m.type \in {"TASK_WAKEUP", "TASK_DEAD"} => v = "blocked"
  /\ m.type \in OffCpu => v = "ready"
  /\ m.type \in {"TASK_DEPARTED", "TASK_AFFINITY_CHANGED"} => v # "none"
  /\ m.type # "TASK_SWITCHTO"

\* The view that it leads to.
After(v, m) ==
  CASE m.type = "TASK_NEW" -> IF m.flag THEN "ready" ELSE "blocked"
    [] m.type \in {"TASK_WAKEUP", "TASK_YIELD", "TASK_PREEMPT"} -> "ready"
    [] m.type = "TASK_BLOCKED" -> "blocked"
    [] m.type \in {"TASK_DEPARTED", "TASK_DEAD"} -> "none"
    [] OTHER -> v

\* None of the messages lo .. hi of channel q is about t.
Absent(q, t, lo, hi) == \A i \in lo .. hi : q[i].task # t

\* The messages about t in channel q lead from st[0] to st[Len(q)].
Chain(q, t, st) ==
  /\ st \in [0 .. Len(q) -> Views]
  /\ \A i \in 1 .. Len(q) : q[i].task = t => MayCome(st[i - 1], q[i]) /\ st[i] = After(st[i - 1], q[i])
  /\ \A i, j \in 0 .. Len(q) : i <= j /\ Absent(q, t, i + 1, j) => st[i] = st[j]

\* The messages about t in channel q lead from v to w.
Leads(q, t, v, w) == \E st : Chain(q, t, st) /\ st[0] = v /\ st[Len(q)] = w

\* They are numbered in order, all after lo, and the last one is hi.
Numbered(q, t, lo, hi) ==
  /\ lo <= hi
  /\ \A i \in 1 .. Len(q) : q[i].task = t => lo < q[i].seq /\ q[i].seq <= hi
  /\ \A i, j \in 1 .. Len(q) : q[i].task = t /\ q[j].task = t /\ i < j => q[i].seq < q[j].seq
  /\ \A i \in 1 .. Len(q) : q[i].task = t /\ Absent(q, t, i + 1, Len(q)) => q[i].seq = hi

\* The channel where the messages about t go.
Home(t) == chan[assoc[t]]

\* A message about t has still to be read.
Unread(t) == ~Absent(Home(t), t, 1, Len(Home(t)))

\* No change of its affinity has still to be read.
AffinityKnown(t) ==
  \A i \in 1 .. Len(Home(t)) :
    Home(t)[i].task = t => Home(t)[i].type # "TASK_AFFINITY_CHANGED"

\* The messages about t are in the channel of its CPU, and lead from what the
\* scheduler knows to the truth.
MsgOK(t) ==
  /\ \A c \in Cpus : c # assoc[t] => Absent(chan[c], t, 1, Len(chan[c]))
  /\ task[t].known => task[t].cpu = assoc[t]
  /\ Leads(Home(t), t, View(t), Truth(t))
  /\ Numbered(Home(t), t, task[t].seqnum, seq[t])
  /\ View(t) # "none" /\ ~Unread(t) /\ InGhost(t) => task[t].seqnum = seq[t]
  /\ View(t) # "none" /\ AffinityKnown(t) /\ InGhost(t) => task[t].cpu_affinity = allowed[t]
  /\ kst[t] = "new" => task[t] = FreeTask /\ ~Unread(t)

\* The messages of all tasks.
MessageInv == \A t \in Tasks : MsgOK(t)

\* Task t is, as far as the scheduler knows, on CPU c.
IsCurrent(t, c) == task[t].known /\ task[t].cpu = c /\ Chosen[c] = t /\ Is(t, "kRunning")

\* The first hi messages of channel q say nothing about t but its affinity.
OnlyAffinity(q, t, hi) == \A i \in 1 .. hi : q[i].task = t => q[i].type = "TASK_AFFINITY_CHANGED"

\* A task on a CPU is there because its agent has put it there, and the agent
\* is off the CPU.
RunOK(t) ==
  /\ oncpu[t] # NoCpu =>
       /\ kst[t] = "runnable" /\ assoc[t] = oncpu[t] /\ ast[oncpu[t]] # "running"
       /\ IsCurrent(t, oncpu[t]) /\ OnlyAffinity(Home(t), t, Len(Home(t)))
  /\ via[t] = IF oncpu[t] = NoCpu THEN "none" ELSE "txn"

\* A task that has left the CPU stays the current one until its agent reads
\* the message that says so.
OffOK(c) ==
  \A i \in 1 .. Len(chan[c]) : chan[c][i].type \in OffCpu =>
    /\ pc[c] \in {"top", "drain"} /\ chan[c][i].cpu = c
    /\ IsCurrent(chan[c][i].task, c) /\ OnlyAffinity(chan[c], chan[c][i].task, i - 1)

\* What is on the CPUs.
CpuInv ==
  /\ \A t \in Tasks : RunOK(t)
  /\ \A c \in Cpus : OffOK(c) /\ (ast[c] # "running" => pc[c] = "top")

\* Task t waits for CPU c.
Waits(t, q, c) == task[t].known /\ Is(t, "kRunnable") /\ task[t].on_rq = q /\ task[t].cpu = c

\* Every task is where its states say, and nowhere else.
PlaceOK(t) ==
  /\ \A c \in Cpus :
       /\ t \in rq[c] <=> Waits(t, "kQueued", c)
       /\ t \in mq[c] <=> Waits(t, "kMigrating", c)
       /\ t \in moving[c] <=> Waits(t, "kDequeued", c)
       /\ Chosen[c] = t => task[t].known /\ task[t].cpu = c /\ ~Is(t, "kRunnable")
  /\ task[t].known /\ task[t].state \in {"kRunning", "kDone"} => Chosen[task[t].cpu] = t
  /\ ~Is(t, "kRunnable") => task[t].on_rq = "kDequeued"

\* The places of all tasks.
PlaceInv == \A t \in Tasks : PlaceOK(t)

\* The labels of NewIdleBalance.
Balancing == {"balance", "detach", "attach", "pickpulled"}

\* What an agent has in hand.
AgentOK(c) ==
  /\ moving[c] # {} => pc[c] = "attach"
  /\ todo[c] \subseteq mq[c] /\ (todo[c] # {} => pc[c] \in {"migrate", "ping"})
  /\ IF pc[c] = "commit" \/ (pc[c] = "picked" /\ next[c] # NoTask)
       THEN next[c] \in Tasks /\ IsCurrent(next[c], c) ELSE next[c] = NoTask
  /\ pc[c] \in Balancing \cup {"yield"} => Chosen[c] = NoTask

\* What all agents have in hand.
AgentInv == \A c \in Cpus : AgentOK(c)

\* Some agent has moved a task to CPU c and is about to say so.
Pinged(c) == \E d \in Cpus : pc[d] = "ping" /\ target[d] = c

\* The agent has found nothing to run, and is going to yield.
Idling(c) == pc[c] \in {"balance", "detach", "attach", "yield"} \/ (pc[c] = "picked" /\ next[c] = NoTask)

\* An agent that has something to do is awake, or somebody is about to wake it.
WakeOK(c) ==
  /\ chan[c] # <<>> /\ pc[c] # "drain" => stale[c]
  /\ \A t \in mq[c] : pc[c] # "drain" => t \in todo[c] \/ stale[c]
  /\ onIdle[c] => pc[c] = "yield"
  /\ Idling(c) /\ ~onIdle[c] => rq[c] = {} \/ stale[c] \/ Pinged(c)
  /\ ast[c] = "sleeping" =>
       /\ ~stale[c]
       /\ current[c] # NoTask => oncpu[current[c]] = c
       /\ rq[c] = {} \/ current[c] # NoTask \/ (boosted[c] /\ rtla[c]) \/ Pinged(c)

\* No agent sleeps through something.
WakeInv == \A c \in Cpus : WakeOK(c)

\* The inductive invariant.
CfsInv == TypeOK /\ failed = NoFailure /\ MessageInv /\ CpuInv /\ PlaceInv /\ AgentInv
-------------------------------------------------------------------------------
(* Chains of messages.                                                      *)

\* The view that a message leads to.
LEMMA AfterType ==
  ASSUME NEW v \in Views, NEW m \in Messages
  PROVE  After(v, m) \in Views
BY DEF Views, After

\* What a message is.
LEMMA MessageFacts ==
  ASSUME NEW q \in Seq(Messages), NEW i \in 1 .. Len(q)
  PROVE  /\ q[i] \in Messages /\ q[i].seq \in Nat /\ q[i].task \in Tasks
         /\ q[i].flag \in BOOLEAN /\ q[i].cpu \in Cpus \cup {NoCpu} /\ q[i].type \in MsgTypes
<1>1. q[i] \in Messages
  OBVIOUS
<1> QED BY <1>1 DEF Messages

\* Without a message about t.
LEMMA AbsentChain ==
  ASSUME NEW q \in Seq(Messages), NEW t, Absent(q, t, 1, Len(q))
  PROVE  /\ \A v \in Views : Leads(q, t, v, v)
         /\ \A v, w : Leads(q, t, v, w) => v = w
         /\ \A lo \in Nat, hi \in Nat : lo <= hi => Numbered(q, t, lo, hi)
<1>0. Len(q) \in Nat
  OBVIOUS
<1>1. ASSUME NEW v \in Views PROVE Leads(q, t, v, v)
  <2>1. PICK st : st = [i \in 0 .. Len(q) |-> v]
    OBVIOUS
  <2>2. st \in [0 .. Len(q) -> Views] /\ \A i \in 0 .. Len(q) : st[i] = v
    BY <2>1
  <2>3. Chain(q, t, st)
    BY <2>2 DEF Chain, Absent
  <2>4. st[0] = v /\ st[Len(q)] = v
    BY <1>0, <2>2
  <2> QED BY <2>3, <2>4 DEF Leads
<1>2. ASSUME NEW v, NEW w, Leads(q, t, v, w) PROVE v = w
  <2>1. PICK st : Chain(q, t, st) /\ st[0] = v /\ st[Len(q)] = w
    BY <1>2 DEF Leads
  <2>2. 0 \in 0 .. Len(q) /\ Len(q) \in 0 .. Len(q) /\ 0 <= Len(q) /\ Absent(q, t, 0 + 1, Len(q))
    BY <1>0 DEF Absent
  <2> QED BY <2>1, <2>2 DEF Chain
<1>3. ASSUME NEW lo \in Nat, NEW hi \in Nat, lo <= hi PROVE Numbered(q, t, lo, hi)
  BY <1>3 DEF Numbered, Absent
<1> QED BY <1>1, <1>2, <1>3

\* All messages have been read.
LEMMA NoneUnread ==
  ASSUME NEW q \in Seq(Messages), NEW t, NEW n \in Nat, Numbered(q, t, n, n)
  PROVE  Absent(q, t, 1, Len(q))
<1> SUFFICES ASSUME NEW i \in 1 .. Len(q), q[i].task = t PROVE FALSE
  BY DEF Absent
<1>1. n < q[i].seq /\ q[i].seq <= n
  BY DEF Numbered
<1>2. q[i].seq \in Nat
  BY MessageFacts
<1> QED BY <1>1, <1>2

\* The numbers bound from below may be smaller.
LEMMA LowerNumbered ==
  ASSUME NEW q \in Seq(Messages), NEW t, NEW lo \in Nat, NEW lo2 \in Nat, NEW hi \in Nat,
         Numbered(q, t, lo, hi), lo2 <= lo
  PROVE  Numbered(q, t, lo2, hi)
<1>1. \A i \in 1 .. Len(q) : q[i].seq \in Nat
  BY MessageFacts
<1> QED BY <1>1 DEF Numbered

\* A message about t is sent.
LEMMA SentChain ==
  ASSUME NEW q \in Seq(Messages), NEW t, NEW v, NEW w, NEW m \in Messages, m.task = t,
         Leads(q, t, v, w), MayCome(w, m)
  PROVE  Leads(Append(q, m), t, v, After(w, m))
<1>1. PICK st : Chain(q, t, st) /\ st[0] = v /\ st[Len(q)] = w
  BY DEF Leads
<1>2. PICK n \in Nat : n = Len(q)
  OBVIOUS
<1>3. PICK p : p = Append(q, m)
  OBVIOUS
<1>4. p \in Seq(Messages) /\ Len(p) = n + 1 /\ p[n + 1] = m /\ \A i \in 1 .. n : p[i] = q[i]
  BY <1>2, <1>3, AppendFacts
<1>5. /\ st \in [0 .. n -> Views]
      /\ \A i \in 1 .. n : q[i].task = t => MayCome(st[i - 1], q[i]) /\ st[i] = After(st[i - 1], q[i])
      /\ \A i, j \in 0 .. n : i <= j /\ Absent(q, t, i + 1, j) => st[i] = st[j]
      /\ st[0] = v /\ st[n] = w
  BY <1>1, <1>2 DEF Chain
<1>6. PICK new : new = [i \in 0 .. n + 1 |-> IF i = n + 1 THEN After(w, m) ELSE st[i]]
  OBVIOUS
<1>7. After(w, m) \in Views
  BY <1>5, AfterType
<1>8. /\ new \in [0 .. n + 1 -> Views] /\ new[n + 1] = After(w, m) /\ new[0] = v
      /\ \A i \in 0 .. n : new[i] = st[i]
  BY <1>5, <1>6, <1>7
<1>9. ASSUME NEW i \in 1 .. n + 1, p[i].task = t
      PROVE  MayCome(new[i - 1], p[i]) /\ new[i] = After(new[i - 1], p[i])
  <2>1. CASE i = n + 1
    <3>1. p[i] = m /\ new[i - 1] = w /\ new[i] = After(w, m)
      BY <1>4, <1>5, <1>8, <2>1
    <3> QED BY <3>1
  <2>2. CASE i # n + 1
    <3>1. i \in 1 .. n /\ p[i] = q[i] /\ new[i] = st[i] /\ new[i - 1] = st[i - 1]
      BY <1>4, <1>8, <2>2
    <3> QED BY <1>5, <1>9, <3>1
  <2> QED BY <2>1, <2>2
<1>10. ASSUME NEW i \in 0 .. n + 1, NEW j \in 0 .. n + 1, i <= j, Absent(p, t, i + 1, j)
       PROVE  new[i] = new[j]
  <2>1. CASE j = n + 1
    <3>1. i = n + 1
      <4>1. p[n + 1].task = t
        BY <1>4
      <4>2. ~(n + 1 \in i + 1 .. j)
        BY <1>10, <4>1 DEF Absent
      <4> QED BY <2>1, <4>2
    <3> QED BY <2>1, <3>1
  <2>2. CASE j # n + 1
    <3>1. i \in 0 .. n /\ j \in 0 .. n
      BY <1>10, <2>2
    <3>2. Absent(q, t, i + 1, j)
      BY <1>4, <1>10, <3>1 DEF Absent
    <3> QED BY <1>5, <1>8, <1>10, <3>1, <3>2
  <2> QED BY <2>1, <2>2
<1>11. Chain(p, t, new)
  BY <1>4, <1>8, <1>9, <1>10 DEF Chain
<1> QED BY <1>3, <1>4, <1>8, <1>11 DEF Leads

\* It has the next number.
LEMMA SentNumber ==
  ASSUME NEW q \in Seq(Messages), NEW t, NEW lo \in Nat, NEW hi \in Nat, NEW m \in Messages,
         m.task = t, m.seq = hi + 1, Numbered(q, t, lo, hi)
  PROVE  Numbered(Append(q, m), t, lo, hi + 1)
<1>0. PICK n \in Nat : n = Len(q)
  OBVIOUS
<1>1. PICK p : p = Append(q, m) /\ n = Len(q)
  BY <1>0
<1>2. p \in Seq(Messages) /\ Len(p) = n + 1 /\ p[n + 1] = m /\ \A i \in 1 .. n : p[i] = q[i]
  BY <1>1, AppendFacts
<1>3. \A i \in 1 .. n : q[i].seq \in Nat
  BY <1>1, MessageFacts
<1>4. /\ \A i \in 1 .. n : q[i].task = t => lo < q[i].seq /\ q[i].seq <= hi
      /\ \A i, j \in 1 .. n : q[i].task = t /\ q[j].task = t /\ i < j => q[i].seq < q[j].seq
      /\ lo <= hi
  BY <1>1 DEF Numbered
<1>5. \A i \in 1 .. n + 1 : i \in 1 .. n \/ i = n + 1
  OBVIOUS
<1>6. \A i \in 1 .. n + 1 : p[i].task = t => lo < p[i].seq /\ p[i].seq <= hi + 1
  BY <1>2, <1>3, <1>4, <1>5
<1>7. ASSUME NEW i \in 1 .. n + 1, NEW j \in 1 .. n + 1, p[i].task = t, p[j].task = t, i < j
      PROVE  p[i].seq < p[j].seq
  <2>1. i \in 1 .. n
    BY <1>7
  <2>2. q[i].seq \in Nat /\ q[i].seq <= hi /\ p[i] = q[i]
    BY <1>2, <1>3, <1>4, <1>7, <2>1
  <2>3. CASE j = n + 1
    BY <1>2, <2>2, <2>3
  <2>4. CASE j # n + 1
    BY <1>2, <1>4, <1>5, <1>7, <2>1, <2>4
  <2> QED BY <2>3, <2>4
<1>8. ASSUME NEW i \in 1 .. n + 1, p[i].task = t, Absent(p, t, i + 1, n + 1)
      PROVE  p[i].seq = hi + 1
  <2>1. ~(n + 1 \in i + 1 .. n + 1)
    BY <1>2, <1>8 DEF Absent
  <2>2. i = n + 1
    BY <2>1
  <2> QED BY <1>2, <2>2
<1> QED BY <1>1, <1>2, <1>4, <1>6, <1>7, <1>8 DEF Numbered

\* A message about another task is sent.
LEMMA OtherSent ==
  ASSUME NEW q \in Seq(Messages), NEW t, NEW m \in Messages, m.task # t
  PROVE  /\ \A v, w : Leads(q, t, v, w) => Leads(Append(q, m), t, v, w)
         /\ \A lo, hi : Numbered(q, t, lo, hi) => Numbered(Append(q, m), t, lo, hi)
<1>0. PICK n \in Nat : n = Len(q)
  OBVIOUS
<1>1. PICK p : p = Append(q, m) /\ n = Len(q)
  BY <1>0
<1>2. p \in Seq(Messages) /\ Len(p) = n + 1 /\ p[n + 1] = m /\ \A i \in 1 .. n : p[i] = q[i]
  BY <1>1, AppendFacts
<1>3. \A i \in 1 .. n + 1 : i \in 1 .. n \/ i = n + 1
  OBVIOUS
<1>4. ASSUME NEW v, NEW w, Leads(q, t, v, w) PROVE Leads(p, t, v, w)
  <2>1. PICK st : Chain(q, t, st) /\ st[0] = v /\ st[Len(q)] = w
    BY <1>4 DEF Leads
  <2>2. /\ st \in [0 .. n -> Views]
        /\ \A i \in 1 .. n : q[i].task = t => MayCome(st[i - 1], q[i]) /\ st[i] = After(st[i - 1], q[i])
        /\ \A i, j \in 0 .. n : i <= j /\ Absent(q, t, i + 1, j) => st[i] = st[j]
        /\ st[0] = v /\ st[n] = w
    BY <1>1, <2>1 DEF Chain
  <2>3. PICK new : new = [i \in 0 .. n + 1 |-> IF i = n + 1 THEN w ELSE st[i]]
    OBVIOUS
  <2>4. /\ new \in [0 .. n + 1 -> Views] /\ new[n + 1] = w /\ new[0] = v
        /\ \A i \in 0 .. n : new[i] = st[i]
    BY <2>2, <2>3
  <2>5. ASSUME NEW i \in 1 .. n + 1, p[i].task = t
        PROVE  MayCome(new[i - 1], p[i]) /\ new[i] = After(new[i - 1], p[i])
    <3>1. i \in 1 .. n /\ p[i] = q[i] /\ new[i] = st[i] /\ new[i - 1] = st[i - 1]
      BY <1>2, <2>4, <2>5
    <3> QED BY <2>2, <2>5, <3>1
  <2>6. ASSUME NEW i \in 0 .. n + 1, NEW j \in 0 .. n + 1, i <= j, Absent(p, t, i + 1, j)
        PROVE  new[i] = new[j]
    <3>1. CASE i = n + 1
      BY <2>6, <3>1
    <3>2. CASE i # n + 1 /\ j # n + 1
      <4>1. i \in 0 .. n /\ j \in 0 .. n
        BY <3>2
      <4>2. Absent(q, t, i + 1, j)
        BY <1>2, <2>6, <4>1 DEF Absent
      <4> QED BY <2>2, <2>4, <2>6, <4>1, <4>2
    <3>3. CASE i # n + 1 /\ j = n + 1
      <4>1. i \in 0 .. n /\ n \in 0 .. n /\ i <= n
        BY <3>3
      <4>2. Absent(q, t, i + 1, n)
        BY <1>2, <2>6, <3>3, <4>1 DEF Absent
      <4>3. st[i] = st[n]
        BY <2>2, <4>1, <4>2
      <4> QED BY <2>2, <2>4, <3>3, <4>1, <4>3
    <3> QED BY <3>1, <3>2, <3>3
  <2>7. Chain(p, t, new)
    BY <1>2, <2>4, <2>5, <2>6 DEF Chain
  <2> QED BY <1>2, <2>4, <2>7 DEF Leads
<1>5. ASSUME NEW lo, NEW hi, Numbered(q, t, lo, hi) PROVE Numbered(p, t, lo, hi)
  <2>1. ASSUME NEW i \in 1 .. n + 1, p[i].task = t PROVE i \in 1 .. n /\ p[i] = q[i]
    BY <1>2, <1>3, <2>1
  <2>2. ASSUME NEW i \in 1 .. n, Absent(p, t, i + 1, n + 1) PROVE Absent(q, t, i + 1, n)
    BY <1>2, <2>2 DEF Absent
  <2> QED BY <1>1, <1>2, <1>5, <2>1, <2>2 DEF Numbered
<1> QED BY <1>1, <1>4, <1>5

\* The first message is about t and is read.
LEMMA ReadChain ==
  ASSUME NEW q \in Seq(Messages), q # <<>>, NEW t, NEW v, NEW w, Head(q).task = t, Leads(q, t, v, w)
  PROVE  MayCome(v, Head(q)) /\ Leads(Tail(q), t, After(v, Head(q)), w)
<1>0. PICK n \in Nat \ {0} : n = Len(q)
  BY TailFacts
<1>1. PICK p : p = Tail(q) /\ n = Len(q)
  BY <1>0
<1>2. p \in Seq(Messages) /\ Len(p) = n - 1 /\ Head(q) = q[1] /\ \A i \in 1 .. n - 1 : p[i] = q[i + 1]
  BY <1>1, TailFacts
<1>3. PICK st : Chain(q, t, st) /\ st[0] = v /\ st[Len(q)] = w
  BY DEF Leads
<1>4. /\ st \in [0 .. n -> Views]
      /\ \A i \in 1 .. n : q[i].task = t => MayCome(st[i - 1], q[i]) /\ st[i] = After(st[i - 1], q[i])
      /\ \A i, j \in 0 .. n : i <= j /\ Absent(q, t, i + 1, j) => st[i] = st[j]
      /\ st[0] = v /\ st[n] = w
  BY <1>1, <1>3 DEF Chain
<1>5. 1 \in 1 .. n /\ 1 - 1 = 0
  BY <1>1
<1>6. MayCome(v, Head(q)) /\ st[1] = After(v, Head(q))
  BY <1>2, <1>4, <1>5
<1>7. PICK new : new = [i \in 0 .. n - 1 |-> st[i + 1]]
  OBVIOUS
<1>8. /\ new \in [0 .. n - 1 -> Views] /\ new[n - 1] = w /\ new[0] = st[1]
      /\ \A i \in 0 .. n - 1 : new[i] = st[i + 1]
  BY <1>1, <1>4, <1>7
<1>9. ASSUME NEW i \in 1 .. n - 1, p[i].task = t
      PROVE  MayCome(new[i - 1], p[i]) /\ new[i] = After(new[i - 1], p[i])
  <2>1. i + 1 \in 1 .. n /\ p[i] = q[i + 1] /\ new[i] = st[i + 1] /\ new[i - 1] = st[i]
        /\ (i + 1) - 1 = i
    BY <1>1, <1>2, <1>8
  <2> QED BY <1>4, <1>9, <2>1
<1>10. ASSUME NEW i \in 0 .. n - 1, NEW j \in 0 .. n - 1, i <= j, Absent(p, t, i + 1, j)
       PROVE  new[i] = new[j]
  <2>1. ASSUME NEW k \in i + 2 .. j + 1 PROVE q[k].task # t
    <3>1. k - 1 \in i + 1 .. j /\ k - 1 \in 1 .. n - 1 /\ (k - 1) + 1 = k
      BY <1>1, <1>10
    <3> QED BY <1>2, <1>10, <3>1 DEF Absent
  <2>2. Absent(q, t, (i + 1) + 1, j + 1) /\ i + 1 \in 0 .. n /\ j + 1 \in 0 .. n /\ i + 1 <= j + 1
    BY <1>1, <1>10, <2>1 DEF Absent
  <2> QED BY <1>4, <1>8, <2>2
<1>11. Chain(p, t, new)
  BY <1>1, <1>2, <1>8, <1>9, <1>10 DEF Chain
<1> QED BY <1>1, <1>2, <1>6, <1>8, <1>11 DEF Leads

\* The numbers of the others.
LEMMA ReadNumber ==
  ASSUME NEW q \in Seq(Messages), q # <<>>, NEW t, NEW lo \in Nat, NEW hi \in Nat, Head(q).task = t,
         Numbered(q, t, lo, hi)
  PROVE  /\ lo < Head(q).seq /\ Numbered(Tail(q), t, Head(q).seq, hi)
         /\ Absent(Tail(q), t, 1, Len(Tail(q))) => Head(q).seq = hi
<1>0. PICK n \in Nat \ {0} : n = Len(q)
  BY TailFacts
<1>1. PICK p : p = Tail(q) /\ n = Len(q)
  BY <1>0
<1>2. p \in Seq(Messages) /\ Len(p) = n - 1 /\ Head(q) = q[1] /\ \A i \in 1 .. n - 1 : p[i] = q[i + 1]
  BY <1>1, TailFacts
<1>3. \A i \in 1 .. n : q[i].seq \in Nat
  BY <1>1, MessageFacts
<1>4. /\ \A i \in 1 .. n : q[i].task = t => lo < q[i].seq /\ q[i].seq <= hi
      /\ \A i, j \in 1 .. n : q[i].task = t /\ q[j].task = t /\ i < j => q[i].seq < q[j].seq
      /\ \A i \in 1 .. n : q[i].task = t /\ Absent(q, t, i + 1, n) => q[i].seq = hi
  BY <1>1 DEF Numbered
<1>5. \A i \in 1 .. n - 1 : i + 1 \in 1 .. n /\ 1 < i + 1 /\ p[i] = q[i + 1]
  BY <1>1, <1>2
<1>6. 1 \in 1 .. n /\ q[1].task = t
  BY <1>1, <1>2
<1>7. ASSUME NEW i \in 0 .. n - 1, Absent(p, t, i + 1, n - 1) PROVE Absent(q, t, (i + 1) + 1, n)
  <2> SUFFICES ASSUME NEW k \in i + 2 .. n PROVE q[k].task # t
    BY DEF Absent
  <2>1. k - 1 \in i + 1 .. n - 1 /\ k - 1 \in 1 .. n - 1 /\ (k - 1) + 1 = k
    BY <1>1
  <2> QED BY <1>2, <1>7, <2>1 DEF Absent
<1>8. Head(q).seq <= hi /\ lo < Head(q).seq
  BY <1>2, <1>4, <1>6
<1>9. \A i \in 1 .. n - 1 : p[i].task = t => Head(q).seq < p[i].seq /\ p[i].seq <= hi
  BY <1>2, <1>4, <1>5, <1>6
<1>10. ASSUME NEW i \in 1 .. n - 1, NEW j \in 1 .. n - 1, p[i].task = t, p[j].task = t, i < j
       PROVE  p[i].seq < p[j].seq
  <2>1. i + 1 < j + 1
    BY <1>10
  <2> QED BY <1>4, <1>5, <1>10, <2>1
<1>11. \A i \in 1 .. n - 1 : p[i].task = t /\ Absent(p, t, i + 1, n - 1) => p[i].seq = hi
  BY <1>4, <1>5, <1>7
<1>12. Absent(p, t, 1, n - 1) => Head(q).seq = hi
  <2>1. 0 \in 0 .. n - 1 /\ 0 + 1 = 1
    BY <1>1
  <2> QED BY <1>2, <1>4, <1>6, <1>7, <2>1
<1> QED BY <1>1, <1>2, <1>8, <1>9, <1>10, <1>11, <1>12 DEF Numbered

\* It is about another task.
LEMMA OtherRead ==
  ASSUME NEW q \in Seq(Messages), q # <<>>, NEW t, Head(q).task # t
  PROVE  /\ \A v, w : Leads(q, t, v, w) => Leads(Tail(q), t, v, w)
         /\ \A lo, hi : Numbered(q, t, lo, hi) => Numbered(Tail(q), t, lo, hi)
<1>0. PICK n \in Nat \ {0} : n = Len(q)
  BY TailFacts
<1>1. PICK p : p = Tail(q) /\ n = Len(q)
  BY <1>0
<1>2. p \in Seq(Messages) /\ Len(p) = n - 1 /\ Head(q) = q[1] /\ \A i \in 1 .. n - 1 : p[i] = q[i + 1]
  BY <1>1, TailFacts
<1>3. ASSUME NEW i \in 0 .. n - 1, NEW j \in 0 .. n - 1, Absent(p, t, i + 1, j)
      PROVE  Absent(q, t, (i + 1) + 1, j + 1)
  <2> SUFFICES ASSUME NEW k \in i + 2 .. j + 1 PROVE q[k].task # t
    BY DEF Absent
  <2>1. k - 1 \in i + 1 .. j /\ k - 1 \in 1 .. n - 1 /\ (k - 1) + 1 = k
    BY <1>1
  <2> QED BY <1>2, <1>3, <2>1 DEF Absent
<1>4. ASSUME NEW v, NEW w, Leads(q, t, v, w) PROVE Leads(p, t, v, w)
  <2>1. PICK st : Chain(q, t, st) /\ st[0] = v /\ st[Len(q)] = w
    BY <1>4 DEF Leads
  <2>2. /\ st \in [0 .. n -> Views]
        /\ \A i \in 1 .. n : q[i].task = t => MayCome(st[i - 1], q[i]) /\ st[i] = After(st[i - 1], q[i])
        /\ \A i, j \in 0 .. n : i <= j /\ Absent(q, t, i + 1, j) => st[i] = st[j]
        /\ st[0] = v /\ st[n] = w
    BY <1>1, <2>1 DEF Chain
  <2>3. st[1] = v
    <3>1. 0 \in 0 .. n /\ 1 \in 0 .. n /\ Absent(q, t, 0 + 1, 1)
      BY <1>1, <1>2 DEF Absent
    <3> QED BY <2>2, <3>1
  <2>4. PICK new : new = [i \in 0 .. n - 1 |-> st[i + 1]]
    OBVIOUS
  <2>5. /\ new \in [0 .. n - 1 -> Views] /\ new[n - 1] = w /\ new[0] = v
        /\ \A i \in 0 .. n - 1 : new[i] = st[i + 1]
    BY <1>1, <2>2, <2>3, <2>4
  <2>6. ASSUME NEW i \in 1 .. n - 1, p[i].task = t
        PROVE  MayCome(new[i - 1], p[i]) /\ new[i] = After(new[i - 1], p[i])
    <3>1. i + 1 \in 1 .. n /\ p[i] = q[i + 1] /\ new[i] = st[i + 1] /\ new[i - 1] = st[i]
          /\ (i + 1) - 1 = i
      BY <1>1, <1>2, <2>5
    <3> QED BY <2>2, <2>6, <3>1
  <2>7. ASSUME NEW i \in 0 .. n - 1, NEW j \in 0 .. n - 1, i <= j, Absent(p, t, i + 1, j)
        PROVE  new[i] = new[j]
    <3>1. Absent(q, t, (i + 1) + 1, j + 1) /\ i + 1 \in 0 .. n /\ j + 1 \in 0 .. n /\ i + 1 <= j + 1
      BY <1>1, <1>3, <2>7
    <3> QED BY <2>2, <2>5, <3>1
  <2>8. Chain(p, t, new)
    BY <1>1, <1>2, <2>5, <2>6, <2>7 DEF Chain
  <2> QED BY <1>1, <1>2, <2>5, <2>8 DEF Leads
<1>5. ASSUME NEW lo, NEW hi, Numbered(q, t, lo, hi) PROVE Numbered(p, t, lo, hi)
  <2>1. \A i \in 1 .. n - 1 : i + 1 \in 1 .. n /\ p[i] = q[i + 1]
    BY <1>1, <1>2
  <2>2. \A i, j \in 1 .. n - 1 : i < j => i + 1 < j + 1
    BY <1>1
  <2>3. /\ \A i \in 1 .. n : q[i].task = t => lo < q[i].seq /\ q[i].seq <= hi
        /\ \A i, j \in 1 .. n : q[i].task = t /\ q[j].task = t /\ i < j => q[i].seq < q[j].seq
        /\ \A i \in 1 .. n : q[i].task = t /\ Absent(q, t, i + 1, n) => q[i].seq = hi
        /\ lo <= hi
    BY <1>1, <1>5 DEF Numbered
  <2>4. ASSUME NEW i \in 1 .. n - 1, Absent(p, t, i + 1, n - 1) PROVE Absent(q, t, (i + 1) + 1, n)
    <3>1. n - 1 \in 0 .. n - 1 /\ (n - 1) + 1 = n /\ i \in 0 .. n - 1
      BY <1>1
    <3> QED BY <1>3, <2>4, <3>1
  <2> QED BY <1>2, <2>1, <2>2, <2>3, <2>4 DEF Numbered
<1> QED BY <1>1, <1>4, <1>5
-------------------------------------------------------------------------------
(* The messages about one task.                                             *)

\* What a CfsTask is.
LEMMA RecordFacts ==
  ASSUME NEW r \in CfsTasks
  PROVE  /\ r.known \in BOOLEAN /\ r.state \in States /\ r.on_rq \in OnRqs /\ r.seqnum \in Nat
         /\ r.known => r.cpu \in Cpus /\ r.cpu_affinity \subseteq Cpus
         /\ r.known => r \in [known : {TRUE}, state : States, on_rq : OnRqs, cpu : Cpus,
                              seqnum : Nat, cpu_affinity : SUBSET Cpus]
         /\ ~r.known => r = FreeTask
<1>1. CASE r = FreeTask
  BY <1>1 DEF FreeTask, States, OnRqs
<1>2. CASE r # FreeTask
  <2>1. r \in [known : {TRUE}, state : States, on_rq : OnRqs, cpu : Cpus, seqnum : Nat,
               cpu_affinity : SUBSET Cpus]
    BY <1>2 DEF CfsTasks
  <2> QED BY <2>1
<1> QED BY <1>1, <1>2

\* The parts of a task, by TypeOK.
LEMMA TaskFacts ==
  ASSUME TypeOK, NEW t \in Tasks
  PROVE  /\ task[t] \in CfsTasks /\ task[t].known \in BOOLEAN /\ task[t].state \in States
         /\ task[t].on_rq \in OnRqs /\ task[t].seqnum \in Nat
         /\ task[t].known => task[t].cpu \in Cpus
         /\ ~task[t].known => task[t] = FreeTask
         /\ seq[t] \in Nat /\ assoc[t] \in Cpus /\ Home(t) \in Seq(Messages)
         /\ View(t) \in Views /\ Truth(t) \in Views
<1>1. task[t] \in CfsTasks
  BY DEF TypeOK
<1>2. View(t) \in Views /\ Truth(t) \in Views
  BY DEF View, Truth, Views
<1>3. seq[t] \in Nat /\ assoc[t] \in Cpus /\ Home(t) \in Seq(Messages)
  BY DEF TypeOK, KernelTypeOK, Home
<1> QED BY <1>1, <1>2, <1>3, RecordFacts

\* What the agents have chosen to run.
LEMMA ChosenFacts ==
  ASSUME TypeOK
  PROVE  /\ Chosen \in [Cpus -> Tasks \cup {NoTask}]
         /\ \A c \in Cpus : pc[c] \notin Picking => Chosen[c] = current[c]
         /\ \A c \in Cpus : pc[c] \in Picking => Chosen[c] = next[c]
  BY DEF TypeOK, Chosen

\* A step of others does not change it.
LEMMA ChosenSame ==
  ASSUME UNCHANGED <<current, next, pc>>
  PROVE  Chosen' = Chosen
  BY DEF Chosen

\* Channels.
LEMMA ChanFacts ==
  ASSUME TypeOK, NEW c \in Cpus
  PROVE  chan[c] \in Seq(Messages) /\ Len(chan[c]) \in Nat
BY DEF TypeOK, KernelTypeOK

\* No message is read or sent.  The task may get another CPU if the kernel
\* agrees that no message is missing.
LEMMA QuietMessages ==
  ASSUME TypeOK, TypeOK', NEW t \in Tasks, MsgOK(t), UNCHANGED <<chan, kst, seq, allowed>>,
         View(t)' = View(t), task'[t].seqnum <= task[t].seqnum,
         View(t) # "none" => task'[t].seqnum = task[t].seqnum
                             /\ task'[t].cpu_affinity = task[t].cpu_affinity,
         task'[t].known => task'[t].cpu = assoc'[t],
         kst[t] = "new" => task'[t] = task[t],
         assoc'[t] = assoc[t] \/ AssociateOk(t, task[t].seqnum)
  PROVE  MsgOK(t)'
<1>1. /\ task[t].seqnum \in Nat /\ seq[t] \in Nat /\ assoc[t] \in Cpus /\ Home(t) \in Seq(Messages)
      /\ View(t) \in Views
  BY TaskFacts
<1>2. task'[t].seqnum \in Nat /\ assoc'[t] \in Cpus /\ Home(t)' \in Seq(Messages)
  <2>1. task'[t] \in CfsTasks /\ assoc'[t] \in Cpus /\ Home(t)' \in Seq(Messages)
    BY DEF TypeOK, KernelTypeOK, Home
  <2> QED BY <2>1, RecordFacts
<1>3. Truth(t)' = Truth(t) /\ InGhost(t)' = InGhost(t)
  BY DEF Truth, InGhost
<1>4. CASE assoc'[t] = assoc[t]
  <2>1. Home(t)' = Home(t)
    BY <1>4 DEF Home
  <2>2. Numbered(Home(t), t, task'[t].seqnum, seq[t])
    BY <1>1, <1>2, LowerNumbered DEF MsgOK
  <2> QED BY <1>3, <1>4, <2>1, <2>2 DEF MsgOK, Unread, AffinityKnown
<1>5. CASE assoc'[t] # assoc[t]
  <2>1. seq[t] = task[t].seqnum /\ InGhost(t)
    BY <1>5 DEF AssociateOk
  <2>2. Absent(Home(t), t, 1, Len(Home(t)))
    BY <1>1, <2>1, NoneUnread DEF MsgOK
  <2>3. \A c \in Cpus : Absent(chan[c], t, 1, Len(chan[c]))
    BY <2>2 DEF MsgOK, Home
  <2>4. Absent(Home(t)', t, 1, Len(Home(t)'))
    BY <1>2, <2>3 DEF Home
  <2>5. View(t) = Truth(t)
    BY <1>1, <2>2, AbsentChain DEF MsgOK
  <2>6. View(t) # "none" /\ kst[t] # "new"
    BY <2>1, <2>5 DEF Truth, InGhost
  <2>7. task'[t].seqnum = seq[t] /\ task'[t].cpu_affinity = task[t].cpu_affinity
    BY <2>1, <2>6
  <2>8. Leads(Home(t)', t, View(t)', Truth(t)') /\ Numbered(Home(t)', t, task'[t].seqnum, seq[t])
    BY <1>1, <1>2, <1>3, <2>4, <2>5, <2>7, AbsentChain
  <2>9. task[t].cpu_affinity = allowed[t]
    BY <2>1, <2>2, <2>6 DEF MsgOK, AffinityKnown, Absent
  <2>10. \A c \in Cpus : c # assoc'[t] => Absent(chan'[c], t, 1, Len(chan'[c]))
    BY <2>3
  <2> QED BY <2>4, <2>6, <2>7, <2>8, <2>9, <2>10 DEF MsgOK, Unread
<1> QED BY <1>4, <1>5

\* The agent of CPU c reads a message: it is from the task's channel, and may
\* come in the state the task is in.
LEMMA FirstMessage ==
  ASSUME TypeOK, MessageInv, NEW c \in Cpus, chan[c] # <<>>, NEW m, m = Head(chan[c]), NEW t, t = m.task
  PROVE  /\ t \in Tasks /\ m \in Messages /\ assoc[t] = c /\ Home(t) = chan[c]
         /\ MayCome(View(t), m) /\ task[t].seqnum < m.seq /\ m.seq \in Nat
         /\ Leads(Tail(chan[c]), t, After(View(t), m), Truth(t))
         /\ Numbered(Tail(chan[c]), t, m.seq, seq[t])
         /\ Absent(Tail(chan[c]), t, 1, Len(Tail(chan[c]))) => m.seq = seq[t]
         /\ task[t].known => task[t].cpu = c
<1>1. chan[c] \in Seq(Messages) /\ Len(chan[c]) \in Nat
  BY ChanFacts
<1>2. Len(chan[c]) >= 1 /\ m = chan[c][1]
  BY <1>1, TailFacts
<1>3. m \in Messages /\ t \in Tasks /\ m.seq \in Nat
  BY <1>1, <1>2, MessageFacts
<1>4. MsgOK(t)
  BY <1>3 DEF MessageInv
<1>5. assoc[t] = c
  <2>1. ~Absent(chan[c], t, 1, Len(chan[c]))
    BY <1>1, <1>2 DEF Absent
  <2> QED BY <1>4, <2>1 DEF MsgOK
<1>6. Home(t) = chan[c]
  BY <1>5 DEF Home
<1>7. Leads(chan[c], t, View(t), Truth(t)) /\ Numbered(chan[c], t, task[t].seqnum, seq[t])
  BY <1>4, <1>6 DEF MsgOK
<1>8. task[t].seqnum \in Nat /\ seq[t] \in Nat
  BY <1>3, TaskFacts
<1>9. MayCome(View(t), m) /\ Leads(Tail(chan[c]), t, After(View(t), m), Truth(t))
  BY <1>1, <1>7, ReadChain
<1>10. /\ task[t].seqnum < m.seq /\ Numbered(Tail(chan[c]), t, m.seq, seq[t])
       /\ Absent(Tail(chan[c]), t, 1, Len(Tail(chan[c]))) => m.seq = seq[t]
  BY <1>1, <1>7, <1>8, ReadNumber
<1> QED BY <1>3, <1>4, <1>5, <1>6, <1>9, <1>10 DEF MsgOK

\* What is left of a channel.
LEMMA TailIndex ==
  ASSUME NEW q \in Seq(Messages), q # <<>>
  PROVE  /\ Tail(q) \in Seq(Messages) /\ Len(q) \in Nat /\ Len(Tail(q)) = Len(q) - 1 /\ Head(q) = q[1]
         /\ 1 \in 1 .. Len(q)
         /\ \A i \in 1 .. Len(Tail(q)) : i + 1 \in 1 .. Len(q) /\ Tail(q)[i] = q[i + 1]
         /\ \A i \in 1 .. Len(q) : i = 1 \/ (i - 1 \in 1 .. Len(Tail(q)) /\ q[i] = Tail(q)[i - 1])
<1>1. /\ Tail(q) \in Seq(Messages) /\ Len(Tail(q)) = Len(q) - 1 /\ Len(q) \in Nat /\ Len(q) >= 1
      /\ Head(q) = q[1] /\ \A i \in 1 .. Len(q) - 1 : Tail(q)[i] = q[i + 1]
  BY TailFacts
<1>a. Len(q) \in Nat \ {0}
  BY <1>1
<1>2. PICK n \in Nat \ {0} : n = Len(q)
  BY <1>a
<1>3. \A i \in 1 .. n - 1 : i + 1 \in 1 .. n
  OBVIOUS
<1>4. \A i \in 1 .. n : i = 1 \/ (i - 1 \in 1 .. n - 1 /\ (i - 1) + 1 = i)
  OBVIOUS
<1> QED BY <1>1, <1>2, <1>3, <1>4

\* The message is handled.
LEMMA ReadMessage ==
  ASSUME TypeOK, MessageInv, NEW c \in Cpus, chan[c] # <<>>, NEW m, m = Head(chan[c]), NEW t, t = m.task,
         chan' = [chan EXCEPT ![c] = Tail(@)], UNCHANGED <<kst, seq, allowed, assoc>>,
         task'[t] \in CfsTasks, View(t)' = After(View(t), m), task'[t].seqnum <= m.seq,
         View(t)' # "none" => task'[t].seqnum = m.seq,
         View(t)' # "none" => \/ task'[t].cpu_affinity = allowed[t]
                              \/ ~InGhost(t)
                              \/ /\ View(t) # "none" /\ m.type # "TASK_AFFINITY_CHANGED"
                                 /\ task'[t].cpu_affinity = task[t].cpu_affinity,
         task'[t].known => task'[t].cpu = c
  PROVE  MsgOK(t)'
<1>1. /\ t \in Tasks /\ m \in Messages /\ assoc[t] = c /\ Home(t) = chan[c]
      /\ m.seq \in Nat
      /\ Leads(Tail(chan[c]), t, After(View(t), m), Truth(t))
      /\ Numbered(Tail(chan[c]), t, m.seq, seq[t])
      /\ Absent(Tail(chan[c]), t, 1, Len(Tail(chan[c]))) => m.seq = seq[t]
  BY FirstMessage
<1>2. chan \in [Cpus -> Seq(Messages)] /\ seq[t] \in Nat /\ MsgOK(t)
  BY <1>1 DEF TypeOK, KernelTypeOK, MessageInv
<1>3. Home(t)' = Tail(chan[c]) /\ \A d \in Cpus : d # c => chan'[d] = chan[d]
  BY <1>1, <1>2 DEF Home
<1>4. Truth(t)' = Truth(t) /\ InGhost(t)' = InGhost(t)
  BY DEF Truth, InGhost
<1>5. PICK p : p = Tail(chan[c])
  OBVIOUS
<1>6. /\ p \in Seq(Messages) /\ Len(chan[c]) \in Nat /\ 1 \in 1 .. Len(chan[c]) /\ m = chan[c][1]
      /\ \A i \in 1 .. Len(chan[c]) : i = 1 \/ (i - 1 \in 1 .. Len(p) /\ chan[c][i] = p[i - 1])
  BY <1>2, <1>5, TailIndex
<1>7. task'[t].seqnum \in Nat
  BY RecordFacts
<1>8. Numbered(p, t, task'[t].seqnum, seq[t])
  BY <1>1, <1>2, <1>5, <1>6, <1>7, LowerNumbered
<1>9. kst[t] # "new"
  BY <1>1, <1>2, <1>6 DEF MsgOK, Unread, Absent
<1>10. ASSUME AffinityKnown(t)', m.type # "TASK_AFFINITY_CHANGED" PROVE AffinityKnown(t)
  <2> SUFFICES ASSUME NEW i \in 1 .. Len(chan[c]), chan[c][i].task = t
               PROVE  chan[c][i].type # "TASK_AFFINITY_CHANGED"
    BY <1>1 DEF AffinityKnown
  <2>1. CASE i = 1
    BY <1>6, <1>10, <2>1
  <2>2. CASE i # 1
    <3>1. i - 1 \in 1 .. Len(p) /\ chan[c][i] = p[i - 1]
      BY <1>6, <2>2
    <3>2. \A j \in 1 .. Len(p) : p[j].task = t => p[j].type # "TASK_AFFINITY_CHANGED"
      BY <1>3, <1>5, <1>10 DEF AffinityKnown
    <3> QED BY <3>1, <3>2
  <2> QED BY <2>1, <2>2
<1>11. View(t)' # "none" /\ AffinityKnown(t)' /\ InGhost(t) => task'[t].cpu_affinity = allowed[t]
  BY <1>2, <1>10 DEF MsgOK
<1>12. View(t)' # "none" /\ ~Unread(t)' => task'[t].seqnum = seq[t]
  BY <1>1, <1>3 DEF Unread
<1>13. Leads(Home(t)', t, View(t)', Truth(t)')
  BY <1>1, <1>3, <1>4
<1>14. \A d \in Cpus : d # assoc'[t] => Absent(chan'[d], t, 1, Len(chan'[d]))
  BY <1>1, <1>2, <1>3 DEF MsgOK
<1>15. Numbered(Home(t)', t, task'[t].seqnum, seq'[t])
  BY <1>3, <1>5, <1>8
<1> QED BY <1>1, <1>4, <1>9, <1>11, <1>12, <1>13, <1>14, <1>15 DEF MsgOK

\* The other tasks.
LEMMA ReadOther ==
  ASSUME TypeOK, NEW c \in Cpus, chan[c] # <<>>, NEW u \in Tasks, MsgOK(u), u # Head(chan[c]).task,
         chan' = [chan EXCEPT ![c] = Tail(@)], UNCHANGED <<kst, seq, allowed, assoc>>,
         task'[u] = task[u]
  PROVE  MsgOK(u)'
<1>1. chan \in [Cpus -> Seq(Messages)] /\ assoc[u] \in Cpus
  BY DEF TypeOK, KernelTypeOK
<1>2. Truth(u)' = Truth(u) /\ InGhost(u)' = InGhost(u) /\ View(u)' = View(u)
  BY DEF Truth, InGhost, View, Is
<1>3. PICK q, p : q = chan[c] /\ p = Tail(q)
  OBVIOUS
<1>4. /\ p \in Seq(Messages) /\ q \in Seq(Messages) /\ q # <<>>
      /\ Len(q) \in Nat /\ 1 \in 1 .. Len(q) /\ q[1].task # u
      /\ \A i \in 1 .. Len(p) : i + 1 \in 1 .. Len(q) /\ p[i] = q[i + 1]
      /\ \A i \in 1 .. Len(q) : i = 1 \/ (i - 1 \in 1 .. Len(p) /\ q[i] = p[i - 1])
  BY <1>1, <1>3, TailIndex
<1>5. \A d \in Cpus : chan'[d] = IF d = c THEN p ELSE chan[d]
  BY <1>1, <1>3
<1>6. Absent(p, u, 1, Len(p)) <=> Absent(q, u, 1, Len(q))
  BY <1>4 DEF Absent
<1>7. \A d \in Cpus : d # assoc[u] => Absent(chan'[d], u, 1, Len(chan'[d]))
  BY <1>3, <1>5, <1>6 DEF MsgOK
<1>8. CASE assoc[u] # c
  <2>1. Home(u)' = Home(u)
    BY <1>1, <1>5, <1>8 DEF Home
  <2> QED BY <1>2, <1>7, <2>1 DEF MsgOK, Unread, AffinityKnown
<1>9. CASE assoc[u] = c
  <2>1. Home(u)' = p /\ Home(u) = q
    BY <1>1, <1>3, <1>5, <1>9 DEF Home
  <2>2. Leads(p, u, View(u), Truth(u)) /\ Numbered(p, u, task[u].seqnum, seq[u])
    BY <1>3, <1>4, <2>1, OtherRead DEF MsgOK
  <2>3. Unread(u)' <=> Unread(u)
    BY <1>6, <2>1 DEF Unread
  <2>4. AffinityKnown(u)' <=> AffinityKnown(u)
    <3>1. AffinityKnown(u)' <=> \A i \in 1 .. Len(p) :
             p[i].task = u => p[i].type # "TASK_AFFINITY_CHANGED"
      BY <2>1 DEF AffinityKnown
    <3>2. AffinityKnown(u) <=> \A i \in 1 .. Len(q) :
             q[i].task = u => q[i].type # "TASK_AFFINITY_CHANGED"
      BY <2>1 DEF AffinityKnown
    <3> QED BY <1>4, <3>1, <3>2
  <2> QED BY <1>2, <1>7, <2>1, <2>2, <2>3, <2>4 DEF MsgOK
<1> QED BY <1>8, <1>9

-------------------------------------------------------------------------------
(* The kernel sends messages about task t.                                  *)

\* Channel q is p with messages about t behind it.
Grown(p, q, t) ==
  /\ q \in Seq(Messages) /\ Len(p) \in Nat /\ Len(q) \in Nat /\ Len(p) < Len(q)
  /\ \A i \in 1 .. Len(p) : i \in 1 .. Len(q) /\ q[i] = p[i]
  /\ \A i \in 1 .. Len(q) : i \in 1 .. Len(p) \/ q[i].task = t
  /\ \A u : u # t =>
       /\ \A v, w : Leads(p, u, v, w) => Leads(q, u, v, w)
       /\ \A lo, hi : Numbered(p, u, lo, hi) => Numbered(q, u, lo, hi)

\* One message is appended.
LEMMA GrownOnce ==
  ASSUME NEW p \in Seq(Messages), NEW m \in Messages
  PROVE  Grown(p, Append(p, m), m.task)
<1>1. PICK n \in Nat : n = Len(p)
  OBVIOUS
<1>2. PICK q : q = Append(p, m)
  OBVIOUS
<1>3. q \in Seq(Messages) /\ Len(q) = n + 1 /\ q[n + 1] = m /\ \A i \in 1 .. n : q[i] = p[i]
  BY <1>1, <1>2, AppendFacts
<1>4. \A u : u # m.task =>
       /\ \A v, w : Leads(p, u, v, w) => Leads(q, u, v, w)
       /\ \A lo, hi : Numbered(p, u, lo, hi) => Numbered(q, u, lo, hi)
  BY <1>2, OtherSent
<1>5. \A i \in 1 .. n + 1 : i \in 1 .. n \/ i = n + 1
  OBVIOUS
<1>6. n < n + 1 /\ \A i \in 1 .. n : i \in 1 .. n + 1
  OBVIOUS
<1> QED BY <1>1, <1>2, <1>3, <1>4, <1>5, <1>6 DEF Grown

\* Two messages about the same task are appended.
LEMMA GrownTwice ==
  ASSUME NEW p \in Seq(Messages), NEW m \in Messages, NEW n \in Messages, n.task = m.task
  PROVE  Grown(p, Append(Append(p, m), n), m.task)
<1>1. PICK q : q = Append(p, m)
  OBVIOUS
<1>2. PICK r : r = Append(q, n)
  OBVIOUS
<1>3. Grown(p, q, m.task) /\ q \in Seq(Messages)
  BY <1>1, GrownOnce DEF Grown
<1>4. Grown(q, r, m.task)
  BY <1>2, <1>3, GrownOnce
<1>5. Len(p) \in Nat /\ Len(q) \in Nat /\ Len(r) \in Nat /\ Len(p) < Len(q) /\ Len(q) < Len(r)
  BY <1>3, <1>4 DEF Grown
<1>6. \A i \in 1 .. Len(p) : i \in 1 .. Len(q) /\ i \in 1 .. Len(r)
  BY <1>5
<1>7. \A i \in 1 .. Len(p) : i \in 1 .. Len(r) /\ r[i] = p[i]
  BY <1>3, <1>4, <1>6 DEF Grown
<1>8. \A i \in 1 .. Len(r) : i \in 1 .. Len(p) \/ r[i].task = m.task
  BY <1>3, <1>4 DEF Grown
<1>9. \A u : u # m.task =>
        /\ \A v, w : Leads(p, u, v, w) => Leads(r, u, v, w)
        /\ \A lo, hi : Numbered(p, u, lo, hi) => Numbered(r, u, lo, hi)
  BY <1>3, <1>4 DEF Grown
<1>10. r \in Seq(Messages) /\ Len(p) < Len(r)
  BY <1>4, <1>5 DEF Grown
<1>11. Grown(p, r, m.task)
  BY <1>5, <1>7, <1>8, <1>9, <1>10 DEF Grown
<1> QED BY <1>1, <1>2, <1>11

\* The task itself.
LEMMA SentOwn ==
  ASSUME TypeOK, NEW t \in Tasks, MsgOK(t), NEW d \in Cpus, NEW q, chan' = [chan EXCEPT ![d] = q],
         Grown(chan[d], q, t), assoc'[t] = d, task' = task,
         d # assoc[t] => Absent(Home(t), t, 1, Len(Home(t))) /\ ~task[t].known,
         Leads(q, t, View(t), Truth(t)'), Numbered(q, t, task[t].seqnum, seq'[t]), kst'[t] # "new",
         InGhost(t)' => InGhost(t) \/ View(t) = "none",
         \/ View(t) = "none" \/ allowed'[t] = allowed[t]
         \/ \E i \in 1 .. Len(q) : q[i].task = t /\ q[i].type = "TASK_AFFINITY_CHANGED"
  PROVE  MsgOK(t)'
<1>1. chan \in [Cpus -> Seq(Messages)] /\ assoc[t] \in Cpus
  BY DEF TypeOK, KernelTypeOK
<1>2. Home(t)' = q /\ \A c \in Cpus : c # d => chan'[c] = chan[c]
  BY <1>1 DEF Home
<1>3. View(t)' = View(t)
  BY DEF View, Is
<1>4. Len(chan[d]) < Len(q) /\ Len(chan[d]) \in Nat /\ Len(q) \in Nat
      /\ (\A i \in 1 .. Len(chan[d]) : i \in 1 .. Len(q) /\ q[i] = chan[d][i])
      /\ (\A i \in 1 .. Len(q) : i \in 1 .. Len(chan[d]) \/ q[i].task = t)
  BY DEF Grown
<1>5. Unread(t)'
  <2>1. Len(q) \in 1 .. Len(q) /\ ~(Len(q) \in 1 .. Len(chan[d]))
    BY <1>4
  <2> QED BY <1>2, <1>4, <2>1 DEF Unread, Absent
<1>6. \A c \in Cpus : c # d => Absent(chan'[c], t, 1, Len(chan'[c]))
  BY <1>1, <1>2 DEF MsgOK, Home
<1>7. task'[t].known => task'[t].cpu = d
  BY DEF MsgOK
<1>8. View(t) # "none" /\ AffinityKnown(t)' /\ InGhost(t)' => task[t].cpu_affinity = allowed'[t]
  <2> SUFFICES ASSUME View(t) # "none", AffinityKnown(t)', InGhost(t)' PROVE task[t].cpu_affinity = allowed'[t]
    OBVIOUS
  <2>1. allowed'[t] = allowed[t]
    BY <1>2 DEF AffinityKnown
  <2>2. d = assoc[t]
    BY DEF View
  <2>3. AffinityKnown(t)
    BY <1>2, <1>4, <2>2 DEF AffinityKnown, Home
  <2> QED BY <2>1, <2>3 DEF MsgOK
<1> QED BY <1>2, <1>3, <1>5, <1>6, <1>7, <1>8 DEF MsgOK

\* The other tasks.
LEMMA SentOthers ==
  ASSUME TypeOK, NEW t \in Tasks, NEW u \in Tasks, u # t, MsgOK(u), NEW d \in Cpus, NEW q,
         chan' = [chan EXCEPT ![d] = q], Grown(chan[d], q, t), task' = task,
         assoc'[u] = assoc[u], kst'[u] = kst[u], seq'[u] = seq[u], allowed'[u] = allowed[u]
  PROVE  MsgOK(u)'
<1>1. chan \in [Cpus -> Seq(Messages)] /\ assoc[u] \in Cpus
  BY DEF TypeOK, KernelTypeOK
<1>2. Truth(u)' = Truth(u) /\ InGhost(u)' = InGhost(u) /\ View(u)' = View(u)
  BY DEF Truth, InGhost, View, Is
<1>3. \A c \in Cpus : chan'[c] = IF c = d THEN q ELSE chan[c]
  BY <1>1
<1>4. /\ \A i \in 1 .. Len(chan[d]) : i \in 1 .. Len(q) /\ q[i] = chan[d][i]
      /\ \A i \in 1 .. Len(q) : q[i].task = u => i \in 1 .. Len(chan[d])
      /\ \A v, w : Leads(chan[d], u, v, w) => Leads(q, u, v, w)
      /\ \A lo, hi : Numbered(chan[d], u, lo, hi) => Numbered(q, u, lo, hi)
  BY DEF Grown
<1>5. Absent(q, u, 1, Len(q)) <=> Absent(chan[d], u, 1, Len(chan[d]))
  BY <1>4 DEF Absent
<1>6. \A c \in Cpus : c # assoc[u] => Absent(chan'[c], u, 1, Len(chan'[c]))
  BY <1>3, <1>5 DEF MsgOK
<1>7. CASE assoc[u] # d
  <2>1. Home(u)' = Home(u)
    BY <1>1, <1>3, <1>7 DEF Home
  <2> QED BY <1>2, <1>6, <2>1 DEF MsgOK, Unread, AffinityKnown
<1>8. CASE assoc[u] = d
  <2>1. Home(u)' = q /\ Home(u) = chan[d]
    BY <1>1, <1>3, <1>8 DEF Home
  <2>2. Leads(q, u, View(u), Truth(u)) /\ Numbered(q, u, task[u].seqnum, seq[u])
    BY <1>4, <2>1 DEF MsgOK
  <2>3. Unread(u)' <=> Unread(u)
    BY <1>5, <2>1 DEF Unread
  <2>4. AffinityKnown(u)' <=> AffinityKnown(u)
    BY <1>4, <2>1 DEF AffinityKnown
  <2> QED BY <1>2, <1>6, <2>1, <2>2, <2>3, <2>4 DEF MsgOK
<1> QED BY <1>7, <1>8

\* The kernel sends messages about t through channel d and wakes agents; the
\* task stays where it is or leaves its CPU.
KernelSends(t, d, q) ==
  /\ chan' = [chan EXCEPT ![d] = q] /\ Grown(chan[d], q, t)
  /\ UNCHANGED cfsSchedVars
  /\ \A u \in Tasks \ {t} :
       /\ kst'[u] = kst[u] /\ seq'[u] = seq[u] /\ assoc'[u] = assoc[u] /\ allowed'[u] = allowed[u]
       /\ oncpu'[u] = oncpu[u] /\ via'[u] = via[u]
  /\ \/ oncpu'[t] = NoCpu /\ via'[t] = "none"
     \/ oncpu'[t] = oncpu[t] /\ via'[t] = via[t] /\ kst'[t] = kst[t]
  /\ \A c \in Cpus : (ast'[c] = "running") <=> (ast[c] = "running")

\* What must be true of the messages that are new in q.
NewMessages(t, d, q) ==
  \A i \in 1 .. Len(q) : ~(i \in 1 .. Len(chan[d])) =>
    /\ q[i].type \in OffCpu =>
         /\ oncpu[t] = d /\ q[i].cpu = d
         /\ \A j \in 1 .. i - 1 : ~(j \in 1 .. Len(chan[d])) => q[j].type = "TASK_AFFINITY_CHANGED"
    /\ oncpu'[t] # NoCpu => q[i].type = "TASK_AFFINITY_CHANGED"

\* The kernel sends the messages q about task t to CPU d.
LEMMA KernelSendKeeps ==
  ASSUME CfsInv, TypeOK', NEW t \in Tasks, NEW d \in Cpus, NEW q, KernelSends(t, d, q), NewMessages(t, d, q),
         MsgOK(t)', assoc'[t] = d, d # assoc[t] => oncpu'[t] = NoCpu
  PROVE  CfsInv'
<1>0. TypeOK /\ MessageInv /\ CpuInv /\ PlaceInv /\ AgentInv /\ failed = NoFailure
  BY DEF CfsInv
<1>1. /\ UNCHANGED <<task, current, Chosen, rq, mq, preempt_curr, pc, next, todo, target, imbalance, moving, onIdle,
                     failed>>
      /\ chan \in [Cpus -> Seq(Messages)]
  BY <1>0, ChosenSame DEF KernelSends, cfsSchedVars, cpuVars, localVars, balanceVars, TypeOK, KernelTypeOK
<1>2. /\ \A u \in Tasks : View(u)' = View(u) /\ \A s : Is(u, s)' = Is(u, s)
      /\ \A u \in Tasks, c \in Cpus : IsCurrent(u, c)' = IsCurrent(u, c)
  BY <1>1 DEF View, Is, IsCurrent
<1>3. PlaceInv' /\ AgentInv'
  BY <1>0, <1>1, <1>2 DEF PlaceInv, PlaceOK, Waits, AgentInv, AgentOK, IsCurrent, Is
<1>4. MessageInv'
  <2>1. ASSUME NEW u \in Tasks, u # t PROVE MsgOK(u)'
    <3>1. MsgOK(u) /\ chan' = [chan EXCEPT ![d] = q] /\ Grown(chan[d], q, t) /\ task' = task
      BY <1>0, <1>1 DEF MessageInv, KernelSends
    <3>2. assoc'[u] = assoc[u] /\ kst'[u] = kst[u] /\ seq'[u] = seq[u] /\ allowed'[u] = allowed[u]
      BY <2>1 DEF KernelSends
    <3> QED BY <1>0, <2>1, <3>1, <3>2, SentOthers
  <2> QED BY <2>1 DEF MessageInv
<1>5. /\ Len(chan[d]) < Len(q) /\ Len(chan[d]) \in Nat /\ Len(q) \in Nat
      /\ \A i \in 1 .. Len(chan[d]) : i \in 1 .. Len(q) /\ q[i] = chan[d][i]
      /\ \A i \in 1 .. Len(q) : i \in 1 .. Len(chan[d]) \/ q[i].task = t
      /\ \A c \in Cpus : chan'[c] = IF c = d THEN q ELSE chan[c]
  BY <1>1 DEF KernelSends, Grown
<1>6. ASSUME NEW u \in Tasks PROVE RunOK(u)'
  <2>1. RunOK(u)
    BY <1>0 DEF CpuInv
  <2>2. CASE oncpu'[u] = NoCpu
    <3>1. via'[u] = "none"
      BY <2>1, <2>2 DEF RunOK, KernelSends
    <3> QED BY <2>2, <3>1 DEF RunOK
  <2>3. CASE oncpu'[u] # NoCpu
    <3>1. /\ oncpu'[u] = oncpu[u] /\ via'[u] = via[u] /\ kst'[u] = kst[u] /\ assoc'[u] = assoc[u]
      BY <2>3 DEF KernelSends
    <3>2. oncpu[u] \in Cpus /\ assoc[u] = oncpu[u]
      BY <1>0, <2>1, <2>3, <3>1 DEF RunOK, TypeOK, KernelTypeOK
    <3>3. ast'[oncpu[u]] # "running" /\ IsCurrent(u, oncpu[u])'
      BY <1>2, <2>1, <2>3, <3>1, <3>2 DEF RunOK, KernelSends
    <3>4. OnlyAffinity(Home(u), u, Len(Home(u))) /\ kst[u] = "runnable" /\ via[u] = "txn"
      BY <2>1, <2>3, <3>1 DEF RunOK
    <3>5. OnlyAffinity(Home(u)', u, Len(Home(u)'))
      <4>1. CASE assoc[u] # d
        BY <1>5, <3>1, <3>2, <3>4, <4>1 DEF Home, OnlyAffinity
      <4>2. CASE assoc[u] = d
        <5>1. Home(u) = chan[d] /\ Home(u)' = q
          BY <1>5, <3>1, <4>2 DEF Home
        <5>2. ASSUME NEW i \in 1 .. Len(q), q[i].task = u PROVE q[i].type = "TASK_AFFINITY_CHANGED"
          <6>1. CASE i \in 1 .. Len(chan[d])
            BY <1>5, <3>4, <5>1, <5>2, <6>1 DEF OnlyAffinity
          <6>2. CASE ~(i \in 1 .. Len(chan[d]))
            BY <1>5, <2>3, <5>2, <6>2 DEF NewMessages
          <6> QED BY <6>1, <6>2
        <5> QED BY <5>1, <5>2 DEF OnlyAffinity
      <4> QED BY <4>1, <4>2
    <3> QED BY <2>3, <3>1, <3>2, <3>3, <3>4, <3>5 DEF RunOK, Home
  <2> QED BY <2>2, <2>3
<1>7. ASSUME NEW c \in Cpus PROVE OffOK(c)'
  <2>0. OffOK(c)
    BY <1>0 DEF CpuInv
  <2>1. CASE c # d
    BY <1>1, <1>2, <1>5, <2>0, <2>1 DEF OffOK, IsCurrent, OnlyAffinity, Is
  <2>2. CASE c = d
    <3> SUFFICES ASSUME NEW i \in 1 .. Len(q), q[i].type \in OffCpu
                 PROVE  /\ pc[d] \in {"top", "drain"} /\ q[i].cpu = d
                        /\ IsCurrent(q[i].task, d) /\ OnlyAffinity(q, q[i].task, i - 1)
      BY <1>1, <1>5, <2>2 DEF OffOK, IsCurrent, Is
    <3>1. CASE i \in 1 .. Len(chan[d])
      <4>1. /\ pc[d] \in {"top", "drain"} /\ q[i].cpu = d /\ IsCurrent(q[i].task, d)
            /\ OnlyAffinity(chan[d], q[i].task, i - 1)
        BY <1>5, <2>0, <2>2, <3>1 DEF OffOK
      <4>2. \A j \in 1 .. i - 1 : j \in 1 .. Len(chan[d])
        BY <1>5, <3>1
      <4>3. OnlyAffinity(q, q[i].task, i - 1)
        BY <1>5, <4>1, <4>2 DEF OnlyAffinity
      <4> QED BY <4>1, <4>3
    <3>2. CASE ~(i \in 1 .. Len(chan[d]))
      <4>1. q[i].task = t /\ oncpu[t] = d /\ q[i].cpu = d
            /\ \A j \in 1 .. i - 1 : ~(j \in 1 .. Len(chan[d])) => q[j].type = "TASK_AFFINITY_CHANGED"
        BY <1>5, <3>2 DEF NewMessages
      <4>2. RunOK(t) /\ oncpu[t] # NoCpu
        BY <1>0, <4>1 DEF CpuInv, Cpus, NoCpu
      <4>3. assoc[t] = d /\ ast[d] # "running" /\ IsCurrent(t, d) /\ OnlyAffinity(chan[d], t, Len(chan[d]))
        BY <4>1, <4>2 DEF RunOK, Home
      <4>4. pc[d] = "top"
        BY <1>0, <4>3 DEF CpuInv
      <4>5. ASSUME NEW j \in 1 .. i - 1, q[j].task = t PROVE q[j].type = "TASK_AFFINITY_CHANGED"
        <5>1. CASE j \in 1 .. Len(chan[d])
          BY <1>5, <4>3, <4>5, <5>1 DEF OnlyAffinity
        <5> QED BY <4>1, <5>1
      <4> QED BY <4>1, <4>3, <4>4, <4>5 DEF OnlyAffinity
    <3> QED BY <3>1, <3>2
  <2> QED BY <2>1, <2>2
<1>8. \A c \in Cpus : ast'[c] # "running" => pc'[c] = "top"
  BY <1>0, <1>1 DEF CpuInv, KernelSends
<1>9. CpuInv'
  BY <1>6, <1>7, <1>8 DEF CpuInv
<1> QED BY <1>0, <1>1, <1>3, <1>4, <1>9 DEF CfsInv

\* Produce sends message m.
Produced(m, t, type, flag, cpu) ==
  /\ m.type = type /\ m.task = t /\ m.seq = seq[t] + 1 /\ m.flag = flag /\ m.cpu = cpu
  /\ chan' = [chan EXCEPT ![assoc[t]] = Append(chan[assoc[t]], m)]
  /\ seq' = [seq EXCEPT ![t] = @ + 1] /\ chan' \in [Cpus -> Seq(Messages)]
  /\ seq' \in [Tasks -> Nat]

\* What Produce does.
LEMMA ProduceEffect ==
  ASSUME TypeOK, NEW t \in Tasks, NEW type \in MsgTypes, NEW flag \in BOOLEAN,
         NEW cpu \in Cpus \cup {NoCpu}, Produce(t, type, flag, cpu)
  PROVE  \E m \in Messages : Produced(m, t, type, flag, cpu)
<1>1. PICK m : m = [type |-> type, task |-> t, seq |-> seq[t] + 1, flag |-> flag, cpu |-> cpu]
  OBVIOUS
<1>2. seq[t] \in Nat /\ chan \in [Cpus -> Seq(Messages)] /\ assoc[t] \in Cpus /\ seq \in [Tasks -> Nat]
  BY DEF TypeOK, KernelTypeOK
<1>3. /\ m \in Messages /\ m.type = type /\ m.task = t /\ m.seq = seq[t] + 1 /\ m.flag = flag /\ m.cpu = cpu
  BY <1>1, <1>2 DEF Messages
<1>4. chan' = [chan EXCEPT ![assoc[t]] = Append(chan[assoc[t]], m)] /\ seq' = [seq EXCEPT ![t] = @ + 1]
  BY <1>1 DEF Produce
<1>5. Append(chan[assoc[t]], m) \in Seq(Messages)
  BY <1>2, <1>3
<1>6. chan' \in [Cpus -> Seq(Messages)] /\ seq' \in [Tasks -> Nat]
  BY <1>2, <1>4, <1>5
<1> QED BY <1>3, <1>4, <1>6 DEF Produced

\* A message with which the task is off its CPU, if it was on one.
LEMMA ToldKeeps ==
  ASSUME CfsInv, NEW t \in Tasks, NEW type \in MsgTypes, NEW flag \in BOOLEAN, NEW cpu \in Cpus \cup {NoCpu},
         NEW k \in {"blocked", "runnable", "dying", "dead", "departed"},
         Produce(t, type, flag, cpu), WakeAgent(assoc[t]), kst[t] # "new", InGhost(t) \/ k = "dead", kst' = [kst EXCEPT ![t] = k],
         type # "TASK_NEW",
         \A m \in Messages : m.type = type => MayCome(Truth(t), m) /\ Truth(t)' = After(Truth(t), m),
         type \in OffCpu => oncpu[t] # NoCpu /\ cpu = oncpu[t],
         oncpu' = [oncpu EXCEPT ![t] = NoCpu], via' = [via EXCEPT ![t] = "none"],
         UNCHANGED <<ran, assoc, allowed, tick, cfsSchedVars>>,
         boosted' \in [Cpus -> BOOLEAN], budget' \in 0 .. MaxDisturb
  PROVE  CfsInv'
<1>0. TypeOK /\ MessageInv /\ CpuInv
  BY DEF CfsInv
<1>a. PICK m \in Messages : Produced(m, t, type, flag, cpu)
  BY <1>0, ProduceEffect
<1>1. /\ m.type = type /\ m.task = t /\ m.seq = seq[t] + 1 /\ m.flag = flag /\ m.cpu = cpu
      /\ chan' = [chan EXCEPT ![assoc[t]] = Append(chan[assoc[t]], m)]
      /\ seq' = [seq EXCEPT ![t] = @ + 1] /\ chan' \in [Cpus -> Seq(Messages)]
      /\ seq' \in [Tasks -> Nat]
  BY <1>a DEF Produced
<1>2. PICK d \in Cpus : d = assoc[t]
  BY <1>0 DEF TypeOK, KernelTypeOK
<1>3. PICK q : q = Append(chan[d], m)
  OBVIOUS
<1>4. Grown(chan[d], q, t) /\ chan[d] \in Seq(Messages) /\ chan' = [chan EXCEPT ![d] = q]
  BY <1>0, <1>1, <1>2, <1>3, GrownOnce, ChanFacts
<1>5. TypeOK'
  <2>1. ast' \in [Cpus -> {"running", "sleeping", "waking"}] /\ stale' \in [Cpus -> BOOLEAN]
        /\ rtla' \in [Cpus -> BOOLEAN]
    BY <1>0 DEF TypeOK, KernelTypeOK, WakeAgent, Woken
  <2>2. /\ kst' \in [Tasks -> {"new", "blocked", "runnable", "dying", "dead", "departed"}]
        /\ oncpu' \in [Tasks -> Cpus \cup {NoCpu}]
        /\ via' \in [Tasks -> {"none", "txn", "switchto", "leaving"}]
    BY <1>0 DEF TypeOK, KernelTypeOK
  <2>3. KernelTypeOK'
    BY <1>0, <1>1, <2>1, <2>2 DEF TypeOK, KernelTypeOK
  <2> QED BY <1>0, <2>3 DEF TypeOK, cfsSchedVars, cpuVars, localVars, balanceVars
<1>6. KernelSends(t, d, q)
  <2>1. \A u \in Tasks \ {t} :
          /\ kst'[u] = kst[u] /\ seq'[u] = seq[u] /\ assoc'[u] = assoc[u] /\ allowed'[u] = allowed[u]
          /\ oncpu'[u] = oncpu[u] /\ via'[u] = via[u]
    BY <1>0, <1>1 DEF TypeOK, KernelTypeOK
  <2>2. oncpu'[t] = NoCpu /\ via'[t] = "none"
    BY <1>0 DEF TypeOK, KernelTypeOK
  <2>3. \A c \in Cpus : (ast'[c] = "running") <=> (ast[c] = "running")
    BY <1>0 DEF TypeOK, KernelTypeOK, WakeAgent, Woken
  <2> QED BY <1>4, <2>1, <2>2, <2>3 DEF KernelSends
<1>7. /\ Len(q) = Len(chan[d]) + 1 /\ Len(chan[d]) \in Nat /\ q[Len(chan[d]) + 1] = m
  BY <1>3, <1>4, AppendFacts
<1>8. NewMessages(t, d, q)
  <2> SUFFICES ASSUME NEW i \in 1 .. Len(q), ~(i \in 1 .. Len(chan[d]))
               PROVE  /\ q[i].type \in OffCpu =>
                           /\ oncpu[t] = d /\ q[i].cpu = d
                           /\ \A j \in 1 .. i - 1 : j \in 1 .. Len(chan[d])
    <3>1. oncpu'[t] = NoCpu
      BY <1>0 DEF TypeOK, KernelTypeOK
    <3> QED BY <3>1 DEF NewMessages
  <2>1. i = Len(chan[d]) + 1
    BY <1>7
  <2>2. q[i] = m /\ \A j \in 1 .. i - 1 : j \in 1 .. Len(chan[d])
    BY <1>7, <2>1
  <2>3. oncpu[t] # NoCpu => oncpu[t] = d
    BY <1>0, <1>2 DEF CpuInv, RunOK
  <2> QED BY <1>1, <2>2, <2>3
<1>9. MsgOK(t)'
  <2>1. MsgOK(t) /\ Home(t) = chan[d] /\ task[t].seqnum \in Nat /\ seq[t] \in Nat
    BY <1>0, <1>2, TaskFacts DEF MessageInv, Home
  <2>2. MayCome(Truth(t), m) /\ Truth(t)' = After(Truth(t), m)
    BY <1>1
  <2>a. Leads(chan[d], t, View(t), Truth(t)) /\ Numbered(chan[d], t, task[t].seqnum, seq[t])
    BY <2>1 DEF MsgOK
  <2>3. Leads(q, t, View(t), Truth(t)')
    <3>1. m.task = t /\ chan[d] \in Seq(Messages)
      BY <1>1, <1>4
    <3>2. Leads(Append(chan[d], m), t, View(t), After(Truth(t), m))
      BY ONLY <2>2, <2>a, <3>1, SentChain, m \in Messages
    <3> QED BY <1>3, <2>2, <3>2
  <2>4. seq'[t] = seq[t] + 1
    BY <1>0, <1>1 DEF TypeOK, KernelTypeOK
  <2>5. Numbered(q, t, task[t].seqnum, seq'[t])
    BY <1>1, <1>3, <1>4, <2>1, <2>4, <2>a, SentNumber
  <2>6. kst'[t] # "new" /\ allowed'[t] = allowed[t] /\ task' = task /\ assoc'[t] = d
    BY <1>0, <1>2 DEF TypeOK, KernelTypeOK, cfsSchedVars
  <2>7. InGhost(t)' => InGhost(t)
    BY <1>0 DEF TypeOK, KernelTypeOK, InGhost
  <2> QED BY <1>0, <1>2, <1>4, <2>1, <2>3, <2>5, <2>6, <2>7, SentOwn
<1> QED BY <1>2, <1>5, <1>6, <1>8, <1>9, KernelSendKeeps

\* A thread is created.
LEMMA TaskNewKeeps ==
  ASSUME CfsInv, "reenter" \notin Events, NEW t \in Tasks, NEW b \in BOOLEAN, KTaskNew(t, b),
         UNCHANGED <<allowed, tick, cfsSchedVars>>
  PROVE  CfsInv'
<1>0. TypeOK /\ MessageInv /\ CpuInv /\ kst[t] = "new" /\ budget' = budget
  BY DEF CfsInv, KTaskNew
<1>1. PICK m : m = [type |-> "TASK_NEW", task |-> t, seq |-> 1, flag |-> b, cpu |-> NoCpu]
  OBVIOUS
<1>2. PICK d \in Cpus : d = DefaultCpu
  BY KernelAssumption DEF DefaultCpu, Cpus
<1>3. m \in Messages /\ m.task = t /\ m.type = "TASK_NEW" /\ m.seq = 0 + 1 /\ m.flag = b
  BY <1>1 DEF Messages, MsgTypes
<1>4. PICK q : q = Append(chan[d], m)
  OBVIOUS
<1>5. Grown(chan[d], q, t) /\ chan[d] \in Seq(Messages) /\ q \in Seq(Messages)
  <2>1. chan[d] \in Seq(Messages)
    BY <1>0, ChanFacts
  <2>2. Grown(chan[d], q, t)
    BY <1>3, <1>4, <2>1, GrownOnce
  <2> QED BY <2>1, <2>2 DEF Grown
<1>6. /\ chan' = [chan EXCEPT ![d] = q] /\ seq' = [seq EXCEPT ![t] = 1] /\ assoc' = [assoc EXCEPT ![t] = d]
      /\ kst' = [kst EXCEPT ![t] = IF b THEN "runnable" ELSE "blocked"] /\ WakeAgent(d)
      /\ ran' = [ran EXCEPT ![t] = FALSE] /\ UNCHANGED <<oncpu, via, boosted>>
  BY <1>1, <1>2, <1>4 DEF KTaskNew
<1>7. TypeOK'
  <2>1. ast' \in [Cpus -> {"running", "sleeping", "waking"}] /\ stale' \in [Cpus -> BOOLEAN]
        /\ rtla' \in [Cpus -> BOOLEAN]
    BY <1>0, <1>6 DEF TypeOK, KernelTypeOK, WakeAgent, Woken
  <2>2. KernelTypeOK'
    BY <1>0, <1>5, <1>6, <2>1 DEF TypeOK, KernelTypeOK
  <2> QED BY <1>0, <2>2 DEF TypeOK, cfsSchedVars, cpuVars, localVars, balanceVars
<1>8. oncpu[t] = NoCpu /\ via[t] = "none"
  BY <1>0 DEF CpuInv, RunOK
<1>9. KernelSends(t, d, q)
  <2>1. \A u \in Tasks \ {t} :
          /\ kst'[u] = kst[u] /\ seq'[u] = seq[u] /\ assoc'[u] = assoc[u] /\ allowed'[u] = allowed[u]
          /\ oncpu'[u] = oncpu[u] /\ via'[u] = via[u]
    BY <1>0, <1>6 DEF TypeOK, KernelTypeOK
  <2>2. \A c \in Cpus : (ast'[c] = "running") <=> (ast[c] = "running")
    BY <1>0, <1>6 DEF TypeOK, KernelTypeOK, WakeAgent, Woken
  <2> QED BY <1>5, <1>6, <1>8, <2>1, <2>2 DEF KernelSends
<1>10. /\ Len(q) = Len(chan[d]) + 1 /\ Len(chan[d]) \in Nat /\ q[Len(chan[d]) + 1] = m
  BY <1>3, <1>4, <1>5, AppendFacts
<1>11. NewMessages(t, d, q)
  <2>1. \A i \in 1 .. Len(q) : ~(i \in 1 .. Len(chan[d])) => q[i] = m
    BY <1>10
  <2> QED BY <1>3, <1>6, <1>8, <2>1 DEF NewMessages, OffCpu
<1>12. MsgOK(t)'
  <2>1. MsgOK(t) /\ task[t] = FreeTask /\ Absent(Home(t), t, 1, Len(Home(t))) /\ View(t) \in Views
    BY <1>0, TaskFacts DEF MessageInv, MsgOK, Unread
  <2>2. Absent(chan[d], t, 1, Len(chan[d]))
    BY <2>1 DEF MsgOK, Home
  <2>3. task[t].seqnum = 0 /\ View(t) = "none" /\ ~task[t].known
    BY <2>1 DEF FreeTask, View
  <2>4. Leads(chan[d], t, View(t), "none") /\ Numbered(chan[d], t, 0, 0)
    BY <1>5, <2>1, <2>2, <2>3, AbsentChain
  <2>5. MayCome("none", m) /\ Truth(t)' = After("none", m)
    <3>1. kst'[t] = IF b THEN "runnable" ELSE "blocked"
      BY <1>0, <1>6 DEF TypeOK, KernelTypeOK
    <3>2. Truth(t)' = IF b THEN "ready" ELSE "blocked"
      BY <3>1 DEF Truth
    <3>3. After("none", m) = IF b THEN "ready" ELSE "blocked"
      BY <1>3 DEF After
    <3>4. MayCome("none", m)
      BY <1>3 DEF MayCome, OffCpu
    <3> QED BY <3>2, <3>3, <3>4
  <2>6. Leads(q, t, View(t), Truth(t)')
    BY <1>3, <1>4, <1>5, <2>4, <2>5, SentChain
  <2>7. seq'[t] = 0 + 1 /\ assoc'[t] = d /\ kst'[t] # "new" /\ task' = task
    BY <1>0, <1>6 DEF TypeOK, KernelTypeOK, cfsSchedVars
  <2>8. Numbered(q, t, task[t].seqnum, seq'[t])
    <3>1. Numbered(q, t, 0, 0 + 1)
      BY <1>3, <1>4, <1>5, <2>4, SentNumber
    <3> QED BY <2>3, <2>7, <3>1
  <2> QED BY <1>0, <1>5, <1>6, <2>1, <2>3, <2>6, <2>7, <2>8, SentOwn
<1>13. assoc'[t] = d /\ oncpu'[t] = NoCpu
  BY <1>0, <1>6, <1>8 DEF TypeOK, KernelTypeOK
<1> QED BY <1>7, <1>9, <1>11, <1>12, <1>13, KernelSendKeeps

\* The kernel does something else.
LEMMA KernelQuiet ==
  ASSUME CfsInv, TypeOK', UNCHANGED <<chan, kst, seq, assoc, allowed, cfsSchedVars>>,
         \A t \in Tasks : \/ oncpu'[t] = NoCpu /\ via'[t] = "none"
                          \/ /\ oncpu'[t] = oncpu[t] /\ via'[t] = via[t]
                             /\ oncpu[t] # NoCpu => ast'[oncpu[t]] # "running",
         \A c \in Cpus : ast'[c] = "running" \/ ast[c] # "running"
  PROVE  CfsInv'
<1>0. TypeOK /\ MessageInv /\ CpuInv /\ PlaceInv /\ AgentInv /\ failed = NoFailure
  BY DEF CfsInv
<1>1. /\ UNCHANGED <<task, current, Chosen, rq, mq, preempt_curr, pc, next, todo, target, imbalance, moving, onIdle,
                     failed>>
  BY ChosenSame DEF cfsSchedVars, cpuVars, localVars, balanceVars
<1>2. /\ \A u \in Tasks : View(u)' = View(u) /\ \A s : Is(u, s)' = Is(u, s)
      /\ \A u \in Tasks, c \in Cpus : IsCurrent(u, c)' = IsCurrent(u, c)
  BY <1>1 DEF View, Is, IsCurrent
<1>3. PlaceInv' /\ AgentInv'
  BY <1>0, <1>1, <1>2 DEF PlaceInv, PlaceOK, Waits, AgentInv, AgentOK, IsCurrent, Is
<1>4. MessageInv'
  BY <1>0, <1>1 DEF MessageInv, MsgOK, Home, Unread, AffinityKnown, View, Is, Truth, InGhost
<1>5. ASSUME NEW t \in Tasks PROVE RunOK(t)'
  <2>1. RunOK(t) /\ (oncpu[t] # NoCpu => oncpu[t] \in Cpus)
    BY <1>0 DEF CpuInv, TypeOK, KernelTypeOK
  <2>2. CASE oncpu'[t] = NoCpu
    <3>1. via'[t] = "none"
      BY <2>1, <2>2 DEF RunOK
    <3> QED BY <2>2, <3>1 DEF RunOK
  <2>3. CASE oncpu'[t] # NoCpu
    <3>1. oncpu'[t] = oncpu[t] /\ via'[t] = via[t] /\ ast'[oncpu[t]] # "running" /\ oncpu[t] \in Cpus
      BY <2>1, <2>3
    <3>2. IsCurrent(t, oncpu[t])' /\ Home(t)' = Home(t)
      BY <1>2, <2>1, <2>3, <3>1 DEF RunOK, Home
    <3> QED BY <2>1, <2>3, <3>1, <3>2 DEF RunOK
  <2> QED BY <2>2, <2>3
<1>6. ASSUME NEW c \in Cpus PROVE OffOK(c)'
  <2>1. OffOK(c)
    BY <1>0 DEF CpuInv
  <2> QED BY <1>1, <2>1 DEF OffOK, IsCurrent, Is
<1>7. \A c \in Cpus : ast'[c] # "running" => pc'[c] = "top"
  BY <1>0, <1>1 DEF CpuInv
<1>8. CpuInv'
  BY <1>5, <1>6, <1>7 DEF CpuInv
<1> QED BY <1>0, <1>1, <1>3, <1>4, <1>8 DEF CfsInv

\* A task that the kernel reports to run is on a CPU, by a transaction.
LEMMA RunningFacts ==
  ASSUME CfsInv, NEW t \in Tasks
  PROVE  /\ via[t] \in {"none", "txn"} /\ (via[t] = "txn" <=> oncpu[t] # NoCpu)
         /\ oncpu[t] \in Cpus \cup {NoCpu}
         /\ Running(t) => oncpu[t] \in Cpus /\ assoc[t] = oncpu[t] /\ kst[t] = "runnable"
         /\ oncpu[t] # NoCpu => Running(t)
         /\ LeaveCpu(t) => oncpu' = [oncpu EXCEPT ![t] = NoCpu] /\ via' = [via EXCEPT ![t] = "none"]
<1>1. RunOK(t) /\ oncpu[t] \in Cpus \cup {NoCpu}
  BY DEF CfsInv, CpuInv, TypeOK, KernelTypeOK
<1>2. via[t] \in {"none", "txn"} /\ (via[t] = "txn" <=> oncpu[t] # NoCpu)
  BY <1>1 DEF RunOK
<1>3. LeaveCpu(t) => oncpu' = [oncpu EXCEPT ![t] = NoCpu] /\ via' = [via EXCEPT ![t] = "none"]
  BY <1>2 DEF LeaveCpu
<1> QED BY <1>1, <1>2, <1>3 DEF Running, RunOK

\* The task was not on a CPU.
LEMMA StaysOff ==
  ASSUME CfsInv, NEW t \in Tasks, oncpu[t] = NoCpu, UNCHANGED <<oncpu, via>>
  PROVE  oncpu' = [oncpu EXCEPT ![t] = NoCpu] /\ via' = [via EXCEPT ![t] = "none"]
<1>1. oncpu \in [Tasks -> Cpus \cup {NoCpu}] /\ via \in [Tasks -> {"none", "txn", "switchto", "leaving"}]
  BY DEF CfsInv, TypeOK, KernelTypeOK
<1>2. via[t] = "none"
  BY RunningFacts
<1> QED BY <1>1, <1>2

\* What client threads do.
LEMMA ClientKeeps ==
  ASSUME CfsInv, NEW t \in Tasks, UNCHANGED <<allowed, tick, cfsSchedVars>>,
         \/ \E b \in BOOLEAN : KWakeup(t, b)
         \/ KBlock(t) \/ KYield(t) \/ KExit(t) \/ KDead(t) \/ KDepart(t)
  PROVE  CfsInv'
<1>0. TypeOK /\ MsgTypes \subseteq MsgTypes
  BY DEF CfsInv
<1>1. boosted \in [Cpus -> BOOLEAN] /\ budget \in 0 .. MaxDisturb /\ kst \in [Tasks -> {"new", "blocked", "runnable", "dying", "dead", "departed"}]
      /\ oncpu[t] \in Cpus \cup {NoCpu}
  BY <1>0 DEF TypeOK, KernelTypeOK
<1>2. ASSUME NEW b \in BOOLEAN, KWakeup(t, b) PROVE CfsInv'
  <2>1. /\ kst[t] = "blocked" /\ kst' = [kst EXCEPT ![t] = "runnable"] /\ Produce(t, "TASK_WAKEUP", b, NoCpu)
        /\ WakeAgent(assoc[t]) /\ UNCHANGED <<oncpu, via, ran, assoc, boosted, budget>>
    BY <1>2 DEF KWakeup, cfsVars
  <2>2. oncpu[t] = NoCpu
    BY <2>1, RunningFacts DEF Running
  <2>3. oncpu' = [oncpu EXCEPT ![t] = NoCpu] /\ via' = [via EXCEPT ![t] = "none"]
    BY <2>1, <2>2, StaysOff
  <2>4. ASSUME NEW m \in Messages, m.type = "TASK_WAKEUP"
        PROVE  MayCome(Truth(t), m) /\ Truth(t)' = After(Truth(t), m)
    BY <1>1, <2>1, <2>4 DEF MayCome, After, Truth, OffCpu
  <2>5. "TASK_WAKEUP" \in MsgTypes /\ "TASK_WAKEUP" \notin OffCpu
    BY DEF MsgTypes, OffCpu
  <2> QED BY <1>1, <2>1, <2>3, <2>4, <2>5, ToldKeeps DEF InGhost
<1>3. ASSUME NEW type \in {"TASK_BLOCKED", "TASK_YIELD"}, NEW k \in {"blocked", "runnable", "dying"},
             (type = "TASK_YIELD") <=> (k = "runnable"), Running(t), kst' = [kst EXCEPT ![t] = k],
             Report(t, type), LeaveCpu(t), UNCHANGED <<ran, assoc, cfsVars>>
      PROVE  CfsInv'
  <2>1. /\ Produce(t, type, FALSE, oncpu[t]) /\ WakeAgent(assoc[t]) /\ UNCHANGED <<boosted, budget>>
    <3>1. (via[t] = "switchto") = FALSE
      BY RunningFacts
    <3> QED BY <1>3, <3>1 DEF Report, cfsVars
  <2>2. /\ kst[t] = "runnable" /\ oncpu[t] # NoCpu
        /\ oncpu' = [oncpu EXCEPT ![t] = NoCpu] /\ via' = [via EXCEPT ![t] = "none"]
    BY <1>3, RunningFacts DEF Cpus, NoCpu
  <2>3. ASSUME NEW m \in Messages, m.type = type
        PROVE  MayCome(Truth(t), m) /\ Truth(t)' = After(Truth(t), m)
    <3>1. Truth(t) = "ready" /\ Truth(t)' = IF k = "runnable" THEN "ready" ELSE "blocked"
      BY <1>1, <1>3, <2>2 DEF Truth
    <3> QED BY <1>3, <2>3, <3>1 DEF MayCome, After, OffCpu
  <2>4. type \in MsgTypes
    BY <1>3 DEF MsgTypes
  <2> QED BY <1>1, <1>3, <2>1, <2>2, <2>3, <2>4, ToldKeeps DEF InGhost
<1>4. CASE KBlock(t)
  BY <1>3, <1>4 DEF KBlock
<1>5. CASE KYield(t)
  <2>1. kst' = [kst EXCEPT ![t] = "runnable"]
    BY <1>1, <1>5 DEF KYield, Running
  <2> QED BY <1>3, <1>5, <2>1 DEF KYield
<1>6. CASE KExit(t)
  BY <1>3, <1>6 DEF KExit
<1>7. CASE KDead(t)
  <2>1. /\ Produce(t, "TASK_DEAD", FALSE, oncpu[t]) /\ WakeAgent(assoc[t]) /\ oncpu[t] = NoCpu
        /\ UNCHANGED <<oncpu, via, ran, assoc, boosted, budget>>
        /\ kst[t] = "dying" /\ kst' = [kst EXCEPT ![t] = "dead"]
    <3>1. (via[t] = "switchto") = FALSE
      BY RunningFacts
    <3> QED BY <1>7, <3>1 DEF Report, cfsVars, KDead
  <2>2. oncpu' = [oncpu EXCEPT ![t] = NoCpu] /\ via' = [via EXCEPT ![t] = "none"]
    BY <2>1, StaysOff
  <2>3. ASSUME NEW m \in Messages, m.type = "TASK_DEAD"
        PROVE  MayCome(Truth(t), m) /\ Truth(t)' = After(Truth(t), m)
    BY <1>1, <2>1, <2>3 DEF MayCome, After, Truth, OffCpu
  <2>4. "TASK_DEAD" \in MsgTypes /\ "TASK_DEAD" \notin OffCpu
    BY DEF MsgTypes, OffCpu
  <2> QED BY <1>1, <2>1, <2>2, <2>3, <2>4, ToldKeeps
<1>8. CASE KDepart(t)
  <2>1. /\ Produce(t, "TASK_DEPARTED", FALSE, oncpu[t]) /\ WakeAgent(assoc[t])
        /\ UNCHANGED <<ran, assoc, boosted, budget>>
        /\ oncpu' = [oncpu EXCEPT ![t] = NoCpu] /\ via' = [via EXCEPT ![t] = "none"]
        /\ InGhost(t) /\ kst' = [kst EXCEPT ![t] = "departed"]
    <3>1. (via[t] = "switchto") = FALSE
      BY RunningFacts
    <3> QED BY <1>8, <3>1 DEF Report, cfsVars, KDepart
  <2>2. ASSUME NEW m \in Messages, m.type = "TASK_DEPARTED"
        PROVE  MayCome(Truth(t), m) /\ Truth(t)' = After(Truth(t), m)
    BY <1>1, <2>1, <2>2 DEF MayCome, After, Truth, OffCpu, InGhost
  <2>3. "TASK_DEPARTED" \in MsgTypes /\ "TASK_DEPARTED" \notin OffCpu /\ kst[t] # "new"
    BY <2>1 DEF MsgTypes, OffCpu, InGhost
  <2> QED BY <1>1, <2>1, <2>2, <2>3, ToldKeeps
<1> QED BY <1>2, <1>4, <1>5, <1>6, <1>7, <1>8

\* What happens on a CPU.
LEMMA CfsArriveKeeps ==
  ASSUME CfsInv, NEW c \in Cpus, KCfsArrive(c), UNCHANGED <<allowed, tick, cfsSchedVars>>
  PROVE  CfsInv'
<1>0. TypeOK /\ KernelTypeOK /\ budget \in Nat /\ budget > 0 /\ boosted \in [Cpus -> BOOLEAN]
  <2>1. TypeOK /\ KernelTypeOK
    BY DEF CfsInv, TypeOK
  <2>2. budget \in 0 .. MaxDisturb /\ boosted \in [Cpus -> BOOLEAN]
    BY ONLY <2>1 DEF KernelTypeOK
  <2>3. budget \in Nat
    BY ONLY <2>2, KernelAssumption
  <2>4. budget > 0
    BY DEF KCfsArrive
  <2> QED BY ONLY <2>1, <2>2, <2>3, <2>4
<1>1. budget' \in 0 .. MaxDisturb /\ boosted' \in [Cpus -> BOOLEAN] /\ UNCHANGED <<kst, ran, assoc>>
  BY <1>0, KernelAssumption DEF KCfsArrive, KernelTypeOK
<1>2. ASSUME NEW t \in Tasks, Running(t), oncpu[t] = c, Report(t, "TASK_PREEMPT"), LeaveCpu(t)
      PROVE  CfsInv'
  <2>1. Produce(t, "TASK_PREEMPT", FALSE, oncpu[t]) /\ WakeAgent(assoc[t])
    <3>1. (via[t] = "switchto") = FALSE
      BY RunningFacts
    <3> QED BY <1>2, <3>1 DEF Report
  <2>2. /\ kst[t] = "runnable" /\ oncpu[t] # NoCpu /\ oncpu[t] \in Cpus \cup {NoCpu}
        /\ oncpu' = [oncpu EXCEPT ![t] = NoCpu] /\ via' = [via EXCEPT ![t] = "none"]
    BY <1>2, RunningFacts DEF Cpus, NoCpu
  <2>3. kst' = [kst EXCEPT ![t] = "runnable"]
    BY <1>0, <1>1, <2>2 DEF KernelTypeOK
  <2>4. ASSUME NEW m \in Messages, m.type = "TASK_PREEMPT"
        PROVE  MayCome(Truth(t), m) /\ Truth(t)' = After(Truth(t), m)
    <3>1. Truth(t) = "ready" /\ Truth(t)' = "ready"
      BY <1>1, <2>2 DEF Truth
    <3> QED BY <2>4, <3>1 DEF MayCome, After, OffCpu
  <2>5. "TASK_PREEMPT" \in MsgTypes
    BY DEF MsgTypes
  <2> QED BY <1>1, <2>1, <2>2, <2>3, <2>4, <2>5, ToldKeeps DEF InGhost
<1>3. ASSUME UNCHANGED <<oncpu, via, seq, chan, agentVars>> PROVE CfsInv'
  <2>1. KernelTypeOK'
    BY <1>0, <1>1, <1>3 DEF KernelTypeOK, agentVars
  <2>2. TypeOK'
    BY <1>0, <2>1 DEF TypeOK, cfsSchedVars, cpuVars, localVars, balanceVars
  <2>3. \A t \in Tasks : oncpu[t] # NoCpu => ast[oncpu[t]] # "running"
    BY DEF CfsInv, CpuInv, RunOK
  <2> QED BY <1>1, <1>3, <2>2, <2>3, KernelQuiet DEF agentVars
<1> QED BY <1>2, <1>3 DEF KCfsArrive

\* A woken agent gets its CPU.
LEMMA SwitchInKeeps ==
  ASSUME CfsInv, NEW c \in Cpus, KAgentSwitchIn(c), UNCHANGED <<allowed, tick, cfsSchedVars>>
  PROVE  CfsInv'
<1>0. TypeOK /\ KernelTypeOK /\ CpuInv
  BY DEF CfsInv, TypeOK
<1>1. \A t \in Tasks : via[t] # "switchto" /\ (oncpu[t] # NoCpu => ast[oncpu[t]] # "running")
  BY <1>0 DEF CpuInv, RunOK
<1>2. /\ UNCHANGED <<seq, chan, stale, kst, ran, assoc, boosted, budget>> /\ ast[c] = "waking"
      /\ ast' = [ast EXCEPT ![c] = "running"] /\ rtla' = [rtla EXCEPT ![c] = FALSE]
      /\ oncpu' = [t \in Tasks |-> IF oncpu[t] = c THEN NoCpu ELSE oncpu[t]]
      /\ via' = [t \in Tasks |-> IF oncpu[t] = c THEN "none" ELSE via[t]]
  BY <1>1 DEF KAgentSwitchIn, cfsVars
<1>3. KernelTypeOK'
  BY <1>0, <1>2 DEF KernelTypeOK
<1>4. TypeOK'
  BY <1>0, <1>3 DEF TypeOK, cfsSchedVars, cpuVars, localVars, balanceVars
<1>5. ASSUME NEW t \in Tasks
      PROVE  \/ oncpu'[t] = NoCpu /\ via'[t] = "none"
             \/ /\ oncpu'[t] = oncpu[t] /\ via'[t] = via[t]
                /\ oncpu[t] # NoCpu => ast'[oncpu[t]] # "running"
  <2>1. oncpu[t] \in Cpus \cup {NoCpu} /\ ast \in [Cpus -> {"running", "sleeping", "waking"}]
    BY <1>0 DEF KernelTypeOK
  <2> QED BY <1>1, <1>2, <2>1
<1>6. \A d \in Cpus : ast'[d] = "running" \/ ast[d] # "running"
  BY <1>0, <1>2 DEF KernelTypeOK
<1> QED BY <1>2, <1>4, <1>5, <1>6, KernelQuiet

\* CFS leaves a CPU, or its timer ticks.
LEMMA QuietKernelKeeps ==
  ASSUME CfsInv, NEW c \in Cpus, UNCHANGED <<allowed, cfsSchedVars>>,
         (KCfsLeave(c) /\ UNCHANGED tick) \/ KTick(c)
  PROVE  CfsInv'
<1>0. TypeOK /\ KernelTypeOK /\ CpuInv /\ budget \in 0 .. MaxDisturb
  BY DEF CfsInv, TypeOK, KernelTypeOK
<1>1. /\ UNCHANGED <<kst, oncpu, via, ran, seq, assoc, chan>>
      /\ ast' \in [Cpus -> {"running", "sleeping", "waking"}] /\ stale' \in [Cpus -> BOOLEAN]
      /\ rtla' \in [Cpus -> BOOLEAN] /\ boosted' \in [Cpus -> BOOLEAN] /\ tick' \in [Cpus -> BOOLEAN]
      /\ \A d \in Cpus : (ast'[d] = "running") <=> (ast[d] = "running")
  <2>1. CASE KCfsLeave(c) /\ UNCHANGED tick
    BY <1>0, <2>1 DEF KCfsLeave, KernelTypeOK, TypeOK, taskVars, Woken
  <2>2. CASE KTick(c)
    BY <1>0, <2>2 DEF KTick, KernelTypeOK, TypeOK, taskVars, WakeAgent, Woken
  <2> QED BY <2>1, <2>2
<1>2. budget' \in 0 .. MaxDisturb
  BY <1>0, KernelAssumption DEF KCfsLeave, KTick
<1>3. KernelTypeOK'
  BY <1>0, <1>1, <1>2 DEF KernelTypeOK
<1>4. TypeOK'
  BY <1>0, <1>1, <1>3 DEF TypeOK, cfsSchedVars, cpuVars, localVars, balanceVars
<1>5. \A t \in Tasks : oncpu[t] # NoCpu => ast'[oncpu[t]] # "running"
  BY <1>0, <1>1 DEF CpuInv, RunOK, KernelTypeOK
<1> QED BY <1>1, <1>4, <1>5, KernelQuiet

\* The affinity of a task changes.
LEMMA SetAffinityKeeps ==
  ASSUME CfsInv, NEW t \in Tasks, NEW mask \in SUBSET Cpus, KSetAffinity(t, mask), UNCHANGED cfsSchedVars
  PROVE  CfsInv'
<1>0. TypeOK /\ KernelTypeOK /\ MessageInv /\ CpuInv
  BY DEF CfsInv, TypeOK
<1>1. PICK d \in Cpus : d = assoc[t]
  BY <1>0 DEF KernelTypeOK
<1>2. PICK k \in Nat : k = seq[t]
  BY <1>0 DEF KernelTypeOK
<1>3. PICK m : m = [type |-> "TASK_AFFINITY_CHANGED", task |-> t, seq |-> k + 1, flag |-> FALSE, cpu |-> oncpu[t]]
  OBVIOUS
<1>4. PICK n : n = [type |-> "TASK_PREEMPT", task |-> t, seq |-> k + 2, flag |-> FALSE, cpu |-> oncpu[t]]
  OBVIOUS
<1>5. oncpu[t] \in Cpus \cup {NoCpu}
  BY <1>0 DEF KernelTypeOK
<1>6. /\ m \in Messages /\ m.task = t /\ m.type = "TASK_AFFINITY_CHANGED" /\ m.seq = k + 1
      /\ n \in Messages /\ n.task = t /\ n.type = "TASK_PREEMPT" /\ n.seq = (k + 1) + 1 /\ n.cpu = oncpu[t]
  BY <1>3, <1>4, <1>5 DEF Messages, MsgTypes
<1>7. PICK p \in Seq(Messages) : p = chan[d]
  BY <1>0, ChanFacts
<1>8. PICK a : a = Append(p, m)
  OBVIOUS
<1>9. PICK b : b = Append(a, n)
  OBVIOUS
<1>10. a \in Seq(Messages) /\ Grown(p, a, t) /\ Grown(p, b, t) /\ b \in Seq(Messages)
  <2>1. Grown(p, a, t)
    BY <1>6, <1>8, GrownOnce
  <2>2. Grown(p, b, t)
    BY <1>6, <1>8, <1>9, GrownTwice
  <2> QED BY <2>1, <2>2 DEF Grown
<1>11. PICK evicted \in BOOLEAN : evicted = (Running(t) /\ oncpu[t] \notin mask)
  BY DEF Running
<1>12. PICK q : q = IF evicted THEN b ELSE a
  OBVIOUS
<1>13. chan' = [chan EXCEPT ![d] = q]
  <2>1. chan' = [chan EXCEPT ![d] = p \o <<m>> \o IF evicted THEN <<n>> ELSE <<>>]
    BY <1>1, <1>2, <1>3, <1>4, <1>7, <1>11, Zenon DEF KSetAffinity
  <2>2. p \o <<m>> = a
    BY <1>6, <1>8
  <2>3. a \o <<n>> = b /\ a \o <<>> = a
    BY <1>6, <1>9, <1>10
  <2>4. p \o <<m>> \o (IF evicted THEN <<n>> ELSE <<>>) = q
    BY <1>12, <2>2, <2>3
  <2> QED BY <2>1, <2>4
<1>14. /\ InGhost(t) /\ budget > 0 /\ budget' = budget - 1 /\ allowed' = [allowed EXCEPT ![t] = mask]
       /\ seq' = [seq EXCEPT ![t] = @ + IF evicted THEN 2 ELSE 1]
       /\ WakeAgent(d) /\ UNCHANGED <<kst, ran, assoc, boosted, tick>>
       /\ evicted => LeaveCpu(t)
       /\ ~evicted => UNCHANGED <<oncpu, via>>
  BY <1>1, <1>11 DEF KSetAffinity
<1>15. evicted => /\ oncpu' = [oncpu EXCEPT ![t] = NoCpu] /\ via' = [via EXCEPT ![t] = "none"]
                  /\ kst[t] = "runnable" /\ oncpu[t] = d
  BY <1>1, <1>11, <1>14, RunningFacts
<1>16. /\ oncpu' \in [Tasks -> Cpus \cup {NoCpu}]
       /\ via' \in [Tasks -> {"none", "txn", "switchto", "leaving"}]
       /\ \A u \in Tasks \ {t} : oncpu'[u] = oncpu[u] /\ via'[u] = via[u]
       /\ evicted => oncpu'[t] = NoCpu /\ via'[t] = "none"
  BY <1>0, <1>14, <1>15 DEF KernelTypeOK
<1>17. /\ seq' \in [Tasks -> Nat] /\ (\A u \in Tasks \ {t} : seq'[u] = seq[u])
       /\ seq'[t] = k + IF evicted THEN 2 ELSE 1
  BY <1>0, <1>2, <1>14 DEF KernelTypeOK
<1>18. TypeOK'
  <2>1. ast' \in [Cpus -> {"running", "sleeping", "waking"}] /\ stale' \in [Cpus -> BOOLEAN]
        /\ rtla' \in [Cpus -> BOOLEAN]
    BY <1>0, <1>14 DEF KernelTypeOK, WakeAgent, Woken
  <2>2. budget' \in 0 .. MaxDisturb
    BY <1>0, <1>14, KernelAssumption DEF KernelTypeOK
  <2>3. chan' \in [Cpus -> Seq(Messages)]
    BY <1>0, <1>10, <1>12, <1>13 DEF KernelTypeOK
  <2>4. KernelTypeOK'
    BY <1>0, <1>14, <1>16, <1>17, <2>1, <2>2, <2>3 DEF KernelTypeOK
  <2>5. allowed' \in [Tasks -> SUBSET Cpus]
    BY <1>0, <1>14 DEF TypeOK
  <2> QED BY <1>0, <1>14, <2>4, <2>5 DEF TypeOK, cfsSchedVars, cpuVars, localVars, balanceVars
<1>19. Grown(chan[d], q, t) /\ q \in Seq(Messages)
  BY <1>7, <1>10, <1>12
<1>20. KernelSends(t, d, q)
  <2>1. \A u \in Tasks \ {t} :
          /\ kst'[u] = kst[u] /\ seq'[u] = seq[u] /\ assoc'[u] = assoc[u] /\ allowed'[u] = allowed[u]
          /\ oncpu'[u] = oncpu[u] /\ via'[u] = via[u]
    BY <1>0, <1>14, <1>16, <1>17 DEF TypeOK
  <2>2. \A c \in Cpus : (ast'[c] = "running") <=> (ast[c] = "running")
    BY <1>0, <1>14 DEF KernelTypeOK, WakeAgent, Woken
  <2>3. \/ oncpu'[t] = NoCpu /\ via'[t] = "none"
        \/ oncpu'[t] = oncpu[t] /\ via'[t] = via[t] /\ kst'[t] = kst[t]
    BY <1>14, <1>16
  <2> QED BY <1>13, <1>19, <2>1, <2>2, <2>3 DEF KernelSends
<1>21. PICK l \in Nat : l = Len(p)
  OBVIOUS
<1>22. /\ Len(a) = l + 1 /\ a[l + 1] = m /\ Len(b) = l + 2 /\ b[l + 1] = m /\ b[l + 2] = n
  <2>1. Len(a) = l + 1 /\ a[l + 1] = m
    BY <1>6, <1>8, <1>21, AppendFacts
  <2>2. Len(b) = (l + 1) + 1 /\ b[(l + 1) + 1] = n /\ \A i \in 1 .. l + 1 : b[i] = a[i]
    BY <1>6, <1>9, <1>10, <2>1, AppendFacts
  <2>3. (l + 1) + 1 = l + 2 /\ l + 1 \in 1 .. l + 1
    OBVIOUS
  <2> QED BY <2>1, <2>2, <2>3
<1>23. ASSUME NEW i \in 1 .. Len(q), ~(i \in 1 .. l)
       PROVE  (i = l + 1 /\ q[i] = m) \/ (evicted /\ i = l + 2 /\ q[i] = n)
  <2>1. CASE evicted
    <3>1. q = b
      BY <1>12, <2>1
    <3>2. i \in 1 .. l + 2
      BY <1>22, <3>1
    <3>3. i = l + 1 \/ i = l + 2
      BY <1>23, <3>2
    <3> QED BY <1>22, <2>1, <3>1, <3>3
  <2>2. CASE ~evicted
    <3>1. q = a
      BY <1>12, <2>2
    <3>2. i \in 1 .. l + 1
      BY <1>22, <3>1
    <3>3. i = l + 1
      BY <1>23, <3>2
    <3> QED BY <1>22, <3>1, <3>3
  <2> QED BY <2>1, <2>2
<1>24. NewMessages(t, d, q)
  <2> SUFFICES ASSUME NEW i \in 1 .. Len(q), ~(i \in 1 .. l)
               PROVE  /\ q[i].type \in OffCpu =>
                         /\ oncpu[t] = d /\ q[i].cpu = d
                         /\ \A j \in 1 .. i - 1 : ~(j \in 1 .. l) => q[j].type = "TASK_AFFINITY_CHANGED"
                      /\ oncpu'[t] # NoCpu => q[i].type = "TASK_AFFINITY_CHANGED"
    BY <1>7, <1>21 DEF NewMessages
  <2>1. CASE i = l + 1 /\ q[i] = m
    BY <1>6, <2>1 DEF OffCpu
  <2>2. CASE evicted /\ i = l + 2 /\ q[i] = n
    <3>1. q[i].cpu = d /\ oncpu[t] = d /\ oncpu'[t] = NoCpu
      BY <1>6, <1>15, <1>16, <2>2
    <3>2. ASSUME NEW j \in 1 .. i - 1, ~(j \in 1 .. l) PROVE q[j].type = "TASK_AFFINITY_CHANGED"
      <4>1. j = l + 1
        BY <2>2, <3>2
      <4> QED BY <1>6, <1>12, <1>22, <2>2, <4>1
    <3> QED BY <3>1, <3>2
  <2> QED BY <1>23, <2>1, <2>2
<1>25. MsgOK(t)'
  <2>1. MsgOK(t) /\ Home(t) = p /\ task[t].seqnum \in Nat /\ Truth(t) \in Views
    BY <1>0, <1>1, <1>7, TaskFacts DEF MessageInv, Home
  <2>2. Leads(p, t, View(t), Truth(t)) /\ Numbered(p, t, task[t].seqnum, k)
    BY <1>2, <2>1 DEF MsgOK
  <2>3. Truth(t)' = Truth(t) /\ Truth(t) # "none" /\ kst'[t] # "new"
    BY <1>14 DEF Truth, InGhost
  <2>4. MayCome(Truth(t), m) /\ After(Truth(t), m) = Truth(t)
    BY <1>6, <2>3 DEF MayCome, After, OffCpu
  <2>5. Leads(a, t, View(t), Truth(t)) /\ Numbered(a, t, task[t].seqnum, k + 1)
    <3>1. Leads(a, t, View(t), After(Truth(t), m))
      BY ONLY <1>6, <1>8, <2>2, <2>4, p \in Seq(Messages), SentChain
    <3>2. Numbered(a, t, task[t].seqnum, k + 1)
      BY ONLY <1>6, <1>8, <2>1, <2>2, k \in Nat, p \in Seq(Messages), SentNumber
    <3> QED BY <2>4, <3>1, <3>2
  <2>6. evicted => Leads(b, t, View(t), Truth(t)) /\ Numbered(b, t, task[t].seqnum, k + 2)
    <3> SUFFICES ASSUME evicted PROVE Leads(b, t, View(t), Truth(t)) /\ Numbered(b, t, task[t].seqnum, k + 2)
      OBVIOUS
    <3>1. Truth(t) = "ready"
      BY <1>15 DEF Truth
    <3>2. MayCome(Truth(t), n) /\ After(Truth(t), n) = Truth(t)
      BY <1>6, <3>1 DEF MayCome, After, OffCpu
    <3>3. Leads(b, t, View(t), After(Truth(t), n))
      BY ONLY <1>6, <1>9, <1>10, <2>5, <3>2, SentChain
    <3>4. k + 1 \in Nat /\ (k + 1) + 1 = k + 2
      OBVIOUS
    <3>5. Numbered(b, t, task[t].seqnum, (k + 1) + 1)
      BY ONLY <1>6, <1>9, <1>10, <2>1, <2>5, <3>4, SentNumber
    <3> QED BY <3>2, <3>3, <3>4, <3>5
  <2>7. Leads(q, t, View(t), Truth(t)') /\ Numbered(q, t, task[t].seqnum, seq'[t])
    BY <1>12, <1>17, <2>3, <2>5, <2>6
  <2>8. \E i \in 1 .. Len(q) : q[i].task = t /\ q[i].type = "TASK_AFFINITY_CHANGED"
    <3>1. l + 1 \in 1 .. Len(q) /\ q[l + 1] = m
      BY <1>12, <1>22
    <3> QED BY <1>6, <3>1
  <2>9. task' = task /\ assoc'[t] = d
    BY <1>1, <1>14 DEF cfsSchedVars
  <2> QED BY <1>0, <1>1, <1>13, <1>14, <1>19, <2>1, <2>3, <2>7, <2>8, <2>9, SentOwn
<1> QED BY <1>1, <1>14, <1>18, <1>20, <1>24, <1>25, KernelSendKeeps

\* The kernel.
LEMMA KernelKeeps ==
  ASSUME CfsInv, "reenter" \notin Events, KernelStep
  PROVE  CfsInv'
<1>0. UNCHANGED cfsSchedVars /\ TypeOK
  BY DEF KernelStep, CfsInv
<1>1. ASSUME KernelNext, UNCHANGED <<allowed, tick>> PROVE CfsInv'
  <2>1. ASSUME NEW t \in Tasks, NEW b \in BOOLEAN, KTaskNew(t, b) PROVE CfsInv'
    BY <1>0, <1>1, <2>1, TaskNewKeeps
  <2>2. ASSUME NEW t \in Tasks, NEW b \in BOOLEAN, KWakeup(t, b) PROVE CfsInv'
    BY <1>0, <1>1, <2>2, ClientKeeps
  <2>3. ASSUME NEW t \in Tasks, KBlock(t) \/ KYield(t) \/ KExit(t) \/ KDead(t) \/ KDepart(t)
        PROVE  CfsInv'
    BY <1>0, <1>1, <2>3, ClientKeeps
  <2>4. ASSUME NEW t \in Tasks, KFinishSwitch(t) PROVE CfsInv'
    <3>1. via[t] = "leaving" /\ via[t] \in {"none", "txn"}
      BY <2>4, RunningFacts DEF KFinishSwitch
    <3> QED BY <3>1
  <2>5. ASSUME NEW a \in Tasks, NEW b \in Tasks, KSwitchTo(a, b) PROVE CfsInv'
    BY <2>5, CfsAssumption DEF KSwitchTo
  <2>6. ASSUME NEW c \in Cpus, KAgentSwitchIn(c) PROVE CfsInv'
    BY <1>0, <1>1, <2>6, SwitchInKeeps
  <2>7. ASSUME NEW c \in Cpus, KCfsArrive(c) PROVE CfsInv'
    BY <1>0, <1>1, <2>7, CfsArriveKeeps
  <2>8. ASSUME NEW c \in Cpus, KCfsLeave(c) PROVE CfsInv'
    BY <1>0, <1>1, <2>8, QuietKernelKeeps
  <2> QED BY <1>1, <2>1, <2>2, <2>3, <2>4, <2>5, <2>6, <2>7, <2>8 DEF KernelNext
<1>2. ASSUME NEW t \in Tasks, NEW mask \in SUBSET Cpus \ {{}}, KSetAffinity(t, mask) PROVE CfsInv'
  BY <1>0, <1>2, SetAffinityKeeps
<1>3. ASSUME NEW c \in Cpus, KTick(c) PROVE CfsInv'
  <2>1. UNCHANGED allowed
    BY <1>3 DEF KTick
  <2> QED BY <1>0, <1>3, <2>1, QuietKernelKeeps
<1> QED BY <1>1, <1>2, <1>3 DEF KernelStep
-------------------------------------------------------------------------------
(* The agents.                                                              *)

\* The agent of CPU c leaves the others alone.
OthersKeep(c) ==
  \A d \in Cpus : d # c =>
    /\ pc'[d] = pc[d] /\ next'[d] = next[d] /\ todo'[d] = todo[d] /\ moving'[d] = moving[d]
    /\ mq'[d] = mq[d] /\ Chosen'[d] = Chosen[d]
    /\ \A t \in Tasks : IsCurrent(t, d) => IsCurrent(t, d)'

\* What the scheduler may do with a task without having read a message.
QuietTask(t) ==
  /\ View(t)' = View(t) /\ task'[t].seqnum <= task[t].seqnum
  /\ View(t) # "none" => /\ task'[t].seqnum = task[t].seqnum
                         /\ task'[t].cpu_affinity = task[t].cpu_affinity
  /\ task'[t].known => task'[t].cpu = assoc'[t]
  /\ kst[t] = "new" => task'[t] = task[t]
  /\ assoc'[t] = assoc[t] \/ AssociateOk(t, task[t].seqnum)

\* The agent leaves the task alone.
LEMMA SameTask ==
  ASSUME CfsInv, NEW t \in Tasks, task'[t] = task[t], assoc'[t] = assoc[t]
  PROVE  QuietTask(t)
<1>1. task[t].seqnum \in Nat /\ MsgOK(t)
  BY TaskFacts DEF CfsInv, MessageInv
<1>2. View(t)' = View(t)
  BY DEF View, Is
<1> QED BY <1>1, <1>2 DEF QuietTask, MsgOK

\* A task that stays where it is.
LEMMA SamePlace ==
  ASSUME CfsInv, NEW t \in Tasks, task'[t] = task[t],
         \A c \in Cpus : /\ (t \in rq'[c]) <=> (t \in rq[c])
                         /\ (t \in mq'[c]) <=> (t \in mq[c])
                         /\ (t \in moving'[c]) <=> (t \in moving[c])
                         /\ (Chosen'[c] = t) <=> (Chosen[c] = t)
  PROVE  PlaceOK(t)'
<1>1. PlaceOK(t) /\ (task[t].known => task[t].cpu \in Cpus)
  BY TaskFacts DEF CfsInv, PlaceInv
<1> QED BY <1>1 DEF PlaceOK, Waits, Is

\* What the others have in hand.
LEMMA OthersOK ==
  ASSUME CfsInv, NEW c \in Cpus, OthersKeep(c), AgentOK(c)'
  PROVE  AgentInv'
<1> SUFFICES ASSUME NEW d \in Cpus, d # c PROVE AgentOK(d)'
  BY DEF AgentInv
<1>1. AgentOK(d)
  BY DEF CfsInv, AgentInv
<1>2. /\ pc'[d] = pc[d] /\ next'[d] = next[d] /\ todo'[d] = todo[d] /\ moving'[d] = moving[d]
      /\ mq'[d] = mq[d] /\ Chosen'[d] = Chosen[d]
      /\ \A t \in Tasks : IsCurrent(t, d) => IsCurrent(t, d)'
  BY DEF OthersKeep
<1>3. pc[d] = "commit" => next[d] \in Tasks /\ IsCurrent(next[d], d)'
  BY <1>1, <1>2 DEF AgentOK
<1>4. pc[d] = "commit" => IsCurrent(next[d], d)'
  BY <1>2, <1>3 DEF IsCurrent, Is
<1> QED BY <1>1, <1>2, <1>3, <1>4 DEF AgentOK, IsCurrent, Is

\* A step of an agent that reads no message and starts no task.
LEMMA QuietKeeps ==
  ASSUME CfsInv, TypeOK', NEW c \in Cpus, ast[c] = "running",
         UNCHANGED <<chan, kst, seq, allowed, oncpu, via, failed>>,
         OthersKeep(c), AgentOK(c)', \A t \in Tasks : QuietTask(t) /\ PlaceOK(t)',
         pc[c] \in {"top", "drain"} => \/ chan[c] = <<>>
                                       \/ pc'[c] \in {"top", "drain"} /\ UNCHANGED <<task, Chosen>>,
         \A d \in Cpus : \/ (ast'[d] = "running") <=> (ast[d] = "running")
                         \/ d = c /\ pc'[c] = "top"
  PROVE  CfsInv'
<1>0. TypeOK /\ MessageInv /\ CpuInv /\ PlaceInv /\ AgentInv /\ failed = NoFailure
  BY DEF CfsInv
<1>1. ASSUME NEW t \in Tasks PROVE MsgOK(t)'
  <2>1. MsgOK(t)
    BY <1>0 DEF MessageInv
  <2> QED BY <1>0, <2>1, QuietMessages DEF QuietTask
<1>2. ASSUME NEW t \in Tasks PROVE RunOK(t)'
  <2>1. RunOK(t) /\ oncpu[t] \in Cpus \cup {NoCpu} /\ QuietTask(t)
    BY <1>0 DEF CpuInv, TypeOK, KernelTypeOK
  <2>2. CASE oncpu[t] = NoCpu
    BY <2>1, <2>2 DEF RunOK
  <2>3. CASE oncpu[t] # NoCpu
    <3>1. PICK d \in Cpus : d = oncpu[t]
      BY <2>1, <2>3
    <3>2. ast[d] # "running" /\ d # c /\ IsCurrent(t, d) /\ assoc[t] = d
      BY <2>1, <2>3, <3>1 DEF RunOK
    <3>3. IsCurrent(t, d)' /\ ast'[d] # "running"
      BY <3>2 DEF OthersKeep
    <3>4. assoc'[t] = d
      BY <2>1, <3>3 DEF IsCurrent, QuietTask
    <3>5. Home(t)' = Home(t)
      BY <3>2, <3>4 DEF Home
    <3> QED BY <2>1, <2>3, <3>1, <3>3, <3>4, <3>5 DEF RunOK
  <2> QED BY <2>2, <2>3
<1>3. ASSUME NEW d \in Cpus PROVE OffOK(d)' /\ (ast'[d] # "running" => pc'[d] = "top")
  <2>1. OffOK(d) /\ (ast[d] # "running" => pc[d] = "top") /\ chan[d] \in Seq(Messages)
    BY <1>0, ChanFacts DEF CpuInv
  <2>2. CASE d # c
    <3>1. pc'[d] = pc[d] /\ \A t \in Tasks : IsCurrent(t, d) => IsCurrent(t, d)'
      BY <2>2 DEF OthersKeep
    <3>2. \A i \in 1 .. Len(chan[d]) : chan[d][i].task \in Tasks
      BY <2>1, MessageFacts
    <3>3. OffOK(d)'
      <4> SUFFICES ASSUME NEW i \in 1 .. Len(chan[d]), chan[d][i].type \in OffCpu
                   PROVE  /\ pc'[d] \in {"top", "drain"} /\ chan[d][i].cpu = d
                          /\ IsCurrent(chan[d][i].task, d)' /\ OnlyAffinity(chan[d], chan[d][i].task, i - 1)
        BY DEF OffOK, IsCurrent, OnlyAffinity, Is
      <4>1. /\ pc[d] \in {"top", "drain"} /\ chan[d][i].cpu = d /\ IsCurrent(chan[d][i].task, d)
            /\ OnlyAffinity(chan[d], chan[d][i].task, i - 1)
        BY <2>1 DEF OffOK
      <4>2. PICK u \in Tasks : u = chan[d][i].task
        BY <3>2
      <4>3. IsCurrent(u, d)'
        BY <3>1, <4>1, <4>2
      <4>4. IsCurrent(chan[d][i].task, d)'
        BY <4>2, <4>3 DEF IsCurrent, Is
      <4> QED BY <3>1, <4>1, <4>4
    <3> QED BY <2>1, <2>2, <3>1, <3>3
  <2>3. CASE d = c
    <3>1. ast'[c] # "running" => pc'[c] = "top"
      OBVIOUS
    <3>2. CASE pc[c] \notin {"top", "drain"} \/ chan[c] = <<>>
      <4>1. \A i \in 1 .. Len(chan[c]) : ~(chan[c][i].type \in OffCpu)
        BY <2>1, <2>3, <3>2 DEF OffOK
      <4> QED BY <2>3, <3>1, <4>1 DEF OffOK
    <3>3. CASE pc'[c] \in {"top", "drain"} /\ UNCHANGED <<task, Chosen>>
      BY <2>1, <2>3, <3>1, <3>3 DEF OffOK, IsCurrent, Is
    <3> QED BY <3>2, <3>3
  <2> QED BY <2>2, <2>3
<1>4. MessageInv' /\ CpuInv' /\ PlaceInv' /\ AgentInv'
  BY <1>1, <1>2, <1>3, OthersOK DEF MessageInv, CpuInv, PlaceInv
<1> QED BY <1>0, <1>4 DEF CfsInv

\* A step of an agent in which the tasks and queues stay as they are.
LEMMA SettledKeeps ==
  ASSUME CfsInv, TypeOK', NEW c \in Cpus, ast[c] = "running",
         UNCHANGED <<chan, kst, seq, allowed, oncpu, via, assoc, task, Chosen, rq, mq, moving, failed>>,
         \A d \in Cpus : d # c => pc'[d] = pc[d] /\ next'[d] = next[d] /\ todo'[d] = todo[d],
         AgentOK(c)',
         pc[c] \in {"top", "drain"} => chan[c] = <<>> \/ pc'[c] \in {"top", "drain"},
         \A d \in Cpus : \/ (ast'[d] = "running") <=> (ast[d] = "running")
                         \/ d = c /\ pc'[c] = "top"
  PROVE  CfsInv'
<1>1. ASSUME NEW t \in Tasks PROVE QuietTask(t) /\ PlaceOK(t)'
  BY SameTask, SamePlace
<1>2. OthersKeep(c)
  BY DEF OthersKeep, IsCurrent, Is
<1> QED BY <1>1, <1>2, QuietKeeps

\* The control of an agent.
LEMMA AgentFacts ==
  ASSUME CfsInv, NEW c \in Cpus
  PROVE  /\ AgentOK(c) /\ pc \in [Cpus -> Labels] /\ KernelTypeOK /\ failed = NoFailure
         /\ Chosen[c] \in Tasks \cup {NoTask} /\ target[c] \in Cpus
         /\ next \in [Cpus -> Tasks \cup {NoTask}] /\ todo \in [Cpus -> SUBSET Tasks]
BY ChosenFacts DEF CfsInv, TypeOK, AgentInv

\* Reading the barrier, and a tick.
LEMMA BarrierKeeps ==
  ASSUME CfsInv, NEW c \in Cpus, ReadBarrier(c) \/ CpuTick(c)
  PROVE  CfsInv'
<1>0. TypeOK /\ AgentOK(c) /\ KernelTypeOK /\ pc \in [Cpus -> Labels] /\ ast[c] = "running"
  BY AgentFacts DEF CfsInv, ReadBarrier, CpuTick, At
<1>1. CASE ReadBarrier(c)
  <2>1. /\ UNCHANGED <<kst, oncpu, via, ran, seq, assoc, chan, ast, rtla, boosted, budget, allowed, tick, task,
                       current, Chosen, rq, mq, preempt_curr, next, todo, target, imbalance, moving, onIdle, failed>>
        /\ stale' = [stale EXCEPT ![c] = FALSE] /\ pc' = [pc EXCEPT ![c] = "drain"] /\ pc[c] = "top"
    BY <1>0, <1>1 DEF ReadBarrier, At, Goto, taskVars, cfsVars, cpuVars, localVars, balanceVars, Chosen, Picking
  <2>2. TypeOK'
    <3>1. KernelTypeOK'
      BY <1>0, <2>1 DEF KernelTypeOK
    <3> QED BY <1>0, <2>1, <3>1 DEF TypeOK, Labels
  <2>3. AgentOK(c)'
    BY <1>0, <2>1 DEF AgentOK, Balancing
  <2>4. pc'[c] = "drain" /\ \A d \in Cpus : d # c => pc'[d] = pc[d]
    BY <1>0, <2>1
  <2> QED BY <1>0, <2>1, <2>2, <2>3, <2>4, SettledKeeps
<1>2. CASE CpuTick(c)
  <2>1. /\ UNCHANGED <<kst, oncpu, via, ran, seq, assoc, chan, ast, stale, rtla, boosted, budget, allowed, task,
                       current, Chosen, rq, mq, pc, next, todo, target, imbalance, moving, onIdle, failed>>
        /\ tick' = [tick EXCEPT ![c] = FALSE] /\ pc[c] = "drain"
        /\ preempt_curr' = [preempt_curr EXCEPT ![c] = TRUE] \/ preempt_curr' = preempt_curr
    BY <1>2, ChosenSame DEF CpuTick, At, kernelVars, taskVars, agentVars, cfsVars, cpuVars, localVars, balanceVars
  <2>2. TypeOK'
    <3>1. KernelTypeOK'
      BY <1>0, <2>1 DEF KernelTypeOK
    <3>2. preempt_curr' \in [Cpus -> BOOLEAN] /\ tick' \in [Cpus -> BOOLEAN]
      BY <1>0, <2>1 DEF TypeOK
    <3> QED BY <1>0, <2>1, <3>1, <3>2 DEF TypeOK
  <2>3. AgentOK(c)'
    BY <1>0, <2>1 DEF AgentOK, IsCurrent, Is
  <2> QED BY <1>0, <2>1, <2>2, <2>3, SettledKeeps
<1> QED BY <1>1, <1>2

\* The channel is empty.
LEMMA DrainDoneKeeps ==
  ASSUME CfsInv, NEW c \in Cpus, DrainDone(c)
  PROVE  CfsInv'
<1>0. TypeOK /\ AgentOK(c) /\ KernelTypeOK /\ pc \in [Cpus -> Labels] /\ ast[c] = "running"
  BY AgentFacts DEF CfsInv, DrainDone, At
<1>1. /\ UNCHANGED <<kst, oncpu, via, ran, seq, assoc, chan, ast, stale, rtla, boosted, budget, allowed, tick, task,
                     current, Chosen, rq, mq, preempt_curr, next, target, imbalance, moving, onIdle, failed>>
      /\ todo' = [todo EXCEPT ![c] = mq[c]] /\ pc' = [pc EXCEPT ![c] = "migrate"] /\ pc[c] = "drain"
      /\ chan[c] = <<>>
  BY <1>0 DEF DrainDone, At, Goto, kernelVars, taskVars, agentVars, cfsVars, cpuVars, localVars, balanceVars, Chosen, Picking
<1>2. TypeOK'
  <2>1. KernelTypeOK'
    BY <1>0, <1>1 DEF KernelTypeOK
  <2> QED BY <1>0, <1>1, <2>1 DEF TypeOK, Labels
<1>3. pc'[c] = "migrate" /\ todo'[c] = mq[c] /\ \A d \in Cpus : d # c => pc'[d] = pc[d] /\ todo'[d] = todo[d]
  BY <1>0, <1>1 DEF TypeOK
<1>4. AgentOK(c)'
  BY <1>0, <1>1, <1>3 DEF AgentOK, Balancing
<1> QED BY <1>0, <1>1, <1>2, <1>3, <1>4, SettledKeeps

\* The agent of another CPU is told.
LEMMA PingKeeps ==
  ASSUME CfsInv, NEW c \in Cpus, PingCpu(c)
  PROVE  CfsInv'
<1>0. TypeOK /\ AgentOK(c) /\ KernelTypeOK /\ pc \in [Cpus -> Labels] /\ ast[c] = "running" /\ target[c] \in Cpus
  BY AgentFacts DEF CfsInv, PingCpu, At
<1>1. /\ UNCHANGED <<kst, oncpu, via, ran, seq, assoc, chan, boosted, budget, allowed, tick, task,
                     current, Chosen, rq, mq, preempt_curr, next, todo, imbalance, moving, onIdle, failed>>
      /\ target' = [target EXCEPT ![c] = 0] /\ pc' = [pc EXCEPT ![c] = "migrate"] /\ pc[c] = "ping"
      /\ WakeAgent(target[c])
  BY <1>0 DEF PingCpu, At, Goto, kernelVars, taskVars, agentVars, cfsVars, cpuVars, localVars, balanceVars, Chosen, Picking
<1>2. TypeOK' /\ \A d \in Cpus : (ast'[d] = "running") <=> (ast[d] = "running")
  <2>1. /\ ast' \in [Cpus -> {"running", "sleeping", "waking"}] /\ stale' \in [Cpus -> BOOLEAN]
        /\ rtla' \in [Cpus -> BOOLEAN] /\ \A d \in Cpus : (ast'[d] = "running") <=> (ast[d] = "running")
    BY <1>0, <1>1 DEF KernelTypeOK, WakeAgent, Woken
  <2>2. KernelTypeOK'
    BY <1>0, <1>1, <2>1 DEF KernelTypeOK
  <2>3. target' \in [Cpus -> Cpus]
    <3>1. 0 \in Cpus
      BY KernelAssumption DEF Cpus
    <3> QED BY <1>0, <1>1, <3>1 DEF TypeOK
  <2> QED BY <1>0, <1>1, <2>1, <2>2, <2>3 DEF TypeOK, Labels
<1>3. pc'[c] = "migrate" /\ \A d \in Cpus : d # c => pc'[d] = pc[d]
  BY <1>0, <1>1
<1>4. AgentOK(c)'
  BY <1>0, <1>1, <1>3 DEF AgentOK, Balancing
<1> QED BY <1>0, <1>1, <1>2, <1>3, <1>4, SettledKeeps

\* The current task stays.
LEMMA KeepRunningKeeps ==
  ASSUME CfsInv, NEW c \in Cpus, KeepRunning(c)
  PROVE  CfsInv'
<1>0. TypeOK /\ AgentOK(c) /\ KernelTypeOK /\ pc \in [Cpus -> Labels] /\ ast[c] = "running"
  BY AgentFacts DEF CfsInv, KeepRunning, At
<1>a. /\ UNCHANGED <<kst, oncpu, via, ran, seq, assoc, chan, ast, stale, rtla, boosted, budget, allowed, tick, task,
                     current, rq, mq, preempt_curr, todo, target, imbalance, moving, onIdle, failed>>
      /\ next' = [next EXCEPT ![c] = current[c]] /\ pc' = [pc EXCEPT ![c] = "picked"] /\ pc[c] = "migrate"
      /\ current[c] # NoTask /\ Is(current[c], "kRunning") /\ todo[c] = {}
  BY DEF KeepRunning, At, Goto, kernelVars, taskVars, agentVars, cfsVars, cpuVars, localVars, balanceVars
<1>b. Chosen[c] = current[c]
  BY <1>0, <1>a, ChosenFacts DEF Picking
<1>c. Chosen' = Chosen
  <2>1. \A d \in Cpus : pc'[d] = (IF d = c THEN "picked" ELSE pc[d]) /\ next'[d] = IF d = c THEN current[c] ELSE next[d]
    BY <1>0, <1>a DEF TypeOK
  <2> QED BY <1>a, <2>1 DEF Chosen, Picking
<1>1. /\ UNCHANGED <<kst, oncpu, via, ran, seq, assoc, chan, ast, stale, rtla, boosted, budget, allowed, tick, task,
                     current, Chosen, rq, mq, preempt_curr, todo, target, imbalance, moving, onIdle, failed>>
      /\ next' = [next EXCEPT ![c] = Chosen[c]] /\ pc' = [pc EXCEPT ![c] = "picked"] /\ pc[c] = "migrate"
      /\ Chosen[c] # NoTask /\ Is(Chosen[c], "kRunning") /\ todo[c] = {}
  BY <1>a, <1>b, <1>c
<1>2. PICK t \in Tasks : t = Chosen[c]
  BY <1>1, AgentFacts
<1>3. IsCurrent(t, c)
  <2>1. PlaceOK(t)
    BY DEF CfsInv, PlaceInv
  <2> QED BY <1>1, <1>2, <2>1 DEF PlaceOK, IsCurrent
<1>4. TypeOK'
  <2>1. KernelTypeOK'
    BY <1>0, <1>1 DEF KernelTypeOK
  <2> QED BY <1>0, <1>1, <1>2, <2>1 DEF TypeOK, Labels
<1>5. pc'[c] = "picked" /\ next'[c] = t /\ \A d \in Cpus : d # c => pc'[d] = pc[d] /\ next'[d] = next[d]
  BY <1>0, <1>1, <1>2 DEF TypeOK
<1>6. AgentOK(c)'
  BY <1>0, <1>1, <1>3, <1>5 DEF AgentOK, Balancing, IsCurrent, Is
<1> QED BY <1>0, <1>1, <1>4, <1>5, <1>6, SettledKeeps

\* The agent gives up its CPU.
LEMMA YieldKeeps ==
  ASSUME CfsInv, NEW c \in Cpus, LocalYield(c)
  PROVE  CfsInv'
<1>0. TypeOK /\ AgentOK(c) /\ KernelTypeOK /\ pc \in [Cpus -> Labels] /\ ast[c] = "running"
  BY AgentFacts DEF CfsInv, LocalYield, At
<1>1. /\ UNCHANGED <<kst, oncpu, via, ran, seq, assoc, chan, stale, boosted, budget, allowed, tick, task,
                     current, Chosen, rq, mq, preempt_curr, next, todo, target, imbalance, moving, failed>>
      /\ onIdle' = [onIdle EXCEPT ![c] = FALSE] /\ pc' = [pc EXCEPT ![c] = "top"] /\ pc[c] = "yield"
      /\ UNCHANGED <<ast, rtla>> \/ BlockAgent(c, onIdle[c])
  BY <1>0 DEF LocalYield, At, Goto, kernelVars, taskVars, agentVars, cfsVars, cpuVars, localVars, balanceVars, Chosen, Picking
<1>2. /\ ast' \in [Cpus -> {"running", "sleeping", "waking"}] /\ rtla' \in [Cpus -> BOOLEAN]
      /\ \A d \in Cpus : d # c => ast'[d] = ast[d]
  <2>1. /\ ast \in [Cpus -> {"running", "sleeping", "waking"}] /\ rtla \in [Cpus -> BOOLEAN]
        /\ onIdle[c] \in BOOLEAN
    BY <1>0 DEF TypeOK, KernelTypeOK
  <2>2. CASE UNCHANGED <<ast, rtla>>
    BY <2>1, <2>2
  <2>3. CASE BlockAgent(c, onIdle[c])
    <3>1. ast' = [ast EXCEPT ![c] = IF onIdle[c] /\ ~boosted[c] THEN "waking" ELSE "sleeping"]
      BY <2>3 DEF BlockAgent
    <3>2. rtla' = [rtla EXCEPT ![c] = onIdle[c]]
      BY <2>3 DEF BlockAgent
    <3>3. rtla' \in [Cpus -> BOOLEAN]
      BY <2>1, <3>2
    <3> QED BY <2>1, <3>1, <3>3
  <2> QED BY <1>1, <2>2, <2>3
<1>3. TypeOK'
  <2>1. KernelTypeOK'
    BY <1>0, <1>1, <1>2 DEF KernelTypeOK
  <2> QED BY <1>0, <1>1, <2>1 DEF TypeOK, Labels
<1>4. pc'[c] = "top" /\ \A d \in Cpus : d # c => pc'[d] = pc[d]
  BY <1>0, <1>1
<1>5. AgentOK(c)'
  BY <1>0, <1>1, <1>4 DEF AgentOK, Balancing
<1> QED BY <1>0, <1>1, <1>2, <1>3, <1>4, <1>5, SettledKeeps

\* What has been picked becomes the current task.
LEMMA SetCurrentKeeps ==
  ASSUME CfsInv, NEW c \in Cpus, SetCurrent(c)
  PROVE  CfsInv'
<1>0. TypeOK /\ AgentOK(c) /\ KernelTypeOK /\ pc \in [Cpus -> Labels] /\ ast[c] = "running"
  BY AgentFacts DEF CfsInv, SetCurrent, At
<1>1. /\ UNCHANGED <<kst, oncpu, via, ran, seq, assoc, chan, ast, stale, rtla, boosted, budget, allowed, tick, task,
                     rq, mq, preempt_curr, next, todo, target, imbalance, moving, onIdle, failed>>
      /\ current' = [current EXCEPT ![c] = next[c]] /\ pc[c] = "picked"
      /\ pc' = [pc EXCEPT ![c] = IF next[c] = NoTask THEN "yield" ELSE "commit"]
  BY DEF SetCurrent, At, Goto, kernelVars, taskVars, agentVars, cfsVars, cpuVars, localVars, balanceVars
<1>2. TypeOK'
  <2>1. KernelTypeOK'
    BY <1>0, <1>1 DEF KernelTypeOK
  <2>2. current' \in [Cpus -> Tasks \cup {NoTask}]
    BY <1>0, <1>1 DEF TypeOK
  <2>3. pc' \in [Cpus -> Labels]
    BY <1>0, <1>1 DEF Labels
  <2> QED BY <1>0, <1>1, <2>1, <2>2, <2>3 DEF TypeOK
<1>3. /\ pc'[c] = (IF next[c] = NoTask THEN "yield" ELSE "commit") /\ current'[c] = next[c]
      /\ \A d \in Cpus : d # c => pc'[d] = pc[d] /\ current'[d] = current[d]
  BY <1>0, <1>1 DEF TypeOK
<1>4. Chosen' = Chosen
  BY <1>0, <1>1, <1>3 DEF Chosen, Picking
<1>5. next[c] = Chosen[c]
  BY <1>0, <1>1, ChosenFacts DEF Picking
<1>6. AgentOK(c)'
  BY <1>0, <1>1, <1>3, <1>4, <1>5 DEF AgentOK, Balancing, IsCurrent, Is
<1> QED BY <1>0, <1>1, <1>2, <1>3, <1>4, <1>6, SettledKeeps

\* The busiest queue is looked for.
LEMMA LoadBalanceKeeps ==
  ASSUME CfsInv, NEW c \in Cpus, LoadBalance(c)
  PROVE  CfsInv'
<1>0. TypeOK /\ AgentOK(c) /\ KernelTypeOK /\ pc \in [Cpus -> Labels] /\ ast[c] = "running"
  BY AgentFacts DEF CfsInv, LoadBalance, At
<1>1. /\ UNCHANGED <<kst, oncpu, via, ran, seq, assoc, chan, ast, stale, rtla, boosted, budget, allowed, tick, task,
                     current, rq, mq, preempt_curr, next, todo, moving, onIdle, failed>>
      /\ pc[c] = "balance"
  BY DEF LoadBalance, At, kernelVars, taskVars, agentVars, cfsVars, cpuVars
<1>2. \A d \in Cpus : Cardinality(rq[d]) \in Nat
  <2>1. \A d \in Cpus : rq[d] \subseteq Tasks
    BY <1>0 DEF TypeOK
  <2> QED BY <2>1, CfsAssumption, FS_Subset, FS_CardinalityType
<1>3. /\ pc' = [pc EXCEPT ![c] = "detach"] \/ pc' = [pc EXCEPT ![c] = "picked"]
      /\ target' \in [Cpus -> Cpus] /\ imbalance' \in [Cpus -> Nat]
  <2>1. CASE pc' = [pc EXCEPT ![c] = "picked"] /\ UNCHANGED <<target, imbalance>>
    BY <1>0, <2>1 DEF TypeOK
  <2>2. ASSUME NEW d \in Cpus, (Cardinality(rq[d]) - Cardinality(rq[c])) \div 2 >= 1,
               target' = [target EXCEPT ![c] = d],
               imbalance' = [imbalance EXCEPT ![c] =
                 Least((Cardinality(rq[d]) - Cardinality(rq[c])) \div 2, kMaxTasksToLoadBalance)],
               pc' = [pc EXCEPT ![c] = "detach"]
        PROVE  target' \in [Cpus -> Cpus] /\ imbalance' \in [Cpus -> Nat]
    <3>1. PICK a \in Nat : a = Cardinality(rq[d])
      BY <1>2
    <3>2. PICK b \in Nat : b = Cardinality(rq[c])
      BY <1>2
    <3>3. (a - b) \div 2 \in Int /\ (a - b) \div 2 >= 1
      BY <2>2, <3>1, <3>2
    <3>4. (a - b) \div 2 \in Nat
      BY <3>3
    <3> QED BY <1>0, <2>2, <3>1, <3>2, <3>4 DEF TypeOK, kMaxTasksToLoadBalance, Least
  <2> QED BY <2>1, <2>2 DEF LoadBalance, Goto
<1>4. TypeOK'
  <2>1. KernelTypeOK'
    BY <1>0, <1>1 DEF KernelTypeOK
  <2> QED BY <1>0, <1>1, <1>3, <2>1 DEF TypeOK, Labels
<1>5. pc'[c] \in {"detach", "picked"} /\ \A d \in Cpus : d # c => pc'[d] = pc[d]
  BY <1>0, <1>3
<1>6. Chosen' = Chosen
  BY <1>0, <1>1, <1>5 DEF Chosen, Picking
<1>7. AgentOK(c)'
  BY <1>0, <1>1, <1>5, <1>6 DEF AgentOK, Balancing
<1> QED BY <1>0, <1>1, <1>4, <1>5, <1>6, <1>7, SettledKeeps

\* The names of the states.
LEMMA Names ==
  /\ "kBlocked" \in States /\ "kRunnable" \in States /\ "kRunning" \in States /\ "kDone" \in States
  /\ "kDequeued" \in OnRqs /\ "kQueued" \in OnRqs /\ "kMigrating" \in OnRqs
BY DEF States, OnRqs

\* A CfsTask with another state and place.
Put(r, state, on_rq) == [r EXCEPT !.state = state, !.on_rq = on_rq]

\* The rest of it stays as it was.
LEMMA PutFacts ==
  ASSUME NEW r \in CfsTasks, r.known, NEW s \in States, NEW o \in OnRqs
  PROVE  /\ Put(r, s, o) \in CfsTasks /\ Put(r, s, o).known /\ Put(r, s, o).cpu = r.cpu
         /\ Put(r, s, o).seqnum = r.seqnum /\ Put(r, s, o).cpu_affinity = r.cpu_affinity
         /\ Put(r, s, o).state = s /\ Put(r, s, o).on_rq = o
<1>1. r \in [known : {TRUE}, state : States, on_rq : OnRqs, cpu : Cpus, seqnum : Nat, cpu_affinity : SUBSET Cpus]
  BY RecordFacts
<1>2. Put(r, s, o) \in [known : {TRUE}, state : States, on_rq : OnRqs, cpu : Cpus, seqnum : Nat,
                        cpu_affinity : SUBSET Cpus]
  BY <1>1 DEF Put
<1> QED BY <1>1, <1>2 DEF Put, CfsTasks

\* Back into the run queue, and from there to the CPU.
LEMMA PutBackFacts ==
  ASSUME NEW r \in CfsTasks, r.known, NEW p, p = Put(r, "kRunnable", "kQueued")
  PROVE  /\ p \in CfsTasks /\ p.known /\ p.cpu = r.cpu /\ p.seqnum = r.seqnum
         /\ p.cpu_affinity = r.cpu_affinity /\ p.state = "kRunnable" /\ p.on_rq = "kQueued"
<1>1. r \in [known : {TRUE}, state : States, on_rq : OnRqs, cpu : Cpus, seqnum : Nat, cpu_affinity : SUBSET Cpus]
  BY RecordFacts
<1>2. p \in CfsTasks
  BY Names, PutFacts
<1> QED BY <1>1, <1>2 DEF Put

\* A CfsTask that is picked.
LEMMA PickedFacts ==
  ASSUME NEW r \in CfsTasks, r.known, NEW p, p = Put(r, "kRunning", "kDequeued")
  PROVE  /\ p \in CfsTasks /\ p.known /\ p.cpu = r.cpu /\ p.seqnum = r.seqnum
         /\ p.cpu_affinity = r.cpu_affinity /\ p.state = "kRunning" /\ p.on_rq = "kDequeued"
<1>1. r \in [known : {TRUE}, state : States, on_rq : OnRqs, cpu : Cpus, seqnum : Nat, cpu_affinity : SUBSET Cpus]
  BY RecordFacts
<1>2. p \in CfsTasks
  BY Names, PutFacts
<1> QED BY <1>1, <1>2 DEF Put

\* What becomes of the previous task.
LEMMA ReconcileFacts ==
  ASSUME CfsInv, NEW c \in Cpus, NEW prev, prev = Chosen[c], NEW ts, ts = Reconciled(prev),
         NEW q, q = PutBack(c, prev)
  PROVE  /\ ts \in [Tasks -> CfsTasks] /\ q \in SUBSET Tasks
         /\ \A t \in Tasks :
              /\ t # prev => ts[t] = task[t]
              /\ t = prev =>
                   /\ task[t].known /\ task[t].cpu = c /\ task[t].on_rq = "kDequeued"
                   /\ \/ ts[t] = FreeTask /\ Is(t, "kDone")
                      \/ ts[t] = task[t] /\ Is(t, "kBlocked")
                      \/ /\ ts[t] = Put(task[t], "kRunnable", "kQueued")
                         /\ Is(t, "kRunning")
              /\ t \in q <=> t \in rq[c] \/ (t = prev /\ Is(t, "kRunning"))
<1>0. TypeOK /\ task \in [Tasks -> CfsTasks] /\ rq[c] \subseteq Tasks /\ prev \in Tasks \cup {NoTask}
  BY ChosenFacts DEF CfsInv, TypeOK
<1>1. CASE prev = NoTask
  <2>1. ts = task /\ q = rq[c] /\ \A t \in Tasks : t # prev
    BY <1>1, CfsAssumption DEF Reconciled, PutBack
  <2> QED BY <1>0, <2>1
<1>2. CASE prev # NoTask
  <2>1. prev \in Tasks /\ PlaceOK(prev) /\ task[prev].state \in States /\ task[prev] \in CfsTasks
    BY <1>0, <1>2, TaskFacts DEF CfsInv, PlaceInv
  <2>2. task[prev].known /\ task[prev].cpu = c /\ ~Is(prev, "kRunnable") /\ task[prev].on_rq = "kDequeued"
    BY <2>1 DEF PlaceOK
  <2>3. PICK r : r = CASE task[prev].state = "kDone"    -> FreeTask
                       [] task[prev].state = "kBlocked" -> task[prev]
                       [] OTHER -> Put(task[prev], "kRunnable", "kQueued")
    OBVIOUS
  <2>4. ts = [task EXCEPT ![prev] = r]
    BY <1>2, <2>3, Zenon DEF Reconciled, Put
  <2>5. \/ r = FreeTask /\ Is(prev, "kDone")
        \/ r = task[prev] /\ Is(prev, "kBlocked")
        \/ /\ r = Put(task[prev], "kRunnable", "kQueued")
           /\ Is(prev, "kRunning")
    BY <2>1, <2>2, <2>3 DEF Is, States
  <2>6. r \in CfsTasks
    <3>1. FreeTask \in CfsTasks
      BY DEF CfsTasks
    <3>2. Put(task[prev], "kRunnable", "kQueued") \in CfsTasks
      BY <2>1, <2>2, Names, PutFacts
    <3> QED BY <2>1, <2>5, <3>1, <3>2
  <2>7. ts \in [Tasks -> CfsTasks] /\ ts[prev] = r /\ \A t \in Tasks : t # prev => ts[t] = task[t]
    BY <1>0, <2>1, <2>4, <2>6
  <2>8. q = IF Is(prev, "kRunning") THEN rq[c] \cup {prev} ELSE rq[c]
    BY <1>2, <2>1, <2>2 DEF PutBack, Is, States
  <2> QED BY <1>0, <2>1, <2>2, <2>5, <2>7, <2>8
<1> QED BY <1>1, <1>2

\* The scheduler's view does not change by that.
LEMMA ReconciledView ==
  ASSUME CfsInv, NEW c \in Cpus, NEW prev, prev = Chosen[c], NEW ts, ts = Reconciled(prev), NEW t \in Tasks,
         assoc'[t] = assoc[t], kst' = kst,
         \/ task'[t] = ts[t]
         \/ /\ task'[t] = Put(ts[t], "kRunning", "kDequeued")
            /\ ts[t].known /\ ts[t].state = "kRunnable"
  PROVE  QuietTask(t)
<1>0. TypeOK /\ task[t] \in CfsTasks /\ task[t].seqnum \in Nat /\ MsgOK(t) /\ task[t].state \in States
  BY TaskFacts DEF CfsInv, MessageInv
<1>1. /\ t # prev => ts[t] = task[t]
      /\ t = prev =>
           /\ task[t].known /\ task[t].cpu = c
           /\ \/ ts[t] = FreeTask /\ Is(t, "kDone")
              \/ ts[t] = task[t] /\ Is(t, "kBlocked")
              \/ /\ ts[t] = Put(task[t], "kRunnable", "kQueued")
                 /\ Is(t, "kRunning")
  <2>1. PICK q : q = PutBack(c, prev)
    OBVIOUS
  <2> QED BY ONLY CfsInv, c \in Cpus, prev = Chosen[c], ts = Reconciled(prev), t \in Tasks, <2>1, ReconcileFacts
<1>2. task[t].known => task[t].cpu = assoc[t]
  BY <1>0 DEF MsgOK
<1>3. kst[t] = "new" => task[t] = FreeTask
  BY <1>0 DEF MsgOK
<1>a. ~FreeTask.known /\ FreeTask.seqnum = 0 /\ FreeTask.state = "kBlocked"
  BY DEF FreeTask
<1>4. CASE ts[t] = task[t]
  <2>1. CASE task'[t] = task[t]
    BY <2>1, SameTask
  <2>2. CASE /\ task'[t] = Put(task[t], "kRunning", "kDequeued")
             /\ task[t].known /\ task[t].state = "kRunnable"
    <3>1. /\ task'[t].known /\ task'[t].cpu = task[t].cpu /\ task'[t].state = "kRunning"
          /\ task'[t].seqnum = task[t].seqnum /\ task'[t].cpu_affinity = task[t].cpu_affinity
      BY <1>0, <2>2, PickedFacts
    <3>2. View(t)' = "ready" /\ View(t) = "ready"
      BY <2>2, <3>1 DEF View, Is
    <3> QED BY <1>0, <1>2, <1>3, <1>a, <2>2, <3>1, <3>2 DEF QuietTask
  <2> QED BY <1>4, <2>1, <2>2
<1>5. CASE t = prev /\ ts[t] = FreeTask /\ Is(t, "kDone")
  <2>1. task'[t] = FreeTask /\ task[t].known
    BY <1>1, <1>5, <1>a
  <2>2. View(t)' = "none" /\ View(t) = "none"
    BY <1>5, <1>a, <2>1 DEF View, Is
  <2> QED BY <1>0, <1>3, <1>a, <2>1, <2>2 DEF QuietTask
<1>6. CASE /\ t = prev /\ ts[t] = Put(task[t], "kRunnable", "kQueued")
           /\ Is(t, "kRunning")
  <2>1. task[t].known
    BY <1>1, <1>6
  <2>2. /\ task'[t].known /\ task'[t].cpu = task[t].cpu
        /\ task'[t].state \in {"kRunnable", "kRunning"}
        /\ task'[t].seqnum = task[t].seqnum /\ task'[t].cpu_affinity = task[t].cpu_affinity
    <3>1. PICK r : r = ts[t]
      OBVIOUS
    <3>2. /\ r \in CfsTasks /\ r.known /\ r.cpu = task[t].cpu /\ r.state = "kRunnable"
          /\ r.seqnum = task[t].seqnum /\ r.cpu_affinity = task[t].cpu_affinity
      BY <1>0, <1>6, <2>1, <3>1, PutBackFacts
    <3>3. CASE task'[t] = r
      BY <2>1, <3>2, <3>3
    <3>4. CASE task'[t] = Put(r, "kRunning", "kDequeued")
      BY <2>1, <3>2, <3>4, PickedFacts
    <3> QED BY <3>1, <3>3, <3>4
  <2>3. View(t)' = "ready" /\ View(t) = "ready"
    BY <1>6, <2>1, <2>2 DEF View, Is
  <2> QED BY <1>0, <1>2, <1>3, <1>a, <2>1, <2>2, <2>3 DEF QuietTask
<1> QED BY <1>1, <1>4, <1>5, <1>6

\* The previous task is off the CPU and no other takes its place.
LEMMA PutBackKeeps ==
  ASSUME CfsInv, NEW c \in Cpus, ast[c] = "running", pc[c] \in {"migrate", "pickpulled"}, todo[c] = {},
         task' = Reconciled(Chosen[c]), rq' = [rq EXCEPT ![c] = PutBack(c, Chosen[c])],
         Chosen' = [Chosen EXCEPT ![c] = NoTask], NEW l \in {"balance", "picked", "yield"},
         pc' = [pc EXCEPT ![c] = l], current' \in [Cpus -> Tasks \cup {NoTask}],
         UNCHANGED <<kernelVars, allowed, tick, mq, next, todo, balanceVars, failed>>,
         preempt_curr' \in [Cpus -> BOOLEAN], onIdle' \in [Cpus -> BOOLEAN]
  PROVE  CfsInv'
<1>0. TypeOK /\ AgentOK(c) /\ KernelTypeOK /\ pc \in [Cpus -> Labels] /\ PlaceInv
  BY AgentFacts DEF CfsInv
<1>1. UNCHANGED <<kst, oncpu, via, ran, seq, assoc, chan, ast, stale, rtla, boosted, budget, target, imbalance, moving>>
  BY DEF kernelVars, taskVars, agentVars, cfsVars, balanceVars
<1>2. PICK prev : prev = Chosen[c]
  OBVIOUS
<1>3. PICK q : q = PutBack(c, prev)
  OBVIOUS
<1>4. /\ task' \in [Tasks -> CfsTasks] /\ q \in SUBSET Tasks
      /\ \A t \in Tasks :
           /\ t # prev => task'[t] = task[t]
           /\ t = prev =>
                /\ task[t].known /\ task[t].cpu = c /\ task[t].on_rq = "kDequeued"
                /\ \/ task'[t] = FreeTask /\ Is(t, "kDone")
                   \/ task'[t] = task[t] /\ Is(t, "kBlocked")
                   \/ /\ task'[t] = Put(task[t], "kRunnable", "kQueued")
                      /\ Is(t, "kRunning")
           /\ t \in q <=> t \in rq[c] \/ (t = prev /\ Is(t, "kRunning"))
  <2>1. PICK ts : ts = Reconciled(prev)
    OBVIOUS
  <2>2. task' = ts
    BY <1>2, <2>1
  <2> QED BY ONLY CfsInv, c \in Cpus, <1>2, <1>3, <2>1, <2>2, ReconcileFacts
<1>5. /\ rq \in [Cpus -> SUBSET Tasks] /\ mq \in [Cpus -> SUBSET Tasks] /\ moving \in [Cpus -> SUBSET Tasks]
      /\ Chosen \in [Cpus -> Tasks \cup {NoTask}]
  BY <1>0, ChosenFacts DEF TypeOK
<1>6. /\ rq'[c] = q /\ Chosen'[c] = NoTask /\ pc'[c] = l
      /\ \A d \in Cpus : d # c => rq'[d] = rq[d] /\ Chosen'[d] = Chosen[d] /\ pc'[d] = pc[d]
  BY <1>0, <1>2, <1>3, <1>5
<1>7. TypeOK'
  <2>1. KernelTypeOK'
    BY <1>0, <1>1 DEF KernelTypeOK
  <2>2. rq' \in [Cpus -> SUBSET Tasks] /\ pc' \in [Cpus -> Labels]
    BY <1>0, <1>2, <1>3, <1>4, <1>5 DEF Labels
  <2> QED BY <1>0, <1>1, <1>4, <2>1, <2>2 DEF TypeOK
<1>8. \A t \in Tasks : t # NoTask
  BY CfsAssumption
<1>9. ASSUME NEW t \in Tasks PROVE QuietTask(t) /\ PlaceOK(t)'
  <2>1. QuietTask(t)
    <3>1. PICK ts : ts = Reconciled(prev)
      OBVIOUS
    <3>2. task' = ts /\ assoc'[t] = assoc[t] /\ kst' = kst
      BY <1>1, <1>2, <3>1
    <3> QED BY <1>2, <3>1, <3>2, ReconciledView
  <2>2. CASE t # prev
    <3>1. \A d \in Cpus : (t \in rq'[d]) <=> (t \in rq[d])
      BY <1>4, <1>6, <2>2
    <3>2. \A d \in Cpus : (Chosen'[d] = t) <=> (Chosen[d] = t)
      BY <1>2, <1>6, <1>8, <2>2
    <3> QED BY <1>1, <1>4, <2>1, <2>2, <3>1, <3>2, SamePlace
  <2>3. CASE t = prev
    <3>0. PlaceOK(t) /\ task[t] \in CfsTasks
      BY <1>0, TaskFacts DEF PlaceInv
    <3>1. /\ task[t].known /\ task[t].cpu = c /\ task[t].on_rq = "kDequeued"
      BY <1>4, <2>3
    <3>2. \A d \in Cpus : Chosen'[d] # t
      <4>1. \A d \in Cpus : d # c => Chosen[d] # t
        BY <3>0, <3>1 DEF PlaceOK
      <4> QED BY <1>6, <1>8, <4>1
    <3>3. ~Is(t, "kRunnable")
      BY <1>2, <2>3, <3>0 DEF PlaceOK
    <3>4. \A d \in Cpus : t \notin mq[d] /\ t \notin moving[d] /\ t \notin rq[d]
      BY <3>0, <3>3 DEF PlaceOK, Waits
    <3>5. CASE task'[t] = FreeTask /\ Is(t, "kDone")
      <4>1. t \notin q
        BY <1>4, <3>4, <3>5 DEF Is
      <4>2. \A d \in Cpus : t \notin rq'[d] /\ t \notin mq'[d] /\ t \notin moving'[d]
        BY <1>1, <1>6, <3>4, <4>1
      <4>3. ~task'[t].known /\ task'[t].on_rq = "kDequeued"
        BY <3>5 DEF FreeTask
      <4> QED BY <2>1, <3>2, <4>2, <4>3 DEF PlaceOK, Waits
    <3>6. CASE task'[t] = task[t] /\ Is(t, "kBlocked")
      <4>1. t \notin q
        BY <1>4, <3>4, <3>6 DEF Is
      <4>2. \A d \in Cpus : t \notin rq'[d] /\ t \notin mq'[d] /\ t \notin moving'[d]
        BY <1>1, <1>6, <3>4, <4>1
      <4>3. task'[t].state = "kBlocked" /\ task'[t].on_rq = "kDequeued"
        BY <3>1, <3>6 DEF Is
      <4> QED BY <2>1, <3>2, <4>2, <4>3 DEF PlaceOK, Waits, Is
    <3>7. CASE task'[t] = Put(task[t], "kRunnable", "kQueued") /\ Is(t, "kRunning")
      <4>1. task'[t].known /\ task'[t].cpu = c /\ task'[t].state = "kRunnable" /\ task'[t].on_rq = "kQueued"
        BY <3>0, <3>1, <3>7, PutBackFacts
      <4>2. t \in q
        BY <1>4, <2>3, <3>7
      <4>3. \A d \in Cpus : ((t \in rq'[d]) <=> (d = c)) /\ t \notin mq'[d] /\ t \notin moving'[d]
        BY <1>1, <1>6, <3>4, <4>2
      <4> QED BY <2>1, <3>2, <4>1, <4>3 DEF PlaceOK, Waits, Is
    <3> QED BY <1>4, <2>3, <3>5, <3>6, <3>7
  <2> QED BY <2>2, <2>3
<1>10. OthersKeep(c)
  <2>1. ASSUME NEW d \in Cpus, d # c, NEW t \in Tasks, IsCurrent(t, d) PROVE IsCurrent(t, d)'
    <3>1. task'[t] = task[t]
      BY <1>4, <2>1 DEF IsCurrent
    <3> QED BY <1>6, <2>1, <3>1 DEF IsCurrent, Is
  <2> QED BY <1>1, <1>6, <2>1 DEF OthersKeep
<1>11. AgentOK(c)'
  BY <1>0, <1>1, <1>6 DEF AgentOK, Balancing
<1> QED BY <1>1, <1>7, <1>9, <1>10, <1>11, QuietKeeps

\* CFS wants the CPU.
LEMMA PrioBoostKeeps ==
  ASSUME CfsInv, NEW c \in Cpus, PrioBoost(c)
  PROVE  CfsInv'
<1>0. preempt_curr \in [Cpus -> BOOLEAN] /\ onIdle \in [Cpus -> BOOLEAN]
  BY DEF CfsInv, TypeOK
<1>a. TypeOK /\ pc[c] = "migrate" /\ Chosen[c] = current[c]
  BY ChosenFacts DEF CfsInv, PrioBoost, At, Picking
<1>1. /\ preempt_curr' = [preempt_curr EXCEPT ![c] = preempt_curr[c] /\ Chosen[c] = NoTask]
      /\ onIdle' = [onIdle EXCEPT ![c] = TRUE]
  BY <1>a DEF PrioBoost
<1>2. preempt_curr' \in [Cpus -> BOOLEAN] /\ onIdle' \in [Cpus -> BOOLEAN]
  <2>1. PICK b \in BOOLEAN : b = (preempt_curr[c] /\ Chosen[c] = NoTask)
    BY <1>0
  <2> QED BY <1>0, <1>1, <2>1
<1>3. /\ ast[c] = "running" /\ pc[c] = "migrate" /\ todo[c] = {} /\ task' = Reconciled(Chosen[c])
      /\ rq' = [rq EXCEPT ![c] = PutBack(c, Chosen[c])] /\ current' = [current EXCEPT ![c] = NoTask]
      /\ pc' = [pc EXCEPT ![c] = "yield"]
      /\ UNCHANGED <<kernelVars, allowed, tick, mq, next, todo, balanceVars, failed>>
  BY <1>a DEF PrioBoost, At, Goto
<1>4. current' \in [Cpus -> Tasks \cup {NoTask}]
  BY <1>3 DEF CfsInv, TypeOK
<1>5. Chosen' = [Chosen EXCEPT ![c] = NoTask]
  <2>1. \A d \in Cpus : current'[d] = IF d = c THEN NoTask ELSE current[d]
    BY <1>a, <1>3 DEF TypeOK
  <2>2. \A d \in Cpus : pc'[d] = IF d = c THEN "yield" ELSE pc[d]
    BY <1>a, <1>3 DEF TypeOK
  <2>3. next' = next
    BY <1>3
  <2> QED BY <2>1, <2>2, <2>3 DEF Chosen, Picking
<1> QED BY <1>2, <1>3, <1>4, <1>5, PutBackKeeps

\* A task t is picked.
LEMMA PickKeeps ==
  ASSUME CfsInv, NEW c \in Cpus, ast[c] = "running", pc[c] \in {"migrate", "pickpulled"}, todo[c] = {},
         Pick(c, PutBack(c, Chosen[c]), Reconciled(Chosen[c])),
         UNCHANGED <<kernelVars, allowed, tick, current, mq, todo, balanceVars, onIdle, failed>>,
         preempt_curr' \in [Cpus -> BOOLEAN]
  PROVE  CfsInv'
<1>0. TypeOK /\ AgentOK(c) /\ KernelTypeOK /\ pc \in [Cpus -> Labels] /\ PlaceInv
  BY AgentFacts DEF CfsInv
<1>1. UNCHANGED <<kst, oncpu, via, ran, seq, assoc, chan, ast, stale, rtla, boosted, budget, target, imbalance, moving>>
  BY DEF kernelVars, taskVars, agentVars, cfsVars, balanceVars
<1>2. PICK prev : prev = Chosen[c]
  OBVIOUS
<1>3. PICK q : q = PutBack(c, prev)
  OBVIOUS
<1>a. PICK ts : ts = Reconciled(prev)
  OBVIOUS
<1>4. /\ ts \in [Tasks -> CfsTasks] /\ q \in SUBSET Tasks
      /\ \A t \in Tasks :
           /\ t # prev => ts[t] = task[t]
           /\ t = prev =>
                /\ task[t].known /\ task[t].cpu = c /\ task[t].on_rq = "kDequeued"
                /\ \/ ts[t] = FreeTask /\ Is(t, "kDone")
                   \/ ts[t] = task[t] /\ Is(t, "kBlocked")
                   \/ /\ ts[t] = Put(task[t], "kRunnable", "kQueued")
                      /\ Is(t, "kRunning")
           /\ t \in q <=> t \in rq[c] \/ (t = prev /\ Is(t, "kRunning"))
  BY ONLY CfsInv, c \in Cpus, <1>2, <1>3, <1>a, ReconcileFacts
<1>5. /\ rq \in [Cpus -> SUBSET Tasks] /\ mq \in [Cpus -> SUBSET Tasks] /\ moving \in [Cpus -> SUBSET Tasks]
      /\ Chosen \in [Cpus -> Tasks \cup {NoTask}] /\ next \in [Cpus -> Tasks \cup {NoTask}]
  BY <1>0, ChosenFacts DEF TypeOK
<1>b. Pick(c, q, ts)
  BY <1>2, <1>3, <1>a
<1>c. PICK n \in q : /\ task' = [ts EXCEPT ![n].state = "kRunning", ![n].on_rq = "kDequeued"]
                     /\ rq' = [rq EXCEPT ![c] = q \ {n}]
                     /\ next' = [next EXCEPT ![c] = n]
                     /\ pc' = [pc EXCEPT ![c] = "picked"]
  BY <1>b DEF Pick, Goto
<1>d. n \in Tasks /\ ts[n] \in CfsTasks
  BY <1>4
<1>j. Chosen' = [Chosen EXCEPT ![c] = n]
  <2>1. \A d \in Cpus : next'[d] = IF d = c THEN n ELSE next[d]
    BY <1>5, <1>c
  <2>2. \A d \in Cpus : pc'[d] = IF d = c THEN "picked" ELSE pc[d]
    BY <1>0, <1>c
  <2> QED BY <2>1, <2>2 DEF Chosen, Picking
<1>e. PICK r \in CfsTasks : r = ts[n]
  BY <1>d
<1>f. r.known /\ r.cpu = c /\ r.state = "kRunnable"
  <2>1. CASE n = prev
    <3>1. task[n].known /\ task[n].cpu = c /\ task[n] \in CfsTasks /\ ~Is(n, "kRunnable")
      <4>1. PlaceOK(n)
        BY <1>0, <1>d DEF PlaceInv
      <4> QED BY <1>0, <1>2, <1>4, <1>d, <2>1, <4>1, TaskFacts DEF PlaceOK
    <3>2. n \notin rq[c]
      BY <1>0, <1>d, <3>1 DEF PlaceInv, PlaceOK, Waits
    <3>3. Is(n, "kRunning")
      BY <1>4, <1>d, <3>2
    <3>4. ts[n] = Put(task[n], "kRunnable", "kQueued")
      BY <1>4, <1>d, <2>1, <3>3 DEF Is
    <3> QED BY <1>e, <3>1, <3>4, PutBackFacts
  <2>2. CASE n # prev
    <3>1. n \in rq[c] /\ ts[n] = task[n]
      BY <1>4, <1>d, <2>2
    <3>2. Waits(n, "kQueued", c)
      BY <1>0, <1>d, <3>1 DEF PlaceInv, PlaceOK
    <3> QED BY <1>e, <3>1, <3>2 DEF Waits, Is
  <2> QED BY <2>1, <2>2
<1>g. PICK p : p = Put(r, "kRunning", "kDequeued")
  OBVIOUS
<1>h. /\ p \in CfsTasks /\ p.known /\ p.cpu = c /\ p.state = "kRunning" /\ p.on_rq = "kDequeued"
  BY <1>f, <1>g, PickedFacts
<1>i. task'[n] = p /\ task' \in [Tasks -> CfsTasks] /\ \A t \in Tasks : t # n => task'[t] = ts[t]
  <2>1. task' = [ts EXCEPT ![n] = [[ts[n] EXCEPT !.state = "kRunning"] EXCEPT !.on_rq = "kDequeued"]]
    BY <1>4, <1>c, <1>d
  <2>2. [[ts[n] EXCEPT !.state = "kRunning"] EXCEPT !.on_rq = "kDequeued"] = p
    <3>1. [[r EXCEPT !.state = "kRunning"] EXCEPT !.on_rq = "kDequeued"]
            = [r EXCEPT !.state = "kRunning", !.on_rq = "kDequeued"]
      OBVIOUS
    <3> QED BY <1>e, <1>g, <3>1 DEF Put
  <2>3. task' = [ts EXCEPT ![n] = p]
    BY <2>1, <2>2
  <2> QED BY <1>4, <1>d, <1>h, <2>3
<1>6. /\ rq'[c] = q \ {n} /\ Chosen'[c] = n /\ pc'[c] = "picked" /\ next'[c] = n
      /\ \A d \in Cpus : d # c => rq'[d] = rq[d] /\ Chosen'[d] = Chosen[d] /\ pc'[d] = pc[d] /\ next'[d] = next[d]
  BY <1>0, <1>2, <1>3, <1>5, <1>c, <1>j
<1>7. TypeOK'
  <2>1. KernelTypeOK'
    BY <1>0, <1>1 DEF KernelTypeOK
  <2>2. /\ rq' \in [Cpus -> SUBSET Tasks] /\ pc' \in [Cpus -> Labels]
        /\ next' \in [Cpus -> Tasks \cup {NoTask}]
    BY <1>0, <1>4, <1>5, <1>c, <1>d DEF Labels
  <2> QED BY <1>0, <1>1, <1>i, <2>1, <2>2 DEF TypeOK
<1>8. \A t \in Tasks : t # NoTask
  BY CfsAssumption
<1>9. ASSUME NEW t \in Tasks PROVE QuietTask(t) /\ PlaceOK(t)'
  <2>1. QuietTask(t)
    <3>1. assoc'[t] = assoc[t] /\ kst' = kst
      BY <1>1
    <3>2. \/ task'[t] = ts[t]
          \/ /\ task'[t] = Put(ts[t], "kRunning", "kDequeued")
             /\ ts[t].known /\ ts[t].state = "kRunnable"
      BY <1>e, <1>f, <1>g, <1>i
    <3> QED BY <1>2, <1>a, <3>1, <3>2, ReconciledView
  <2>0. PlaceOK(t) /\ task[t] \in CfsTasks
    BY <1>0, TaskFacts DEF PlaceInv
  <2>2. CASE t # prev /\ t # n
    <3>1. \A d \in Cpus : (t \in rq'[d]) <=> (t \in rq[d])
      BY <1>4, <1>6, <2>2
    <3>2. \A d \in Cpus : (Chosen'[d] = t) <=> (Chosen[d] = t)
      BY <1>2, <1>6, <1>8, <2>2
    <3>3. task'[t] = task[t]
      BY <1>4, <1>i, <2>2
    <3> QED BY <1>1, <2>1, <3>1, <3>2, <3>3, SamePlace
  <2>3. CASE t = n
    <3>1. ASSUME NEW d \in Cpus
          PROVE  /\ t \notin rq'[d] /\ t \notin mq'[d] /\ t \notin moving'[d]
                 /\ Chosen'[d] = t => d = c
      <4>1. CASE t # prev
        <5>1. Waits(t, "kQueued", c)
          <6>1. t \in rq[c]
            BY <1>4, <2>3, <4>1
          <6> QED BY <2>0, <6>1 DEF PlaceOK
        <5>2. t \notin mq[d] /\ t \notin moving[d] /\ Chosen[d] # t /\ (d # c => t \notin rq[d])
          BY <2>0, <5>1 DEF PlaceOK, Waits
        <5> QED BY <1>1, <1>6, <2>3, <5>2
      <4>2. CASE t = prev
        <5>1. task[t].known /\ task[t].cpu = c /\ ~Is(t, "kRunnable")
          BY <1>2, <1>4, <2>0, <4>2 DEF PlaceOK
        <5>2. t \notin mq[d] /\ t \notin moving[d] /\ t \notin rq[d] /\ (d # c => Chosen[d] # t)
          BY <2>0, <5>1 DEF PlaceOK, Waits
        <5> QED BY <1>1, <1>6, <2>3, <5>2
      <4> QED BY <4>1, <4>2
    <3>2. task'[t] = p /\ Chosen'[c] = t
      BY <1>6, <1>i, <2>3
    <3> QED BY <1>h, <2>1, <3>1, <3>2 DEF PlaceOK, Waits, Is
  <2>4. CASE t = prev /\ t # n
    <3>1. /\ task[t].known /\ task[t].cpu = c /\ task[t].on_rq = "kDequeued" /\ task'[t] = ts[t]
      BY <1>4, <1>i, <2>4
    <3>2. \A d \in Cpus : Chosen'[d] # t
      <4>1. \A d \in Cpus : d # c => Chosen[d] # t
        BY <2>0, <3>1 DEF PlaceOK
      <4> QED BY <1>6, <2>4, <4>1
    <3>3. ~Is(t, "kRunnable")
      BY <1>2, <2>0, <2>4 DEF PlaceOK
    <3>4. \A d \in Cpus : t \notin mq[d] /\ t \notin moving[d] /\ t \notin rq[d]
      BY <2>0, <3>3 DEF PlaceOK, Waits
    <3>5. CASE ts[t] = FreeTask /\ Is(t, "kDone")
      <4>1. t \notin q
        BY <1>4, <3>4, <3>5 DEF Is
      <4>2. \A d \in Cpus : t \notin rq'[d] /\ t \notin mq'[d] /\ t \notin moving'[d]
        BY <1>1, <1>6, <3>4, <4>1
      <4>3. ~task'[t].known /\ task'[t].on_rq = "kDequeued"
        BY <3>1, <3>5 DEF FreeTask
      <4> QED BY <2>1, <3>2, <4>2, <4>3 DEF PlaceOK, Waits
    <3>6. CASE ts[t] = task[t] /\ Is(t, "kBlocked")
      <4>1. t \notin q
        BY <1>4, <3>4, <3>6 DEF Is
      <4>2. \A d \in Cpus : t \notin rq'[d] /\ t \notin mq'[d] /\ t \notin moving'[d]
        BY <1>1, <1>6, <3>4, <4>1
      <4>3. task'[t].state = "kBlocked" /\ task'[t].on_rq = "kDequeued"
        BY <3>1, <3>6 DEF Is
      <4> QED BY <2>1, <3>2, <4>2, <4>3 DEF PlaceOK, Waits, Is
    <3>7. CASE ts[t] = Put(task[t], "kRunnable", "kQueued") /\ Is(t, "kRunning")
      <4>1. task'[t].known /\ task'[t].cpu = c /\ task'[t].state = "kRunnable" /\ task'[t].on_rq = "kQueued"
        BY <2>0, <3>1, <3>7, PutBackFacts
      <4>2. t \in q
        BY <1>4, <2>4, <3>7
      <4>3. \A d \in Cpus : ((t \in rq'[d]) <=> (d = c)) /\ t \notin mq'[d] /\ t \notin moving'[d]
        BY <1>1, <1>6, <2>4, <3>4, <4>2
      <4> QED BY <2>1, <3>2, <4>1, <4>3 DEF PlaceOK, Waits, Is
    <3> QED BY <1>4, <2>4, <3>5, <3>6, <3>7
  <2> QED BY <2>2, <2>3, <2>4
<1>10. OthersKeep(c)
  <2>1. ASSUME NEW d \in Cpus, d # c, NEW t \in Tasks, IsCurrent(t, d) PROVE IsCurrent(t, d)'
    <3>1. t # prev
      BY <1>4, <2>1 DEF IsCurrent
    <3>2. t # n
      <4>1. ts[t] = task[t]
        BY <1>4, <3>1
      <4> QED BY <1>e, <1>f, <2>1, <4>1 DEF IsCurrent
    <3>3. task'[t] = task[t]
      BY <1>4, <1>i, <3>1, <3>2
    <3> QED BY <1>6, <2>1, <3>3 DEF IsCurrent, Is
  <2> QED BY <1>1, <1>6, <2>1 DEF OthersKeep
<1>11. AgentOK(c)'
  <2>1. IsCurrent(n, c)' /\ next'[c] = n
    BY <1>6, <1>h, <1>i DEF IsCurrent, Is
  <2> QED BY <1>0, <1>1, <1>6, <1>d, <2>1 DEF AgentOK, Balancing, IsCurrent, Is
<1> QED BY <1>1, <1>7, <1>9, <1>10, <1>11, QuietKeeps

\* The next task is picked, or there is none.
LEMMA PickNextKeeps ==
  ASSUME CfsInv, NEW c \in Cpus, PickNextTask(c)
  PROVE  CfsInv'
<1>0. preempt_curr \in [Cpus -> BOOLEAN] /\ onIdle \in [Cpus -> BOOLEAN] /\ rq \in [Cpus -> SUBSET Tasks]
  BY DEF CfsInv, TypeOK
<1>a. TypeOK /\ pc[c] = "migrate" /\ Chosen[c] = current[c] /\ AgentOK(c)
  BY ChosenFacts, AgentFacts DEF CfsInv, PickNextTask, At, Picking
<1>1. /\ preempt_curr' = [preempt_curr EXCEPT ![c] = FALSE]
      /\ ast[c] = "running" /\ pc[c] = "migrate" /\ todo[c] = {}
      /\ UNCHANGED <<kernelVars, allowed, tick, current, mq, todo, balanceVars, onIdle, failed>>
  BY DEF PickNextTask, At
<1>2. preempt_curr' \in [Cpus -> BOOLEAN] /\ onIdle' \in [Cpus -> BOOLEAN]
  BY <1>0, <1>1
<1>3. CASE Pick(c, PutBack(c, Chosen[c]), Reconciled(Chosen[c]))
  BY <1>1, <1>2, <1>3, PickKeeps
<1>4. ASSUME NEW l \in {"balance", "picked"}, PutBack(c, Chosen[c]) = {}, task' = Reconciled(Chosen[c]),
             pc' = [pc EXCEPT ![c] = l], UNCHANGED <<rq, next>>
      PROVE  CfsInv'
  <2>1. rq[c] = {}
    BY <1>4 DEF PutBack
  <2>2. rq' = [rq EXCEPT ![c] = PutBack(c, Chosen[c])]
    BY <1>0, <1>4, <2>1
  <2>3. next[c] = NoTask
    BY <1>a DEF AgentOK
  <2>4. Chosen' = [Chosen EXCEPT ![c] = NoTask]
    <3>1. \A d \in Cpus : pc'[d] = IF d = c THEN l ELSE pc[d]
      BY <1>a, <1>4 DEF TypeOK
    <3> QED BY <1>1, <1>4, <2>3, <3>1 DEF Chosen, Picking
  <2>5. current' \in [Cpus -> Tasks \cup {NoTask}]
    BY <1>a, <1>1 DEF TypeOK
  <2> QED BY <1>1, <1>2, <1>4, <2>2, <2>4, <2>5, PutBackKeeps
<1>5. ("balance" \in CfsEvents) \in BOOLEAN
  OBVIOUS
<1>6. PICK l \in {"balance", "picked"} : l = IF "balance" \in CfsEvents THEN "balance" ELSE "picked"
  OBVIOUS
<1>7. CASE /\ PutBack(c, Chosen[c]) = {} /\ task' = Reconciled(Chosen[c])
           /\ pc' = [pc EXCEPT ![c] = l] /\ UNCHANGED <<rq, next>>
  BY <1>4, <1>7
<1> QED BY <1>a, <1>3, <1>6, <1>7 DEF PickNextTask, Goto

\* One of the pulled tasks is picked.
LEMMA NewIdleKeeps ==
  ASSUME CfsInv, NEW c \in Cpus, NewIdleBalance(c)
  PROVE  CfsInv'
<1>0. TypeOK /\ AgentOK(c) /\ KernelTypeOK /\ pc \in [Cpus -> Labels]
  BY AgentFacts DEF CfsInv
<1>1. /\ ast[c] = "running" /\ pc[c] = "pickpulled"
      /\ UNCHANGED <<kernelVars, allowed, tick, current, mq, preempt_curr, todo, balanceVars, onIdle, failed>>
  BY DEF NewIdleBalance, At
<1>2. Chosen[c] = NoTask /\ todo[c] = {}
  BY <1>0, <1>1 DEF AgentOK, Balancing
<1>3. Reconciled(Chosen[c]) = task /\ PutBack(c, Chosen[c]) = rq[c]
  BY <1>2 DEF Reconciled, PutBack
<1>4. CASE Pick(c, rq[c], task)
  <2>1. preempt_curr' \in [Cpus -> BOOLEAN]
    BY <1>0, <1>1 DEF TypeOK
  <2> QED BY <1>1, <1>2, <1>3, <1>4, <2>1, PickKeeps
<1>5. CASE pc' = [pc EXCEPT ![c] = "picked"] /\ UNCHANGED <<task, rq, next>>
  <2>1. UNCHANGED <<kst, oncpu, via, ran, seq, assoc, chan, ast, stale, rtla, boosted, budget, target, imbalance, moving>>
    BY <1>1 DEF kernelVars, taskVars, agentVars, cfsVars, balanceVars
  <2>2. TypeOK'
    <3>1. KernelTypeOK'
      BY <1>0, <2>1 DEF KernelTypeOK
    <3> QED BY <1>0, <1>1, <1>5, <2>1, <3>1 DEF TypeOK, Labels
  <2>3. pc'[c] = "picked" /\ \A d \in Cpus : d # c => pc'[d] = pc[d]
    BY <1>0, <1>5
  <2>4. Chosen' = Chosen
    BY <1>1, <1>5, <2>3 DEF Chosen, Picking
  <2>5. AgentOK(c)'
    BY <1>0, <1>1, <1>2, <1>5, <2>1, <2>3, <2>4 DEF AgentOK, Balancing
  <2> QED BY <1>1, <1>5, <2>1, <2>2, <2>3, <2>4, <2>5, SettledKeeps
<1> QED BY <1>4, <1>5 DEF NewIdleBalance, Goto

\* A runnable task gets another CPU or another queue.
LEMMA MovedTask ==
  ASSUME CfsInv, NEW t \in Tasks, task[t].known, Is(t, "kRunnable"), task'[t].known, task'[t].state = "kRunnable",
         task'[t].seqnum = task[t].seqnum, task'[t].cpu_affinity = task[t].cpu_affinity,
         task'[t].cpu = assoc'[t], assoc'[t] = assoc[t] \/ AssociateOk(t, task[t].seqnum)
  PROVE  QuietTask(t)
<1>1. task[t].seqnum \in Nat /\ MsgOK(t)
  BY TaskFacts DEF CfsInv, MessageInv
<1>2. View(t)' = "ready" /\ View(t) = "ready"
  BY DEF View, Is
<1>3. kst[t] # "new"
  BY <1>1 DEF MsgOK, FreeTask
<1> QED BY <1>1, <1>2, <1>3 DEF QuietTask

\* A CfsTask with another CPU and place.
Moved(r, d, o) == [r EXCEPT !.cpu = d, !.on_rq = o]

\* The rest of it stays as it was.
LEMMA MovedFacts ==
  ASSUME NEW r \in CfsTasks, r.known, NEW d \in Cpus, NEW o \in OnRqs, NEW p, p = Moved(r, d, o)
  PROVE  /\ p \in CfsTasks /\ p.known /\ p.cpu = d /\ p.seqnum = r.seqnum
         /\ p.cpu_affinity = r.cpu_affinity /\ p.state = r.state /\ p.on_rq = o
<1>1. r \in [known : {TRUE}, state : States, on_rq : OnRqs, cpu : Cpus, seqnum : Nat, cpu_affinity : SUBSET Cpus]
  BY RecordFacts
<1>2. p \in [known : {TRUE}, state : States, on_rq : OnRqs, cpu : Cpus, seqnum : Nat, cpu_affinity : SUBSET Cpus]
  BY <1>1 DEF Moved
<1> QED BY <1>1, <1>2 DEF Moved, CfsTasks

\* Staying on the same CPU.
LEMMA MovedHere ==
  ASSUME NEW r \in CfsTasks, r.known, NEW o \in OnRqs
  PROVE  [r EXCEPT !.on_rq = o] = Moved(r, r.cpu, o)
<1>1. r \in [known : {TRUE}, state : States, on_rq : OnRqs, cpu : Cpus, seqnum : Nat, cpu_affinity : SUBSET Cpus]
  BY RecordFacts
<1> QED BY <1>1 DEF Moved

\* Task t leaves the migration queue of CPU c for the run queue of CPU d.
LEMMA MigrateKeeps ==
  ASSUME CfsInv, NEW c \in Cpus, NEW d \in Cpus, NEW t \in Tasks, ast[c] = "running", pc[c] = "migrate",
         t \in mq[c], task' = [task EXCEPT ![t] = Moved(task[t], d, "kQueued")],
         rq' = With(rq, d, t), mq' = Without(mq, c, t), todo' = Without(todo, c, t),
         assoc'[t] = d, \A u \in Tasks : u # t => assoc'[u] = assoc[u],
         assoc' \in [Tasks -> Cpus], d = assoc[t] \/ AssociateOk(t, task[t].seqnum),
         NEW l \in {"migrate", "ping"}, pc' = [pc EXCEPT ![c] = l], target' \in [Cpus -> Cpus],
         UNCHANGED <<taskVars, seq, chan, agentVars, cfsVars, allowed, tick, current, Chosen, preempt_curr, next, imbalance,
                     moving, onIdle, failed>>
  PROVE  CfsInv'
<1>0. TypeOK /\ AgentOK(c) /\ KernelTypeOK /\ pc \in [Cpus -> Labels] /\ PlaceInv
  BY AgentFacts DEF CfsInv
<1>1. UNCHANGED <<kst, oncpu, via, ran, ast, stale, rtla, boosted, budget>>
  BY DEF taskVars, agentVars, cfsVars
<1>2. /\ task \in [Tasks -> CfsTasks] /\ rq \in [Cpus -> SUBSET Tasks] /\ mq \in [Cpus -> SUBSET Tasks]
      /\ moving \in [Cpus -> SUBSET Tasks] /\ Chosen \in [Cpus -> Tasks \cup {NoTask}]
      /\ todo \in [Cpus -> SUBSET Tasks]
  BY <1>0, ChosenFacts DEF TypeOK
<1>3. PlaceOK(t) /\ task[t] \in CfsTasks
  BY <1>0, <1>2 DEF PlaceInv
<1>4. task[t].known /\ task[t].state = "kRunnable" /\ task[t].on_rq = "kMigrating" /\ task[t].cpu = c
  BY <1>3 DEF PlaceOK, Waits, Is
<1>5. PICK p : p = Moved(task[t], d, "kQueued")
  OBVIOUS
<1>6. /\ p \in CfsTasks /\ p.known /\ p.cpu = d /\ p.seqnum = task[t].seqnum
      /\ p.cpu_affinity = task[t].cpu_affinity /\ p.state = "kRunnable" /\ p.on_rq = "kQueued"
  <2>1. PICK o \in OnRqs : o = "kQueued"
    BY Names
  <2>2. PICK r \in CfsTasks : r = task[t]
    BY <1>3
  <2>3. r.known /\ p = Moved(r, d, o)
    BY <1>4, <1>5, <2>1, <2>2
  <2>4. /\ p \in CfsTasks /\ p.known /\ p.cpu = d /\ p.seqnum = r.seqnum
        /\ p.cpu_affinity = r.cpu_affinity /\ p.state = r.state /\ p.on_rq = o
    BY <2>3, MovedFacts
  <2> QED BY <1>4, <2>1, <2>2, <2>4
<1>7. task'[t] = p /\ task' \in [Tasks -> CfsTasks] /\ \A u \in Tasks : u # t => task'[u] = task[u]
  BY <1>2, <1>5, <1>6
<1>8. /\ rq' \in [Cpus -> SUBSET Tasks] /\ mq' \in [Cpus -> SUBSET Tasks] /\ todo' \in [Cpus -> SUBSET Tasks]
      /\ rq'[d] = rq[d] \cup {t} /\ mq'[c] = mq[c] \ {t} /\ todo'[c] = todo[c] \ {t} /\ pc'[c] = l
      /\ \A e \in Cpus : e # d => rq'[e] = rq[e]
      /\ \A e \in Cpus : e # c => mq'[e] = mq[e] /\ todo'[e] = todo[e] /\ pc'[e] = pc[e]
  BY <1>0, <1>2 DEF With, Without
<1>9. TypeOK'
  <2>1. KernelTypeOK'
    BY <1>0, <1>1 DEF KernelTypeOK
  <2>2. pc' \in [Cpus -> Labels]
    BY <1>0 DEF Labels
  <2> QED BY <1>0, <1>1, <1>7, <1>8, <2>1, <2>2 DEF TypeOK
<1>10. ASSUME NEW u \in Tasks PROVE QuietTask(u) /\ PlaceOK(u)'
  <2>1. CASE u # t
    <3>1. \A e \in Cpus : ((u \in rq'[e]) <=> (u \in rq[e])) /\ ((u \in mq'[e]) <=> (u \in mq[e]))
      BY <1>8, <2>1
    <3>2. task'[u] = task[u] /\ assoc'[u] = assoc[u]
      BY <1>7, <2>1
    <3> QED BY <3>1, <3>2, SameTask, SamePlace
  <2>2. CASE u = t
    <3>1. QuietTask(t)
      BY <1>4, <1>6, <1>7, MovedTask DEF Is
    <3>2. \A e \in Cpus : Chosen'[e] # t /\ t \notin mq'[e] /\ t \notin moving'[e] /\ ((t \in rq'[e]) <=> (e = d))
      <4>1. \A e \in Cpus : Chosen[e] # t /\ (e # c => t \notin mq[e]) /\ t \notin moving[e] /\ t \notin rq[e]
        BY <1>3, <1>4 DEF PlaceOK, Waits, Is
      <4> QED BY <1>8, <4>1
    <3>3. PlaceOK(t)'
      BY <1>6, <1>7, <3>2 DEF PlaceOK, Waits, Is
    <3> QED BY <2>2, <3>1, <3>3
  <2> QED BY <2>1, <2>2
<1>11. OthersKeep(c)
  <2>1. ASSUME NEW e \in Cpus, NEW u \in Tasks, IsCurrent(u, e) PROVE IsCurrent(u, e)'
    <3>1. task'[u] = task[u]
      BY <1>4, <1>7, <2>1 DEF IsCurrent, Is
    <3> QED BY <2>1, <3>1 DEF IsCurrent, Is
  <2> QED BY <1>8, <2>1 DEF OthersKeep
<1>12. AgentOK(c)'
  <2>1. todo'[c] \subseteq mq'[c]
    BY <1>0, <1>8 DEF AgentOK
  <2> QED BY <1>0, <1>8, <2>1 DEF AgentOK, Balancing
<1> QED BY <1>1, <1>9, <1>10, <1>11, <1>12, QuietKeeps

\* The agent tries to find a CPU for task t.
LEMMA MigrateTasksKeeps ==
  ASSUME CfsInv, NEW c \in Cpus, NEW t \in Tasks, MigrateTasks(c, t)
  PROVE  CfsInv'
<1>0. TypeOK /\ AgentOK(c) /\ KernelTypeOK /\ pc \in [Cpus -> Labels] /\ PlaceInv /\ MessageInv
  BY AgentFacts DEF CfsInv
<1>1. ast[c] = "running" /\ pc[c] = "migrate" /\ t \in todo[c] /\ t \in mq[c]
  BY <1>0 DEF MigrateTasks, At, AgentOK
<1>2. PlaceOK(t) /\ task[t] \in CfsTasks /\ task \in [Tasks -> CfsTasks] /\ MsgOK(t)
  BY <1>0 DEF PlaceInv, TypeOK, MessageInv
<1>3. task[t].known /\ Is(t, "kRunnable") /\ task[t].on_rq = "kMigrating" /\ task[t].cpu = c /\ assoc[t] = c
  BY <1>1, <1>2 DEF PlaceOK, Waits, MsgOK
<1>4. ASSUME MigrateHere(c, t) PROVE CfsInv'
  <2>1. /\ rq' = With(rq, c, t) /\ mq' = Without(mq, c, t) /\ todo' = Without(todo, c, t)
        /\ task' = [task EXCEPT ![t].on_rq = "kQueued"]
        /\ UNCHANGED <<kernelVars, allowed, tick, current, Chosen, preempt_curr, pc, next, balanceVars, onIdle, failed>>
    BY <1>3, <1>4, ChosenSame DEF MigrateHere
  <2>2. task' = [task EXCEPT ![t] = Moved(task[t], c, "kQueued")]
    <3>1. [task[t] EXCEPT !.on_rq = "kQueued"] = Moved(task[t], c, "kQueued")
      BY <1>2, <1>3, Names, MovedHere
    <3> QED BY <1>2, <2>1, <3>1
  <2>3. UNCHANGED <<taskVars, seq, chan, agentVars, cfsVars, assoc, target, imbalance, moving>>
    BY <2>1 DEF kernelVars, balanceVars
  <2>4. assoc' \in [Tasks -> Cpus] /\ target' \in [Cpus -> Cpus] /\ pc' = [pc EXCEPT ![c] = "migrate"]
    BY <1>0, <1>1, <2>1, <2>3 DEF TypeOK, KernelTypeOK
  <2> QED BY <1>1, <1>3, <2>1, <2>2, <2>3, <2>4, MigrateKeeps
<1>5. ASSUME NEW d \in Cpus, MigrateTo(c, t, d) PROVE CfsInv'
  <2>a. /\ todo' = Without(todo, c, t)
        /\ UNCHANGED <<allowed, tick, current, preempt_curr, next, imbalance, moving, onIdle, failed>>
    BY <1>5 DEF MigrateTo
  <2>b. Chosen' = Chosen
    <3>1. \A e \in Cpus : pc'[e] = pc[e] \/ (e = c /\ pc'[e] = "ping")
      BY <1>0, <1>5 DEF MigrateTo, Goto
    <3> QED BY <1>1, <2>a, <3>1 DEF Chosen, Picking
  <2>1. /\ todo' = Without(todo, c, t)
        /\ UNCHANGED <<allowed, tick, current, Chosen, preempt_curr, next, imbalance, moving, onIdle, failed>>
    BY <2>a, <2>b
  <2>2. CASE /\ AssociateOk(t, task[t].seqnum)
             /\ assoc' = [assoc EXCEPT ![t] = d]
             /\ task' = [task EXCEPT ![t].cpu = d, ![t].on_rq = IF Is(t, "kRunnable") THEN "kQueued" ELSE @]
             /\ rq' = IF Is(t, "kRunnable") THEN With(rq, d, t) ELSE rq
             /\ mq' = Without(mq, c, t)
             /\ target' = [target EXCEPT ![c] = d]
             /\ pc' = [pc EXCEPT ![c] = "ping"]
             /\ UNCHANGED <<taskVars, seq, chan, agentVars, cfsVars>>
    <3>1. task' = [task EXCEPT ![t].cpu = d, ![t].on_rq = "kQueued"] /\ rq' = With(rq, d, t)
      BY <1>3, <2>2
    <3>2. task' = [task EXCEPT ![t] = Moved(task[t], d, "kQueued")]
      <4>1. [[task[t] EXCEPT !.cpu = d] EXCEPT !.on_rq = "kQueued"] = Moved(task[t], d, "kQueued")
        BY DEF Moved
      <4> QED BY <1>2, <3>1, <4>1
    <3>3. assoc' \in [Tasks -> Cpus] /\ target' \in [Cpus -> Cpus]
      BY <1>0, <2>2 DEF TypeOK, KernelTypeOK
    <3>4. assoc'[t] = d /\ \A u \in Tasks : u # t => assoc'[u] = assoc[u]
      BY <1>0, <2>2 DEF KernelTypeOK
    <3>5. PICK l \in {"migrate", "ping"} : l = "ping"
      OBVIOUS
    <3>6. /\ AssociateOk(t, task[t].seqnum) /\ pc' = [pc EXCEPT ![c] = l] /\ mq' = Without(mq, c, t)
          /\ UNCHANGED <<taskVars, seq, chan, agentVars, cfsVars>>
      BY <2>2, <3>5
    <3> QED BY <1>1, <2>1, <3>1, <3>2, <3>3, <3>4, <3>6, MigrateKeeps
  <2>3. CASE UNCHANGED <<kernelVars, task, rq, mq, target, pc>>
    <3>1. UNCHANGED <<kst, oncpu, via, ran, seq, assoc, chan, ast, stale, rtla, boosted, budget>>
      BY <2>3 DEF kernelVars, taskVars, agentVars, cfsVars
    <3>2. todo' \in [Cpus -> SUBSET Tasks] /\ todo'[c] \subseteq todo[c] /\ \A e \in Cpus : e # c => todo'[e] = todo[e]
      BY <1>0, <2>1 DEF TypeOK, Without
    <3>3. TypeOK'
      <4>1. KernelTypeOK'
        BY <1>0, <3>1 DEF KernelTypeOK
      <4> QED BY <1>0, <2>1, <2>3, <3>2, <4>1 DEF TypeOK
    <3>4. AgentOK(c)'
      BY <1>0, <1>1, <2>1, <2>3, <3>2 DEF AgentOK, Balancing
    <3> QED BY <1>1, <2>1, <2>3, <3>1, <3>2, <3>3, <3>4, SettledKeeps
  <2> QED BY <1>5, <2>2, <2>3 DEF MigrateTo, Goto
<1>6. MigrateOk(t)
  BY <1>3 DEF MigrateOk
<1> QED BY <1>4, <1>5, <1>6 DEF MigrateTasks

\* A load balancer takes tasks out of another run queue.
LEMMA DetachKeeps ==
  ASSUME CfsInv, NEW c \in Cpus, DetachTasks(c)
  PROVE  CfsInv'
<1>0. TypeOK /\ AgentOK(c) /\ KernelTypeOK /\ pc \in [Cpus -> Labels] /\ PlaceInv
  BY AgentFacts DEF CfsInv
<1>1. PICK src \in Cpus : src = target[c]
  BY AgentFacts
<1>2. /\ ast[c] = "running" /\ pc[c] = "detach" /\ target' = [target EXCEPT ![c] = 0]
      /\ imbalance' = [imbalance EXCEPT ![c] = 0]
      /\ UNCHANGED <<taskVars, seq, chan, agentVars, cfsVars, allowed, tick, current, mq, preempt_curr, next,
                     todo, onIdle, failed>>
  BY DEF DetachTasks, At
<1>3. UNCHANGED <<kst, oncpu, via, ran, ast, stale, rtla, boosted, budget>>
  BY <1>2 DEF taskVars, agentVars, cfsVars
<1>4. PICK pulled \in SUBSET {t \in rq[src] : CanMigrateTask(t, c)} :
        /\ moving' = [moving EXCEPT ![c] = pulled]
        /\ rq' = [rq EXCEPT ![src] = @ \ pulled]
        /\ assoc' = [t \in Tasks |-> IF t \in pulled THEN c ELSE assoc[t]]
        /\ task' = [t \in Tasks |-> IF t \in pulled
                     THEN [task[t] EXCEPT !.cpu = c, !.on_rq = "kDequeued"] ELSE task[t]]
        /\ pc' = [pc EXCEPT ![c] = IF pulled = {} THEN "picked" ELSE "attach"]
  BY <1>1 DEF DetachTasks, Goto
<1>5. /\ task \in [Tasks -> CfsTasks] /\ rq \in [Cpus -> SUBSET Tasks] /\ moving \in [Cpus -> SUBSET Tasks]
      /\ Chosen \in [Cpus -> Tasks \cup {NoTask}]
  BY <1>0, ChosenFacts DEF TypeOK
<1>6. moving[c] = {} /\ Chosen[c] = NoTask /\ todo[c] = {} /\ next[c] = NoTask
  BY <1>0, <1>2 DEF AgentOK, Balancing
<1>7. /\ pulled \subseteq Tasks /\ rq' \in [Cpus -> SUBSET Tasks] /\ moving' \in [Cpus -> SUBSET Tasks]
      /\ moving'[c] = pulled /\ rq'[src] = rq[src] \ pulled
      /\ pc'[c] = IF pulled = {} THEN "picked" ELSE "attach"
      /\ \A d \in Cpus : d # src => rq'[d] = rq[d]
      /\ \A d \in Cpus : d # c => moving'[d] = moving[d] /\ pc'[d] = pc[d]
  BY <1>0, <1>4, <1>5
<1>a. Chosen' = Chosen
  BY <1>2, <1>7 DEF Chosen, Picking
<1>8. \A t \in Tasks : t \notin pulled => task'[t] = task[t] /\ assoc'[t] = assoc[t]
  BY <1>4
<1>9. ASSUME NEW t \in Tasks, t \in pulled
      PROVE  /\ task[t].known /\ task[t].state = "kRunnable" /\ task[t].on_rq = "kQueued" /\ task[t].cpu = src
             /\ AssociateOk(t, task[t].seqnum) /\ assoc'[t] = c /\ PlaceOK(t)
             /\ task'[t] \in CfsTasks /\ task'[t].known /\ task'[t].cpu = c /\ task'[t].seqnum = task[t].seqnum
             /\ task'[t].cpu_affinity = task[t].cpu_affinity /\ task'[t].state = "kRunnable"
             /\ task'[t].on_rq = "kDequeued"
  <2>1. t \in rq[src] /\ AssociateOk(t, task[t].seqnum) /\ assoc'[t] = c /\ PlaceOK(t)
    BY <1>0, <1>4, <1>9 DEF CanMigrateTask, PlaceInv
  <2>2. task[t].known /\ task[t].state = "kRunnable" /\ task[t].on_rq = "kQueued" /\ task[t].cpu = src
    BY <2>1 DEF PlaceOK, Waits, Is
  <2>3. PICK r \in CfsTasks : r = task[t]
    BY <1>5
  <2>4. PICK p : p = [r EXCEPT !.cpu = c, !.on_rq = "kDequeued"]
    OBVIOUS
  <2>5. PICK o \in OnRqs : o = "kDequeued"
    BY Names
  <2>6. r.known /\ p = Moved(r, c, o)
    BY <2>2, <2>3, <2>4, <2>5 DEF Moved
  <2>7. /\ p \in CfsTasks /\ p.known /\ p.cpu = c /\ p.seqnum = r.seqnum
        /\ p.cpu_affinity = r.cpu_affinity /\ p.state = r.state /\ p.on_rq = o
    BY <2>6, MovedFacts
  <2>8. task'[t] = p
    BY <1>4, <1>9, <2>3, <2>4
  <2> QED BY <2>1, <2>2, <2>3, <2>5, <2>7, <2>8
<1>10. TypeOK'
  <2>1. assoc' \in [Tasks -> Cpus]
    BY <1>0, <1>4 DEF KernelTypeOK
  <2>2. KernelTypeOK'
    BY <1>0, <1>2, <1>3, <2>1 DEF KernelTypeOK
  <2>3. pc' \in [Cpus -> Labels]
    BY <1>0, <1>4 DEF Labels
  <2>4. task' \in [Tasks -> CfsTasks]
    <3>1. \A t \in Tasks : task'[t] \in CfsTasks
      BY <1>5, <1>8, <1>9
    <3>2. task' = [t \in Tasks |-> task'[t]]
      BY <1>4
    <3> QED BY <3>1, <3>2
  <2>5. 0 \in Cpus
    BY KernelAssumption DEF Cpus
  <2>6. target' \in [Cpus -> Cpus] /\ imbalance' \in [Cpus -> Nat]
    BY <1>0, <1>2, <2>5 DEF TypeOK
  <2> QED BY <1>0, <1>2, <1>7, <2>2, <2>3, <2>4, <2>6 DEF TypeOK
<1>11. ASSUME NEW t \in Tasks PROVE QuietTask(t) /\ PlaceOK(t)'
  <2>1. CASE t \notin pulled
    <3>1. \A d \in Cpus : (t \in rq'[d]) <=> (t \in rq[d])
      BY <1>7, <2>1
    <3>2. \A d \in Cpus : (t \in moving'[d]) <=> (t \in moving[d])
      BY <1>6, <1>7, <2>1
    <3>3. task'[t] = task[t] /\ assoc'[t] = assoc[t]
      BY <1>8, <2>1
    <3> QED BY <1>2, <1>a, <3>1, <3>2, <3>3, SameTask, SamePlace
  <2>2. CASE t \in pulled
    <3>1. QuietTask(t)
      BY <1>9, <2>2, MovedTask DEF Is
    <3>2. \A d \in Cpus : Chosen'[d] # t /\ t \notin mq'[d] /\ t \notin rq'[d] /\ ((t \in moving'[d]) <=> (d = c))
      <4>1. \A d \in Cpus : Chosen[d] # t /\ t \notin mq[d] /\ t \notin moving[d] /\ (d # src => t \notin rq[d])
        BY <1>9, <2>2 DEF PlaceOK, Waits, Is
      <4> QED BY <1>2, <1>7, <1>a, <2>2, <4>1
    <3>3. PlaceOK(t)'
      BY <1>9, <2>2, <3>2 DEF PlaceOK, Waits, Is
    <3> QED BY <3>1, <3>3
  <2> QED BY <2>1, <2>2
<1>12. OthersKeep(c)
  <2>1. ASSUME NEW e \in Cpus, NEW u \in Tasks, IsCurrent(u, e) PROVE IsCurrent(u, e)'
    <3>1. task'[u] = task[u]
      BY <1>8, <1>9, <2>1 DEF IsCurrent, Is
    <3> QED BY <1>2, <1>a, <2>1, <3>1 DEF IsCurrent, Is
  <2> QED BY <1>2, <1>7, <1>a, <2>1 DEF OthersKeep
<1>13. AgentOK(c)'
  BY <1>2, <1>6, <1>7, <1>a DEF AgentOK, Balancing
<1> QED BY <1>2, <1>3, <1>10, <1>11, <1>12, <1>13, QuietKeeps

\* It puts them into its own.
LEMMA AttachKeeps ==
  ASSUME CfsInv, NEW c \in Cpus, AttachTasks(c)
  PROVE  CfsInv'
<1>0. TypeOK /\ AgentOK(c) /\ KernelTypeOK /\ pc \in [Cpus -> Labels] /\ PlaceInv /\ MessageInv
  BY AgentFacts DEF CfsInv
<1>1. /\ ast[c] = "running" /\ pc[c] = "attach" /\ pc' = [pc EXCEPT ![c] = "pickpulled"]
      /\ rq' = [rq EXCEPT ![c] = @ \cup moving[c]] /\ moving' = [moving EXCEPT ![c] = {}]
      /\ task' = [t \in Tasks |-> IF t \in moving[c] THEN [task[t] EXCEPT !.on_rq = "kQueued"] ELSE task[t]]
      /\ UNCHANGED <<kernelVars, allowed, tick, current, Chosen, mq, preempt_curr, next, todo, target, imbalance, onIdle,
                     failed>>
  BY <1>0 DEF AttachTasks, At, Goto, Chosen, Picking
<1>2. UNCHANGED <<kst, oncpu, via, ran, seq, assoc, chan, ast, stale, rtla, boosted, budget>>
  BY <1>1 DEF kernelVars, taskVars, agentVars, cfsVars
<1>3. /\ task \in [Tasks -> CfsTasks] /\ rq \in [Cpus -> SUBSET Tasks] /\ moving \in [Cpus -> SUBSET Tasks]
  BY <1>0 DEF TypeOK
<1>4. Chosen[c] = NoTask /\ todo[c] = {} /\ next[c] = NoTask
  BY <1>0, <1>1 DEF AgentOK, Balancing
<1>5. /\ rq' \in [Cpus -> SUBSET Tasks] /\ moving' \in [Cpus -> SUBSET Tasks]
      /\ moving'[c] = {} /\ rq'[c] = rq[c] \cup moving[c] /\ pc'[c] = "pickpulled"
      /\ \A d \in Cpus : d # c => rq'[d] = rq[d] /\ moving'[d] = moving[d] /\ pc'[d] = pc[d]
  BY <1>0, <1>1, <1>3
<1>6. \A t \in Tasks : t \notin moving[c] => task'[t] = task[t]
  BY <1>1
<1>7. ASSUME NEW t \in Tasks, t \in moving[c]
      PROVE  /\ task[t].known /\ task[t].state = "kRunnable" /\ task[t].on_rq = "kDequeued" /\ task[t].cpu = c
             /\ PlaceOK(t) /\ assoc[t] = c
             /\ task'[t] \in CfsTasks /\ task'[t].known /\ task'[t].cpu = c /\ task'[t].seqnum = task[t].seqnum
             /\ task'[t].cpu_affinity = task[t].cpu_affinity /\ task'[t].state = "kRunnable"
             /\ task'[t].on_rq = "kQueued"
  <2>1. PlaceOK(t) /\ MsgOK(t)
    BY <1>0 DEF PlaceInv, MessageInv
  <2>2. /\ task[t].known /\ task[t].state = "kRunnable" /\ task[t].on_rq = "kDequeued" /\ task[t].cpu = c
        /\ assoc[t] = c
    BY <1>7, <2>1 DEF PlaceOK, Waits, Is, MsgOK
  <2>3. PICK r \in CfsTasks : r = task[t]
    BY <1>3
  <2>4. PICK p : p = [r EXCEPT !.on_rq = "kQueued"]
    OBVIOUS
  <2>5. PICK o \in OnRqs : o = "kQueued"
    BY Names
  <2>6. r.known /\ r.cpu = c
    BY <2>2, <2>3
  <2>7. p = Moved(r, c, o)
    BY <2>4, <2>5, <2>6, MovedHere
  <2>8. /\ p \in CfsTasks /\ p.known /\ p.cpu = c /\ p.seqnum = r.seqnum
        /\ p.cpu_affinity = r.cpu_affinity /\ p.state = r.state /\ p.on_rq = o
    BY <2>6, <2>7, MovedFacts
  <2>9. task'[t] = p
    BY <1>1, <1>7, <2>3, <2>4
  <2> QED BY <2>1, <2>2, <2>3, <2>5, <2>8, <2>9
<1>8. TypeOK'
  <2>1. KernelTypeOK'
    BY <1>0, <1>2 DEF KernelTypeOK
  <2>2. pc' \in [Cpus -> Labels]
    BY <1>0, <1>1 DEF Labels
  <2>3. task' \in [Tasks -> CfsTasks]
    <3>1. \A t \in Tasks : task'[t] \in CfsTasks
      BY <1>3, <1>6, <1>7
    <3>2. task' = [t \in Tasks |-> task'[t]]
      BY <1>1
    <3> QED BY <3>1, <3>2
  <2> QED BY <1>0, <1>1, <1>5, <2>1, <2>2, <2>3 DEF TypeOK
<1>9. ASSUME NEW t \in Tasks PROVE QuietTask(t) /\ PlaceOK(t)'
  <2>1. CASE t \notin moving[c]
    <3>1. \A d \in Cpus : ((t \in rq'[d]) <=> (t \in rq[d])) /\ ((t \in moving'[d]) <=> (t \in moving[d]))
      BY <1>5, <2>1
    <3>2. task'[t] = task[t] /\ assoc'[t] = assoc[t]
      BY <1>2, <1>6, <2>1
    <3> QED BY <1>1, <3>1, <3>2, SameTask, SamePlace
  <2>2. CASE t \in moving[c]
    <3>1. QuietTask(t)
      BY <1>2, <1>7, <2>2, MovedTask DEF Is
    <3>2. \A d \in Cpus : Chosen'[d] # t /\ t \notin mq'[d] /\ t \notin moving'[d] /\ ((t \in rq'[d]) <=> (d = c))
      <4>1. \A d \in Cpus : Chosen[d] # t /\ t \notin mq[d] /\ t \notin rq[d] /\ (d # c => t \notin moving[d])
        BY <1>7, <2>2 DEF PlaceOK, Waits, Is
      <4> QED BY <1>1, <1>5, <2>2, <4>1
    <3>3. PlaceOK(t)'
      BY <1>7, <2>2, <3>2 DEF PlaceOK, Waits, Is
    <3> QED BY <3>1, <3>3
  <2> QED BY <2>1, <2>2
<1>10. OthersKeep(c)
  <2>1. ASSUME NEW e \in Cpus, NEW u \in Tasks, IsCurrent(u, e) PROVE IsCurrent(u, e)'
    <3>1. task'[u] = task[u]
      BY <1>6, <1>7, <2>1 DEF IsCurrent, Is
    <3> QED BY <1>1, <2>1, <3>1 DEF IsCurrent, Is
  <2> QED BY <1>1, <1>5, <2>1 DEF OthersKeep
<1>11. AgentOK(c)'
  BY <1>1, <1>4, <1>5 DEF AgentOK, Balancing
<1> QED BY <1>1, <1>2, <1>8, <1>9, <1>10, <1>11, QuietKeeps

\* Once no message about a task is unread, the scheduler knows the truth.
LEMMA KnowsTruth ==
  ASSUME CfsInv, NEW t \in Tasks, task[t].seqnum = seq[t]
  PROVE  View(t) = Truth(t) /\ Absent(Home(t), t, 1, Len(Home(t)))
<1>1. TypeOK /\ MsgOK(t)
  BY DEF CfsInv, MessageInv
<1>2. Home(t) \in Seq(Messages) /\ seq[t] \in Nat
  BY <1>1, TaskFacts
<1>3. Absent(Home(t), t, 1, Len(Home(t)))
  BY <1>1, <1>2, NoneUnread DEF MsgOK
<1> QED BY <1>1, <1>2, <1>3, AbsentChain DEF MsgOK

\* The transaction is committed.
LEMMA CommitKeeps ==
  ASSUME CfsInv, NEW c \in Cpus, Commit(c)
  PROVE  CfsInv'
<1>0. TypeOK /\ AgentOK(c) /\ KernelTypeOK /\ pc \in [Cpus -> Labels] /\ CpuInv /\ PlaceInv /\ MessageInv /\ AgentInv
  BY AgentFacts DEF CfsInv
<1>a. /\ ast[c] = "running" /\ pc[c] = "commit" /\ oncpu[next[c]] = NoCpu
      /\ UNCHANGED <<allowed, tick, task, current, rq, mq, preempt_curr, todo, target, imbalance, moving, onIdle>>
  BY DEF Commit, At, cpuVars, balanceVars
<1>b. Chosen' = Chosen
  <2>1. \A d \in Cpus : (d # c => pc'[d] = pc[d] /\ next'[d] = next[d]) /\ (d = c => pc'[d] \in {"top", "commit"})
    BY <1>0, <1>a DEF Commit, Goto, TypeOK
  <2> QED BY <1>a, <2>1 DEF Chosen, Picking
<1>1. /\ ast[c] = "running" /\ pc[c] = "commit" /\ oncpu[next[c]] = NoCpu
      /\ UNCHANGED <<allowed, tick, task, current, Chosen, rq, mq, preempt_curr, todo, target, imbalance, moving, onIdle>>
  BY <1>a, <1>b
<1>2. PICK t \in Tasks : t = next[c]
  BY <1>0, <1>1 DEF AgentOK
<1>3. IsCurrent(t, c) /\ task[t].known /\ View(t) = "ready" /\ MsgOK(t)
  <2>1. IsCurrent(t, c)
    BY <1>0, <1>1, <1>2 DEF AgentOK
  <2> QED BY <1>0, <2>1 DEF IsCurrent, Is, View, MessageInv
<1>4. PICK state : state = TxnState(c, t, task[t].seqnum)
  OBVIOUS
<1>5. oncpu[t] = NoCpu /\ assoc[t] = c
  BY <1>1, <1>2, <1>3 DEF MsgOK, IsCurrent
<1>6. state # "TARGET_NOT_RUNNABLE"
  <2> SUFFICES ASSUME state = "TARGET_NOT_RUNNABLE" PROVE FALSE
    OBVIOUS
  <2>1. seq[t] = task[t].seqnum /\ InGhost(t) /\ kst[t] # "runnable"
    BY <1>4 DEF TxnState
  <2>2. View(t) = Truth(t)
    BY <2>1, KnowsTruth
  <2> QED BY <1>3, <2>1, <2>2 DEF Truth, InGhost
<1>7. CASE /\ next' = [next EXCEPT ![c] = NoTask] /\ pc' = [pc EXCEPT ![c] = "top"]
           /\ UNCHANGED <<kernelVars, failed>>
  <2>1. UNCHANGED <<kst, oncpu, via, ran, seq, assoc, chan, ast, stale, rtla, boosted, budget>>
    BY <1>7 DEF kernelVars, taskVars, agentVars, cfsVars
  <2>2. TypeOK'
    <3>1. KernelTypeOK'
      BY <1>0, <2>1 DEF KernelTypeOK
    <3> QED BY <1>0, <1>1, <1>7, <3>1 DEF TypeOK, Labels
  <2>3. /\ pc'[c] = "top" /\ next'[c] = NoTask
        /\ \A d \in Cpus : d # c => pc'[d] = pc[d] /\ next'[d] = next[d]
    BY <1>0, <1>7 DEF TypeOK
  <2>4. AgentOK(c)'
    BY <1>0, <1>1, <2>3 DEF AgentOK, Balancing
  <2> QED BY <1>1, <1>7, <2>1, <2>2, <2>3, <2>4, SettledKeeps
<1>8. CASE /\ state = "COMPLETE" /\ RunTask(c, t) /\ next' = [next EXCEPT ![c] = NoTask]
           /\ pc' = [pc EXCEPT ![c] = "top"]
           /\ UNCHANGED <<kst, seq, assoc, chan, stale, rtla, cfsVars, failed>>
  <2>1. /\ seq[t] = task[t].seqnum /\ kst[t] = "runnable"
    BY <1>4, <1>8 DEF TxnState, InGhost
  <2>2. Absent(Home(t), t, 1, Len(Home(t)))
    BY <2>1, KnowsTruth
  <2>3. /\ oncpu' = [oncpu EXCEPT ![t] = c] /\ via' = [via EXCEPT ![t] = "txn"]
        /\ ran' = [ran EXCEPT ![t] = "switchto" \in Events] /\ ast' = [ast EXCEPT ![c] = "sleeping"]
        /\ UNCHANGED <<kst, seq, assoc, chan, stale, rtla, boosted, budget, failed>>
    BY <1>8 DEF RunTask, cfsVars
  <2>4. TypeOK'
    <3>1. ran' \in [Tasks -> BOOLEAN]
      <4>1. ("switchto" \in Events) = FALSE
        BY CfsAssumption
      <4> QED BY <1>0, <2>3, <4>1 DEF KernelTypeOK
    <3>2. KernelTypeOK'
      BY <1>0, <2>3, <3>1 DEF KernelTypeOK
    <3>3. next' \in [Cpus -> Tasks \cup {NoTask}] /\ pc' \in [Cpus -> Labels]
      BY <1>0, <1>8 DEF TypeOK, Labels
    <3> QED BY <1>0, <1>1, <2>3, <3>2, <3>3 DEF TypeOK
  <2>5. MessageInv' /\ PlaceInv'
    BY <1>0, <1>1, <2>3 DEF MessageInv, MsgOK, Home, Unread, AffinityKnown, View, Is, Truth, InGhost,
         PlaceInv, PlaceOK, Waits
  <2>6. /\ pc'[c] = "top" /\ next'[c] = NoTask /\ ast'[c] = "sleeping"
        /\ \A d \in Cpus : d # c => pc'[d] = pc[d] /\ next'[d] = next[d] /\ ast'[d] = ast[d]
    BY <1>0, <1>8, <2>3 DEF TypeOK, KernelTypeOK
  <2>7. AgentInv'
    <3>1. AgentOK(c)'
      BY <1>0, <1>1, <2>6 DEF AgentOK, Balancing
    <3>2. OthersKeep(c)
      BY <1>1, <2>6 DEF OthersKeep, IsCurrent, Is
    <3> QED BY <3>1, <3>2, OthersOK
  <2>8. ASSUME NEW u \in Tasks PROVE RunOK(u)'
    <3>1. RunOK(u) /\ oncpu[u] \in Cpus \cup {NoCpu}
      BY <1>0 DEF CpuInv, KernelTypeOK
    <3>2. CASE u = t
      <4>1. oncpu'[t] = c /\ via'[t] = "txn"
        BY <1>0, <2>3 DEF KernelTypeOK
      <4>2. OnlyAffinity(Home(t), t, Len(Home(t)))
        BY <2>2 DEF OnlyAffinity, Absent
      <4>3. IsCurrent(t, c)' /\ Home(t)' = Home(t)
        BY <1>1, <1>3, <2>3 DEF IsCurrent, Is, Home
      <4>4. c # NoCpu
        BY DEF Cpus, NoCpu
      <4> QED BY <1>5, <2>1, <2>3, <2>6, <3>2, <4>1, <4>2, <4>3, <4>4 DEF RunOK
    <3>3. CASE u # t
      <4>1. oncpu'[u] = oncpu[u] /\ via'[u] = via[u]
        BY <1>0, <2>3, <3>3 DEF KernelTypeOK
      <4>2. oncpu[u] # NoCpu => ast'[oncpu[u]] # "running"
        BY <2>6, <3>1 DEF RunOK
      <4> QED BY <1>1, <2>3, <3>1, <4>1, <4>2 DEF RunOK, Home, IsCurrent, Is
    <3> QED BY <3>2, <3>3
  <2>9. ASSUME NEW d \in Cpus PROVE OffOK(d)' /\ (ast'[d] # "running" => pc'[d] = "top")
    <3>1. OffOK(d) /\ (ast[d] # "running" => pc[d] = "top")
      BY <1>0 DEF CpuInv
    <3>2. CASE d = c
      <4>1. \A i \in 1 .. Len(chan[c]) : ~(chan[c][i].type \in OffCpu)
        BY <1>1, <3>1, <3>2 DEF OffOK
      <4> QED BY <2>3, <2>6, <3>2, <4>1 DEF OffOK
    <3>3. CASE d # c
      BY <1>1, <2>3, <2>6, <3>1, <3>3 DEF OffOK, IsCurrent, Is
    <3> QED BY <3>2, <3>3
  <2>10. CpuInv'
    BY <2>8, <2>9 DEF CpuInv
  <2>11. failed' = NoFailure
    BY <2>3 DEF CfsInv
  <2> QED BY <2>4, <2>5, <2>7, <2>10, <2>11 DEF CfsInv
<1> QED BY <1>2, <1>4, <1>6, <1>7, <1>8 DEF Commit, Goto
-------------------------------------------------------------------------------
(* The message handlers.                                                    *)

\* A message m about task t is handled by the agent of CPU c.
LEMMA HandlerKeeps ==
  ASSUME CfsInv, NEW c \in Cpus, At(c, "drain"), chan[c] # <<>>, NEW m, m = Head(chan[c]), NEW t, t = m.task,
         Handled(c), task' \in [Tasks -> CfsTasks], \A u \in Tasks : u # t => task'[u] = task[u],
         View(t)' = After(View(t), m), task'[t].seqnum <= m.seq,
         View(t)' # "none" => task'[t].seqnum = m.seq,
         View(t)' # "none" => \/ task'[t].cpu_affinity = allowed[t]
                              \/ ~InGhost(t)
                              \/ /\ View(t) # "none" /\ m.type # "TASK_AFFINITY_CHANGED"
                                 /\ task'[t].cpu_affinity = task[t].cpu_affinity,
         task'[t].known => task'[t].cpu = c,
         rq' \in [Cpus -> SUBSET Tasks], mq' \in [Cpus -> SUBSET Tasks],
         Chosen' \in [Cpus -> Tasks \cup {NoTask}], current' \in [Cpus -> Tasks \cup {NoTask}],
         \A u \in Tasks, d \in Cpus : u # t => /\ (u \in rq'[d]) <=> (u \in rq[d])
                                               /\ (u \in mq'[d]) <=> (u \in mq[d])
                                               /\ (Chosen'[d] = u) <=> (Chosen[d] = u),
         \A d \in Cpus : d # c => mq'[d] = mq[d] /\ Chosen'[d] = Chosen[d],
         m.type = "TASK_AFFINITY_CHANGED" => (IsCurrent(t, c) => IsCurrent(t, c)'),
         PlaceOK(t)'
  PROVE  CfsInv'
<1>0. TypeOK /\ MessageInv /\ CpuInv /\ PlaceInv /\ AgentInv /\ failed = NoFailure /\ AgentOK(c) /\ KernelTypeOK
  BY AgentFacts DEF CfsInv
<1>1. /\ chan' = [chan EXCEPT ![c] = Tail(@)]
      /\ UNCHANGED <<kst, oncpu, via, ran, seq, assoc, ast, stale, rtla, boosted, budget, allowed, tick, preempt_curr,
                     pc, next, todo, target, imbalance, moving, onIdle, failed>>
      /\ ast[c] = "running" /\ pc[c] = "drain"
  BY DEF Handled, At, taskVars, agentVars, cfsVars, localVars, balanceVars
<1>2. /\ t \in Tasks /\ m \in Messages /\ assoc[t] = c /\ Home(t) = chan[c]
      /\ task[t].known => task[t].cpu = c
  BY <1>0, FirstMessage
<1>3. PICK q \in Seq(Messages) : q = chan[c]
  BY <1>0, ChanFacts
<1>4. PICK p : p = Tail(q)
  OBVIOUS
<1>5. /\ p \in Seq(Messages) /\ Len(q) \in Nat /\ Len(p) = Len(q) - 1 /\ m = q[1]
      /\ 1 \in 1 .. Len(q)
      /\ \A i \in 1 .. Len(p) : i + 1 \in 1 .. Len(q) /\ p[i] = q[i + 1]
  BY <1>3, <1>4, TailIndex
<1>6. chan'[c] = p /\ (\A d \in Cpus : d # c => chan'[d] = chan[d]) /\ chan' \in [Cpus -> Seq(Messages)]
  BY <1>0, <1>1, <1>3, <1>4, <1>5 DEF KernelTypeOK
<1>7. TypeOK'
  <2>1. KernelTypeOK'
    BY <1>0, <1>1, <1>6 DEF KernelTypeOK
  <2> QED BY <1>0, <1>1, <2>1 DEF TypeOK
<1>8. MessageInv'
  <2>1. MsgOK(t)'
    <3>1. task'[t] \in CfsTasks
      BY <1>2
    <3> QED BY <1>0, <1>1, <3>1, ReadMessage
  <2>2. ASSUME NEW u \in Tasks, u # t PROVE MsgOK(u)'
    <3>1. MsgOK(u) /\ task'[u] = task[u]
      BY <1>0, <2>2 DEF MessageInv
    <3> QED BY <1>0, <1>1, <2>2, <3>1, ReadOther
  <2> QED BY <2>1, <2>2 DEF MessageInv
<1>9. ASSUME NEW u \in Tasks PROVE PlaceOK(u)'
  <2>1. CASE u = t
    BY <2>1
  <2>2. CASE u # t
    BY <1>1, <2>2, SamePlace
  <2> QED BY <2>1, <2>2
<1>10. ASSUME NEW u \in Tasks, NEW d \in Cpus, d # c, IsCurrent(u, d) PROVE IsCurrent(u, d)'
  <2>1. u # t
    BY <1>2, <1>10 DEF IsCurrent
  <2> QED BY <1>10, <2>1 DEF IsCurrent, Is
<1>11. AgentInv'
  <2>1. OthersKeep(c)
    BY <1>1, <1>10 DEF OthersKeep
  <2>2. AgentOK(c)'
    BY <1>0, <1>1 DEF AgentOK, Balancing
  <2> QED BY <2>1, <2>2, OthersOK
<1>12. ASSUME NEW u \in Tasks PROVE RunOK(u)'
  <2>1. RunOK(u) /\ oncpu[u] \in Cpus \cup {NoCpu}
    BY <1>0 DEF CpuInv, KernelTypeOK
  <2>2. CASE oncpu[u] = NoCpu
    BY <1>1, <2>1, <2>2 DEF RunOK
  <2>3. CASE oncpu[u] # NoCpu
    <3>1. PICK d \in Cpus : d = oncpu[u]
      BY <2>1, <2>3
    <3>2. d # c /\ assoc[u] = d /\ IsCurrent(u, d)
      BY <1>1, <2>1, <2>3, <3>1 DEF RunOK
    <3>3. IsCurrent(u, d)' /\ Home(u)' = Home(u)
      BY <1>1, <1>6, <1>10, <3>2 DEF Home
    <3> QED BY <1>1, <2>1, <2>3, <3>1, <3>3 DEF RunOK
  <2> QED BY <2>2, <2>3
<1>13. ASSUME NEW d \in Cpus PROVE OffOK(d)'
  <2>1. OffOK(d) /\ chan[d] \in Seq(Messages)
    BY <1>0, ChanFacts DEF CpuInv
  <2>2. CASE d # c
    <3>1. PICK r \in Seq(Messages) : r = chan[d] /\ r = chan'[d]
      BY <1>6, <2>1, <2>2
    <3>2. pc'[d] = pc[d]
      BY <1>1, <2>2
    <3>3. ASSUME NEW i \in 1 .. Len(r), r[i].type \in OffCpu
          PROVE  /\ pc'[d] \in {"top", "drain"} /\ r[i].cpu = d
                 /\ IsCurrent(r[i].task, d)' /\ OnlyAffinity(r, r[i].task, i - 1)
      <4>1. /\ pc[d] \in {"top", "drain"} /\ r[i].cpu = d /\ IsCurrent(r[i].task, d)
            /\ OnlyAffinity(r, r[i].task, i - 1)
        BY <2>1, <3>1, <3>3 DEF OffOK
      <4>2. PICK u \in Tasks : u = r[i].task
        BY MessageFacts
      <4>3. IsCurrent(u, d)'
        BY <1>10, <2>2, <4>1, <4>2
      <4> QED BY ONLY <3>2, <4>1, <4>2, <4>3 DEF IsCurrent, Is
    <3> QED BY ONLY <3>1, <3>3 DEF OffOK, IsCurrent, Is
  <2>3. CASE d = c
    <3> SUFFICES ASSUME NEW i \in 1 .. Len(p), p[i].type \in OffCpu
                 PROVE  /\ pc[c] \in {"top", "drain"} /\ p[i].cpu = c
                        /\ IsCurrent(p[i].task, c)' /\ OnlyAffinity(p, p[i].task, i - 1)
      BY <1>1, <1>6, <2>3 DEF OffOK, IsCurrent, Is
    <3>1. PICK j \in 1 .. Len(q) : j = i + 1
      BY <1>5
    <3>2. p[i] = q[j] /\ q[j].task \in Tasks /\ j - 1 = i /\ i \in Nat /\ i >= 1
      BY <1>3, <1>5, <3>1, MessageFacts
    <3>3. PICK u \in Tasks : u = p[i].task
      BY <3>2
    <3>4. p[i].cpu = c /\ IsCurrent(u, c) /\ OnlyAffinity(q, u, i)
      BY <1>3, <2>1, <2>3, <3>2, <3>3 DEF OffOK
    <3>5. IsCurrent(u, c)'
      <4>1. CASE u # t
        BY <3>4, <4>1 DEF IsCurrent, Is
      <4>2. CASE u = t
        <5>1. 1 \in 1 .. i
          BY <3>2
        <5>2. m.type = "TASK_AFFINITY_CHANGED"
          BY <1>5, <3>4, <4>2, <5>1 DEF OnlyAffinity
        <5> QED BY <3>4, <4>2, <5>2
      <4> QED BY <4>1, <4>2
    <3>6. OnlyAffinity(p, u, i - 1)
      <4> SUFFICES ASSUME NEW k \in 1 .. i - 1, p[k].task = u PROVE p[k].type = "TASK_AFFINITY_CHANGED"
        BY DEF OnlyAffinity
      <4>1. k \in 1 .. Len(p) /\ k + 1 \in 1 .. i
        BY <1>5, <3>2
      <4>2. p[k] = q[k + 1]
        BY <1>5, <4>1
      <4> QED BY <3>4, <4>1, <4>2 DEF OnlyAffinity
    <3>7. IsCurrent(p[i].task, c)'
      BY <3>3, <3>5 DEF IsCurrent, Is
    <3> QED BY <1>1, <3>3, <3>4, <3>6, <3>7
  <2> QED BY <2>2, <2>3
<1>14. CpuInv'
  BY <1>0, <1>1, <1>12, <1>13 DEF CpuInv
<1> QED BY <1>0, <1>1, <1>7, <1>8, <1>9, <1>11, <1>14 DEF CfsInv, PlaceInv

\* What is known when a message m about task t is dispatched.
Dispatched(c, type, m, t) ==
  /\ At(c, "drain") /\ chan[c] # <<>> /\ m = Head(chan[c]) /\ m \in Messages /\ m.type = type
  /\ t \in Tasks /\ m.seq \in Nat /\ task[t].seqnum \in Nat /\ task[t].seqnum < m.seq /\ MayCome(View(t), m)
  /\ task \in [Tasks -> CfsTasks] /\ PlaceOK(t) /\ TypeOK
  /\ rq \in [Cpus -> SUBSET Tasks] /\ mq \in [Cpus -> SUBSET Tasks]
  /\ Chosen \in [Cpus -> Tasks \cup {NoTask}]
  /\ (type = "TASK_NEW") <=> ~task[t].known
  /\ task[t].known => /\ task[t].cpu = c
                      /\ task[t] \in [known : {TRUE}, state : States, on_rq : OnRqs, cpu : Cpus, seqnum : Nat,
                                      cpu_affinity : SUBSET Cpus]
  /\ \A d \in Cpus : /\ t \notin moving[d]
                     /\ d # c => t \notin rq[d] /\ t \notin mq[d] /\ Chosen[d] # t

\* This is known.
LEMMA DispatchFacts ==
  ASSUME CfsInv, NEW c \in Cpus, NEW type, Dispatching(c, type), NEW m, m = Msg(c), NEW t, t = m.task
  PROVE  Dispatched(c, type, m, t)
<1>1. /\ TypeOK /\ MessageInv /\ PlaceInv /\ AgentOK(c) /\ chan[c] # <<>> /\ m = Head(chan[c]) /\ pc[c] = "drain"
      /\ At(c, "drain") /\ m.type = type /\ ((type = "TASK_NEW") <=> ~task[t].known)
  BY AgentFacts DEF CfsInv, Dispatching, Msg, At
<1>2. /\ t \in Tasks /\ m \in Messages /\ MayCome(View(t), m) /\ task[t].seqnum < m.seq /\ m.seq \in Nat
      /\ task[t].known => task[t].cpu = c
  BY <1>1, FirstMessage
<1>3. /\ PlaceOK(t) /\ task[t] \in CfsTasks /\ task[t].seqnum \in Nat
  BY <1>1, <1>2, TaskFacts DEF PlaceInv
<1>4. task[t].known => task[t] \in [known : {TRUE}, state : States, on_rq : OnRqs, cpu : Cpus, seqnum : Nat,
                                    cpu_affinity : SUBSET Cpus]
  BY <1>3, RecordFacts
<1>5. moving[c] = {}
  BY <1>1 DEF AgentOK
<1>6. \A d \in Cpus : /\ t \notin moving[d]
                      /\ d # c => t \notin rq[d] /\ t \notin mq[d] /\ Chosen[d] # t
  BY <1>2, <1>3, <1>5 DEF PlaceOK, Waits
<1>7. /\ task \in [Tasks -> CfsTasks] /\ rq \in [Cpus -> SUBSET Tasks] /\ mq \in [Cpus -> SUBSET Tasks]
      /\ Chosen \in [Cpus -> Tasks \cup {NoTask}]
  BY <1>1, ChosenFacts DEF TypeOK
<1> QED BY <1>1, <1>2, <1>3, <1>4, <1>6, <1>7 DEF Dispatched

\* The agent puts task t, which has the CPU c, where it belongs.
LEMMA PlacedHere ==
  ASSUME NEW c \in Cpus, NEW t \in Tasks, task'[t].known => task'[t].cpu = c,
         \A d \in Cpus : /\ t \notin moving'[d]
                         /\ d # c => t \notin rq'[d] /\ t \notin mq'[d] /\ Chosen'[d] # t,
         (t \in rq'[c]) <=> (task'[t].known /\ task'[t].state = "kRunnable" /\ task'[t].on_rq = "kQueued"),
         (t \in mq'[c]) <=> (task'[t].known /\ task'[t].state = "kRunnable" /\ task'[t].on_rq = "kMigrating"),
         ~(task'[t].known /\ task'[t].state = "kRunnable" /\ task'[t].on_rq = "kDequeued"),
         Chosen'[c] = t => task'[t].known /\ task'[t].state # "kRunnable",
         task'[t].known /\ task'[t].state \in {"kRunning", "kDone"} => Chosen'[c] = t,
         task'[t].state # "kRunnable" => task'[t].on_rq = "kDequeued"
  PROVE  PlaceOK(t)'
BY DEF PlaceOK, Waits, Is

\* An agent that reads messages is not choosing.
LEMMA HandlerChosen ==
  ASSUME CfsInv, NEW c \in Cpus, At(c, "drain")
  PROVE  /\ Chosen[c] = current[c]
         /\ UNCHANGED <<current, pc, next>> => Chosen' = Chosen
         /\ UNCHANGED <<pc, next>> =>
              \A x : current' = [current EXCEPT ![c] = x] => Chosen' = [Chosen EXCEPT ![c] = x]
<1>1. TypeOK /\ pc[c] = "drain" /\ current \in [Cpus -> Tasks \cup {NoTask}]
  BY DEF CfsInv, TypeOK, At
<1>2. Chosen[c] = current[c]
  BY <1>1, ChosenFacts DEF Picking
<1>3. ASSUME NEW x, UNCHANGED <<pc, next>>, current' = [current EXCEPT ![c] = x]
      PROVE  Chosen' = [Chosen EXCEPT ![c] = x]
  <2>1. \A d \in Cpus : current'[d] = IF d = c THEN x ELSE current[d]
    BY <1>1, <1>3
  <2> QED BY <1>1, <1>3, <2>1 DEF Chosen, Picking
<1> QED BY <1>2, <1>3, ChosenSame

\* What a handler makes of `current'.
LEMMA HandlerCurrent ==
  ASSUME CfsInv, NEW c \in Cpus, Handled(c), NEW x \in Tasks \cup {NoTask},
         current' = [current EXCEPT ![c] = x] \/ UNCHANGED current
  PROVE  current' \in [Cpus -> Tasks \cup {NoTask}] /\ UNCHANGED <<pc, next>>
<1>1. current \in [Cpus -> Tasks \cup {NoTask}]
  BY DEF CfsInv, TypeOK
<1> QED BY <1>1 DEF Handled, localVars

\* A new task waits for a CPU, or for its wakeup.
LEMMA TaskNewHandled ==
  ASSUME CfsInv, NEW c \in Cpus, TaskNew(c)
  PROVE  CfsInv'
<1>1. PICK m : m = Msg(c)
  OBVIOUS
<1>2. PICK t : t = m.task
  OBVIOUS
<1>30. PICK mask \in AffinityRead(t) :
      /\ Dispatching(c, "TASK_NEW") /\ Handled(c) /\ UNCHANGED <<current, rq>>
      /\ mq' = IF m.flag THEN With(mq, c, t) ELSE mq
      /\ task' = [task EXCEPT ![t] =
           [known |-> TRUE, state |-> IF m.flag THEN "kRunnable" ELSE "kBlocked",
            on_rq |-> IF m.flag THEN "kMigrating" ELSE "kDequeued",
            cpu |-> c, seqnum |-> m.seq, cpu_affinity |-> mask]]
  BY <1>1, <1>2 DEF TaskNew
<1>34. current' \in [Cpus -> Tasks \cup {NoTask}] /\ Chosen' = Chosen
  BY <1>30, HandlerCurrent, HandlerChosen DEF Dispatching
<1>3. /\ Dispatching(c, "TASK_NEW") /\ Handled(c) /\ UNCHANGED <<Chosen, rq>>
      /\ mq' = IF m.flag THEN With(mq, c, t) ELSE mq
      /\ task' = [task EXCEPT ![t] =
           [known |-> TRUE, state |-> IF m.flag THEN "kRunnable" ELSE "kBlocked",
            on_rq |-> IF m.flag THEN "kMigrating" ELSE "kDequeued",
            cpu |-> c, seqnum |-> m.seq, cpu_affinity |-> mask]]
  BY <1>30, <1>34
<1>31. PICK type : type = "TASK_NEW"
  OBVIOUS
<1>32. Dispatching(c, type)
  BY <1>3, <1>31
<1>33. Dispatched(c, type, m, t)
  BY ONLY CfsInv, c \in Cpus, <1>1, <1>2, <1>32, DispatchFacts
<1>4. /\ At(c, "drain") /\ chan[c] # <<>> /\ m = Head(chan[c]) /\ m \in Messages /\ m.type = "TASK_NEW"
      /\ t \in Tasks /\ m.seq \in Nat /\ MayCome(View(t), m)
      /\ task \in [Tasks -> CfsTasks] /\ PlaceOK(t) /\ TypeOK
      /\ rq \in [Cpus -> SUBSET Tasks] /\ mq \in [Cpus -> SUBSET Tasks]
      /\ Chosen \in [Cpus -> Tasks \cup {NoTask}] /\ ~task[t].known
      /\ \A d \in Cpus : /\ t \notin moving[d]
                         /\ d # c => t \notin rq[d] /\ t \notin mq[d] /\ Chosen[d] # t
  BY <1>31, <1>33 DEF Dispatched
<1>5. m.flag \in BOOLEAN /\ mask \in SUBSET Cpus /\ (mask = allowed[t] \/ ~InGhost(t))
  BY <1>4 DEF Messages, TypeOK, AffinityRead
<1>6. PICK r : r = [known |-> TRUE, state |-> IF m.flag THEN "kRunnable" ELSE "kBlocked",
                    on_rq |-> IF m.flag THEN "kMigrating" ELSE "kDequeued",
                    cpu |-> c, seqnum |-> m.seq, cpu_affinity |-> mask]
  OBVIOUS
<1>7. /\ r \in CfsTasks /\ r.known /\ r.cpu = c /\ r.seqnum = m.seq /\ r.cpu_affinity = mask
      /\ r.state = IF m.flag THEN "kRunnable" ELSE "kBlocked"
      /\ r.on_rq = IF m.flag THEN "kMigrating" ELSE "kDequeued"
  BY <1>4, <1>5, <1>6 DEF CfsTasks, States, OnRqs
<1>8. task'[t] = r /\ task' \in [Tasks -> CfsTasks] /\ \A u \in Tasks : u # t => task'[u] = task[u]
  BY <1>3, <1>4, <1>6, <1>7
<1>9. View(t)' = After(View(t), m)
  BY <1>4, <1>5, <1>7, <1>8 DEF View, After, Is
<1>10. /\ mq' \in [Cpus -> SUBSET Tasks] /\ rq' \in [Cpus -> SUBSET Tasks] /\ Chosen' \in [Cpus -> Tasks \cup {NoTask}]
       /\ mq'[c] = IF m.flag THEN mq[c] \cup {t} ELSE mq[c]
       /\ \A d \in Cpus : d # c => mq'[d] = mq[d]
  BY <1>3, <1>4 DEF With
<1>11. t \notin rq[c] /\ t \notin mq[c] /\ Chosen[c] # t
  BY <1>4 DEF PlaceOK, Waits
<1>12. moving' = moving
  BY <1>3 DEF Handled, localVars, balanceVars
<1>13. PlaceOK(t)'
  BY <1>3, <1>4, <1>5, <1>7, <1>8, <1>10, <1>11, <1>12, PlacedHere
<1>14. \A u \in Tasks, d \in Cpus : u # t => /\ (u \in rq'[d]) <=> (u \in rq[d])
                                             /\ (u \in mq'[d]) <=> (u \in mq[d])
                                             /\ (Chosen'[d] = u) <=> (Chosen[d] = u)
  BY <1>3, <1>10
<1>15. /\ Handled(c) /\ task'[t].seqnum <= m.seq /\ task'[t].seqnum = m.seq /\ (task'[t].cpu_affinity = allowed[t] \/ ~InGhost(t))
       /\ task'[t].cpu = c /\ m.type # "TASK_AFFINITY_CHANGED"
       /\ \A d \in Cpus : d # c => mq'[d] = mq[d] /\ Chosen'[d] = Chosen[d]
  BY <1>3, <1>4, <1>5, <1>7, <1>8, <1>10
<1> QED BY ONLY CfsInv, c \in Cpus, <1>2, <1>34, <1>4, <1>8, <1>9, <1>10, <1>13, <1>14, <1>15, HandlerKeeps

\* A task that wakes up waits for a CPU.
LEMMA TaskRunnableHandled ==
  ASSUME CfsInv, NEW c \in Cpus, TaskRunnable(c)
  PROVE  CfsInv'
<1>1. PICK m : m = Msg(c)
  OBVIOUS
<1>2. PICK t : t = m.task
  OBVIOUS
<1>3. Dispatching(c, "TASK_WAKEUP")
  BY DEF TaskRunnable
<1>31. PICK type : type = "TASK_WAKEUP"
  OBVIOUS
<1>32. Dispatching(c, type)
  BY <1>3, <1>31
<1>33. Dispatched(c, type, m, t)
  BY ONLY CfsInv, c \in Cpus, <1>1, <1>2, <1>32, DispatchFacts
<1>4. /\ At(c, "drain") /\ chan[c] # <<>> /\ m = Head(chan[c]) /\ m \in Messages /\ m.type = "TASK_WAKEUP"
      /\ t \in Tasks /\ m.seq \in Nat /\ task[t].seqnum \in Nat /\ task[t].seqnum < m.seq /\ MayCome(View(t), m)
      /\ task \in [Tasks -> CfsTasks] /\ PlaceOK(t) /\ TypeOK
      /\ rq \in [Cpus -> SUBSET Tasks] /\ mq \in [Cpus -> SUBSET Tasks]
      /\ Chosen \in [Cpus -> Tasks \cup {NoTask}] /\ task[t].known /\ task[t].cpu = c
      /\ task[t] \in [known : {TRUE}, state : States, on_rq : OnRqs, cpu : Cpus, seqnum : Nat,
                      cpu_affinity : SUBSET Cpus]
      /\ \A d \in Cpus : /\ t \notin moving[d]
                         /\ d # c => t \notin rq[d] /\ t \notin mq[d] /\ Chosen[d] # t
  BY <1>31, <1>33 DEF Dispatched
<1>5. View(t) = "blocked" /\ Is(t, "kBlocked") /\ task[t].on_rq = "kDequeued"
  BY <1>4 DEF MayCome, View, PlaceOK, Is
<1>6. /\ task[t].cpu = c /\ AdvanceOk(m) /\ ValidState(task[t].state, "kRunnable")
      /\ ValidOnRq(task[t].on_rq, "kMigrating")
  BY <1>2, <1>4, <1>5 DEF AdvanceOk, ValidState, ValidOnRq, Is
<1>70. PICK x \in Tasks \cup {NoTask} : x = IF Chosen[c] = t THEN NoTask ELSE Chosen[c]
  BY <1>4
<1>71. Chosen[c] = current[c]
  BY <1>4, HandlerChosen
<1>72. /\ task' = [task EXCEPT ![t].state = "kRunnable", ![t].on_rq = "kMigrating", ![t].seqnum = m.seq]
       /\ current' = [current EXCEPT ![c] = x]
       /\ mq' = With(mq, c, t) /\ UNCHANGED rq /\ Handled(c)
  BY <1>1, <1>2, <1>6, <1>70, <1>71 DEF TaskRunnable
<1>73. current' \in [Cpus -> Tasks \cup {NoTask}] /\ Chosen' = [Chosen EXCEPT ![c] = x]
  BY <1>4, <1>72, HandlerCurrent, HandlerChosen
<1>7. /\ task' = [task EXCEPT ![t].state = "kRunnable", ![t].on_rq = "kMigrating", ![t].seqnum = m.seq]
      /\ Chosen' = [Chosen EXCEPT ![c] = IF @ = t THEN NoTask ELSE @]
      /\ mq' = With(mq, c, t) /\ UNCHANGED rq /\ Handled(c)
  BY <1>70, <1>72, <1>73
<1>8. PICK r : r = [task[t] EXCEPT !.state = "kRunnable", !.on_rq = "kMigrating", !.seqnum = m.seq]
  OBVIOUS
<1>9. /\ r \in CfsTasks /\ r.known /\ r.cpu = c /\ r.seqnum = m.seq /\ r.cpu_affinity = task[t].cpu_affinity
      /\ r.state = "kRunnable" /\ r.on_rq = "kMigrating"
  BY <1>4, <1>8 DEF CfsTasks, States, OnRqs
<1>10. task'[t] = r /\ task' \in [Tasks -> CfsTasks] /\ \A u \in Tasks : u # t => task'[u] = task[u]
  BY <1>4, <1>7, <1>8, <1>9
<1>11. View(t)' = After(View(t), m)
  BY <1>4, <1>9, <1>10 DEF View, After, Is
<1>12. /\ mq' \in [Cpus -> SUBSET Tasks] /\ rq' \in [Cpus -> SUBSET Tasks] /\ Chosen' \in [Cpus -> Tasks \cup {NoTask}]
       /\ mq'[c] = mq[c] \cup {t} /\ Chosen'[c] = IF Chosen[c] = t THEN NoTask ELSE Chosen[c]
       /\ \A d \in Cpus : d # c => mq'[d] = mq[d] /\ Chosen'[d] = Chosen[d]
  BY <1>4, <1>7 DEF With
<1>13. t \notin rq[c] /\ t \notin mq[c]
  BY <1>4, <1>5 DEF PlaceOK, Waits, Is
<1>14. moving' = moving /\ \A u \in Tasks : u # NoTask
  BY <1>7, CfsAssumption DEF Handled, localVars, balanceVars
<1>15. PlaceOK(t)'
  BY <1>4, <1>7, <1>9, <1>10, <1>12, <1>13, <1>14, PlacedHere
<1>16. \A u \in Tasks, d \in Cpus : u # t => /\ (u \in rq'[d]) <=> (u \in rq[d])
                                             /\ (u \in mq'[d]) <=> (u \in mq[d])
                                             /\ (Chosen'[d] = u) <=> (Chosen[d] = u)
  BY <1>7, <1>12, <1>14
<1>17. View(t) # "none" /\ m.type # "TASK_AFFINITY_CHANGED"
  BY <1>4, <1>5
<1>18. /\ Handled(c) /\ task'[t].seqnum <= m.seq /\ task'[t].seqnum = m.seq
       /\ task'[t].cpu_affinity = task[t].cpu_affinity /\ task'[t].cpu = c
       /\ \A d \in Cpus : d # c => mq'[d] = mq[d] /\ Chosen'[d] = Chosen[d]
  BY <1>4, <1>7, <1>9, <1>10, <1>12
<1> QED BY ONLY CfsInv, c \in Cpus, <1>2, <1>73, <1>4, <1>10, <1>11, <1>12, <1>15, <1>16, <1>17, <1>18, HandlerKeeps

\* A departed or dead task is forgotten, or marked if it is the current one.
LEMMA TaskDoneHandled ==
  ASSUME CfsInv, NEW c \in Cpus, HandleTaskDone(c)
  PROVE  CfsInv'
<1>1. PICK m : m = Msg(c)
  OBVIOUS
<1>2. PICK t : t = m.task
  OBVIOUS
<1>3. PICK type : type \in {"TASK_DEPARTED", "TASK_DEAD"} /\ Dispatching(c, type)
  BY DEF HandleTaskDone
<1>4. Dispatched(c, type, m, t)
  BY ONLY CfsInv, c \in Cpus, <1>1, <1>2, <1>3, DispatchFacts
<1>5. /\ At(c, "drain") /\ chan[c] # <<>> /\ m = Head(chan[c]) /\ m \in Messages /\ m.type = type
      /\ t \in Tasks /\ m.seq \in Nat /\ task[t].seqnum \in Nat /\ task[t].seqnum < m.seq /\ MayCome(View(t), m)
      /\ task \in [Tasks -> CfsTasks] /\ PlaceOK(t)
      /\ rq \in [Cpus -> SUBSET Tasks] /\ mq \in [Cpus -> SUBSET Tasks]
      /\ Chosen \in [Cpus -> Tasks \cup {NoTask}] /\ task[t].known /\ task[t].cpu = c
      /\ task[t] \in [known : {TRUE}, state : States, on_rq : OnRqs, cpu : Cpus, seqnum : Nat,
                      cpu_affinity : SUBSET Cpus]
      /\ \A d \in Cpus : /\ t \notin moving[d]
                         /\ d # c => t \notin rq[d] /\ t \notin mq[d] /\ Chosen[d] # t
  BY <1>3, <1>4 DEF Dispatched
<1>6. View(t) # "none" /\ ~Is(t, "kDone") /\ task[t].state \in States
  BY <1>3, <1>5 DEF MayCome, View
<1>7. ValidState(task[t].state, "kDone")
  BY <1>6 DEF ValidState, Is, States
<1>8. PICK r : r = IF Chosen[c] = t THEN [task[t] EXCEPT !.state = "kDone"] ELSE FreeTask
  OBVIOUS
<1>91. /\ task' = [task EXCEPT ![t] = r]
       /\ rq' = (IF Chosen[c] = t THEN rq ELSE Without(rq, c, t))
       /\ mq' = Without(mq, c, t) /\ UNCHANGED current /\ Handled(c)
  <2>1. Chosen[c] = current[c]
    BY <1>5, HandlerChosen
  <2> QED BY <1>1, <1>2, <1>5, <1>7, <1>8, <2>1 DEF HandleTaskDone
<1>92. current' \in [Cpus -> Tasks \cup {NoTask}] /\ Chosen' = Chosen
  BY <1>5, <1>91, HandlerCurrent, HandlerChosen
<1>9. /\ task' = [task EXCEPT ![t] = r]
      /\ rq' = (IF Chosen[c] = t THEN rq ELSE Without(rq, c, t))
      /\ mq' = Without(mq, c, t) /\ Chosen' = Chosen /\ Handled(c)
  BY <1>91, <1>92
<1>10. /\ r \in CfsTasks /\ r.seqnum <= m.seq /\ (r.known => r.state = "kDone" /\ r.cpu = c)
       /\ (r.known <=> Chosen[c] = t) /\ r.state # "kRunnable" /\ r.state # "kRunning"
       /\ (Chosen[c] = t => r.on_rq = task[t].on_rq)
       /\ (Chosen[c] # t => r.on_rq = "kDequeued" /\ r.state = "kBlocked")
  <2>1. CASE Chosen[c] = t
    <3>1. r = [task[t] EXCEPT !.state = "kDone"]
      BY <1>8, <2>1
    <3>2. /\ r \in [known : {TRUE}, state : States, on_rq : OnRqs, cpu : Cpus, seqnum : Nat, cpu_affinity : SUBSET Cpus]
          /\ r.seqnum = task[t].seqnum /\ r.known /\ r.state = "kDone" /\ r.cpu = c /\ r.on_rq = task[t].on_rq
      BY <1>5, <3>1 DEF States
    <3>3. r \in CfsTasks
      BY <3>2 DEF CfsTasks
    <3>4. task[t].seqnum \in Nat /\ m.seq \in Nat /\ task[t].seqnum < m.seq
      BY <1>5
    <3>5. r.seqnum <= m.seq
      BY <3>2, <3>4
    <3> QED BY <2>1, <3>2, <3>3, <3>5
  <2>2. CASE Chosen[c] # t
    BY <1>5, <1>8, <2>2 DEF CfsTasks, FreeTask
  <2> QED BY <2>1, <2>2
<1>11. task'[t] = r /\ task' \in [Tasks -> CfsTasks] /\ \A u \in Tasks : u # t => task'[u] = task[u]
  BY <1>5, <1>9, <1>10
<1>12. View(t)' = "none"
  BY <1>10, <1>11 DEF View, Is
<1>13. View(t)' = After(View(t), m)
  BY <1>3, <1>5, <1>12 DEF After
<1>14. /\ rq' \in [Cpus -> SUBSET Tasks] /\ mq' \in [Cpus -> SUBSET Tasks] /\ Chosen' \in [Cpus -> Tasks \cup {NoTask}]
       /\ mq'[c] = mq[c] \ {t} /\ (\A d \in Cpus : d # c => mq'[d] = mq[d] /\ rq'[d] = rq[d] /\ Chosen'[d] = Chosen[d])
       /\ rq'[c] = (IF Chosen[c] = t THEN rq[c] ELSE rq[c] \ {t}) /\ Chosen'[c] = Chosen[c]
  BY <1>5, <1>9 DEF Without
<1>15. Chosen[c] = t => t \notin rq[c] /\ task[t].on_rq = "kDequeued"
  BY <1>5 DEF PlaceOK, Waits
<1>16. moving' = moving
  BY <1>9 DEF Handled, localVars, balanceVars
<1>17. PlaceOK(t)'
  <2>1. t \notin rq'[c] /\ t \notin mq'[c]
    BY <1>14, <1>15
  <2>2. r.on_rq = "kDequeued"
    BY <1>10, <1>15
  <2> QED BY <1>5, <1>10, <1>11, <1>14, <1>16, <2>1, <2>2, PlacedHere
<1>18. \A u \in Tasks, d \in Cpus : u # t => /\ (u \in rq'[d]) <=> (u \in rq[d])
                                             /\ (u \in mq'[d]) <=> (u \in mq[d])
                                             /\ (Chosen'[d] = u) <=> (Chosen[d] = u)
  BY <1>14
<1>19. /\ Handled(c) /\ task'[t].seqnum <= m.seq /\ m.type # "TASK_AFFINITY_CHANGED"
       /\ (task'[t].known => task'[t].cpu = c)
       /\ \A d \in Cpus : d # c => mq'[d] = mq[d] /\ Chosen'[d] = Chosen[d]
  BY <1>3, <1>5, <1>9, <1>10, <1>11, <1>14
<1> QED BY ONLY CfsInv, c \in Cpus, <1>2, <1>92, <1>5, <1>11, <1>12, <1>13, <1>14, <1>17, <1>18, <1>19, HandlerKeeps

\* The task of a message that it has left the CPU is the current one.
LEMMA OffCpuFacts ==
  ASSUME CfsInv, NEW c \in Cpus, NEW type, type \in OffCpu, NEW m, NEW t, t = m.task, Dispatched(c, type, m, t)
  PROVE  /\ m.cpu = c /\ IsCurrent(t, c) /\ task[t].on_rq = "kDequeued" /\ AdvanceOk(m)
         /\ t \notin rq[c] /\ t \notin mq[c]
<1>1. /\ chan[c] # <<>> /\ m = Head(chan[c]) /\ m.type = type /\ t \in Tasks /\ PlaceOK(t) /\ TypeOK
      /\ m.seq \in Nat /\ task[t].seqnum \in Nat /\ task[t].seqnum < m.seq
  BY DEF Dispatched
<1>2. PICK q \in Seq(Messages) : q = chan[c]
  BY <1>1, ChanFacts
<1>3. 1 \in 1 .. Len(q) /\ m = q[1]
  BY <1>1, <1>2
<1>4. OffOK(c)
  BY DEF CfsInv, CpuInv
<1>5. m.cpu = c /\ IsCurrent(t, c)
  BY <1>1, <1>2, <1>3, <1>4 DEF OffOK
<1> QED BY <1>1, <1>5 DEF IsCurrent, PlaceOK, Waits, Is, AdvanceOk

\* A task that is preempted or has yielded goes back to the run queue.
LEMMA OffCpuHandled ==
  ASSUME CfsInv, NEW c \in Cpus, TaskYield(c) \/ TaskPreempted(c)
  PROVE  CfsInv'
<1>1. PICK m : m = Msg(c)
  OBVIOUS
<1>2. PICK t : t = m.task
  OBVIOUS
<1>3. PICK type : type \in {"TASK_YIELD", "TASK_PREEMPT"} /\ Dispatching(c, type)
  BY DEF TaskYield, TaskPreempted
<1>4. Dispatched(c, type, m, t)
  BY ONLY CfsInv, c \in Cpus, <1>1, <1>2, <1>3, DispatchFacts
<1>5. /\ At(c, "drain") /\ chan[c] # <<>> /\ m = Head(chan[c]) /\ m \in Messages /\ m.type = type
      /\ t \in Tasks /\ m.seq \in Nat /\ task[t].seqnum \in Nat /\ task[t].seqnum < m.seq /\ MayCome(View(t), m)
      /\ task \in [Tasks -> CfsTasks] /\ PlaceOK(t)
      /\ rq \in [Cpus -> SUBSET Tasks] /\ mq \in [Cpus -> SUBSET Tasks]
      /\ Chosen \in [Cpus -> Tasks \cup {NoTask}] /\ task[t].known /\ task[t].cpu = c
      /\ task[t] \in [known : {TRUE}, state : States, on_rq : OnRqs, cpu : Cpus, seqnum : Nat,
                      cpu_affinity : SUBSET Cpus]
      /\ \A d \in Cpus : /\ t \notin moving[d]
                         /\ d # c => t \notin rq[d] /\ t \notin mq[d] /\ Chosen[d] # t
  BY <1>3, <1>4 DEF Dispatched
<1>6. type \in OffCpu
  BY <1>3 DEF OffCpu
<1>7. /\ m.cpu = c /\ IsCurrent(t, c) /\ task[t].on_rq = "kDequeued" /\ AdvanceOk(m)
      /\ t \notin rq[c] /\ t \notin mq[c]
  BY ONLY CfsInv, c \in Cpus, <1>2, <1>4, <1>6, OffCpuFacts
<1>8. OffCpuOk(c, m)
  <2>1. Chosen[c] = current[c]
    BY <1>5, HandlerChosen
  <2> QED BY <1>2, <1>7, <2>1 DEF OffCpuOk, IsCurrent, Is, ValidState, ValidOnRq
<1>9. PutPrevTask(c, t, m.seq) /\ Handled(c)
  BY <1>1, <1>2, <1>8 DEF TaskYield, TaskPreempted
<1>91. current' \in [Cpus -> Tasks \cup {NoTask}] /\ Chosen' = [Chosen EXCEPT ![c] = NoTask]
  <2>1. current' = [current EXCEPT ![c] = NoTask]
    BY <1>9 DEF PutPrevTask
  <2> QED BY <1>5, <1>9, <2>1, HandlerCurrent, HandlerChosen
<1>10. PICK stays : stays = (c \in task[t].cpu_affinity)
  OBVIOUS
<1>11. PICK r : r = [task[t] EXCEPT !.state = "kRunnable", !.seqnum = m.seq,
                                    !.on_rq = IF stays THEN "kQueued" ELSE "kMigrating"]
  OBVIOUS
<1>12. /\ task' = [task EXCEPT ![t] = r] /\ Chosen' = [Chosen EXCEPT ![c] = NoTask]
       /\ rq' = (IF stays THEN With(rq, c, t) ELSE Without(rq, c, t))
       /\ mq' = (IF stays THEN mq ELSE With(mq, c, t))
  BY <1>5, <1>9, <1>91, <1>10, <1>11 DEF PutPrevTask
<1>13. /\ r \in CfsTasks /\ r.known /\ r.cpu = c /\ r.seqnum = m.seq /\ r.cpu_affinity = task[t].cpu_affinity
       /\ r.state = "kRunnable" /\ r.on_rq = IF stays THEN "kQueued" ELSE "kMigrating"
  BY <1>5, <1>11 DEF CfsTasks, States, OnRqs
<1>14. task'[t] = r /\ task' \in [Tasks -> CfsTasks] /\ \A u \in Tasks : u # t => task'[u] = task[u]
  BY <1>5, <1>12, <1>13
<1>15. View(t)' = "ready" /\ View(t) # "none"
  BY <1>7, <1>13, <1>14 DEF View, Is, IsCurrent
<1>16. View(t)' = After(View(t), m)
  BY <1>3, <1>5, <1>15 DEF After
<1>17. /\ rq' \in [Cpus -> SUBSET Tasks] /\ mq' \in [Cpus -> SUBSET Tasks] /\ Chosen' \in [Cpus -> Tasks \cup {NoTask}]
       /\ mq'[c] = (IF stays THEN mq[c] ELSE mq[c] \cup {t}) /\ Chosen'[c] = NoTask
       /\ rq'[c] = (IF stays THEN rq[c] \cup {t} ELSE rq[c] \ {t})
       /\ \A d \in Cpus : d # c => mq'[d] = mq[d] /\ rq'[d] = rq[d] /\ Chosen'[d] = Chosen[d]
  BY <1>5, <1>12 DEF With, Without
<1>18. moving' = moving /\ (\A u \in Tasks : u # NoTask) /\ Chosen[c] = t
  BY <1>7, <1>9, CfsAssumption DEF Handled, localVars, balanceVars, IsCurrent
<1>19. PlaceOK(t)'
  BY <1>5, <1>7, <1>13, <1>14, <1>17, <1>18, PlacedHere
<1>20. \A u \in Tasks, d \in Cpus : u # t => /\ (u \in rq'[d]) <=> (u \in rq[d])
                                             /\ (u \in mq'[d]) <=> (u \in mq[d])
                                             /\ (Chosen'[d] = u) <=> (Chosen[d] = u)
  BY <1>17, <1>18
<1>21. /\ Handled(c) /\ task'[t].seqnum <= m.seq /\ task'[t].seqnum = m.seq /\ m.type # "TASK_AFFINITY_CHANGED"
       /\ task'[t].cpu_affinity = task[t].cpu_affinity /\ task'[t].cpu = c
       /\ \A d \in Cpus : d # c => mq'[d] = mq[d] /\ Chosen'[d] = Chosen[d]
  BY <1>3, <1>5, <1>9, <1>13, <1>14, <1>17
<1> QED BY ONLY CfsInv, c \in Cpus, <1>2, <1>91, <1>5, <1>14, <1>15, <1>16, <1>17, <1>19, <1>20, <1>21, HandlerKeeps

\* A blocked task stays the current one for now.
LEMMA TaskBlockedHandled ==
  ASSUME CfsInv, NEW c \in Cpus, TaskBlocked(c)
  PROVE  CfsInv'
<1>1. PICK m : m = Msg(c)
  OBVIOUS
<1>2. PICK t : t = m.task
  OBVIOUS
<1>3. PICK type : type = "TASK_BLOCKED" /\ Dispatching(c, type)
  BY DEF TaskBlocked
<1>4. Dispatched(c, type, m, t)
  BY ONLY CfsInv, c \in Cpus, <1>1, <1>2, <1>3, DispatchFacts
<1>5. /\ At(c, "drain") /\ chan[c] # <<>> /\ m = Head(chan[c]) /\ m \in Messages /\ m.type = type
      /\ t \in Tasks /\ m.seq \in Nat /\ task[t].seqnum \in Nat /\ task[t].seqnum < m.seq /\ MayCome(View(t), m)
      /\ task \in [Tasks -> CfsTasks] /\ PlaceOK(t)
      /\ rq \in [Cpus -> SUBSET Tasks] /\ mq \in [Cpus -> SUBSET Tasks]
      /\ Chosen \in [Cpus -> Tasks \cup {NoTask}] /\ task[t].known /\ task[t].cpu = c
      /\ task[t] \in [known : {TRUE}, state : States, on_rq : OnRqs, cpu : Cpus, seqnum : Nat,
                      cpu_affinity : SUBSET Cpus]
      /\ \A d \in Cpus : /\ t \notin moving[d]
                         /\ d # c => t \notin rq[d] /\ t \notin mq[d] /\ Chosen[d] # t
  BY <1>3, <1>4 DEF Dispatched
<1>6. type \in OffCpu
  BY <1>3 DEF OffCpu
<1>7. /\ m.cpu = c /\ IsCurrent(t, c) /\ task[t].on_rq = "kDequeued" /\ AdvanceOk(m)
      /\ t \notin rq[c] /\ t \notin mq[c]
  BY ONLY CfsInv, c \in Cpus, <1>2, <1>4, <1>6, OffCpuFacts
<1>8. Chosen[c] = t /\ ValidState(task[t].state, "kBlocked")
  BY <1>7 DEF IsCurrent, Is, ValidState
<1>9. PICK r : r = [task[t] EXCEPT !.state = "kBlocked", !.seqnum = m.seq]
  OBVIOUS
<1>91. /\ task' = [task EXCEPT ![t].state = "kBlocked", ![t].seqnum = m.seq]
       /\ UNCHANGED current /\ rq' = rq /\ mq' = mq /\ Handled(c)
  <2>1. Chosen[c] = current[c]
    BY <1>5, HandlerChosen
  <2> QED BY <1>1, <1>2, <1>7, <1>8, <2>1 DEF TaskBlocked
<1>92. current' \in [Cpus -> Tasks \cup {NoTask}] /\ Chosen' = Chosen
  BY <1>5, <1>91, HandlerCurrent, HandlerChosen
<1>10. /\ task' = [task EXCEPT ![t].state = "kBlocked", ![t].seqnum = m.seq]
       /\ Chosen' = Chosen /\ rq' = rq /\ mq' = mq /\ Handled(c)
  BY <1>91, <1>92
<1>11. /\ r \in CfsTasks /\ r.known /\ r.cpu = c /\ r.seqnum = m.seq /\ r.cpu_affinity = task[t].cpu_affinity
       /\ r.state = "kBlocked" /\ r.on_rq = "kDequeued"
  BY <1>5, <1>7, <1>9 DEF CfsTasks, States, OnRqs
<1>12. task'[t] = r /\ task' \in [Tasks -> CfsTasks] /\ \A u \in Tasks : u # t => task'[u] = task[u]
  BY <1>5, <1>9, <1>10, <1>11
<1>13. View(t)' = "blocked" /\ View(t) # "none"
  BY <1>7, <1>11, <1>12 DEF View, Is, IsCurrent
<1>14. View(t)' = After(View(t), m)
  BY <1>3, <1>5, <1>13 DEF After
<1>15. moving' = moving
  BY <1>10 DEF Handled, localVars, balanceVars
<1>16. PlaceOK(t)'
  BY <1>5, <1>7, <1>8, <1>10, <1>11, <1>12, <1>15, PlacedHere
<1>17. /\ Handled(c) /\ task'[t].seqnum <= m.seq /\ task'[t].seqnum = m.seq /\ m.type # "TASK_AFFINITY_CHANGED"
       /\ task'[t].cpu_affinity = task[t].cpu_affinity /\ task'[t].cpu = c
       /\ rq' \in [Cpus -> SUBSET Tasks] /\ mq' \in [Cpus -> SUBSET Tasks] /\ Chosen' \in [Cpus -> Tasks \cup {NoTask}]
       /\ \A d \in Cpus : d # c => mq'[d] = mq[d] /\ Chosen'[d] = Chosen[d]
  BY <1>3, <1>5, <1>10, <1>11, <1>12
<1>18. \A u \in Tasks, d \in Cpus : u # t => /\ (u \in rq'[d]) <=> (u \in rq[d])
                                             /\ (u \in mq'[d]) <=> (u \in mq[d])
                                             /\ (Chosen'[d] = u) <=> (Chosen[d] = u)
  BY <1>10
<1> QED BY ONLY CfsInv, c \in Cpus, <1>2, <1>92, <1>5, <1>12, <1>13, <1>14, <1>16, <1>17, <1>18, HandlerKeeps

\* A task that waits at a CPU it may no longer use has to move.
LEMMA AffinityHandled ==
  ASSUME CfsInv, NEW c \in Cpus, TaskAffinityChanged(c)
  PROVE  CfsInv'
<1>1. PICK m : m = Msg(c)
  OBVIOUS
<1>2. PICK t : t = m.task
  OBVIOUS
<1>3. PICK type : type = "TASK_AFFINITY_CHANGED" /\ Dispatching(c, type)
  BY DEF TaskAffinityChanged
<1>4. Dispatched(c, type, m, t)
  BY ONLY CfsInv, c \in Cpus, <1>1, <1>2, <1>3, DispatchFacts
<1>5. /\ At(c, "drain") /\ chan[c] # <<>> /\ m = Head(chan[c]) /\ m \in Messages /\ m.type = type
      /\ t \in Tasks /\ m.seq \in Nat /\ task[t].seqnum \in Nat /\ task[t].seqnum < m.seq /\ MayCome(View(t), m)
      /\ task \in [Tasks -> CfsTasks] /\ PlaceOK(t) /\ TypeOK
      /\ rq \in [Cpus -> SUBSET Tasks] /\ mq \in [Cpus -> SUBSET Tasks]
      /\ Chosen \in [Cpus -> Tasks \cup {NoTask}] /\ task[t].known /\ task[t].cpu = c
      /\ task[t] \in [known : {TRUE}, state : States, on_rq : OnRqs, cpu : Cpus, seqnum : Nat,
                      cpu_affinity : SUBSET Cpus]
      /\ \A d \in Cpus : /\ t \notin moving[d]
                         /\ d # c => t \notin rq[d] /\ t \notin mq[d] /\ Chosen[d] # t
  BY <1>3, <1>4 DEF Dispatched
<1>6. task[t].cpu = c /\ AdvanceOk(m)
  BY <1>2, <1>5 DEF AdvanceOk
<1>60. PICK mask \in AffinityRead(t) :
      /\ UNCHANGED current /\ Handled(c)
      /\ task' = [task EXCEPT ![t].cpu_affinity = mask, ![t].seqnum = m.seq,
                ![t].on_rq = IF HasToMove(c, t, mask)
                               THEN "kMigrating" ELSE @]
      /\ rq' = (IF HasToMove(c, t, mask)
                  THEN Without(rq, c, t) ELSE rq)
      /\ mq' = (IF HasToMove(c, t, mask)
                  THEN With(mq, c, t) ELSE mq)
  BY <1>1, <1>2, <1>6 DEF TaskAffinityChanged
<1>61. current' \in [Cpus -> Tasks \cup {NoTask}] /\ Chosen' = Chosen
  BY <1>5, <1>60, HandlerCurrent, HandlerChosen
<1>62. mask \in SUBSET Cpus /\ (mask = allowed[t] \/ ~InGhost(t))
  BY <1>5 DEF TypeOK, AffinityRead
<1>7. PICK moves : moves = HasToMove(c, t, mask)
  OBVIOUS
<1>8. PICK r : r = [task[t] EXCEPT !.cpu_affinity = mask, !.seqnum = m.seq,
                                   !.on_rq = IF moves THEN "kMigrating" ELSE @]
  OBVIOUS
<1>9. /\ task' = [task EXCEPT ![t].cpu_affinity = mask, ![t].seqnum = m.seq,
                              ![t].on_rq = IF moves THEN "kMigrating" ELSE @]
      /\ Chosen' = Chosen
      /\ rq' = (IF moves THEN Without(rq, c, t) ELSE rq)
      /\ mq' = (IF moves THEN With(mq, c, t) ELSE mq) /\ Handled(c)
  BY <1>60, <1>61, <1>7
<1>10. /\ r \in CfsTasks /\ r.known /\ r.cpu = c /\ r.seqnum = m.seq /\ r.cpu_affinity = mask
       /\ r.state = task[t].state /\ r.on_rq = IF moves THEN "kMigrating" ELSE task[t].on_rq
  BY <1>5, <1>62, <1>8 DEF CfsTasks, OnRqs
<1>11. task'[t] = r /\ task' \in [Tasks -> CfsTasks] /\ \A u \in Tasks : u # t => task'[u] = task[u]
  BY <1>5, <1>8, <1>9, <1>10
<1>12. View(t)' = View(t)
  BY <1>5, <1>10, <1>11 DEF View, Is
<1>13. View(t)' = After(View(t), m)
  BY <1>3, <1>5, <1>12 DEF After
<1>14. /\ rq' \in [Cpus -> SUBSET Tasks] /\ mq' \in [Cpus -> SUBSET Tasks] /\ Chosen' \in [Cpus -> Tasks \cup {NoTask}]
       /\ mq'[c] = (IF moves THEN mq[c] \cup {t} ELSE mq[c]) /\ Chosen'[c] = Chosen[c]
       /\ rq'[c] = (IF moves THEN rq[c] \ {t} ELSE rq[c])
       /\ \A d \in Cpus : d # c => mq'[d] = mq[d] /\ rq'[d] = rq[d] /\ Chosen'[d] = Chosen[d]
  BY <1>5, <1>9 DEF With, Without
<1>15. moving' = moving
  BY <1>9 DEF Handled, localVars, balanceVars
<1>16. PlaceOK(t)'
  <2>1. /\ (t \in rq[c]) <=> (Is(t, "kRunnable") /\ task[t].on_rq = "kQueued")
        /\ (t \in mq[c]) <=> (Is(t, "kRunnable") /\ task[t].on_rq = "kMigrating")
        /\ ~(Is(t, "kRunnable") /\ task[t].on_rq = "kDequeued")
        /\ Chosen[c] = t => ~Is(t, "kRunnable")
        /\ task[t].state \in {"kRunning", "kDone"} => Chosen[c] = t
        /\ ~Is(t, "kRunnable") => task[t].on_rq = "kDequeued"
    BY <1>5 DEF PlaceOK, Waits
  <2>2. /\ (t \in rq'[c]) <=> (r.state = "kRunnable" /\ r.on_rq = "kQueued")
        /\ (t \in mq'[c]) <=> (r.state = "kRunnable" /\ r.on_rq = "kMigrating")
        /\ ~(r.state = "kRunnable" /\ r.on_rq = "kDequeued")
        /\ Chosen'[c] = t => r.state # "kRunnable"
        /\ r.state \in {"kRunning", "kDone"} => Chosen'[c] = t
        /\ r.state # "kRunnable" => r.on_rq = "kDequeued"
    <3>1. CASE moves
      BY <1>7, <1>10, <1>14, <2>1, <3>1 DEF Is, HasToMove
    <3>2. CASE ~moves
      BY <1>10, <1>14, <2>1, <3>2 DEF Is
    <3> QED BY <3>1, <3>2
  <2> QED BY <1>5, <1>10, <1>11, <1>14, <1>15, <2>2, PlacedHere
<1>17. \A u \in Tasks, d \in Cpus : u # t => /\ (u \in rq'[d]) <=> (u \in rq[d])
                                             /\ (u \in mq'[d]) <=> (u \in mq[d])
                                             /\ (Chosen'[d] = u) <=> (Chosen[d] = u)
  BY <1>14
<1>18. IsCurrent(t, c) => IsCurrent(t, c)'
  BY <1>10, <1>11, <1>14 DEF IsCurrent, Is
<1>19. /\ Handled(c) /\ task'[t].seqnum <= m.seq /\ task'[t].seqnum = m.seq
       /\ (task'[t].cpu_affinity = allowed[t] \/ ~InGhost(t)) /\ task'[t].cpu = c
       /\ \A d \in Cpus : d # c => mq'[d] = mq[d] /\ Chosen'[d] = Chosen[d]
  BY <1>5, <1>62, <1>9, <1>10, <1>11, <1>14
<1> QED BY ONLY CfsInv, c \in Cpus, <1>2, <1>61, <1>5, <1>11, <1>13, <1>14, <1>16, <1>17, <1>18, <1>19, HandlerKeeps

-------------------------------------------------------------------------------
(* The invariant.                                                           *)

\* Every step of an agent keeps the invariant.
LEMMA AgentKeeps ==
  ASSUME CfsInv, NEW c \in Cpus, AgentStep(c)
  PROVE  CfsInv'
<1>1. CASE Handler(c)
  <2>1. CASE TaskNew(c)
    BY <2>1, TaskNewHandled
  <2>2. CASE TaskRunnable(c)
    BY <2>2, TaskRunnableHandled
  <2>3. CASE HandleTaskDone(c)
    BY <2>3, TaskDoneHandled
  <2>4. CASE TaskYield(c) \/ TaskPreempted(c)
    BY <2>4, OffCpuHandled
  <2>5. CASE TaskBlocked(c)
    BY <2>5, TaskBlockedHandled
  <2>6. CASE TaskAffinityChanged(c)
    BY <2>6, AffinityHandled
  <2>7. CASE CpuTick(c)
    BY <2>7, BarrierKeeps
  <2> QED BY <1>1, <2>1, <2>2, <2>3, <2>4, <2>5, <2>6, <2>7 DEF Handler
<1>2. CASE ReadBarrier(c)
  BY <1>2, BarrierKeeps
<1>3. CASE DrainDone(c)
  BY <1>3, DrainDoneKeeps
<1>4. ASSUME NEW t \in Tasks, MigrateTasks(c, t) PROVE CfsInv'
  BY <1>4, MigrateTasksKeeps
<1>5. CASE PingCpu(c)
  BY <1>5, PingKeeps
<1>6. CASE PrioBoost(c)
  BY <1>6, PrioBoostKeeps
<1>7. CASE KeepRunning(c)
  BY <1>7, KeepRunningKeeps
<1>8. CASE PickNextTask(c)
  BY <1>8, PickNextKeeps
<1>9. CASE LoadBalance(c)
  BY <1>9, LoadBalanceKeeps
<1>10. CASE DetachTasks(c)
  BY <1>10, DetachKeeps
<1>11. CASE AttachTasks(c)
  BY <1>11, AttachKeeps
<1>12. CASE NewIdleBalance(c)
  BY <1>12, NewIdleKeeps
<1>13. CASE Commit(c)
  BY <1>13, CommitKeeps
<1>14. CASE LocalYield(c)
  BY <1>14, YieldKeeps
<1>15. CASE SetCurrent(c)
  BY <1>15, SetCurrentKeeps
<1> QED BY <1>1, <1>2, <1>3, <1>4, <1>5, <1>6, <1>7, <1>8, <1>9, <1>10, <1>11, <1>12, <1>13, <1>14, <1>15 DEF AgentStep

\* It holds at the start.
LEMMA InitHolds ==
  ASSUME Init
  PROVE  CfsInv
<1>1. KernelTypeOK
  <2>1. DefaultCpu \in Cpus /\ MaxDisturb \in 0 .. MaxDisturb /\ <<>> \in Seq(Messages)
    BY KernelAssumption DEF DefaultCpu, Cpus
  <2> QED BY <2>1 DEF Init, KernelInit, KernelTypeOK
<1>2. TypeOK
  <2>1. 0 \in Cpus /\ 0 \in Nat /\ FreeTask \in CfsTasks /\ "top" \in Labels
    BY KernelAssumption DEF Cpus, CfsTasks, Labels
  <2>2. failed \in [in : Checks, task : Tasks \cup {NoTask}]
    BY DEF Init, NoFailure, Checks
  <2> QED BY <1>1, <2>1, <2>2 DEF Init, TypeOK
<1>3. ASSUME NEW t \in Tasks PROVE MsgOK(t)
  <2>1. /\ task[t] = FreeTask /\ kst[t] = "new" /\ seq[t] = 0 /\ assoc[t] \in Cpus
        /\ \A c \in Cpus : chan[c] = <<>>
    BY <1>1 DEF Init, KernelInit, KernelTypeOK
  <2>2. Home(t) = <<>> /\ Len(Home(t)) = 0
    BY <2>1 DEF Home
  <2>3. View(t) = "none" /\ Truth(t) = "none" /\ task[t].seqnum = 0 /\ task[t].known = FALSE
    BY <2>1 DEF View, Truth, FreeTask
  <2>4. Leads(<<>>, t, "none", "none")
    <3>1. PICK st : st = [i \in 0 .. 0 |-> "none"]
      OBVIOUS
    <3>2. Chain(<<>>, t, st)
      BY <3>1 DEF Chain, Views
    <3> QED BY <3>1, <3>2 DEF Leads
  <2>5. Numbered(<<>>, t, 0, 0) /\ Absent(<<>>, t, 1, 0)
    BY DEF Numbered, Absent
  <2>6. ~Unread(t)
    BY <2>2, <2>5 DEF Unread
  <2>7. \A c \in Cpus : Absent(chan[c], t, 1, Len(chan[c]))
    BY <2>1, <2>5
  <2>8. Leads(Home(t), t, View(t), Truth(t)) /\ Numbered(Home(t), t, task[t].seqnum, seq[t])
    BY <2>1, <2>2, <2>3, <2>4, <2>5
  <2> QED BY <2>1, <2>3, <2>6, <2>7, <2>8 DEF MsgOK
<1>4. CpuInv
  BY DEF Init, KernelInit, CpuInv, RunOK, OffOK
<1>5. PlaceInv
  <2> SUFFICES ASSUME NEW t \in Tasks PROVE PlaceOK(t)
    BY DEF PlaceInv
  <2>1. /\ task[t].known = FALSE /\ task[t].state = "kBlocked" /\ task[t].on_rq = "kDequeued" /\ t # NoTask
        /\ \A c \in Cpus : rq[c] = {} /\ mq[c] = {} /\ moving[c] = {} /\ Chosen[c] = NoTask
    BY CfsAssumption DEF Init, FreeTask, Chosen, Picking
  <2> QED BY <2>1 DEF PlaceOK, Waits, Is
<1>6. AgentInv
  BY DEF Init, AgentInv, AgentOK, Balancing, Chosen, Picking
<1>7. failed = NoFailure
  BY DEF Init
<1> QED BY <1>2, <1>3, <1>4, <1>5, <1>6, <1>7 DEF CfsInv, MessageInv

\* Nothing in it changes with none of the variables.
LEMMA StutterKeeps ==
  ASSUME CfsInv, UNCHANGED vars
  PROVE  CfsInv'
<1>1. UNCHANGED <<kst, oncpu, via, ran, seq, assoc, chan, ast, stale, rtla, boosted, budget, allowed, tick, task,
                  current, Chosen, rq, mq, preempt_curr, pc, next, todo, target, imbalance, moving, onIdle, failed>>
  BY DEF vars, kernelVars, taskVars, agentVars, cfsVars, cfsSchedVars, cpuVars, localVars, balanceVars, Chosen,
         Picking
<1>2. TypeOK'
  BY <1>1 DEF CfsInv, TypeOK, KernelTypeOK
<1>3. MessageInv'
  BY <1>1 DEF CfsInv, MessageInv, MsgOK, Leads, Chain, Numbered, Home, Unread, AffinityKnown, Absent, View, Truth,
              InGhost, Is
<1>4. CpuInv'
  BY <1>1 DEF CfsInv, CpuInv, RunOK, OffOK, IsCurrent, OnlyAffinity, Home, Is
<1>5. PlaceInv'
  BY <1>1 DEF CfsInv, PlaceInv, PlaceOK, Waits, Is
<1>6. AgentInv'
  BY <1>1 DEF CfsInv, AgentInv, AgentOK, IsCurrent, Is
<1> QED BY <1>1, <1>2, <1>3, <1>4, <1>5, <1>6 DEF CfsInv

(***************************************************************************)
(* If departed threads do not come back, CfsInv holds in every state that  *)
(* the agents, the clients and CFS can reach together.                     *)
(***************************************************************************)
THEOREM CfsInvariant ==
  ASSUME "reenter" \notin Events
  PROVE  Spec => []CfsInv
<1>1. Init => CfsInv
  BY InitHolds
<1>2. CfsInv /\ [Next]_vars => CfsInv'
  BY KernelKeeps, AgentKeeps, StutterKeeps DEF Next
<1> QED BY <1>1, <1>2, PTL DEF Spec

\* A task is in the place that its states name.
LEMMA OnePlace ==
  ASSUME NEW t \in Tasks, task[t] \in CfsTasks, PlaceOK(t)
  PROVE  Places(t) = PlaceOf(t)
<1>1. \A p : p \in Places(t) <=>
        \E c \in Cpus : \/ p = <<"rq", c>> /\ Waits(t, "kQueued", c)
                        \/ p = <<"mq", c>> /\ Waits(t, "kMigrating", c)
                        \/ p = <<"current", c>> /\ Chosen[c] = t
                        \/ p = <<"moving", c>> /\ Waits(t, "kDequeued", c)
  BY DEF Places, PlaceOK
<1>2. CASE ~task[t].known
  <2>1. PlaceOf(t) = {}
    BY <1>2 DEF PlaceOf
  <2>2. \A c \in Cpus : Chosen[c] # t
    BY <1>2 DEF PlaceOK
  <2> QED BY <1>1, <1>2, <2>1, <2>2 DEF Waits
<1>3. CASE task[t].known
  <2>1. task[t].cpu \in Cpus /\ task[t].state \in States /\ task[t].on_rq \in OnRqs
    <3>1. task[t] \in [known : {TRUE}, state : States, on_rq : OnRqs, cpu : Cpus, seqnum : Nat,
                        cpu_affinity : SUBSET Cpus]
      BY <1>3, RecordFacts
    <3> QED BY <3>1
  <2>2. CASE task[t].state \in {"kRunning", "kDone"}
    <3>1. PlaceOf(t) = {<<"current", task[t].cpu>>}
      BY <1>3, <2>2 DEF PlaceOf
    <3>2. \A c \in Cpus : (Chosen[c] = t) <=> (c = task[t].cpu)
      BY <1>3, <2>1, <2>2 DEF PlaceOK
    <3> QED BY <1>1, <2>1, <2>2, <3>1, <3>2 DEF Waits, Is
  <2>3. CASE task[t].state = "kBlocked"
    <3>1. PlaceOf(t) = Places(t) \cap {<<"current", task[t].cpu>>}
      BY <1>3, <2>3 DEF PlaceOf
    <3>2. \A c \in Cpus : Chosen[c] = t => c = task[t].cpu
      BY DEF PlaceOK
    <3> QED BY <1>1, <2>3, <3>1, <3>2 DEF Waits, Is
  <2>4. CASE task[t].state = "kRunnable"
    <3>1. \A c \in Cpus : Chosen[c] # t
      BY <2>4 DEF PlaceOK, Is
    <3>2. CASE task[t].on_rq = "kQueued"
      <4>1. PlaceOf(t) = {<<"rq", task[t].cpu>>}
        BY <1>3, <2>4, <3>2 DEF PlaceOf
      <4> QED BY <1>1, <1>3, <2>1, <2>4, <3>1, <3>2, <4>1 DEF Waits, Is
    <3>3. CASE task[t].on_rq = "kMigrating"
      <4>1. PlaceOf(t) = {<<"mq", task[t].cpu>>}
        BY <1>3, <2>4, <3>3 DEF PlaceOf
      <4> QED BY <1>1, <1>3, <2>1, <2>4, <3>1, <3>3, <4>1 DEF Waits, Is
    <3>4. CASE task[t].on_rq = "kDequeued"
      <4>1. PlaceOf(t) = {<<"moving", task[t].cpu>>}
        BY <1>3, <2>4, <3>4 DEF PlaceOf
      <4> QED BY <1>1, <1>3, <2>1, <2>4, <3>1, <3>4, <4>1 DEF Waits, Is
    <3> QED BY <2>1, <3>2, <3>3, <3>4 DEF OnRqs
  <2> QED BY <2>1, <2>2, <2>3, <2>4 DEF States
<1> QED BY <1>2, <1>3

(***************************************************************************)
(* Every task that is not blocked is in exactly one run queue, migration   *)
(* queue or hand of a load balancer, or is the one task its CPU has chosen *)
(* (cs->current, or what PickNextTask returns while cs->current is not     *)
(* assigned yet), and it is the place that its states name: MigrateTasks,  *)
(* DetachTasks and PickNextTask neither lose nor duplicate one.            *)
(***************************************************************************)
THEOREM CfsRunqueueSafe ==
  ASSUME "reenter" \notin Events
  PROVE  Spec => []RunqueueOK
<1>1. CfsInv => RunqueueOK
  <2> SUFFICES ASSUME CfsInv, NEW t \in Tasks PROVE Places(t) = PlaceOf(t)
    BY DEF RunqueueOK, CfsInv
  <2>1. task[t] \in CfsTasks /\ PlaceOK(t)
    BY DEF CfsInv, TypeOK, PlaceInv
  <2> QED BY <2>1, OnePlace
<1> QED BY <1>1, CfsInvariant, PTL

(***************************************************************************)
(* No CHECK of the message handlers, of MigrateTasks or of                 *)
(* CompleteRunRequest fails.                                               *)
(***************************************************************************)
THEOREM CfsChecksSafe ==
  ASSUME "reenter" \notin Events
  PROVE  Spec => []ChecksHold
<1>1. CfsInv => ChecksHold
  BY DEF CfsInv, ChecksHold
<1> QED BY <1>1, CfsInvariant, PTL

(***************************************************************************)
(* Once the messages of a task have been read, its CfsTask agrees with the *)
(* kernel on its state, its sequence number and its affinity.              *)
(***************************************************************************)
THEOREM CfsViewSafe ==
  ASSUME "reenter" \notin Events
  PROVE  Spec => []ViewAgrees
<1>1. CfsInv => ViewAgrees
  <2> SUFFICES ASSUME CfsInv, NEW t \in Tasks, InGhost(t), Drained(t)
               PROVE  /\ task[t].known /\ task[t].seqnum = seq[t] /\ task[t].cpu_affinity = allowed[t]
                      /\ Is(t, "kBlocked") <=> kst[t] = "blocked"
    BY DEF ViewAgrees
  <2>1. MsgOK(t) /\ TypeOK /\ KernelTypeOK
    BY DEF CfsInv, MessageInv, TypeOK
  <2>2. PICK q \in Seq(Messages) : q = Home(t)
    BY <2>1 DEF KernelTypeOK, Home
  <2>3. Absent(q, t, 1, Len(q)) /\ Len(q) \in Nat
    BY <2>1, <2>2 DEF Drained, Absent, Home, KernelTypeOK
  <2>4. ~Unread(t) /\ AffinityKnown(t)
    BY <2>2, <2>3 DEF Unread, AffinityKnown, Absent
  <2>5. View(t) = Truth(t)
    <3>1. PICK st : Chain(q, t, st) /\ st[0] = View(t) /\ st[Len(q)] = Truth(t)
      BY <2>1, <2>2 DEF MsgOK, Leads
    <3>2. 0 \in 0 .. Len(q) /\ Len(q) \in 0 .. Len(q) /\ 0 <= Len(q) /\ Absent(q, t, 0 + 1, Len(q))
      BY <2>3
    <3> QED BY <3>1, <3>2 DEF Chain
  <2>6. Truth(t) # "none" /\ ((Truth(t) = "blocked") <=> (kst[t] = "blocked"))
    BY DEF InGhost, Truth
  <2>7. View(t) # "none" /\ task[t].known /\ ((View(t) = "blocked") <=> Is(t, "kBlocked"))
    BY <2>5, <2>6 DEF View
  <2> QED BY <2>1, <2>4, <2>5, <2>6, <2>7 DEF MsgOK
<1> QED BY <1>1, CfsInvariant, PTL

-------------------------------------------------------------------------------
(* No wakeup is lost.                                                       *)

\* A step in which CPU c has nothing more to do than before.
Calm(c) ==
  /\ chan'[c] = chan[c] /\ pc'[c] = pc[c] /\ mq'[c] = mq[c] /\ todo'[c] = todo[c] /\ onIdle'[c] = onIdle[c]
  /\ stale'[c] = stale[c] /\ current'[c] = current[c] /\ next'[c] = next[c]
  /\ rq'[c] \subseteq rq[c] \/ Pinged(c)'
  /\ Pinged(c) => Pinged(c)'
  /\ ast'[c] = "sleeping" =>
       /\ ast[c] = "sleeping"
       /\ current[c] # NoTask /\ oncpu[current[c]] = c => oncpu'[current[c]] = c
       /\ boosted[c] /\ rtla[c] => boosted'[c] /\ rtla'[c]

\* A step that tells the agent of CPU c to look again.
Alerted(c) == stale'[c] /\ ast'[c] # "sleeping" /\ pc'[c] = pc[c] /\ onIdle'[c] = onIdle[c] /\ next'[c] = next[c]

\* Such a step leaves nothing undone.
LEMMA CalmOK ==
  ASSUME NEW c \in Cpus, WakeOK(c), Calm(c)
  PROVE  WakeOK(c)'
BY DEF WakeOK, Calm, Idling

\* Nor does such a one.
LEMMA AlertedOK ==
  ASSUME NEW c \in Cpus, WakeOK(c), Alerted(c)
  PROVE  WakeOK(c)'
BY DEF WakeOK, Alerted, Idling

\* Waking the agent of CPU d.
LEMMA WakeAgentFacts ==
  ASSUME KernelTypeOK, NEW d \in Cpus, WakeAgent(d)
  PROVE  /\ stale'[d] = TRUE /\ ast'[d] # "sleeping" /\ rtla' = rtla
         /\ \A c \in Cpus : c # d => stale'[c] = stale[c] /\ ast'[c] = ast[c]
BY DEF KernelTypeOK, WakeAgent, Woken

\* The kernel tells the agent of CPU d something about task t.
LEMMA ToldWakes ==
  ASSUME CfsInv, WakeInv, NEW t \in Tasks, NEW d \in Cpus, WakeAgent(d), UNCHANGED cfsSchedVars,
         \A c \in Cpus : c # d => chan'[c] = chan[c],
         \A c \in Cpus : boosted[c] => boosted'[c],
         \A u \in Tasks : u # t => oncpu'[u] = oncpu[u],
         oncpu'[t] = oncpu[t] \/ oncpu[t] = NoCpu \/ oncpu[t] = d
  PROVE  WakeInv'
<1>0. KernelTypeOK /\ current \in [Cpus -> Tasks \cup {NoTask}]
  BY DEF CfsInv, TypeOK
<1>1. /\ stale'[d] = TRUE /\ ast'[d] # "sleeping" /\ rtla' = rtla
      /\ \A c \in Cpus : c # d => stale'[c] = stale[c] /\ ast'[c] = ast[c]
  BY <1>0, WakeAgentFacts
<1>2. UNCHANGED <<task, current, rq, mq, preempt_curr, pc, next, todo, target, imbalance, moving, onIdle, failed>>
  BY DEF cfsSchedVars, cpuVars, localVars, balanceVars
<1>3. ASSUME NEW c \in Cpus PROVE WakeOK(c)'
  <2>0. WakeOK(c)
    BY DEF WakeInv
  <2>1. CASE c = d
    BY <1>1, <1>2, <2>0, <2>1, AlertedOK DEF Alerted
  <2>2. CASE c # d
    <3>1. Pinged(c)' <=> Pinged(c)
      BY <1>2 DEF Pinged
    <3>2. c # NoCpu
      BY KernelAssumption DEF Cpus, NoCpu
    <3>3. current[c] # NoTask /\ oncpu[current[c]] = c => oncpu'[current[c]] = c
      BY <1>0, <2>2, <3>2
    <3>4. Calm(c)
      BY <1>1, <1>2, <2>2, <3>1, <3>3 DEF Calm
    <3> QED BY <2>0, <3>4, CalmOK
  <2> QED BY <2>1, <2>2
<1> QED BY <1>3 DEF WakeInv

\* A task that is on a CPU is on the one whose agent hears of it.
LEMMA OnHome ==
  ASSUME CfsInv, NEW t \in Tasks
  PROVE  assoc[t] \in Cpus /\ (oncpu[t] = NoCpu \/ oncpu[t] = assoc[t])
BY DEF CfsInv, CpuInv, RunOK, TypeOK, KernelTypeOK

\* LeaveCpu concerns one task.
LEMMA LeaveFacts ==
  ASSUME KernelTypeOK, NEW t \in Tasks, LeaveCpu(t)
  PROVE  \A u \in Tasks : u # t => oncpu'[u] = oncpu[u]
BY DEF KernelTypeOK, LeaveCpu

\* What the clients do is told to the agents.
LEMMA ClientWakes ==
  ASSUME CfsInv, WakeInv, NEW t \in Tasks, UNCHANGED cfsSchedVars,
         \/ \E b \in BOOLEAN : KWakeup(t, b)
         \/ KBlock(t) \/ KYield(t) \/ KExit(t) \/ KDead(t) \/ KDepart(t)
  PROVE  WakeInv'
<1>0. KernelTypeOK
  BY DEF CfsInv, TypeOK
<1>1. PICK d \in Cpus : d = assoc[t] /\ (oncpu[t] = NoCpu \/ oncpu[t] = d)
  BY OnHome
<1>2. WakeAgent(d) /\ \A c \in Cpus : c # d => chan'[c] = chan[c]
  BY <1>0, <1>1 DEF KWakeup, KBlock, KYield, KExit, KDead, KDepart, Report, Produce, KernelTypeOK
<1>3. \A c \in Cpus : boosted[c] => boosted'[c]
  BY DEF KWakeup, KBlock, KYield, KExit, KDead, KDepart, cfsVars
<1>4. \A u \in Tasks : u # t => oncpu'[u] = oncpu[u]
  BY <1>0, LeaveFacts DEF KWakeup, KBlock, KYield, KExit, KDead, KDepart, KernelTypeOK
<1> QED BY <1>1, <1>2, <1>3, <1>4, ToldWakes

\* The other kernel steps that are told to an agent.
LEMMA EventWakes ==
  ASSUME CfsInv, WakeInv, UNCHANGED cfsSchedVars,
         \/ \E t \in Tasks, b \in BOOLEAN : KTaskNew(t, b)
         \/ \E t \in Tasks, mask \in SUBSET Cpus \ {{}} : KSetAffinity(t, mask)
         \/ \E c \in Cpus : KTick(c)
  PROVE  WakeInv'
<1>0. KernelTypeOK
  BY DEF CfsInv, TypeOK
<1>1. ASSUME NEW t \in Tasks, NEW b \in BOOLEAN, KTaskNew(t, b) PROVE WakeInv'
  <2>1. PICK d \in Cpus : d = DefaultCpu
    BY KernelAssumption DEF Cpus, DefaultCpu
  <2>2. /\ WakeAgent(d) /\ (\A c \in Cpus : c # d => chan'[c] = chan[c])
        /\ oncpu' = oncpu /\ boosted' = boosted
    BY <1>0, <1>1, <2>1 DEF KTaskNew, KernelTypeOK
  <2> QED BY <2>2, ToldWakes
<1>2. ASSUME NEW t \in Tasks, NEW mask \in SUBSET Cpus, KSetAffinity(t, mask) PROVE WakeInv'
  <2>1. PICK d \in Cpus : d = assoc[t] /\ (oncpu[t] = NoCpu \/ oncpu[t] = d)
    BY OnHome
  <2>2. /\ WakeAgent(d) /\ (\A c \in Cpus : c # d => chan'[c] = chan[c]) /\ boosted' = boosted
        /\ LeaveCpu(t) \/ oncpu' = oncpu
    BY <1>0, <1>2, <2>1 DEF KSetAffinity, KernelTypeOK
  <2>3. \A u \in Tasks : u # t => oncpu'[u] = oncpu[u]
    BY <1>0, <2>2, LeaveFacts
  <2> QED BY <2>1, <2>2, <2>3, ToldWakes
<1>3. ASSUME NEW c \in Cpus, KTick(c) PROVE WakeInv'
  <2>1. /\ WakeAgent(c) /\ chan' = chan /\ oncpu' = oncpu /\ boosted' = boosted
    BY <1>3 DEF KTick, taskVars
  <2>2. PICK t \in Tasks : oncpu[t] = c
    BY <1>3 DEF KTick
  <2> QED BY <2>1, <2>2, ToldWakes
<1> QED BY <1>1, <1>2, <1>3

\* CFS takes a CPU or gives it back, and agents get theirs.
LEMMA CpuWakes ==
  ASSUME CfsInv, WakeInv, UNCHANGED cfsSchedVars, NEW c \in Cpus,
         KAgentSwitchIn(c) \/ KCfsArrive(c) \/ KCfsLeave(c)
  PROVE  WakeInv'
<1>0. /\ KernelTypeOK /\ CpuInv /\ current \in [Cpus -> Tasks \cup {NoTask}]
      /\ UNCHANGED <<task, current, rq, mq, preempt_curr, pc, next, todo, target, imbalance, moving, onIdle, failed>>
  BY DEF CfsInv, TypeOK, cfsSchedVars, cpuVars, localVars, balanceVars
<1>1. \A d \in Cpus : WakeOK(d) /\ (Pinged(d)' <=> Pinged(d))
  BY <1>0 DEF Pinged, WakeInv
<1>2. CASE KAgentSwitchIn(c)
  <2>1. \A t \in Tasks : via[t] # "switchto"
    BY <1>0 DEF CpuInv, RunOK
  <2>2. /\ rtla' = [rtla EXCEPT ![c] = FALSE] /\ ast' = [ast EXCEPT ![c] = "running"]
        /\ oncpu' = [t \in Tasks |-> IF oncpu[t] = c THEN NoCpu ELSE oncpu[t]]
        /\ chan' = chan /\ stale' = stale /\ boosted' = boosted
    BY <1>2, <2>1 DEF KAgentSwitchIn, cfsVars
  <2>3. ASSUME NEW d \in Cpus PROVE WakeOK(d)'
    <3>1. CASE d = c
      BY <1>0, <1>1, <2>2, <3>1, CalmOK DEF Calm, KernelTypeOK
    <3>2. CASE d # c
      <4>1. ast'[d] = ast[d] /\ rtla'[d] = rtla[d]
        BY <1>0, <2>2, <3>2 DEF KernelTypeOK
      <4>2. current[d] # NoTask /\ oncpu[current[d]] = d => oncpu'[current[d]] = d
        BY <1>0, <2>2, <3>2
      <4>3. Calm(d)
        BY <1>0, <1>1, <2>2, <4>1, <4>2 DEF Calm
      <4> QED BY <1>1, <4>3, CalmOK
    <3> QED BY <3>1, <3>2
  <2> QED BY <2>3 DEF WakeInv
<1>3. CASE KCfsArrive(c)
  <2>1. \A d \in Cpus : boosted[d] => boosted'[d]
    BY <1>0, <1>3 DEF KCfsArrive, KernelTypeOK
  <2>2. ASSUME NEW t \in Tasks, Report(t, "TASK_PREEMPT"), LeaveCpu(t) PROVE WakeInv'
    <3>1. PICK d \in Cpus : d = assoc[t] /\ (oncpu[t] = NoCpu \/ oncpu[t] = d)
      BY OnHome
    <3>2. WakeAgent(d) /\ \A e \in Cpus : e # d => chan'[e] = chan[e]
      BY <1>0, <2>2, <3>1 DEF Report, Produce, KernelTypeOK
    <3>3. \A u \in Tasks : u # t => oncpu'[u] = oncpu[u]
      BY <1>0, <2>2, LeaveFacts
    <3> QED BY <2>1, <3>1, <3>2, <3>3, ToldWakes
  <2>3. ASSUME UNCHANGED <<oncpu, chan, agentVars>> PROVE WakeInv'
    <3>1. UNCHANGED <<oncpu, chan, ast, stale, rtla>>
      BY <2>3 DEF agentVars
    <3>2. ASSUME NEW d \in Cpus PROVE WakeOK(d)'
      <4>1. Calm(d)
        BY <1>0, <1>1, <2>1, <3>1 DEF Calm
      <4> QED BY <1>1, <4>1, CalmOK
    <3> QED BY <3>2 DEF WakeInv
  <2> QED BY <1>3, <2>2, <2>3 DEF KCfsArrive
<1>4. CASE KCfsLeave(c)
  <2>1. /\ boosted' = [boosted EXCEPT ![c] = FALSE]
        /\ ast' = [ast EXCEPT ![c] = IF rtla[c] THEN Woken(ast[c]) ELSE ast[c]]
        /\ UNCHANGED <<oncpu, chan, stale, rtla>>
    BY <1>4 DEF KCfsLeave, taskVars
  <2>2. ASSUME NEW d \in Cpus PROVE WakeOK(d)'
    <3>1. ast'[d] = "sleeping" => ast[d] = "sleeping" /\ (boosted[d] /\ rtla[d] => boosted'[d])
      BY <1>0, <2>1 DEF KernelTypeOK, Woken
    <3>2. Calm(d)
      BY <1>0, <1>1, <2>1, <3>1 DEF Calm
    <3> QED BY <1>1, <3>2, CalmOK
  <2> QED BY <2>2 DEF WakeInv
<1> QED BY <1>2, <1>3, <1>4

\* A step of the kernel loses no wakeup.
LEMMA KernelWakes ==
  ASSUME CfsInv, WakeInv, KernelStep
  PROVE  WakeInv'
<1>0. UNCHANGED cfsSchedVars /\ \A t \in Tasks : via[t] # "leaving"
  BY DEF KernelStep, CfsInv, CpuInv, RunOK
<1>1. CASE KernelNext
  <2>1. ASSUME NEW t \in Tasks, NEW b \in BOOLEAN, KTaskNew(t, b) PROVE WakeInv'
    BY <1>0, <2>1, EventWakes
  <2>2. ASSUME NEW t \in Tasks, NEW b \in BOOLEAN, KWakeup(t, b) PROVE WakeInv'
    BY <1>0, <2>2, ClientWakes
  <2>3. ASSUME NEW t \in Tasks, KBlock(t) \/ KYield(t) \/ KExit(t) \/ KDead(t) \/ KDepart(t) PROVE WakeInv'
    BY <1>0, <2>3, ClientWakes
  <2>4. ASSUME NEW t \in Tasks, KFinishSwitch(t) PROVE WakeInv'
    BY <1>0, <2>4 DEF KFinishSwitch
  <2>5. ASSUME NEW a \in Tasks, NEW b \in Tasks, KSwitchTo(a, b) PROVE WakeInv'
    BY <2>5, CfsAssumption DEF KSwitchTo
  <2>6. ASSUME NEW c \in Cpus, KAgentSwitchIn(c) \/ KCfsArrive(c) \/ KCfsLeave(c) PROVE WakeInv'
    BY <1>0, <2>6, CpuWakes
  <2> QED BY <1>1, <2>1, <2>2, <2>3, <2>4, <2>5, <2>6 DEF KernelNext
<1>2. CASE (\E t \in Tasks, mask \in SUBSET Cpus \ {{}} : KSetAffinity(t, mask)) \/ \E c \in Cpus : KTick(c)
  BY <1>0, <1>2, EventWakes
<1> QED BY <1>1, <1>2 DEF KernelStep

\* A step of the agent of CPU c that tells no other agent anything.
LEMMA OthersCalm ==
  ASSUME CfsInv, WakeInv, NEW c \in Cpus, WakeOK(c)',
         \A d \in Cpus : d # c => /\ chan'[d] = chan[d] /\ pc'[d] = pc[d] /\ mq'[d] = mq[d] /\ todo'[d] = todo[d]
                                  /\ onIdle'[d] = onIdle[d] /\ stale'[d] = stale[d] /\ current'[d] = current[d] /\ next'[d] = next[d]
                                  /\ ast'[d] = ast[d] /\ boosted'[d] = boosted[d] /\ rtla'[d] = rtla[d]
                                  /\ rq'[d] \subseteq rq[d] \/ Pinged(d)',
         \A d \in Cpus : pc[d] = "ping" => pc'[d] = "ping" /\ target'[d] = target[d],
         \A u \in Tasks : oncpu[u] # NoCpu => oncpu'[u] = oncpu[u]
  PROVE  WakeInv'
<1>1. ASSUME NEW d \in Cpus, d # c PROVE WakeOK(d)'
  <2>0. d # NoCpu
    BY KernelAssumption DEF Cpus, NoCpu
  <2>1. WakeOK(d) /\ current[d] \in Tasks \cup {NoTask}
    BY DEF WakeInv, CfsInv, TypeOK
  <2>2. Pinged(d) => Pinged(d)'
    BY DEF Pinged
  <2>3. current[d] # NoTask /\ oncpu[current[d]] = d => oncpu'[current[d]] = d
    BY <2>0, <2>1
  <2>4. Calm(d)
    BY <1>1, <2>2, <2>3 DEF Calm
  <2> QED BY <2>1, <2>4, CalmOK
<1> QED BY <1>1 DEF WakeInv

\* A step of the agent of CPU c with the kernel's variables unchanged.
LEMMA LocalWakes ==
  ASSUME CfsInv, WakeInv, NEW c \in Cpus, WakeOK(c)', UNCHANGED <<chan, stale, ast, boosted, rtla, oncpu>>,
         \A d \in Cpus : d # c => /\ pc'[d] = pc[d] /\ mq'[d] = mq[d] /\ todo'[d] = todo[d]
                                  /\ onIdle'[d] = onIdle[d] /\ current'[d] = current[d] /\ next'[d] = next[d] /\ target'[d] = target[d]
                                  /\ rq'[d] \subseteq rq[d] \/ Pinged(d)',
         pc[c] # "ping"
  PROVE  WakeInv'
<1>1. \A d \in Cpus : pc[d] = "ping" => pc'[d] = "ping" /\ target'[d] = target[d]
  OBVIOUS
<1> QED BY <1>1, OthersCalm

\* The agent of CPU c, at work, has been told about all it has to look at.
LEMMA AtWork ==
  ASSUME CfsInv, WakeInv, NEW c \in Cpus, NEW l, At(c, l)
  PROVE  /\ WakeOK(c) /\ ast[c] = "running" /\ pc[c] = l /\ onIdle[c] \in BOOLEAN /\ stale[c] \in BOOLEAN
         /\ l # "yield" => onIdle[c] = FALSE
         /\ TypeOK /\ KernelTypeOK /\ pc \in [Cpus -> Labels]
<1>1. /\ WakeOK(c) /\ ast[c] = "running" /\ pc[c] = l /\ onIdle[c] \in BOOLEAN /\ stale[c] \in BOOLEAN
      /\ TypeOK /\ KernelTypeOK /\ pc \in [Cpus -> Labels]
  BY DEF WakeInv, At, CfsInv, TypeOK, KernelTypeOK
<1>2. onIdle[c] => pc[c] = "yield"
  BY <1>1 DEF WakeOK, Idling
<1> QED BY <1>1, <1>2

\* With the barrier read, the agent looks at its channel next.
LEMMA BarrierWakes ==
  ASSUME CfsInv, WakeInv, NEW c \in Cpus, ReadBarrier(c)
  PROVE  WakeInv'
<1>1. PICK l : l = "top" /\ At(c, l)
  BY DEF ReadBarrier
<1>2. /\ WakeOK(c) /\ ast[c] = "running" /\ pc[c] = l /\ (l # "yield" => onIdle[c] = FALSE)
      /\ KernelTypeOK /\ pc \in [Cpus -> Labels]
  BY ONLY CfsInv, WakeInv, c \in Cpus, <1>1, AtWork
<1>3. /\ UNCHANGED <<oncpu, chan, ast, rtla, boosted, current, next, rq, mq, todo, target, onIdle>>
      /\ stale' = [stale EXCEPT ![c] = FALSE] /\ pc' = [pc EXCEPT ![c] = "drain"]
  BY DEF ReadBarrier, Goto, taskVars, cfsVars, cpuVars, localVars, balanceVars
<1>4. pc'[c] = "drain" /\ onIdle[c] = FALSE /\ \A d \in Cpus : d # c => pc'[d] = pc[d] /\ stale'[d] = stale[d]
  BY <1>1, <1>2, <1>3 DEF KernelTypeOK
<1>5. WakeOK(c)'
  BY <1>2, <1>3, <1>4 DEF WakeOK, Idling
<1>6. \A d \in Cpus : pc[d] = "ping" => pc'[d] = "ping" /\ target'[d] = target[d]
  BY <1>1, <1>2, <1>3, <1>4
<1> QED BY <1>3, <1>4, <1>5, <1>6, OthersCalm

\* Reading messages: whatever is found is looked at before the agent sleeps.
LEMMA HandlerWakes ==
  ASSUME CfsInv, CfsInv', WakeInv, NEW c \in Cpus, Handler(c)
  PROVE  WakeInv'
<1>1. PICK l : l = "drain" /\ At(c, l)
  BY DEF Handler, TaskNew, TaskRunnable, HandleTaskDone, TaskYield, TaskPreempted, TaskBlocked, TaskAffinityChanged,
         CpuTick, Dispatching
<1>2. /\ WakeOK(c) /\ ast[c] = "running" /\ pc[c] = l /\ (l # "yield" => onIdle[c] = FALSE)
      /\ TypeOK /\ KernelTypeOK /\ pc \in [Cpus -> Labels]
  BY ONLY CfsInv, WakeInv, c \in Cpus, <1>1, AtWork
<1>3. failed' = NoFailure
  BY DEF CfsInv
<1>4. \A where \in Checks \ {"none"} : [in |-> where, task |-> Msg(c).task] # NoFailure
  BY DEF NoFailure
<1>5. /\ UNCHANGED <<oncpu, ast, stale, rtla, boosted, pc, todo, target, onIdle>>
      /\ \A d \in Cpus : d # c => chan'[d] = chan[d] /\ rq'[d] = rq[d] /\ mq'[d] = mq[d] /\ current'[d] = current[d] /\ next'[d] = next[d]
  <2>1. CASE CpuTick(c)
    BY <2>1 DEF CpuTick, kernelVars, taskVars, agentVars, cfsVars, localVars, balanceVars
  <2>2. CASE ~CpuTick(c)
    <3>1. /\ Handled(c)
          /\ \A d \in Cpus : d # c => rq'[d] = rq[d] /\ mq'[d] = mq[d] /\ current'[d] = current[d]
      <4>1. rq \in [Cpus -> SUBSET Tasks] /\ mq \in [Cpus -> SUBSET Tasks] /\ current \in [Cpus -> Tasks \cup {NoTask}]
        BY <1>2 DEF TypeOK
      <4>2. CASE TaskNew(c)
        BY <4>1, <4>2 DEF TaskNew, With
      <4>3. CASE TaskRunnable(c)
        <5>1. ~Abort("TaskRunnable", Msg(c).task)
          BY <1>3, <1>4 DEF Abort, Checks
        <5> QED BY <4>1, <4>3, <5>1 DEF TaskRunnable, With
      <4>4. CASE HandleTaskDone(c)
        <5>1. ~Abort("HandleTaskDone", Msg(c).task)
          BY <1>3, <1>4 DEF Abort, Checks
        <5> QED BY <4>1, <4>4, <5>1 DEF HandleTaskDone, Without
      <4>5. CASE TaskYield(c)
        <5>1. ~Abort("TaskYield", Msg(c).task)
          BY <1>3, <1>4 DEF Abort, Checks
        <5> QED BY <4>1, <4>5, <5>1 DEF TaskYield, PutPrevTask, With, Without
      <4>6. CASE TaskPreempted(c)
        <5>1. ~Abort("TaskPreempted", Msg(c).task)
          BY <1>3, <1>4 DEF Abort, Checks
        <5> QED BY <4>1, <4>6, <5>1 DEF TaskPreempted, PutPrevTask, With, Without
      <4>7. CASE TaskBlocked(c)
        <5>1. ~Abort("TaskBlocked", Msg(c).task)
          BY <1>3, <1>4 DEF Abort, Checks
        <5> QED BY <4>1, <4>7, <5>1 DEF TaskBlocked
      <4>8. CASE TaskAffinityChanged(c)
        <5>1. ~Abort("TaskAffinityChanged", Msg(c).task)
          BY <1>3, <1>4 DEF Abort, Checks
        <5> QED BY <4>1, <4>8, <5>1 DEF TaskAffinityChanged, With, Without
      <4> QED BY <2>2, <4>2, <4>3, <4>4, <4>5, <4>6, <4>7, <4>8 DEF Handler
    <3>2. UNCHANGED <<oncpu, ast, stale, rtla, boosted, pc, next, todo, target, onIdle>> /\ chan' = [chan EXCEPT ![c] = Tail(@)]
      BY <3>1 DEF Handled, taskVars, agentVars, cfsVars, localVars, balanceVars
    <3> QED BY <1>2, <3>1, <3>2 DEF KernelTypeOK
  <2> QED BY <2>1, <2>2
<1>6. WakeOK(c)'
  BY <1>1, <1>2, <1>5 DEF WakeOK, Idling
<1> QED BY <1>5, <1>6, OthersCalm

\* MigrateTasks will look at every task that waits for it.
LEMMA DrainWakes ==
  ASSUME CfsInv, WakeInv, NEW c \in Cpus, DrainDone(c)
  PROVE  WakeInv'
<1>1. PICK l : l = "drain" /\ At(c, l)
  BY DEF DrainDone
<1>2. /\ WakeOK(c) /\ ast[c] = "running" /\ pc[c] = l /\ (l # "yield" => onIdle[c] = FALSE)
      /\ TypeOK /\ pc \in [Cpus -> Labels]
  BY ONLY CfsInv, WakeInv, c \in Cpus, <1>1, AtWork
<1>3. /\ UNCHANGED <<oncpu, chan, ast, stale, rtla, boosted, current, next, rq, mq, target, onIdle>>
      /\ todo' = [todo EXCEPT ![c] = mq[c]] /\ pc' = [pc EXCEPT ![c] = "migrate"] /\ chan[c] = <<>>
  BY DEF DrainDone, Goto, kernelVars, taskVars, agentVars, cfsVars, cpuVars, balanceVars
<1>4. /\ pc'[c] = "migrate" /\ todo'[c] = mq[c] /\ pc[c] # "ping" /\ onIdle[c] = FALSE
      /\ \A d \in Cpus : d # c => pc'[d] = pc[d] /\ todo'[d] = todo[d]
  BY <1>1, <1>2, <1>3 DEF TypeOK
<1>5. WakeOK(c)'
  BY <1>2, <1>3, <1>4 DEF WakeOK, Idling
<1> QED BY <1>3, <1>4, <1>5, LocalWakes

\* A task that cannot be associated with another CPU has an unread message.
LEMMA NotYet ==
  ASSUME CfsInv, NEW c \in Cpus, NEW t \in Tasks, t \in mq[c], ~AssociateOk(t, task[t].seqnum)
  PROVE  chan[c] # <<>>
<1>1. TypeOK /\ MsgOK(t) /\ PlaceOK(t)
  BY DEF CfsInv, MessageInv, PlaceInv
<1>2. task[t].known /\ Is(t, "kRunnable") /\ assoc[t] = c /\ View(t) = "ready"
  BY <1>1 DEF PlaceOK, Waits, MsgOK, View, Is
<1> SUFFICES ASSUME chan[c] = <<>> PROVE FALSE
  OBVIOUS
<1>3. Home(t) = <<>> /\ Home(t) \in Seq(Messages) /\ Absent(<<>>, t, 1, 0) /\ Len(Home(t)) = 0
  <2>1. Home(t) = <<>>
    BY <1>2 DEF Home
  <2>2. Home(t) \in Seq(Messages)
    BY <1>1, TaskFacts
  <2>3. Absent(<<>>, t, 1, 0)
    BY DEF Absent
  <2> QED BY <2>1, <2>2, <2>3
<1>4. ~Unread(t)
  BY <1>3 DEF Unread
<1>5. Absent(Home(t), t, 1, Len(Home(t)))
  BY <1>3
<1>6. View(t) = Truth(t)
  BY <1>1, <1>3, <1>5, AbsentChain DEF MsgOK
<1>7. InGhost(t)
  BY <1>2, <1>6 DEF Truth, InGhost
<1> QED BY <1>1, <1>2, <1>4, <1>7 DEF MsgOK, AssociateOk

\* A task that has moved is announced to its new CPU; one that could not stays, and
\* the agent will come back for it.
LEMMA MigrateWakes ==
  ASSUME CfsInv, CfsInv', WakeInv, NEW c \in Cpus, NEW t \in Tasks, MigrateTasks(c, t)
  PROVE  WakeInv'
<1>1. PICK l : l = "migrate" /\ At(c, l)
  BY DEF MigrateTasks
<1>2. /\ WakeOK(c) /\ ast[c] = "running" /\ pc[c] = l /\ (l # "yield" => onIdle[c] = FALSE)
      /\ TypeOK /\ pc \in [Cpus -> Labels]
  BY ONLY CfsInv, WakeInv, c \in Cpus, <1>1, AtWork
<1>3. pc[c] = "migrate" /\ onIdle[c] = FALSE /\ t \in todo[c] /\ t \in mq[c]
  <2>1. AgentOK(c)
    BY DEF CfsInv, AgentInv
  <2> QED BY <1>1, <1>2, <2>1 DEF MigrateTasks, AgentOK
<1>4. /\ rq \in [Cpus -> SUBSET Tasks] /\ mq \in [Cpus -> SUBSET Tasks] /\ todo \in [Cpus -> SUBSET Tasks]
      /\ target \in [Cpus -> Cpus]
  BY <1>2 DEF TypeOK
<1>5. CASE MigrateHere(c, t)
  <2>1. /\ UNCHANGED <<oncpu, chan, ast, stale, rtla, boosted, current, next, target, onIdle, pc>>
        /\ mq' = Without(mq, c, t) /\ todo' = Without(todo, c, t)
        /\ rq' = With(rq, c, t) \/ rq' = rq
    BY <1>5 DEF MigrateHere, kernelVars, taskVars, agentVars, cfsVars, balanceVars
  <2>2. /\ mq'[c] = mq[c] \ {t} /\ todo'[c] = todo[c] \ {t}
        /\ \A d \in Cpus : d # c => mq'[d] = mq[d] /\ todo'[d] = todo[d] /\ rq'[d] = rq[d]
    BY <1>4, <2>1 DEF With, Without
  <2>3. WakeOK(c)'
    BY <1>2, <1>3, <2>1, <2>2 DEF WakeOK, Idling
  <2> QED BY <1>3, <2>1, <2>2, <2>3, LocalWakes
<1>6. ASSUME NEW d \in Cpus, MigrateTo(c, t, d) PROVE WakeInv'
  <2>1. /\ todo'[c] = todo[c] \ {t} /\ (\A e \in Cpus : e # c => todo'[e] = todo[e])
        /\ UNCHANGED <<current, next, onIdle>>
    BY <1>4, <1>6 DEF MigrateTo, Without
  <2>2. CASE /\ rq' = With(rq, d, t) \/ rq' = rq
             /\ mq' = Without(mq, c, t)
             /\ target' = [target EXCEPT ![c] = d]
             /\ pc' = [pc EXCEPT ![c] = "ping"]
             /\ UNCHANGED <<taskVars, seq, chan, agentVars, cfsVars>>
    <3>1. /\ mq'[c] = mq[c] \ {t} /\ pc'[c] = "ping" /\ target'[c] = d
          /\ \A e \in Cpus : e # c => mq'[e] = mq[e] /\ pc'[e] = pc[e] /\ target'[e] = target[e]
          /\ \A e \in Cpus : e # d => rq'[e] = rq[e]
      BY <1>2, <1>4, <2>2 DEF With, Without
    <3>2. UNCHANGED <<oncpu, chan, ast, stale, rtla, boosted>>
      BY <2>2 DEF taskVars, agentVars, cfsVars
    <3>3. Pinged(d)'
      BY <3>1 DEF Pinged
    <3>4. WakeOK(c)'
      BY <1>2, <1>3, <2>1, <3>1, <3>2 DEF WakeOK, Idling
    <3> QED BY <1>3, <2>1, <3>1, <3>2, <3>3, <3>4, LocalWakes
  <2>3. CASE ~AssociateOk(t, task[t].seqnum) /\ UNCHANGED <<kernelVars, task, rq, mq, target, pc>>
    <3>1. UNCHANGED <<oncpu, chan, ast, stale, rtla, boosted, rq, mq, target, pc>>
      BY <2>3 DEF kernelVars, taskVars, agentVars, cfsVars
    <3>2. chan[c] # <<>>
      BY <1>3, <2>3, NotYet
    <3>3. stale[c]
      BY <1>2, <1>3, <3>2 DEF WakeOK, Idling
    <3>4. WakeOK(c)'
      BY <1>2, <1>3, <2>1, <3>1, <3>3 DEF WakeOK, Idling
    <3> QED BY <1>3, <2>1, <3>1, <3>4, LocalWakes
  <2> QED BY <1>6, <2>2, <2>3 DEF MigrateTo, Goto
<1>7. ~Abort("MigrateTasks", t)
  BY DEF Abort, CfsInv, NoFailure
<1> QED BY <1>5, <1>6, <1>7 DEF MigrateTasks

\* The agent of the other CPU is told, and looks again.
LEMMA PingWakes ==
  ASSUME CfsInv, WakeInv, NEW c \in Cpus, PingCpu(c)
  PROVE  WakeInv'
<1>1. PICK l : l = "ping" /\ At(c, l)
  BY DEF PingCpu
<1>2. /\ WakeOK(c) /\ ast[c] = "running" /\ pc[c] = l /\ (l # "yield" => onIdle[c] = FALSE)
      /\ TypeOK /\ KernelTypeOK /\ pc \in [Cpus -> Labels]
  BY ONLY CfsInv, WakeInv, c \in Cpus, <1>1, AtWork
<1>3. PICK d \in Cpus : d = target[c]
  BY <1>2 DEF TypeOK
<1>4. /\ stale'[d] = TRUE /\ ast'[d] # "sleeping" /\ rtla' = rtla
      /\ \A e \in Cpus : e # d => stale'[e] = stale[e] /\ ast'[e] = ast[e]
  BY <1>2, <1>3, WakeAgentFacts DEF PingCpu
<1>5. /\ UNCHANGED <<oncpu, chan, boosted, current, next, rq, mq, todo, onIdle>>
      /\ pc'[c] = "migrate" /\ \A e \in Cpus : e # c => pc'[e] = pc[e] /\ target'[e] = target[e]
  BY <1>2 DEF PingCpu, Goto, taskVars, cfsVars, cpuVars, TypeOK
<1>6. WakeOK(c)'
  <2>1. stale[c] => stale'[c]
    BY <1>4
  <2>2. ast'[c] # "sleeping"
    BY <1>2, <1>4
  <2> QED BY <1>1, <1>2, <1>5, <2>1, <2>2 DEF WakeOK, Idling
<1>7. ASSUME NEW e \in Cpus, e # c PROVE WakeOK(e)'
  <2>0. WakeOK(e)
    BY DEF WakeInv
  <2>1. CASE e = d
    BY <1>4, <1>5, <1>7, <2>0, <2>1, AlertedOK DEF Alerted
  <2>2. CASE e # d
    <3>1. Pinged(e) => Pinged(e)'
      <4> SUFFICES ASSUME NEW f \in Cpus, pc[f] = "ping", target[f] = e PROVE Pinged(e)'
        BY DEF Pinged
      <4>1. f # c
        BY <1>3, <2>2
      <4> QED BY <1>5, <4>1 DEF Pinged
    <3>2. Calm(e)
      BY <1>4, <1>5, <1>7, <2>2, <3>1 DEF Calm
    <3> QED BY <2>0, <3>2, CalmOK
  <2> QED BY <2>1, <2>2
<1> QED BY <1>6, <1>7 DEF WakeInv

\* What an agent does with its own run queue and current task.
LEMMA ScheduleWakes ==
  ASSUME CfsInv, WakeInv, NEW c \in Cpus, PrioBoost(c) \/ KeepRunning(c) \/ PickNextTask(c) \/ NewIdleBalance(c)
  PROVE  WakeInv'
<1>1. PICK l : l \in {"migrate", "pickpulled"} /\ At(c, l)
  BY DEF PrioBoost, KeepRunning, PickNextTask, NewIdleBalance
<1>2. /\ WakeOK(c) /\ ast[c] = "running" /\ pc[c] = l /\ (l # "yield" => onIdle[c] = FALSE)
      /\ TypeOK /\ pc \in [Cpus -> Labels]
  BY ONLY CfsInv, WakeInv, c \in Cpus, <1>1, AtWork
<1>3. /\ pc[c] # "ping" /\ pc[c] # "drain" /\ onIdle[c] = FALSE
      /\ UNCHANGED <<oncpu, chan, ast, stale, rtla, boosted, mq, todo, target>>
  BY <1>1, <1>2 DEF PrioBoost, KeepRunning, PickNextTask, NewIdleBalance, kernelVars, taskVars, agentVars, cfsVars,
                    cpuVars, balanceVars
<1>4. /\ rq \in [Cpus -> SUBSET Tasks] /\ current \in [Cpus -> Tasks \cup {NoTask}] /\ onIdle \in [Cpus -> BOOLEAN]
      /\ next \in [Cpus -> Tasks \cup {NoTask}]
  BY <1>2 DEF TypeOK
<1>5. /\ \A d \in Cpus : d # c => pc'[d] = pc[d] /\ rq'[d] = rq[d] /\ current'[d] = current[d] /\ next'[d] = next[d] /\ onIdle'[d] = onIdle[d]
      /\ \/ pc'[c] = "picked" /\ next'[c] # NoTask /\ onIdle'[c] = FALSE
         \/ pc'[c] = "yield" /\ onIdle'[c] = TRUE
         \/ pc'[c] \in {"balance", "picked"} /\ onIdle'[c] = FALSE /\ rq'[c] = {}
  <2>1. CASE PrioBoost(c)
    BY <1>2, <1>4, <2>1 DEF PrioBoost, Goto
  <2>2. CASE KeepRunning(c)
    BY <1>2, <1>3, <1>4, <2>2, CfsAssumption DEF KeepRunning, Goto, cpuVars
  <2>3. CASE PickNextTask(c)
    <3>1. onIdle' = onIdle
      BY <2>3 DEF PickNextTask
    <3>0. current' = current
      BY <2>3 DEF PickNextTask
    <3>2. CASE Pick(c, PutBack(c, current[c]), Reconciled(current[c]))
      <4>1. PutBack(c, current[c]) \subseteq Tasks
        BY <1>4 DEF PutBack
      <4> QED BY <1>2, <1>3, <1>4, <3>0, <3>1, <3>2, <4>1, CfsAssumption DEF Pick, Goto
    <3>3. CASE /\ PutBack(c, current[c]) = {} /\ next' = next /\ rq' = rq
               /\ pc' = [pc EXCEPT ![c] = IF "balance" \in CfsEvents THEN "balance" ELSE "picked"]
      <4>1. rq[c] = {}
        BY <3>3 DEF PutBack
      <4> QED BY <1>2, <1>3, <1>4, <3>0, <3>1, <3>3, <4>1
    <3> QED BY <2>3, <3>2, <3>3 DEF PickNextTask, Goto
  <2>4. CASE NewIdleBalance(c)
    <3>1. onIdle' = onIdle
      BY <2>4 DEF NewIdleBalance
    <3>0. current' = current
      BY <2>4 DEF NewIdleBalance
    <3>2. CASE Pick(c, rq[c], task)
      BY <1>2, <1>3, <1>4, <3>0, <3>1, <3>2, CfsAssumption DEF Pick, Goto
    <3>3. CASE rq[c] = {} /\ Goto(c, "picked") /\ UNCHANGED <<rq, next>>
      BY <1>2, <1>3, <1>4, <3>0, <3>1, <3>3 DEF Goto
    <3> QED BY <2>4, <3>2, <3>3 DEF NewIdleBalance
  <2> QED BY <2>1, <2>2, <2>3, <2>4
<1>6. WakeOK(c)'
  BY <1>2, <1>3, <1>5 DEF WakeOK, Idling
<1> QED BY <1>3, <1>5, <1>6, LocalWakes

\* Load balancing takes from the other CPUs only.
LEMMA BalanceWakes ==
  ASSUME CfsInv, WakeInv, NEW c \in Cpus, LoadBalance(c) \/ DetachTasks(c) \/ AttachTasks(c)
  PROVE  WakeInv'
<1>1. PICK l : l \in {"balance", "detach", "attach"} /\ At(c, l)
  BY DEF LoadBalance, DetachTasks, AttachTasks
<1>2. /\ WakeOK(c) /\ ast[c] = "running" /\ pc[c] = l /\ (l # "yield" => onIdle[c] = FALSE)
      /\ TypeOK /\ pc \in [Cpus -> Labels]
  BY ONLY CfsInv, WakeInv, c \in Cpus, <1>1, AtWork
<1>3. /\ pc[c] # "ping" /\ pc[c] # "drain" /\ onIdle[c] = FALSE
      /\ UNCHANGED <<oncpu, chan, ast, stale, rtla, boosted, mq, todo, current, next, onIdle>>
  BY <1>1, <1>2 DEF LoadBalance, DetachTasks, AttachTasks, kernelVars, taskVars, agentVars, cfsVars,
                    cpuVars, balanceVars
<1>4. rq \in [Cpus -> SUBSET Tasks] /\ target \in [Cpus -> Cpus] /\ target[c] \in Cpus
  BY <1>2 DEF TypeOK
<1>5. /\ \A d \in Cpus : d # c => pc'[d] = pc[d] /\ target'[d] = target[d] /\ rq'[d] \subseteq rq[d]
      /\ \/ pc'[c] = "pickpulled"
         \/ pc'[c] \in {"detach", "attach", "picked"} /\ rq'[c] \subseteq rq[c]
  <2>1. CASE LoadBalance(c)
    <3>1. rq' = rq
      BY <2>1 DEF LoadBalance, cpuVars
    <3>2. /\ (pc' = [pc EXCEPT ![c] = "detach"] \/ pc' = [pc EXCEPT ![c] = "picked"])
          /\ target' = target \/ \E d \in Cpus : target' = [target EXCEPT ![c] = d]
      BY <2>1 DEF LoadBalance, Goto
    <3> QED BY <1>2, <1>4, <3>1, <3>2
  <2>2. CASE DetachTasks(c)
    <3>1. PICK pulled : /\ rq' = [rq EXCEPT ![target[c]] = @ \ pulled]
                        /\ pc' = [pc EXCEPT ![c] = IF pulled = {} THEN "picked" ELSE "attach"]
                        /\ target' = [target EXCEPT ![c] = 0]
      BY <2>2 DEF DetachTasks, Goto
    <3> QED BY <1>2, <1>4, <3>1
  <2>3. CASE AttachTasks(c)
    <3>1. /\ rq' = [rq EXCEPT ![c] = @ \cup moving[c]] /\ pc' = [pc EXCEPT ![c] = "pickpulled"] /\ target' = target
      BY <2>3 DEF AttachTasks, Goto
    <3> QED BY <1>2, <1>4, <3>1
  <2> QED BY <2>1, <2>2, <2>3
<1>6. \A d \in Cpus : Pinged(d) => Pinged(d)'
  <2> SUFFICES ASSUME NEW d \in Cpus, NEW e \in Cpus, pc[e] = "ping", target[e] = d PROVE Pinged(d)'
    BY DEF Pinged
  <2>1. e # c
    BY <1>3
  <2> QED BY <1>5, <2>1 DEF Pinged
<1>7. WakeOK(c)'
  <2>1. CASE pc'[c] = "pickpulled"
    BY <1>2, <1>3, <2>1 DEF WakeOK, Idling
  <2>2. CASE pc'[c] \in {"detach", "attach", "picked"} /\ rq'[c] \subseteq rq[c]
    <3>1. rq[c] = {} \/ stale[c] \/ Pinged(c)
      BY <1>1, <1>2, <1>3 DEF WakeOK, Idling
    <3> QED BY <1>2, <1>3, <1>6, <2>2, <3>1 DEF WakeOK, Idling
  <2> QED BY <1>5, <2>1, <2>2
<1> QED BY <1>3, <1>5, <1>7, LocalWakes

\* What was picked becomes the current task.
LEMMA SetCurrentWakes ==
  ASSUME CfsInv, WakeInv, NEW c \in Cpus, SetCurrent(c)
  PROVE  WakeInv'
<1>1. PICK l : l = "picked" /\ At(c, l)
  BY DEF SetCurrent
<1>2. /\ WakeOK(c) /\ ast[c] = "running" /\ pc[c] = l /\ (l # "yield" => onIdle[c] = FALSE)
      /\ TypeOK /\ pc \in [Cpus -> Labels]
  BY ONLY CfsInv, WakeInv, c \in Cpus, <1>1, AtWork
<1>3. /\ UNCHANGED <<oncpu, chan, ast, stale, rtla, boosted, next, rq, mq, todo, target, onIdle>>
      /\ current' = [current EXCEPT ![c] = next[c]]
      /\ pc' = [pc EXCEPT ![c] = IF next[c] = NoTask THEN "yield" ELSE "commit"]
  BY DEF SetCurrent, Goto, kernelVars, taskVars, agentVars, cfsVars, localVars, balanceVars
<1>4. /\ pc'[c] = (IF next[c] = NoTask THEN "yield" ELSE "commit") /\ pc[c] = "picked" /\ onIdle[c] = FALSE
      /\ \A d \in Cpus : d # c => pc'[d] = pc[d] /\ current'[d] = current[d]
  BY <1>1, <1>2, <1>3 DEF TypeOK
<1>5. \A d \in Cpus : Pinged(d) => Pinged(d)'
  BY <1>3, <1>4 DEF Pinged
<1>6. WakeOK(c)'
  BY <1>2, <1>3, <1>4, <1>5 DEF WakeOK, Idling
<1> QED BY <1>3, <1>4, <1>6, LocalWakes

\* An agent gives its CPU to a task only if it has read everything.
LEMMA CommitWakes ==
  ASSUME CfsInv, CfsInv', WakeInv, NEW c \in Cpus, Commit(c)
  PROVE  WakeInv'
<1>1. PICK l : l = "commit" /\ At(c, l)
  BY DEF Commit
<1>2. /\ WakeOK(c) /\ ast[c] = "running" /\ pc[c] = l /\ (l # "yield" => onIdle[c] = FALSE)
      /\ TypeOK /\ KernelTypeOK /\ pc \in [Cpus -> Labels]
  BY ONLY CfsInv, WakeInv, c \in Cpus, <1>1, AtWork
<1>3. /\ pc[c] = "commit" /\ onIdle[c] = FALSE /\ oncpu[next[c]] = NoCpu
      /\ UNCHANGED <<current, rq, mq, todo, target, onIdle>>
  BY <1>1, <1>2 DEF Commit, cpuVars, balanceVars
<1>4. PICK t \in Tasks : t = next[c] /\ current[c] = t /\ t # NoTask
  BY <1>2, <1>3, CfsAssumption, ChosenFacts DEF CfsInv, AgentInv, AgentOK, IsCurrent, Picking
<1>5. failed' = NoFailure
  BY DEF CfsInv
<1>40. \A d \in Cpus : d # c => next'[d] = next[d]
  BY <1>2, <1>5 DEF Commit, TypeOK, CfsInv, NoFailure
<1>6. CASE TxnState(c, t, task[t].seqnum) = "COMPLETE" /\ RunTask(c, t) /\ Goto(c, "top")
           /\ UNCHANGED <<kst, seq, assoc, chan, stale, rtla, cfsVars, failed>>
  <2>1. ~stale[c]
    BY <1>6 DEF TxnState
  <2>2. /\ oncpu' = [oncpu EXCEPT ![t] = c] /\ ast' = [ast EXCEPT ![c] = "sleeping"] /\ pc' = [pc EXCEPT ![c] = "top"]
        /\ UNCHANGED <<chan, stale, rtla, boosted>>
    BY <1>6 DEF RunTask, Goto, cfsVars
  <2>3. /\ oncpu'[t] = c /\ ast'[c] = "sleeping" /\ pc'[c] = "top"
        /\ (\A u \in Tasks : u # t => oncpu'[u] = oncpu[u])
        /\ \A d \in Cpus : d # c => ast'[d] = ast[d] /\ pc'[d] = pc[d]
    BY <1>2, <2>2 DEF KernelTypeOK
  <2>4. WakeOK(c)'
    BY <1>2, <1>3, <1>4, <2>1, <2>2, <2>3 DEF WakeOK, Idling
  <2>5. /\ \A u \in Tasks : oncpu[u] # NoCpu => oncpu'[u] = oncpu[u]
        /\ \A d \in Cpus : pc[d] = "ping" => pc'[d] = "ping" /\ target'[d] = target[d]
    BY <1>3, <1>4, <2>3
  <2> QED BY <1>3, <1>40, <2>2, <2>3, <2>4, <2>5, OthersCalm
<1>7. CASE Goto(c, "top") /\ UNCHANGED kernelVars
  <2>1. /\ UNCHANGED <<oncpu, chan, ast, stale, rtla, boosted>> /\ pc'[c] = "top"
        /\ \A d \in Cpus : d # c => pc'[d] = pc[d]
    BY <1>2, <1>7 DEF Goto, kernelVars, taskVars, agentVars, cfsVars
  <2>2. WakeOK(c)'
    BY <1>2, <1>3, <2>1 DEF WakeOK, Idling
  <2> QED BY <1>3, <1>40, <2>1, <2>2, LocalWakes
<1>8. failed' # [in |-> "CompleteRunRequest", task |-> t]
  BY <1>5 DEF NoFailure
<1> QED BY <1>4, <1>6, <1>7, <1>8 DEF Commit

\* An agent sleeps only if it has read everything and has nothing to run.
LEMMA YieldWakes ==
  ASSUME CfsInv, WakeInv, NEW c \in Cpus, LocalYield(c)
  PROVE  WakeInv'
<1>1. PICK l : l = "yield" /\ At(c, l)
  BY DEF LocalYield
<1>2. /\ WakeOK(c) /\ ast[c] = "running" /\ pc[c] = l /\ onIdle[c] \in BOOLEAN
      /\ TypeOK /\ KernelTypeOK /\ pc \in [Cpus -> Labels]
  BY ONLY CfsInv, WakeInv, c \in Cpus, <1>1, AtWork
<1>3. /\ UNCHANGED <<oncpu, chan, stale, boosted, current, next, rq, mq, todo, target>> /\ current[c] = NoTask
      /\ pc' = [pc EXCEPT ![c] = "top"] /\ onIdle' = [onIdle EXCEPT ![c] = FALSE]
  <2>1. Chosen[c] = NoTask /\ Chosen[c] = current[c]
    BY <1>1, <1>2, ChosenFacts DEF CfsInv, AgentInv, AgentOK, Picking
  <2> QED BY <2>1 DEF LocalYield, Goto, taskVars, cfsVars, cpuVars, balanceVars
<1>4. /\ pc'[c] = "top" /\ onIdle'[c] = FALSE
      /\ \A d \in Cpus : d # c => pc'[d] = pc[d] /\ onIdle'[d] = onIdle[d]
  BY <1>2, <1>3 DEF TypeOK
<1>5. /\ \A d \in Cpus : d # c => ast'[d] = ast[d] /\ rtla'[d] = rtla[d]
      /\ ast'[c] = "sleeping" => /\ ~stale[c] /\ rtla'[c] = onIdle[c]
                                 /\ onIdle[c] => boosted[c]
  BY <1>2 DEF LocalYield, BlockAgent, KernelTypeOK
<1>6. \A d \in Cpus : /\ Pinged(d) => Pinged(d)'
                      /\ pc[d] = "ping" => pc'[d] = "ping" /\ target'[d] = target[d]
  BY <1>1, <1>2, <1>3, <1>4 DEF Pinged
<1>7. WakeOK(c)'
  <2>1. onIdle[c] \/ rq[c] = {} \/ stale[c] \/ Pinged(c)
    BY <1>1, <1>2 DEF WakeOK, Idling
  <2> QED BY <1>1, <1>2, <1>3, <1>4, <1>5, <1>6, <2>1 DEF WakeOK, Idling
<1> QED BY <1>3, <1>4, <1>5, <1>6, <1>7, OthersCalm

\* A step of an agent loses no wakeup.
LEMMA AgentWakes ==
  ASSUME CfsInv, WakeInv, NEW c \in Cpus, AgentStep(c)
  PROVE  WakeInv'
<1>0. CfsInv'
  BY AgentKeeps
<1>1. CASE ReadBarrier(c)
  BY <1>1, BarrierWakes
<1>2. CASE Handler(c)
  BY <1>0, <1>2, HandlerWakes
<1>3. CASE DrainDone(c)
  BY <1>3, DrainWakes
<1>4. ASSUME NEW t \in Tasks, MigrateTasks(c, t) PROVE WakeInv'
  BY <1>0, <1>4, MigrateWakes
<1>5. CASE PingCpu(c)
  BY <1>5, PingWakes
<1>6. CASE PrioBoost(c) \/ KeepRunning(c) \/ PickNextTask(c) \/ NewIdleBalance(c)
  BY <1>6, ScheduleWakes
<1>7. CASE LoadBalance(c) \/ DetachTasks(c) \/ AttachTasks(c)
  BY <1>7, BalanceWakes
<1>8. CASE Commit(c)
  BY <1>0, <1>8, CommitWakes
<1>9. CASE LocalYield(c)
  BY <1>9, YieldWakes
<1>10. CASE SetCurrent(c)
  BY <1>10, SetCurrentWakes
<1> QED BY <1>1, <1>2, <1>3, <1>4, <1>5, <1>6, <1>7, <1>8, <1>9, <1>10 DEF AgentStep

\* When every agent sleeps, all messages have been read and every task that could run
\* waits for a CPU that is busy.
LEMMA AllAsleep ==
  ASSUME CfsInv, WakeInv, \A c \in Cpus : ast[c] = "sleeping", NEW t \in Tasks, kst[t] = "runnable"
  PROVE  oncpu[t] # NoCpu \/ (task[t].known /\ Busy(task[t].cpu))
<1>1. /\ \A c \in Cpus : pc[c] = "top" /\ ~stale[c] /\ WakeOK(c) /\ AgentOK(c)
      /\ TypeOK /\ MsgOK(t) /\ PlaceOK(t) /\ task[t] \in CfsTasks
  BY DEF CfsInv, CpuInv, WakeInv, WakeOK, AgentInv, MessageInv, PlaceInv, TypeOK
<1>2. \A c \in Cpus : chan[c] = <<>> /\ ~Pinged(c) /\ todo[c] = {} /\ moving[c] = {} /\ mq[c] = {}
  <2>1. \A c \in Cpus : chan[c] = <<>> /\ ~Pinged(c)
    BY <1>1 DEF WakeOK, Pinged, Idling
  <2>2. \A c \in Cpus : todo[c] = {} /\ moving[c] = {}
    BY <1>1 DEF AgentOK
  <2>3. \A c \in Cpus : mq[c] = {}
    BY <1>1, <2>2 DEF WakeOK, Idling
  <2> QED BY <2>1, <2>2, <2>3
<1>3. View(t) = "ready"
  <2>1. Home(t) \in Seq(Messages) /\ assoc[t] \in Cpus
    BY <1>1, TaskFacts DEF TypeOK, KernelTypeOK
  <2>2. Home(t) = <<>>
    BY <1>2, <2>1 DEF Home
  <2>3. Absent(Home(t), t, 1, Len(Home(t)))
    BY <2>2 DEF Absent
  <2>4. View(t) = Truth(t)
    BY <1>1, <2>1, <2>3, AbsentChain DEF MsgOK
  <2> QED BY <2>4 DEF Truth
<1>4. task[t].known /\ task[t].state \in {"kRunnable", "kRunning"}
  <2>1. task[t].state \in States
    BY <1>1, RecordFacts
  <2> QED BY <1>3, <2>1 DEF View, Is, States
<1>5. PICK c \in Cpus : c = task[t].cpu
  BY <1>1, <1>4, RecordFacts
<1>6. current \in [Cpus -> Tasks \cup {NoTask}] /\ c # NoCpu /\ t # NoTask
  BY <1>1, KernelAssumption, CfsAssumption DEF TypeOK, Cpus, NoCpu
<1>7. current[c] # NoTask => oncpu[current[c]] = c
  BY <1>1 DEF WakeOK, Idling
<1>8. CASE task[t].state = "kRunning"
  <2>1. Chosen[c] = t /\ Chosen[c] = current[c]
    BY <1>1, <1>4, <1>5, <1>8, ChosenFacts DEF PlaceOK, Picking
  <2> QED BY <1>6, <1>7, <2>1
<1>9. CASE task[t].state = "kRunnable"
  <2>1. task[t].on_rq \in OnRqs
    BY <1>1, RecordFacts
  <2>2. t \in rq[c]
    BY <1>1, <1>2, <1>4, <1>5, <1>9, <2>1 DEF PlaceOK, Waits, Is, OnRqs
  <2>3. current[c] # NoTask \/ (boosted[c] /\ rtla[c])
    BY <1>1, <1>2, <2>2 DEF WakeOK, Idling
  <2>4. Busy(c)
    BY <1>6, <1>7, <2>3 DEF Busy
  <2> QED BY <1>4, <1>5, <2>4
<1> QED BY <1>4, <1>8, <1>9

(***************************************************************************)
(* When all agents sleep, every runnable task is on a CPU or waits for one *)
(* that is busy: no wakeup, migration, ping or idle notification gets      *)
(* lost between an agent's reading of its barrier and its going to sleep.  *)
(***************************************************************************)
THEOREM CfsWakeupSafe ==
  ASSUME "reenter" \notin Events
  PROVE  Spec => []NoLostWakeup
<1>1. Init => WakeInv
  BY DEF Init, KernelInit, WakeInv, WakeOK
<1>2. CfsInv /\ WakeInv /\ [Next]_vars => WakeInv'
  <2>1. ASSUME CfsInv, WakeInv, UNCHANGED vars PROVE WakeInv'
    <3>1. UNCHANGED <<oncpu, chan, ast, stale, rtla, boosted, current, next, rq, mq, pc, todo, target, onIdle>>
      BY <2>1 DEF vars, kernelVars, taskVars, agentVars, cfsVars, cfsSchedVars, cpuVars, localVars, balanceVars
    <3> QED BY <2>1, <3>1 DEF WakeInv, WakeOK, Pinged, Idling
  <2> QED BY <2>1, KernelWakes, AgentWakes DEF Next
<1>3. CfsInv /\ WakeInv => NoLostWakeup
  BY AllAsleep DEF NoLostWakeup
<1> QED BY <1>1, <1>2, <1>3, CfsInvariant, PTL DEF Spec
===============================================================================
