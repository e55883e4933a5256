------------------------- MODULE FifoCentralizedProofs -------------------------
(***************************************************************************)
(* The centralized FIFO scheduler for every number of tasks and CPUs.      *)
(* All four safety properties of FifoCentralized are conjuncts of, or      *)
(* follow from, one inductive invariant, FifoInv.                          *)
(***************************************************************************)
EXTENDS FifoCentralized, QueueProofs, FiniteSetTheorems, WellFoundedInduction

(***************************************************************************)
(* The inductive invariant.                                                *)
(***************************************************************************)

\* The unread messages.  A task's messages are numbered, so that the order in
\* the channel is the order of the numbers.
Unread == {chan[i] : i \in 1 .. Len(chan)}

ChanInOrder ==
  \A i, j \in 1 .. Len(chan) :
    i < j /\ chan[i].task = chan[j].task => chan[i].seq < chan[j].seq

Blocks(m) == m.type = "TASK_BLOCKED" \/ (m.type = "TASK_NEW" /\ ~m.flag)
Ran(m)    == m.type \in {"TASK_BLOCKED", "TASK_YIELD", "TASK_PREEMPT"}
Final(m)  == m.type \in {"TASK_DEPARTED", "TASK_DEAD"}

\* Message m may be the next one of its task to be handled.
MayBeNext(m) ==
  /\ m.type = "TASK_NEW" <=> ~task[m.task].known
  /\ m.type \in {"TASK_WAKEUP", "TASK_DEAD"} => In(m.task, "kBlocked")
  /\ Ran(m) => ~In(m.task, "kBlocked")

\* Message m may be the one after message p.
Follows(m, p) ==
  \/ m.type \in {"TASK_WAKEUP", "TASK_DEAD"} /\ Blocks(p)
  \/ m.type = "TASK_DEPARTED" /\ ~Final(p)

MessageOK(m) ==
  /\ task[m.task].seqnum < m.seq /\ m.seq <= seq[m.task]
  /\ \/ m.seq = task[m.task].seqnum + 1 /\ MayBeNext(m)
     \/ \E p \in Unread : p.task = m.task /\ p.seq + 1 = m.seq /\ Follows(m, p)
  /\ Final(m) => m.seq = seq[m.task] /\ kst[m.task] \in {"departed", "dead"}

\* A task in state k has sent message m last.
Ends(k, m) ==
  \/ k \in {"blocked", "dying"} /\ Blocks(m)
  \/ k = "runnable" /\ ~Blocks(m) /\ ~Final(m)
  \/ k \in {"departed", "dead"} /\ Final(m)

\* What the scheduler will know of task t when it has read all messages.
ViewOK(t) ==
  IF kst[t] = "new"
    THEN ~task[t].known /\ seq[t] = 0 /\ \A m \in Unread : m.task # t
    ELSE \/ /\ task[t].known /\ task[t].seqnum = seq[t]
            /\ kst[t] \in {"blocked", "dying", "runnable"}
            /\ In(t, "kBlocked") <=> kst[t] # "runnable"
         \/ \E m \in Unread : m.task = t /\ m.seq = seq[t] /\ Ends(kst[t], m)
         \/ /\ ~task[t].known /\ kst[t] \in {"departed", "dead"}
            /\ \A m \in Unread : m.task # t

MsgInv ==
  /\ ChanInOrder
  /\ \A m \in Unread : MessageOK(m)
  /\ \A t \in Tasks : ViewOK(t)
  /\ \A t \in Tasks : ~task[t].known => task[t] = NewFifoTask

OnCpuOrLatched(t) == oncpu[t] # NoCpu \/ IsLatched(t)

\* The CPUs: who is on one or about to be has told all there is to tell.
CpuInv ==
  /\ \A t \in Tasks : OnCpuOrLatched(t) =>
       /\ kst[t] = "runnable" /\ task[t].known /\ ~In(t, "kBlocked")
       /\ task[t].seqnum = seq[t]
  /\ \A t \in Tasks : IsLatched(t) => oncpu[t] = NoCpu
  /\ \A c, d \in Cpus : latched[c] = latched[d] /\ latched[c] # NoTask => c = d
  /\ \A t, u \in Tasks : oncpu[t] = oncpu[u] /\ oncpu[t] # NoCpu => t = u
  /\ \A c \in Cpus : ast[c] = "running" =>
       latched[c] = NoTask /\ \A t \in Tasks : oncpu[t] # c
  /\ \A t \in Tasks : In(t, "kOnCpu") /\ task[t].seqnum = seq[t] =>
       \/ oncpu[t] = task[t].cpu /\ ~resched[task[t].cpu]
       \/ latched[task[t].cpu] = t

Scheduling == \E c \in Cpus : pc[c] \in {"pick", "commit"}

\* The global agent: the locals of GlobalSchedule, and the tasks that yield.
AgentInv ==
  /\ \A c \in Cpus : pc[c] \in {"drain", "pick", "commit", "move"} => c = globalCpu
  /\ available \cap assigned = {}
  /\ assigned # {} => Scheduling
  /\ \A d \in assigned : current[d] # NoTask /\ In(current[d], "kRunnable")
  /\ \A t \in Tasks : In(t, "kRunnable") => \E d \in assigned : current[d] = t
  /\ \A t \in Tasks : In(t, "kYielding") /\ ~Scheduling =>
       /\ ~OnCpuOrLatched(t)
       /\ \A m \in Unread : m.task = t => ~Ran(m)

FifoInv == RunqueueOK /\ ChecksHold /\ MsgInv /\ CpuInv /\ AgentInv

-------------------------------------------------------------------------------
(***************************************************************************)
(* Facts about the sets and the channel that the model is built from.      *)
(***************************************************************************)

\* CpuList::Front of a list that is not empty is one of its CPUs.
LEMMA FrontFacts ==
  ASSUME NEW S \in SUBSET Cpus, S # {}
  PROVE  Front(S) \in S
<1>1. S \subseteq Nat
  BY GlobalKernelAssumption DEF Cpus
<1> DEFINE Less == {ss \in Nat \X Nat : ss[1] < ss[2]}
<1>2. IsWellFoundedOn(Less, Nat)
  BY NatLessThanWellFounded DEF OpToRel
<1>0. ASSUME NEW x \in Nat, NEW y \in Nat, x < y PROVE <<x, y>> \in Less
  <2>1. <<x, y>> \in Nat \X Nat /\ <<x, y>>[1] = x /\ <<x, y>>[2] = y
    OBVIOUS
  <2> QED BY <1>0, <2>1
<1> HIDE DEF Less
<1>3. PICK d \in S : \A e \in S : ~ (<<e, d>> \in Less)
  BY <1>1, <1>2, WFMin
<1>4. ASSUME NEW e \in S PROVE d <= e
  <2>1. d \in Nat /\ e \in Nat
    BY <1>1
  <2>2. ~ (e < d)
    BY <2>1, <1>0, <1>3, Zenon
  <2> QED BY <2>1, <2>2
<1> QED BY <1>4 DEF Front

\* The CPUs at the end of a time slice can be counted.
LEMMA ExpiredFacts ==
  ASSUME NEW S \in SUBSET Cpus
  PROVE  Cardinality(S) \in Nat
<1>1. IsFiniteSet(Cpus)
  BY FS_Interval, GlobalKernelAssumption DEF Cpus
<1> QED BY <1>1, FS_Subset, FS_CardinalityType

\* No two messages of a task have the same number.
LEMMA UnreadUnique ==
  ASSUME KernelTypeOK, ChanInOrder, NEW m \in Unread, NEW p \in Unread,
         m.task = p.task, m.seq = p.seq
  PROVE  m = p
<1>1. PICK i \in 1 .. Len(chan) : m = chan[i]
  BY DEF Unread
<1>2. PICK j \in 1 .. Len(chan) : p = chan[j]
  BY DEF Unread
<1>3. Len(chan) \in Nat /\ chan[i] \in Messages /\ chan[j] \in Messages
  BY DEF KernelTypeOK
<1>4. chan[i].seq \in Nat /\ chan[j].seq \in Nat
  BY <1>3 DEF Messages
<1> QED BY <1>1, <1>2, <1>3, <1>4 DEF ChanInOrder

LEMMA UnreadType ==
  ASSUME KernelTypeOK, NEW m \in Unread
  PROVE  m \in Messages /\ m.task \in Tasks /\ m.seq \in Nat /\ m.flag \in BOOLEAN
<1>1. m \in Messages
  BY DEF KernelTypeOK, Unread
<1> QED BY <1>1 DEF Messages

\* The message at the head of the channel is the first of its task.
LEMMA ConsumeFacts ==
  ASSUME KernelTypeOK, ChanInOrder, chan # <<>>, chan' = Tail(chan)
  PROVE  /\ Msg \in Unread /\ Msg \in Messages
         /\ chan' \in Seq(Messages) /\ ChanInOrder'
         /\ Unread' = Unread \ {Msg}
         /\ \A m \in Unread : m.task = Msg.task => m = Msg \/ m.seq > Msg.seq
<1>1. /\ Tail(chan) \in Seq(Messages)
      /\ Len(Tail(chan)) = Len(chan) - 1
      /\ Len(chan) \in Nat /\ Len(chan) >= 1
      /\ Head(chan) = chan[1] /\ chan[1] \in Messages
      /\ \A i \in 1 .. Len(chan) - 1 : Tail(chan)[i] = chan[i + 1]
  BY TailFacts DEF KernelTypeOK
<1>2. Msg = chan[1] /\ Msg \in Unread
  BY <1>1 DEF Msg, Unread
<1>3. ChanInOrder'
  BY <1>1 DEF ChanInOrder
<1>4. ASSUME NEW i \in 1 .. Len(chan), i # 1, chan[i].task = Msg.task
      PROVE  chan[i].seq > Msg.seq
  <2>1. chan[i] \in Messages
    BY DEF KernelTypeOK
  <2>2. chan[1].seq < chan[i].seq
    BY <1>1, <1>2, <1>4 DEF ChanInOrder
  <2> QED BY <2>1, <2>2, <1>1, <1>2 DEF Messages
<1>5. \A m \in Unread : m.task = Msg.task => m = Msg \/ m.seq > Msg.seq
  BY <1>2, <1>4 DEF Unread
<1>6. \A i \in 1 .. Len(chan) : i # 1 => chan[i] # Msg
  <2> SUFFICES ASSUME NEW i \in 1 .. Len(chan), i # 1, chan[i] = Msg PROVE FALSE
    OBVIOUS
  <2>1. Msg.seq > Msg.seq /\ Msg.seq \in Nat
    BY <1>4, <1>1, <1>2 DEF Messages
  <2> QED BY <2>1
<1>7. Unread' = Unread \ {Msg}
  <2>1. ASSUME NEW m \in Unread' PROVE m \in Unread \ {Msg}
    <3>1. PICK i \in 1 .. Len(chan) - 1 : m = chan[i + 1]
      BY <2>1, <1>1 DEF Unread
    <3>2. i + 1 \in 1 .. Len(chan) /\ i + 1 # 1
      BY <1>1
    <3> QED BY <3>1, <3>2, <1>6 DEF Unread
  <2>2. ASSUME NEW m \in Unread, m # Msg PROVE m \in Unread'
    <3>1. PICK i \in 1 .. Len(chan) : m = chan[i]
      BY <2>2 DEF Unread
    <3>2. i - 1 \in 1 .. Len(chan) - 1 /\ m = Tail(chan)[i - 1]
      BY <3>1, <1>1, <1>2, <2>2
    <3> QED BY <3>2, <1>1 DEF Unread
  <2> QED BY <2>1, <2>2
<1> QED BY <1>1, <1>2, <1>3, <1>5, <1>7
NewMsg(t, type, flag) == [type |-> type, task |-> t, seq |-> seq[t] + 1, flag |-> flag]

\* The tasks of T have sent a message each, the last ones they have sent.
Sent(T, type, flag) ==
  /\ chan' \in Seq(Messages) /\ ChanInOrder'
  /\ seq' \in [Tasks -> Nat]
  /\ \A t \in Tasks : seq'[t] = IF t \in T THEN seq[t] + 1 ELSE seq[t]
  /\ \A m : m \in Unread' <=> m \in Unread \/ \E t \in T : m = NewMsg(t, type, flag)

\* Producing a message for each of some different tasks.
LEMMA ProduceFacts ==
  ASSUME KernelTypeOK, ChanInOrder, \A m \in Unread : m.seq <= seq[m.task],
         NEW ts \in Seq(Tasks), NoRepeats(ts), NEW type \in MsgTypes, NEW flag \in BOOLEAN,
         ProduceAll(ts, type, flag)
  PROVE  Sent({t \in Tasks : InQueue(t, ts)}, type, flag)
<1> DEFINE T == {t \in Tasks : InQueue(t, ts)}
           p == [i \in 1 .. Len(ts) |-> NewMsg(ts[i], type, flag)]
<1>1. Len(ts) \in Nat /\ \A i \in 1 .. Len(ts) : ts[i] \in Tasks /\ seq[ts[i]] \in Nat
  BY DEF KernelTypeOK
<1>2. \A i \in 1 .. Len(ts) : NewMsg(ts[i], type, flag) \in Messages
  BY <1>1 DEF NewMsg, Messages
<1>3. p \in Seq(Messages) /\ Len(p) = Len(ts)
  BY <1>1, <1>2
<1>4. \A i \in 1 .. Len(ts) : p[i] = NewMsg(ts[i], type, flag)
  OBVIOUS
<1>5. chan' = chan \o p
  BY DEF ProduceAll, NewMsg
<1>6. seq' = [t \in Tasks |-> IF InQueue(t, ts) THEN seq[t] + 1 ELSE seq[t]]
  BY DEF ProduceAll, InQueue
<1> HIDE DEF p
<1>7. /\ chan' \in Seq(Messages) /\ Len(chan') = Len(chan) + Len(ts)
      /\ Len(chan) \in Nat
      /\ \A i \in 1 .. Len(chan) : chan'[i] = chan[i]
      /\ \A i \in 1 .. Len(ts) : chan'[Len(chan) + i] = p[i]
  <2>1. chan \in Seq(Messages) /\ Len(chan) \in Nat
    BY DEF KernelTypeOK
  <2>2. /\ chan \o p \in Seq(Messages) /\ Len(chan \o p) = Len(chan) + Len(p)
        /\ \A i \in 1 .. Len(chan) + Len(p) :
             (chan \o p)[i] = IF i <= Len(chan) THEN chan[i] ELSE p[i - Len(chan)]
    BY <2>1, <1>3, ConcatProperties
  <2>3. \A i \in 1 .. Len(ts) : Len(chan) + i \in 1 .. Len(chan) + Len(p)
    BY <2>1, <1>1, <1>3
  <2> QED BY <2>1, <2>2, <2>3, <1>1, <1>3, <1>5
<1>8. ASSUME NEW i \in 1 .. Len(chan'), ~(i \in 1 .. Len(chan))
      PROVE  /\ i - Len(chan) \in 1 .. Len(ts)
             /\ chan'[i] = NewMsg(ts[i - Len(chan)], type, flag)
  <2>1. i - Len(chan) \in 1 .. Len(ts) /\ Len(chan) + (i - Len(chan)) = i
    BY <1>8, <1>7, <1>1
  <2> QED BY <2>1, <1>7, <1>4
<1>9. ASSUME NEW m PROVE m \in Unread' <=> m \in Unread \/ \E t \in T : m = NewMsg(t, type, flag)
  <2>1. ASSUME m \in Unread' PROVE m \in Unread \/ \E t \in T : m = NewMsg(t, type, flag)
    <3>1. PICK i \in 1 .. Len(chan') : m = chan'[i]
      BY <2>1 DEF Unread
    <3>2. CASE i \in 1 .. Len(chan)
      BY <3>1, <3>2, <1>7 DEF Unread
    <3>3. CASE ~(i \in 1 .. Len(chan))
      <4>1. i - Len(chan) \in 1 .. Len(ts) /\ m = NewMsg(ts[i - Len(chan)], type, flag)
        BY <3>1, <3>3, <1>8
      <4> QED BY <4>1, <1>1 DEF InQueue
    <3> QED BY <3>2, <3>3
  <2>2. ASSUME m \in Unread PROVE m \in Unread'
    <3>1. PICK i \in 1 .. Len(chan) : m = chan[i]
      BY <2>2 DEF Unread
    <3>2. i \in 1 .. Len(chan') /\ m = chan'[i]
      BY <3>1, <1>7, <1>1
    <3> QED BY <3>2 DEF Unread
  <2>3. ASSUME NEW t \in T, m = NewMsg(t, type, flag) PROVE m \in Unread'
    <3>1. PICK i \in 1 .. Len(ts) : ts[i] = t
      BY DEF InQueue
    <3>2. Len(chan) + i \in 1 .. Len(chan') /\ m = chan'[Len(chan) + i]
      BY <3>1, <2>3, <1>7, <1>1, <1>4
    <3> QED BY <3>2 DEF Unread
  <2> QED BY <2>1, <2>2, <2>3
<1>10. ChanInOrder'
  <2> SUFFICES ASSUME NEW i \in 1 .. Len(chan'), NEW j \in 1 .. Len(chan'), i < j,
                      chan'[i].task = chan'[j].task
               PROVE  chan'[i].seq < chan'[j].seq
    BY DEF ChanInOrder
  <2>1. CASE j \in 1 .. Len(chan)
    BY <2>1, <1>7 DEF ChanInOrder
  <2>2. CASE ~(j \in 1 .. Len(chan))
    <3> DEFINE u == ts[j - Len(chan)]
    <3>1. /\ j - Len(chan) \in 1 .. Len(ts) /\ chan'[j] = NewMsg(u, type, flag)
          /\ u \in Tasks /\ seq[u] \in Nat
      BY <2>2, <1>8, <1>1
    <3>2. chan'[j].task = u /\ chan'[j].seq = seq[u] + 1
      BY <3>1 DEF NewMsg
    <3>3. CASE i \in 1 .. Len(chan)
      <4>1. chan[i] \in Unread /\ chan'[i] = chan[i]
        BY <3>3, <1>7 DEF Unread
      <4>2. chan[i].seq <= seq[u] /\ chan[i].seq \in Nat
        BY <4>1, <3>2, UnreadType
      <4> QED BY <4>1, <4>2, <3>1, <3>2
    <3>4. CASE ~(i \in 1 .. Len(chan))
      <4>1. i - Len(chan) \in 1 .. Len(ts) /\ chan'[i] = NewMsg(ts[i - Len(chan)], type, flag)
        BY <3>4, <1>8
      <4>2. ts[i - Len(chan)] = u
        BY <4>1, <3>2 DEF NewMsg
      <4>3. i - Len(chan) = j - Len(chan)
        BY <4>1, <4>2, <3>1 DEF NoRepeats
      <4> QED BY <4>3, <1>7, <1>1
    <3> QED BY <3>3, <3>4
  <2> QED BY <2>1, <2>2
<1>11. seq' \in [Tasks -> Nat] /\ \A t \in Tasks : seq'[t] = IF t \in T THEN seq[t] + 1 ELSE seq[t]
  BY <1>6 DEF KernelTypeOK
<1> QED BY <1>7, <1>9, <1>10, <1>11 DEF Sent
-------------------------------------------------------------------------------
(***************************************************************************)
(* The messages.                                                           *)
(***************************************************************************)

\* When may a task send a message of this type?
CanSend(t, type) ==
  CASE type = "TASK_NEW"      -> kst[t] = "new"
    [] type = "TASK_WAKEUP"   -> kst[t] = "blocked"
    [] type = "TASK_DEAD"     -> kst[t] = "dying"
    [] type = "TASK_DEPARTED" -> kst[t] \in {"blocked", "runnable"}
    [] OTHER                  -> /\ kst[t] = "runnable" /\ task[t].known
                                 /\ task[t].seqnum = seq[t] /\ ~In(t, "kBlocked")

\* The scheduler has not learned anything about the tasks.
SameView ==
  /\ task' \in [Tasks -> FifoTasks]
  /\ \A t \in Tasks :
       /\ task'[t].known = task[t].known
       /\ task'[t].seqnum = task[t].seqnum
       /\ task'[t].run_state = "kBlocked" <=> task[t].run_state = "kBlocked"
       /\ ~task[t].known => task'[t] = task[t]

LEMMA TaskType ==
  ASSUME TypeOK, NEW t \in Tasks
  PROVE  /\ task[t] \in FifoTasks /\ task[t].known \in BOOLEAN /\ task[t].seqnum \in Nat
         /\ seq[t] \in Nat
<1>1. task[t] \in FifoTasks /\ seq[t] \in Nat
  BY DEF TypeOK, KernelTypeOK
<1> QED BY <1>1 DEF FifoTasks

\* The scheduler is never ahead of a task, and it has handled all of a task's
\* messages if none is left.
LEMMA SeqnumFacts ==
  ASSUME TypeOK, MsgInv, NEW t \in Tasks
  PROVE  /\ task[t].seqnum <= seq[t]
         /\ task[t].known /\ (\A m \in Unread : m.task # t) => task[t].seqnum = seq[t]
         /\ task[t].seqnum = seq[t] => \A m \in Unread : m.task # t
<1>1. task[t].seqnum \in Nat /\ seq[t] \in Nat
  BY TaskType
<1>2. \A m \in Unread : m.seq \in Nat
  BY UnreadType DEF TypeOK
<1>3. ~task[t].known => task[t].seqnum = 0
  BY DEF MsgInv, NewFifoTask
<1>4. \A m \in Unread : m.task = t => task[t].seqnum < m.seq /\ m.seq <= seq[t]
  BY DEF MsgInv, MessageOK
<1>5. ViewOK(t)
  BY DEF MsgInv
<1> QED BY <1>1, <1>2, <1>3, <1>4, <1>5 DEF ViewOK

\* The message at the head of the channel is one that can be handled.
LEMMA HeadFacts ==
  ASSUME TypeOK, MsgInv, chan # <<>>
  PROVE  /\ Msg \in Unread /\ Msg \in Messages /\ Msg.task \in Tasks
         /\ Msg.seq = task[Msg.task].seqnum + 1
         /\ MayBeNext(Msg)
<1>1. chan # <<>> /\ KernelTypeOK /\ ChanInOrder
  BY DEF TypeOK, MsgInv
<1>2. /\ Tail(chan) \in Seq(Messages)
      /\ Len(Tail(chan)) = Len(chan) - 1
      /\ Len(chan) \in Nat /\ Len(chan) >= 1
      /\ Head(chan) = chan[1] /\ chan[1] \in Messages
  BY <1>1, TailFacts DEF KernelTypeOK
<1>3. Msg = chan[1] /\ Msg \in Unread /\ Msg \in Messages
  BY <1>2 DEF Msg, Unread
<1>4. Msg.task \in Tasks /\ Msg.seq \in Nat
  BY <1>3 DEF Messages
<1>5. ~ \E p \in Unread : p.task = Msg.task /\ p.seq + 1 = Msg.seq
  <2> SUFFICES ASSUME NEW p \in Unread, p.task = Msg.task, p.seq + 1 = Msg.seq
               PROVE  FALSE
    OBVIOUS
  <2>1. PICK i \in 1 .. Len(chan) : p = chan[i]
    BY DEF Unread
  <2>2. p.seq \in Nat
    BY <1>1, UnreadType
  <2>3. i # 1
    BY <2>1, <2>2, <1>3
  <2>4. chan[1].seq < chan[i].seq
    BY <2>1, <2>3, <1>1, <1>2, <1>3 DEF ChanInOrder
  <2> QED BY <2>1, <2>2, <2>4, <1>3, <1>4
<1>6. MessageOK(Msg)
  BY <1>3 DEF MsgInv
<1> QED BY <1>3, <1>4, <1>5, <1>6 DEF MessageOK

\* Tasks that may send a message send it: what the scheduler will learn is
\* still what the kernel knows.
LEMMA SendKeepsMsgInv ==
  ASSUME TypeOK, MsgInv, SameView,
         NEW T \in SUBSET Tasks, NEW type \in MsgTypes, NEW flag \in BOOLEAN,
         Sent(T, type, flag),
         \A t \in T : CanSend(t, type) /\ Ends(kst'[t], NewMsg(t, type, flag)),
         \A t \in Tasks \ T : kst'[t] = kst[t]
  PROVE  MsgInv'
<1>1. \A t \in Tasks : /\ task[t].known \in BOOLEAN /\ task[t].seqnum \in Nat
                       /\ seq[t] \in Nat
  BY TaskType
<1>2. \A m \in Unread : m.task \in Tasks /\ m.seq \in Nat
  BY UnreadType DEF TypeOK
<1>3. \A t \in Tasks : /\ NewMsg(t, type, flag).task = t
                       /\ NewMsg(t, type, flag).seq = seq[t] + 1
                       /\ NewMsg(t, type, flag).type = type
  BY DEF NewMsg
<1>4. /\ \A t \in Tasks : seq'[t] = IF t \in T THEN seq[t] + 1 ELSE seq[t]
      /\ \A m : m \in Unread' <=> m \in Unread \/ \E t \in T : m = NewMsg(t, type, flag)
      /\ ChanInOrder'
  BY DEF Sent
<1>5. \A t \in Tasks : /\ task'[t].known = task[t].known
                       /\ task'[t].seqnum = task[t].seqnum
                       /\ In(t, "kBlocked")' <=> In(t, "kBlocked")
                       /\ ~task[t].known => task'[t] = task[t]
  BY DEF SameView, In
<1>6. \A t \in Tasks : task[t].seqnum <= seq[t]
  BY SeqnumFacts
<1>7. ASSUME NEW m \in Unread PROVE MessageOK(m)'
  <2>1. MessageOK(m) /\ m.task \in Tasks
    BY <1>2 DEF MsgInv
  <2>2. Final(m) => m.task \notin T
    <3>1. Final(m) => kst[m.task] \in {"departed", "dead"}
      BY <2>1 DEF MessageOK
    <3> QED BY <3>1 DEF CanSend
  <2>3. MayBeNext(m) => MayBeNext(m)'
    BY <2>1, <1>5 DEF MayBeNext
  <2>4. task'[m.task].seqnum < m.seq /\ m.seq <= seq'[m.task]
    BY <2>1, <1>1, <1>2, <1>4, <1>5 DEF MessageOK
  <2>5. (\E p \in Unread : p.task = m.task /\ p.seq + 1 = m.seq /\ Follows(m, p))
          => \E p \in Unread' : p.task = m.task /\ p.seq + 1 = m.seq /\ Follows(m, p)
    BY <1>4
  <2>6. Final(m) => m.seq = seq'[m.task] /\ kst'[m.task] \in {"departed", "dead"}
    BY <2>1, <2>2, <1>4 DEF MessageOK
  <2>7. \/ m.seq = task'[m.task].seqnum + 1 /\ MayBeNext(m)'
        \/ \E p \in Unread' : p.task = m.task /\ p.seq + 1 = m.seq /\ Follows(m, p)
    BY <2>1, <2>3, <2>5, <1>5 DEF MessageOK
  <2> QED BY <2>4, <2>6, <2>7 DEF MessageOK
<1>8. ASSUME NEW t \in T, NEW m, m = NewMsg(t, type, flag) PROVE MessageOK(m)'
  <2>1. t \in Tasks /\ m.task = t /\ m.seq = seq[t] + 1 /\ m.type = type /\ seq'[t] = seq[t] + 1
    BY <1>3, <1>4, <1>8
  <2>2. CanSend(t, type) /\ Ends(kst'[t], m)
    BY <1>8
  <2>3. task'[t].seqnum < m.seq /\ m.seq <= seq'[t]
    BY <2>1, <1>1, <1>5, <1>6
  <2>4. Final(m) => m.seq = seq'[t] /\ kst'[t] \in {"departed", "dead"}
    BY <2>1, <2>2 DEF Ends, Final, Blocks
  <2>5. ViewOK(t)
    BY <2>1 DEF MsgInv
  <2>6. CASE kst[t] = "new"
    <3>1. ~task[t].known /\ seq[t] = 0 /\ task[t].seqnum = 0
      BY <2>1, <2>5, <2>6 DEF ViewOK, MsgInv, NewFifoTask
    <3>2. m.type = "TASK_NEW"
      BY <2>1, <2>2, <2>6 DEF CanSend, MsgTypes
    <3>3. m.seq = task'[t].seqnum + 1 /\ MayBeNext(m)'
      BY <3>1, <3>2, <2>1, <1>5 DEF MayBeNext, Ran
    <3> QED BY <3>3, <2>1, <2>3, <2>4 DEF MessageOK
  <2>7. CASE /\ task[t].known /\ task[t].seqnum = seq[t]
             /\ kst[t] \in {"blocked", "dying", "runnable"}
             /\ In(t, "kBlocked") <=> kst[t] # "runnable"
    <3>1. MayBeNext(m)
      BY <2>1, <2>2, <2>7 DEF MayBeNext, CanSend, MsgTypes, Ran
    <3>2. m.seq = task'[t].seqnum + 1 /\ MayBeNext(m)'
      BY <3>1, <2>1, <2>7, <1>5 DEF MayBeNext
    <3> QED BY <3>2, <2>1, <2>3, <2>4 DEF MessageOK
  <2>8. CASE kst[t] # "new" /\ \E p \in Unread : p.task = t /\ p.seq = seq[t] /\ Ends(kst[t], p)
    <3>1. PICK p \in Unread : p.task = t /\ p.seq = seq[t] /\ Ends(kst[t], p)
      BY <2>8
    <3>2. task[t].seqnum # seq[t]
      BY <3>1, <2>1, SeqnumFacts
    <3>3. Follows(m, p)
      BY <3>1, <3>2, <2>1, <2>2, <2>8 DEF CanSend, MsgTypes, Follows, Ends, Blocks, Final
    <3>4. p \in Unread' /\ p.task = m.task /\ p.seq + 1 = m.seq
      BY <3>1, <2>1, <1>4
    <3> QED BY <3>3, <3>4, <2>1, <2>3, <2>4 DEF MessageOK
  <2>9. kst[t] \notin {"departed", "dead"}
    BY <2>2 DEF CanSend, MsgTypes
  <2> QED BY <2>5, <2>6, <2>7, <2>8, <2>9 DEF ViewOK
<1>9. ASSUME NEW t \in T PROVE ViewOK(t)'
  <2>1. Ends(kst'[t], NewMsg(t, type, flag)) /\ t \in Tasks
    OBVIOUS
  <2>2. kst'[t] # "new"
    BY <2>1 DEF Ends
  <2>3. /\ NewMsg(t, type, flag) \in Unread'
        /\ NewMsg(t, type, flag).task = t /\ NewMsg(t, type, flag).seq = seq'[t]
    BY <2>1, <1>3, <1>4
  <2> QED BY <2>1, <2>2, <2>3 DEF ViewOK
<1>10. ASSUME NEW t \in Tasks \ T PROVE ViewOK(t)'
  <2>1. ViewOK(t) /\ kst'[t] = kst[t] /\ seq'[t] = seq[t]
    BY <1>4 DEF MsgInv
  <2>2. \A m : m.task = t => (m \in Unread' <=> m \in Unread)
    BY <1>3, <1>4
  <2> QED BY <2>1, <2>2, <1>5 DEF ViewOK
<1>11. \A t \in Tasks : ~task'[t].known => task'[t] = NewFifoTask
  BY <1>5 DEF MsgInv
<1>12. \A m \in Unread' : MessageOK(m)'
  BY <1>4, <1>7, <1>8
<1> QED BY <1>4, <1>9, <1>10, <1>11, <1>12 DEF MsgInv

\* What a handler makes of its task.
Learned(t) ==
  \/ Final(Msg) /\ task'[t] = NewFifoTask
  \/ /\ ~Final(Msg) /\ task'[t].known /\ task'[t].seqnum = Msg.seq
     /\ task'[t].run_state = "kBlocked" <=> Blocks(Msg)

\* Handling a message brings the scheduler one message closer.
LEMMA HandleKeepsMsgInv ==
  ASSUME TypeOK, MsgInv, chan # <<>>, chan' = Tail(chan), kst' = kst, seq' = seq,
         Learned(Msg.task), \A u \in Tasks \ {Msg.task} : task'[u] = task[u]
  PROVE  MsgInv'
<1>1. \A t \in Tasks : task[t].seqnum \in Nat /\ seq[t] \in Nat
  BY TaskType
<1>2. \A m \in Unread : m.task \in Tasks /\ m.seq \in Nat
  BY UnreadType DEF TypeOK
<1>3. /\ Msg \in Unread /\ Msg.task \in Tasks
      /\ Msg.seq = task[Msg.task].seqnum + 1
      /\ MayBeNext(Msg)
  BY HeadFacts
<1>4. /\ ChanInOrder'
      /\ Unread' = Unread \ {Msg}
      /\ \A m \in Unread : m.task = Msg.task => m = Msg \/ m.seq > Msg.seq
  BY ConsumeFacts DEF TypeOK, MsgInv
<1> SUFFICES ASSUME NEW p, p = Msg, NEW t, t = Msg.task PROVE MsgInv'
  OBVIOUS
<1>5. \A m \in Unread : MessageOK(m)
  BY DEF MsgInv
<1>6. ASSUME Final(p), NEW m \in Unread, m.task = t PROVE m = p
  <2>1. p.seq = seq[t] /\ m.seq <= seq[t]
    BY <1>3, <1>5, <1>6 DEF MessageOK
  <2> QED BY <2>1, <1>1, <1>2, <1>3, <1>4, <1>6
<1>7. ASSUME NEW m \in Unread' PROVE MessageOK(m)'
  <2>1. m \in Unread /\ m # p /\ MessageOK(m) /\ m.task \in Tasks /\ m.seq \in Nat
    BY <1>2, <1>4, <1>5
  <2>2. CASE m.task # t
    <3>1. task'[m.task] = task[m.task]
      BY <2>1, <2>2
    <3>2. MayBeNext(m)' <=> MayBeNext(m)
      BY <3>1 DEF MayBeNext, In
    <3>3. \A q \in Unread : q.task = m.task => q \in Unread'
      BY <2>2, <1>4
    <3> QED BY <2>1, <3>1, <3>2, <3>3 DEF MessageOK
  <2>3. CASE m.task = t
    <3>1. ~Final(p) /\ m.seq > p.seq
      BY <2>1, <2>3, <1>4, <1>6
    <3>2. /\ task'[t].known /\ task'[t].seqnum = p.seq
          /\ In(t, "kBlocked")' <=> Blocks(p)
      BY <3>1 DEF Learned, In
    <3>3. PICK q \in Unread : q.task = t /\ q.seq + 1 = m.seq /\ Follows(m, q)
      BY <2>1, <2>3, <3>1, <1>1, <1>3 DEF MessageOK
    <3>4. task'[t].seqnum < m.seq /\ m.seq <= seq'[t]
      BY <2>1, <2>3, <3>1, <3>2, <1>2, <1>3 DEF MessageOK
    <3>5. Final(m) => m.seq = seq'[t] /\ kst'[t] \in {"departed", "dead"}
      BY <2>1, <2>3 DEF MessageOK
    <3>6. CASE q = p
      <4>1. MayBeNext(m)'
        BY <2>3, <3>2, <3>3, <3>6 DEF Follows, MayBeNext, Ran
      <4> QED BY <4>1, <2>3, <3>2, <3>3, <3>4, <3>5, <3>6 DEF MessageOK
    <3>7. CASE q # p
      <4>1. q \in Unread'
        BY <3>7, <1>4
      <4> QED BY <4>1, <2>3, <3>3, <3>4, <3>5 DEF MessageOK
    <3> QED BY <3>6, <3>7
  <2> QED BY <2>2, <2>3
<1>8. ASSUME NEW u \in Tasks, u # t PROVE ViewOK(u)'
  <2>1. ViewOK(u) /\ task'[u] = task[u]
    BY <1>8 DEF MsgInv
  <2>2. \A m : m.task = u => (m \in Unread' <=> m \in Unread)
    BY <1>4, <1>8
  <2> QED BY <2>1, <2>2 DEF ViewOK, In
<1>9. ViewOK(t)'
  <2>1. ViewOK(t)
    BY <1>3 DEF MsgInv
  <2>2. task[t].seqnum # seq[t]
    BY <1>3, SeqnumFacts
  <2>3. PICK l \in Unread : l.task = t /\ l.seq = seq[t] /\ Ends(kst[t], l)
    BY <2>1, <2>2, <1>3 DEF ViewOK
  <2>4. kst[t] # "new"
    BY <2>3 DEF Ends
  <2>5. CASE l # p
    BY <2>3, <2>4, <2>5, <1>4 DEF ViewOK
  <2>6. CASE l = p /\ Final(p)
    <3>1. ~task'[t].known
      BY <2>6, <1>3 DEF Learned, NewFifoTask
    <3>2. kst[t] \in {"departed", "dead"}
      BY <2>3, <2>6 DEF Ends, Final, Blocks
    <3>3. \A m \in Unread' : m.task # t
      BY <2>6, <1>4, <1>6
    <3> QED BY <2>4, <3>1, <3>2, <3>3 DEF ViewOK
  <2>7. CASE l = p /\ ~Final(p)
    <3>1. /\ task'[t].known /\ task'[t].seqnum = seq[t]
          /\ In(t, "kBlocked")' <=> Blocks(p)
      BY <2>3, <2>7 DEF Learned, In
    <3>2. /\ kst[t] \in {"blocked", "dying", "runnable"}
          /\ Blocks(p) <=> kst[t] # "runnable"
      BY <2>3, <2>7 DEF Ends
    <3> QED BY <2>4, <3>1, <3>2 DEF ViewOK
  <2> QED BY <2>5, <2>6, <2>7
<1>10. ASSUME NEW u \in Tasks, ~task'[u].known PROVE task'[u] = NewFifoTask
  BY <1>10 DEF Learned, MsgInv
<1> QED BY <1>4, <1>7, <1>8, <1>9, <1>10 DEF MsgInv

\* Nothing happens that has to do with messages.
LEMMA SameViewKeepsMsgInv ==
  ASSUME TypeOK, MsgInv, SameView, UNCHANGED <<kst, seq, chan>>
  PROVE  MsgInv'
<1>1. \A t \in Tasks : /\ task'[t].known = task[t].known
                       /\ task'[t].seqnum = task[t].seqnum
                       /\ In(t, "kBlocked")' <=> In(t, "kBlocked")
                       /\ ~task[t].known => task'[t] = task[t]
  BY DEF SameView, In
<1>2. Unread' = Unread /\ (ChanInOrder' <=> ChanInOrder)
  BY DEF Unread, ChanInOrder
<1>3. \A m \in Unread : m.task \in Tasks
  BY UnreadType DEF TypeOK
<1>4. ASSUME NEW m \in Unread PROVE MessageOK(m)'
  <2>1. MessageOK(m) /\ m.task \in Tasks
    BY <1>3 DEF MsgInv
  <2>2. MayBeNext(m)' <=> MayBeNext(m)
    BY <2>1, <1>1 DEF MayBeNext
  <2> QED BY <2>1, <2>2, <1>1, <1>2 DEF MessageOK
<1>5. ASSUME NEW t \in Tasks PROVE ViewOK(t)'
  <2>1. ViewOK(t)
    BY DEF MsgInv
  <2> QED BY <2>1, <1>1, <1>2 DEF ViewOK
<1>6. \A t \in Tasks : ~task'[t].known => task'[t] = NewFifoTask
  BY <1>1 DEF MsgInv
<1> QED BY <1>2, <1>4, <1>5, <1>6 DEF MsgInv
-------------------------------------------------------------------------------
(***************************************************************************)
(* The kernel's steps.                                                     *)
(***************************************************************************)

\* Nobody gets near a CPU, and only who was there reports that it ran.
Quiet ==
  /\ \A t \in Tasks : OnCpuOrLatched(t)' => OnCpuOrLatched(t)
  /\ \A m \in Unread' : m \in Unread \/ ~Ran(m) \/ OnCpuOrLatched(m.task)

KernelOK == KernelTypeOK /\ MsgInv /\ CpuInv

LEMMA QuietKeepsInv ==
  ASSUME FifoInv, UNCHANGED <<loopVars, fifoVars>>, KernelOK', Quiet
  PROVE  FifoInv'
<1> USE DEF loopVars, fifoVars
<1>1. TypeOK'
  BY DEF FifoInv, RunqueueOK, TypeOK, KernelOK
<1>2. RunqueueOK'
  BY <1>1 DEF FifoInv, RunqueueOK, In, CurrentOk
<1>3. ChecksHold' /\ MsgInv' /\ CpuInv'
  BY DEF FifoInv, ChecksHold, KernelOK
<1>4. Scheduling' <=> Scheduling
  BY DEF Scheduling
<1>5. ASSUME NEW t \in Tasks, In(t, "kYielding")', ~Scheduling'
      PROVE  ~OnCpuOrLatched(t)' /\ \A m \in Unread' : m.task = t => ~Ran(m)
  <2>1. ~OnCpuOrLatched(t) /\ \A m \in Unread : m.task = t => ~Ran(m)
    BY <1>4, <1>5 DEF FifoInv, AgentInv, In
  <2> QED BY <2>1 DEF Quiet
<1>6. AgentInv'
  BY <1>4, <1>5 DEF FifoInv, AgentInv, In
<1> QED BY <1>2, <1>3, <1>6 DEF FifoInv

\* The tasks of T, if they were on a CPU or latched, are no longer, and they
\* have sent a message.
LEMMA LeavingKeepsCpuInv ==
  ASSUME TypeOK, RunqueueOK, MsgInv, CpuInv, NEW T \in SUBSET Tasks, task' = task,
         \A t \in T : seq'[t] = seq[t] + 1 /\ oncpu'[t] = NoCpu,
         \A t \in Tasks \ T : kst'[t] = kst[t] /\ seq'[t] = seq[t] /\ oncpu'[t] = oncpu[t],
         \A c \in Cpus : latched'[c] = IF latched[c] \in T THEN NoTask ELSE latched[c],
         \A c \in Cpus : resched'[c] => resched[c],
         \A c \in Cpus : ast'[c] = "running" =>
           \/ ast[c] = "running"
           \/ latched'[c] = NoTask /\ \A t \in Tasks : oncpu'[t] # c
  PROVE  CpuInv' /\ \A t \in Tasks : OnCpuOrLatched(t)' => OnCpuOrLatched(t)
<1>1. NoTask \notin Tasks /\ NoCpu \notin Cpus
  BY GlobalKernelAssumption DEF Cpus, NoCpu
<1>2. \A t \in Tasks : IsLatched(t)' <=> t \notin T /\ IsLatched(t)
  BY <1>1 DEF IsLatched
<1>3. \A t \in Tasks : OnCpuOrLatched(t)' <=> t \notin T /\ OnCpuOrLatched(t)
  BY <1>2 DEF OnCpuOrLatched
<1>4. \A t \in T : task[t].seqnum # seq'[t]
  <2> SUFFICES ASSUME NEW t \in T PROVE task[t].seqnum # seq[t] + 1
    OBVIOUS
  <2>1. task[t].seqnum <= seq[t] /\ task[t].seqnum \in Nat /\ seq[t] \in Nat
    BY SeqnumFacts, TaskType
  <2> QED BY <2>1
<1>5. \A t \in Tasks : OnCpuOrLatched(t)' =>
        /\ kst'[t] = "runnable" /\ task'[t].known /\ ~In(t, "kBlocked")'
        /\ task'[t].seqnum = seq'[t]
  BY <1>3 DEF CpuInv, In
<1>6. \A t \in Tasks : IsLatched(t)' => oncpu'[t] = NoCpu
  BY <1>2 DEF CpuInv
<1>7. \A c, d \in Cpus : latched'[c] = latched'[d] /\ latched'[c] # NoTask => c = d
  BY DEF CpuInv
<1>8. \A t, u \in Tasks : oncpu'[t] = oncpu'[u] /\ oncpu'[t] # NoCpu => t = u
  BY DEF CpuInv
<1>9. ASSUME NEW c \in Cpus, ast'[c] = "running"
      PROVE  latched'[c] = NoTask /\ \A t \in Tasks : oncpu'[t] # c
  BY <1>1, <1>9 DEF CpuInv
<1>10. ASSUME NEW t \in Tasks, In(t, "kOnCpu")', task'[t].seqnum = seq'[t]
       PROVE  \/ oncpu'[t] = task'[t].cpu /\ ~resched'[task'[t].cpu]
              \/ latched'[task'[t].cpu] = t
  <2>1. t \notin T /\ In(t, "kOnCpu") /\ task[t].seqnum = seq[t]
    BY <1>4, <1>10 DEF In
  <2>2. task[t].cpu \in Cpus
    BY <2>1 DEF RunqueueOK, CurrentOk
  <2>3. \/ oncpu[t] = task[t].cpu /\ ~resched[task[t].cpu]
        \/ latched[task[t].cpu] = t
    BY <2>1 DEF CpuInv
  <2> QED BY <2>1, <2>2, <2>3
<1> QED BY <1>3, <1>5, <1>6, <1>7, <1>8, <1>9, <1>10 DEF CpuInv

\* A task sends a message and is not, or no longer, on a CPU or latched.
LEMMA OneTaskSends ==
  ASSUME FifoInv, UNCHANGED <<loopVars, fifoVars>>,
         NEW t \in Tasks, NEW type \in MsgTypes, NEW flag \in BOOLEAN,
         NEW k \in {"new", "blocked", "runnable", "dying", "dead", "departed"},
         Produce(t, type, flag), CanSend(t, type), Ends(k, NewMsg(t, type, flag)),
         kst' = [kst EXCEPT ![t] = k],
         Ran(NewMsg(t, type, flag)) => OnCpuOrLatched(t),
         oncpu' = [oncpu EXCEPT ![t] = NoCpu],
         latched' = [c \in Cpus |-> IF latched[c] = t THEN NoTask ELSE latched[c]],
         UNCHANGED <<resched, agentVars, cfs>>, budget' \in 0 .. MaxDisturb
  PROVE  FifoInv'
<1> USE DEF loopVars, fifoVars, agentVars
<1>1. TypeOK /\ RunqueueOK /\ KernelTypeOK /\ MsgInv /\ CpuInv /\ ChanInOrder
  BY DEF FifoInv, RunqueueOK, TypeOK, MsgInv
<1>2. Sent({t}, type, flag)
  <2> DEFINE ts == <<t>>
  <2>1. ts \in Seq(Tasks) /\ Len(ts) = 1 /\ ts[1] = t
    OBVIOUS
  <2>2. ProduceAll(ts, type, flag)
    BY DEF Produce
  <2> HIDE DEF ts
  <2>3. NoRepeats(ts) /\ {u \in Tasks : InQueue(u, ts)} = {t}
    BY <2>1 DEF NoRepeats, InQueue
  <2>4. \A m \in Unread : m.seq <= seq[m.task]
    BY <1>1 DEF MsgInv, MessageOK
  <2>5. Sent({u \in Tasks : InQueue(u, ts)}, type, flag)
    BY <1>1, <2>1, <2>2, <2>3, <2>4, ProduceFacts
  <2> QED BY <2>3, <2>5
<1>3. SameView
  BY <1>1 DEF SameView, TypeOK
<1>4. \A u \in Tasks : kst'[u] = IF u = t THEN k ELSE kst[u]
  BY <1>1 DEF KernelTypeOK
<1>5. MsgInv'
  BY <1>1, <1>2, <1>3, <1>4, SendKeepsMsgInv
<1>6. /\ \A u \in Tasks : seq'[u] = IF u = t THEN seq[u] + 1 ELSE seq[u]
      /\ \A m : m \in Unread' <=> m \in Unread \/ m = NewMsg(t, type, flag)
      /\ chan' \in Seq(Messages) /\ seq' \in [Tasks -> Nat]
  BY <1>2 DEF Sent
<1>7. \A u \in Tasks : oncpu'[u] = IF u = t THEN NoCpu ELSE oncpu[u]
  BY <1>1 DEF KernelTypeOK
<1>8. \A c \in Cpus : /\ latched'[c] = IF latched[c] \in {t} THEN NoTask ELSE latched[c]
                      /\ resched'[c] = resched[c] /\ ast'[c] = ast[c]
  OBVIOUS
<1>9. CpuInv' /\ \A u \in Tasks : OnCpuOrLatched(u)' => OnCpuOrLatched(u)
  <2> DEFINE T == {t}
  <2>1. /\ T \in SUBSET Tasks
        /\ \A u \in T : seq'[u] = seq[u] + 1 /\ oncpu'[u] = NoCpu
        /\ \A u \in Tasks \ T : kst'[u] = kst[u] /\ seq'[u] = seq[u] /\ oncpu'[u] = oncpu[u]
        /\ \A c \in Cpus : latched'[c] = IF latched[c] \in T THEN NoTask ELSE latched[c]
    BY <1>4, <1>6, <1>7, <1>8
  <2>2. /\ \A c \in Cpus : resched'[c] => resched[c]
        /\ \A c \in Cpus : ast'[c] = "running" =>
             \/ ast[c] = "running"
             \/ latched'[c] = NoTask /\ \A u \in Tasks : oncpu'[u] # c
        /\ task' = task
    BY <1>8
  <2> HIDE DEF T
  <2> QED BY <2>1, <2>2, <1>1, LeavingKeepsCpuInv
<1>10. KernelTypeOK'
  BY <1>1, <1>6 DEF KernelTypeOK
<1>11. Quiet
  <2>1. NewMsg(t, type, flag).task = t
    BY DEF NewMsg
  <2> QED BY <2>1, <1>6, <1>9 DEF Quiet
<1> QED BY <1>5, <1>9, <1>10, <1>11, QuietKeepsInv DEF KernelOK

LEMMA NotOnCpu ==
  ASSUME KernelTypeOK, NEW t \in Tasks, oncpu[t] = NoCpu
  PROVE  oncpu = [oncpu EXCEPT ![t] = NoCpu]
  BY DEF KernelTypeOK

LEMMA NotLatched ==
  ASSUME KernelTypeOK, NEW t \in Tasks, ~IsLatched(t)
  PROVE  latched = [c \in Cpus |-> IF latched[c] = t THEN NoTask ELSE latched[c]]
  BY DEF KernelTypeOK, IsLatched

\* A client thread blocks, wakes up, yields, comes or goes.
LEMMA ClientKeepsInv ==
  ASSUME FifoInv, UNCHANGED <<loopVars, fifoVars>>, NEW t \in Tasks, NEW b \in BOOLEAN,
         \/ KTaskNew(t, b) \/ KWakeup(t, b)
         \/ KBlock(t) \/ KYield(t) \/ KExit(t) \/ KDead(t) \/ KDepart(t)
  PROVE  FifoInv'
<1> USE DEF latchVars, agentVars, cfsVars
<1>1. KernelTypeOK /\ CpuInv
  BY DEF FifoInv, RunqueueOK, TypeOK
<1>2. budget \in 0 .. MaxDisturb /\ MaxDisturb \in Nat
  BY <1>1, GlobalKernelAssumption DEF KernelTypeOK
<1>3. \A ty, fl : NewMsg(t, ty, fl).type = ty /\ NewMsg(t, ty, fl).flag = fl
  BY DEF NewMsg
<1>4. ASSUME kst[t] # "runnable"
      PROVE  /\ oncpu = [oncpu EXCEPT ![t] = NoCpu]
             /\ latched = [c \in Cpus |-> IF latched[c] = t THEN NoTask ELSE latched[c]]
  <2>1. ~OnCpuOrLatched(t)
    BY <1>1, <1>4 DEF CpuInv
  <2> QED BY <2>1, <1>1, NotOnCpu, NotLatched DEF OnCpuOrLatched
<1>5. ASSUME Running(t)
      PROVE  /\ OnCpuOrLatched(t)
             /\ kst[t] = "runnable" /\ task[t].known
             /\ task[t].seqnum = seq[t] /\ ~In(t, "kBlocked")
             /\ latched = [c \in Cpus |-> IF latched[c] = t THEN NoTask ELSE latched[c]]
  <2>1. OnCpuOrLatched(t) /\ ~IsLatched(t)
    BY <1>1, <1>5 DEF Running, OnCpuOrLatched, CpuInv
  <2> QED BY <2>1, <1>1, NotLatched DEF CpuInv
<1>6. CASE KTaskNew(t, b)
  <2> DEFINE k == IF b THEN "runnable" ELSE "blocked"
  <2>1. kst[t] = "new" /\ kst' = [kst EXCEPT ![t] = k] /\ Produce(t, "TASK_NEW", b)
    BY <1>6 DEF KTaskNew
  <2>2. CanSend(t, "TASK_NEW") /\ Ends(k, NewMsg(t, "TASK_NEW", b)) /\ ~Ran(NewMsg(t, "TASK_NEW", b))
    BY <2>1, <1>3 DEF CanSend, Ends, Blocks, Final, Ran
  <2>3. k \in {"new", "blocked", "runnable", "dying", "dead", "departed"}
    OBVIOUS
  <2>4. UNCHANGED <<oncpu, latched, resched, agentVars, cfs, budget>>
    BY <1>6 DEF KTaskNew
  <2> HIDE DEF k
  <2> QED BY <2>1, <2>2, <2>3, <2>4, <1>2, <1>4, OneTaskSends DEF MsgTypes
<1>7. CASE KWakeup(t, b)
  <2>1. kst[t] = "blocked" /\ kst' = [kst EXCEPT ![t] = "runnable"] /\ Produce(t, "TASK_WAKEUP", b)
    BY <1>7 DEF KWakeup
  <2>2. /\ CanSend(t, "TASK_WAKEUP") /\ Ends("runnable", NewMsg(t, "TASK_WAKEUP", b))
        /\ ~Ran(NewMsg(t, "TASK_WAKEUP", b))
    BY <2>1, <1>3 DEF CanSend, Ends, Blocks, Final, Ran
  <2>3. budget' \in 0 .. MaxDisturb
    BY <1>2, <1>7 DEF KWakeup
  <2>4. UNCHANGED <<oncpu, latched, resched, agentVars, cfs>>
    BY <1>7 DEF KWakeup
  <2> QED BY <2>1, <2>2, <2>3, <2>4, <1>4, OneTaskSends DEF MsgTypes
<1>8. CASE KBlock(t)
  <2>1. Running(t) /\ kst' = [kst EXCEPT ![t] = "blocked"] /\ Produce(t, "TASK_BLOCKED", FALSE)
    BY <1>8 DEF KBlock
  <2>2. CanSend(t, "TASK_BLOCKED") /\ Ends("blocked", NewMsg(t, "TASK_BLOCKED", FALSE))
    BY <2>1, <1>3, <1>5 DEF CanSend, Ends, Blocks
  <2>3. UNCHANGED <<latched, resched, agentVars, cfs, budget>> /\ oncpu' = [oncpu EXCEPT ![t] = NoCpu]
    BY <1>8 DEF KBlock, LeaveCpu
  <2> QED BY <2>1, <2>2, <2>3, <1>2, <1>5, OneTaskSends DEF MsgTypes
<1>9. CASE KYield(t)
  <2>1. Running(t) /\ Produce(t, "TASK_YIELD", FALSE) /\ kst' = kst
    BY <1>9 DEF KYield
  <2>2. kst' = [kst EXCEPT ![t] = "runnable"]
    BY <2>1, <1>1, <1>5 DEF KernelTypeOK
  <2>3. CanSend(t, "TASK_YIELD") /\ Ends("runnable", NewMsg(t, "TASK_YIELD", FALSE))
    BY <2>1, <1>3, <1>5 DEF CanSend, Ends, Blocks, Final
  <2>4. budget' \in 0 .. MaxDisturb
    BY <1>2, <1>9 DEF KYield
  <2>5. UNCHANGED <<latched, resched, agentVars, cfs>> /\ oncpu' = [oncpu EXCEPT ![t] = NoCpu]
    BY <1>9 DEF KYield, LeaveCpu
  <2> QED BY <2>1, <2>2, <2>3, <2>4, <2>5, <1>5, OneTaskSends DEF MsgTypes
<1>10. CASE KExit(t)
  <2>1. Running(t) /\ kst' = [kst EXCEPT ![t] = "dying"] /\ Produce(t, "TASK_BLOCKED", FALSE)
    BY <1>10 DEF KExit
  <2>2. CanSend(t, "TASK_BLOCKED") /\ Ends("dying", NewMsg(t, "TASK_BLOCKED", FALSE))
    BY <2>1, <1>3, <1>5 DEF CanSend, Ends, Blocks
  <2>3. UNCHANGED <<latched, resched, agentVars, cfs, budget>> /\ oncpu' = [oncpu EXCEPT ![t] = NoCpu]
    BY <1>10 DEF KExit, LeaveCpu
  <2> QED BY <2>1, <2>2, <2>3, <1>2, <1>5, OneTaskSends DEF MsgTypes
<1>11. CASE KDead(t)
  <2>1. kst[t] = "dying" /\ kst' = [kst EXCEPT ![t] = "dead"] /\ Produce(t, "TASK_DEAD", FALSE)
    BY <1>11 DEF KDead
  <2>2. /\ CanSend(t, "TASK_DEAD") /\ Ends("dead", NewMsg(t, "TASK_DEAD", FALSE))
        /\ ~Ran(NewMsg(t, "TASK_DEAD", FALSE))
    BY <2>1, <1>3 DEF CanSend, Ends, Final, Ran
  <2>3. UNCHANGED <<oncpu, latched, resched, agentVars, cfs, budget>>
    BY <1>11 DEF KDead
  <2> QED BY <2>1, <2>2, <2>3, <1>2, <1>4, OneTaskSends DEF MsgTypes
<1>12. CASE KDepart(t)
  <2>1. InGhost(t) /\ kst' = [kst EXCEPT ![t] = "departed"] /\ Produce(t, "TASK_DEPARTED", FALSE)
    BY <1>12 DEF KDepart
  <2>2. /\ CanSend(t, "TASK_DEPARTED") /\ Ends("departed", NewMsg(t, "TASK_DEPARTED", FALSE))
        /\ ~Ran(NewMsg(t, "TASK_DEPARTED", FALSE))
    BY <2>1, <1>3 DEF CanSend, InGhost, Ends, Final, Ran
  <2>3. budget' \in 0 .. MaxDisturb
    BY <1>2, <1>12 DEF KDepart
  <2>4. /\ UNCHANGED <<resched, agentVars, cfs>> /\ oncpu' = [oncpu EXCEPT ![t] = NoCpu]
        /\ latched' = [c \in Cpus |-> IF latched[c] = t THEN NoTask ELSE latched[c]]
    BY <1>12 DEF KDepart, LeaveCpu, Unlatch
  <2> QED BY <2>1, <2>2, <2>3, <2>4, OneTaskSends DEF MsgTypes
<1> QED BY <1>6, <1>7, <1>8, <1>9, <1>10, <1>11, <1>12

\* The victims are the task on the CPU and the one that is latched.
LEMMA VictimsFacts ==
  ASSUME KernelTypeOK, CpuInv, NEW c \in Cpus
  PROVE  /\ Victims(c) \in Seq(Tasks) /\ NoRepeats(Victims(c))
         /\ \A t \in Tasks : InQueue(t, Victims(c)) <=> oncpu[t] = c \/ latched[c] = t
<1>1. NoTask \notin Tasks /\ NoCpu \notin Cpus /\ latched[c] \in Tasks \cup {NoTask}
  BY GlobalKernelAssumption DEF Cpus, NoCpu, KernelTypeOK
<1> DEFINE on == {t \in Tasks : oncpu[t] = c}
           p == IF on = {} THEN <<>> ELSE <<CHOOSE t \in on : TRUE>>
           q == IF latched[c] = NoTask THEN <<>> ELSE <<latched[c]>>
<1>2. Victims(c) = p \o q
  BY DEF Victims
<1>3. ASSUME NEW t \in Tasks, oncpu[t] = c PROVE on = {t} /\ latched[c] # t
  <2>1. on = {t}
    BY <1>1, <1>3 DEF CpuInv
  <2>2. ~IsLatched(t)
    BY <1>1, <1>3 DEF CpuInv
  <2> QED BY <2>1, <2>2 DEF IsLatched
<1>4. CASE on = {} /\ latched[c] = NoTask
  <2>1. Victims(c) = <<>>
    BY <1>2, <1>4
  <2> QED BY <2>1, <1>1, <1>4 DEF NoRepeats, InQueue
<1>5. CASE on = {} /\ latched[c] # NoTask
  <2>1. latched[c] \in Tasks /\ Victims(c) = <<latched[c]>>
    BY <1>1, <1>2, <1>5
  <2> QED BY <2>1, <1>1, <1>5 DEF NoRepeats, InQueue
<1>6. CASE on # {}
  <2>1. PICK t \in Tasks : oncpu[t] = c
    BY <1>6
  <2>2. on = {t} /\ latched[c] # t
    BY <2>1, <1>3
  <2>3. p = <<t>>
    BY <2>2
  <2>4. \A u \in Tasks : oncpu[u] = c <=> u = t
    BY <2>1, <2>2
  <2>5. CASE latched[c] = NoTask
    <3>1. Victims(c) = <<t>>
      BY <1>2, <2>3, <2>5
    <3> QED BY <3>1, <2>4, <2>5, <1>1 DEF NoRepeats, InQueue
  <2>6. CASE latched[c] # NoTask
    <3> DEFINE v == <<t>> \o <<latched[c]>>
    <3>1. Victims(c) = v /\ latched[c] \in Tasks
      BY <1>1, <1>2, <2>3, <2>6
    <3>2. v \in Seq(Tasks) /\ Len(v) = 2 /\ v[1] = t /\ v[2] = latched[c]
      BY <3>1, SMT
    <3> HIDE DEF v
    <3> QED BY <3>1, <3>2, <2>2, <2>4 DEF NoRepeats, InQueue
  <2> QED BY <2>5, <2>6
<1> QED BY <1>4, <1>5, <1>6

\* A CPU is taken from ghOSt by its agent or by CFS.
LEMMA TakeCpuKeepsInv ==
  ASSUME FifoInv, UNCHANGED <<loopVars, fifoVars>>, NEW c \in Cpus, TakeCpu(c), kst' = kst,
         ast' \in [Cpus -> {"running", "sleeping", "waking"}],
         \A d \in Cpus \ {c} : ast'[d] = ast[d],
         UNCHANGED stale, cfs' \in [Cpus -> BOOLEAN], budget' \in 0 .. MaxDisturb
  PROVE  FifoInv'
<1> USE DEF loopVars, fifoVars
<1>1. TypeOK /\ RunqueueOK /\ KernelTypeOK /\ MsgInv /\ CpuInv /\ ChanInOrder
  BY DEF FifoInv, RunqueueOK, TypeOK, MsgInv
<1>2. NoTask \notin Tasks /\ NoCpu \notin Cpus
  BY GlobalKernelAssumption DEF Cpus, NoCpu
<1> DEFINE T == {t \in Tasks : InQueue(t, Victims(c))}
<1>3. /\ Victims(c) \in Seq(Tasks) /\ NoRepeats(Victims(c))
      /\ \A t \in Tasks : t \in T <=> oncpu[t] = c \/ latched[c] = t
  BY <1>1, VictimsFacts
<1>4. Sent(T, "TASK_PREEMPT", FALSE)
  <2>1. \A m \in Unread : m.seq <= seq[m.task]
    BY <1>1 DEF MsgInv, MessageOK
  <2>2. ProduceAll(Victims(c), "TASK_PREEMPT", FALSE) /\ "TASK_PREEMPT" \in MsgTypes
    BY DEF TakeCpu, MsgTypes
  <2> QED BY <1>1, <1>3, <2>1, <2>2, ProduceFacts
<1>5. T \in SUBSET Tasks
  OBVIOUS
<1> HIDE DEF T
<1>6. \A t \in T : OnCpuOrLatched(t)
  BY <1>2, <1>3, <1>5 DEF OnCpuOrLatched, IsLatched
<1>7. \A t \in T : kst[t] = "runnable" /\ task[t].known /\ task[t].seqnum = seq[t] /\ ~In(t, "kBlocked")
  BY <1>1, <1>5, <1>6 DEF CpuInv
<1>8. \A t \in T : CanSend(t, "TASK_PREEMPT") /\ Ends(kst'[t], NewMsg(t, "TASK_PREEMPT", FALSE))
  BY <1>7 DEF CanSend, Ends, NewMsg, Blocks, Final
<1>9. SameView
  BY <1>1 DEF SameView, TypeOK
<1>10. MsgInv'
  BY <1>1, <1>4, <1>5, <1>8, <1>9, SendKeepsMsgInv DEF MsgTypes
<1>11. /\ \A t \in Tasks : seq'[t] = IF t \in T THEN seq[t] + 1 ELSE seq[t]
       /\ \A m : m \in Unread' <=> m \in Unread \/ \E t \in T : m = NewMsg(t, "TASK_PREEMPT", FALSE)
       /\ chan' \in Seq(Messages) /\ seq' \in [Tasks -> Nat]
  BY <1>4 DEF Sent
<1>12. \A t \in Tasks : oncpu'[t] = IF t \in T THEN NoCpu ELSE oncpu[t]
  <2> SUFFICES ASSUME NEW t \in Tasks PROVE oncpu'[t] = IF t \in T THEN NoCpu ELSE oncpu[t]
    OBVIOUS
  <2>1. oncpu'[t] = IF oncpu[t] = c THEN NoCpu ELSE oncpu[t]
    BY DEF TakeCpu
  <2>2. latched[c] = t => oncpu[t] = NoCpu
    BY <1>1 DEF CpuInv, IsLatched
  <2> QED BY <2>1, <2>2, <1>3
<1>13. \A d \in Cpus : latched'[d] = IF latched[d] \in T THEN NoTask ELSE latched[d]
  <2> SUFFICES ASSUME NEW d \in Cpus PROVE latched'[d] = IF latched[d] \in T THEN NoTask ELSE latched[d]
    OBVIOUS
  <2>1. latched'[d] = IF d = c THEN NoTask ELSE latched[d]
    BY <1>1 DEF TakeCpu, KernelTypeOK
  <2>2. latched[d] \in Tasks \cup {NoTask}
    BY <1>1 DEF KernelTypeOK
  <2>3. CASE latched[d] \in Tasks
    <3>1. oncpu[latched[d]] # c
      BY <1>1, <1>2, <2>3 DEF CpuInv, IsLatched
    <3>2. latched[c] = latched[d] => c = d
      BY <1>1, <1>2, <2>3 DEF CpuInv
    <3> QED BY <2>1, <2>3, <3>1, <3>2, <1>3
  <2>4. CASE latched[d] = NoTask
    BY <2>1, <2>4, <1>2, <1>5
  <2> QED BY <2>2, <2>3, <2>4
<1>14. \A d \in Cpus : resched'[d] => resched[d]
  BY <1>1 DEF TakeCpu, KernelTypeOK
<1>15. ASSUME NEW d \in Cpus, ast'[d] = "running"
       PROVE  \/ ast[d] = "running"
              \/ latched'[d] = NoTask /\ \A t \in Tasks : oncpu'[t] # d
  <2>1. CASE d = c
    <3>1. latched'[c] = NoTask
      BY <1>1 DEF TakeCpu, KernelTypeOK
    <3>2. \A t \in Tasks : oncpu'[t] # c
      BY <1>2, <1>3, <1>12
    <3> QED BY <2>1, <3>1, <3>2
  <2>2. CASE d # c
    BY <2>2, <1>15
  <2> QED BY <2>1, <2>2
<1>16. CpuInv' /\ \A t \in Tasks : OnCpuOrLatched(t)' => OnCpuOrLatched(t)
  <2>1. /\ \A t \in T : seq'[t] = seq[t] + 1 /\ oncpu'[t] = NoCpu
        /\ \A t \in Tasks \ T : kst'[t] = kst[t] /\ seq'[t] = seq[t] /\ oncpu'[t] = oncpu[t]
        /\ task' = task
    BY <1>5, <1>11, <1>12
  <2> QED BY <2>1, <1>1, <1>5, <1>13, <1>14, <1>15, LeavingKeepsCpuInv
<1>17. KernelTypeOK'
  BY <1>1, <1>11 DEF KernelTypeOK, TakeCpu
<1>18. Quiet
  <2>1. \A t \in T : NewMsg(t, "TASK_PREEMPT", FALSE).task = t
    BY DEF NewMsg
  <2>2. ASSUME NEW m \in Unread', m \notin Unread PROVE OnCpuOrLatched(m.task)
    <3>1. PICK t \in T : m = NewMsg(t, "TASK_PREEMPT", FALSE)
      BY <2>2, <1>11
    <3> QED BY <3>1, <2>1, <1>6
  <2> QED BY <2>2, <1>16 DEF Quiet
<1> QED BY <1>10, <1>16, <1>17, <1>18, QuietKeepsInv DEF KernelOK

\* The CPU switches: what it has latched is on it, and who was on it has been
\* taken off its CPU by the scheduler before.
LEMMA SwitchKeepsInv ==
  ASSUME FifoInv, UNCHANGED <<loopVars, fifoVars>>, NEW c \in Cpus, KSwitch(c)
  PROVE  FifoInv'
<1> USE DEF loopVars, fifoVars, agentVars, cfsVars
<1>1. TypeOK /\ RunqueueOK /\ KernelTypeOK /\ MsgInv /\ CpuInv
  BY DEF FifoInv, RunqueueOK, TypeOK
<1>2. NoTask \notin Tasks /\ NoCpu \notin Cpus
  BY GlobalKernelAssumption DEF Cpus, NoCpu
<1>3. UNCHANGED <<kst, seq, chan, ast, stale, cfs, budget, task>> /\ resched[c] /\ ast[c] = "sleeping"
  BY DEF KSwitch
<1>4. \A t \in Tasks : oncpu'[t] = IF latched[c] = t THEN c ELSE IF oncpu[t] = c THEN NoCpu ELSE oncpu[t]
  BY DEF KSwitch
<1>5. \A d \in Cpus : /\ latched'[d] = IF d = c THEN NoTask ELSE latched[d]
                      /\ resched'[d] = IF d = c THEN FALSE ELSE resched[d]
  BY <1>1 DEF KSwitch, KernelTypeOK
<1>6. \A t \in Tasks : IsLatched(t)' => IsLatched(t) /\ latched[c] # t
  <2> SUFFICES ASSUME NEW t \in Tasks, IsLatched(t)' PROVE IsLatched(t) /\ latched[c] # t
    OBVIOUS
  <2>1. PICK d \in Cpus : latched'[d] = t
    BY DEF IsLatched
  <2>2. d # c /\ latched[d] = t
    BY <2>1, <1>2, <1>5
  <2>3. latched[c] # t
    BY <2>2, <1>1, <1>2 DEF CpuInv
  <2> QED BY <2>2, <2>3 DEF IsLatched
<1>7. \A t \in Tasks : latched[c] = t => IsLatched(t) /\ oncpu[t] = NoCpu
  BY <1>1 DEF IsLatched, CpuInv
<1>8. \A t \in Tasks : OnCpuOrLatched(t)' => OnCpuOrLatched(t)
  BY <1>4, <1>6, <1>7 DEF OnCpuOrLatched
<1>9. MsgInv'
  BY <1>1, <1>3, SameViewKeepsMsgInv DEF SameView, TypeOK
<1>10. KernelTypeOK'
  <2>1. oncpu' \in [Tasks -> Cpus \cup {NoCpu}]
    BY <1>1 DEF KSwitch, KernelTypeOK
  <2>2. latched' \in [Cpus -> Tasks \cup {NoTask}] /\ resched' \in [Cpus -> BOOLEAN]
    BY <1>1 DEF KSwitch, KernelTypeOK
  <2> QED BY <2>1, <2>2, <1>1, <1>3 DEF KernelTypeOK
<1>11. CpuInv'
  <2>1. \A t \in Tasks : OnCpuOrLatched(t)' =>
          /\ kst'[t] = "runnable" /\ task'[t].known /\ ~In(t, "kBlocked")'
          /\ task'[t].seqnum = seq'[t]
    BY <1>1, <1>3, <1>8 DEF CpuInv, In
  <2>2. \A t \in Tasks : IsLatched(t)' => oncpu'[t] = NoCpu
    BY <1>1, <1>2, <1>4, <1>6 DEF CpuInv
  <2>3. \A d, e \in Cpus : latched'[d] = latched'[e] /\ latched'[d] # NoTask => d = e
    <3>1. \A d, e \in Cpus : latched[d] = latched[e] /\ latched[d] # NoTask => d = e
      BY <1>1 DEF CpuInv
    <3> QED BY <3>1, <1>5
  <2>4. \A t, u \in Tasks : oncpu'[t] = oncpu'[u] /\ oncpu'[t] # NoCpu => t = u
    BY <1>1, <1>4 DEF CpuInv
  <2>5. \A d \in Cpus : ast'[d] = "running" =>
          latched'[d] = NoTask /\ \A t \in Tasks : oncpu'[t] # d
    <3> SUFFICES ASSUME NEW d \in Cpus, ast'[d] = "running"
                 PROVE  latched'[d] = NoTask /\ \A t \in Tasks : oncpu'[t] # d
      OBVIOUS
    <3>1. d # c /\ latched[d] = NoTask /\ \A t \in Tasks : oncpu[t] # d
      BY <1>1, <1>3 DEF CpuInv
    <3> QED BY <3>1, <1>2, <1>4, <1>5
  <2>6. ASSUME NEW t \in Tasks, In(t, "kOnCpu")', task'[t].seqnum = seq'[t]
        PROVE  \/ oncpu'[t] = task'[t].cpu /\ ~resched'[task'[t].cpu]
               \/ latched'[task'[t].cpu] = t
    <3>1. In(t, "kOnCpu") /\ task[t].seqnum = seq[t]
      BY <2>6, <1>3 DEF In
    <3>2. task[t].cpu \in Cpus
      BY <3>1, <1>1 DEF RunqueueOK, CurrentOk
    <3>3. \/ oncpu[t] = task[t].cpu /\ ~resched[task[t].cpu]
          \/ latched[task[t].cpu] = t
      BY <3>1, <1>1 DEF CpuInv
    <3>4. CASE oncpu[t] = task[t].cpu /\ ~resched[task[t].cpu]
      <4>1. task[t].cpu # c /\ latched[c] # t
        BY <3>2, <3>4, <1>2, <1>3, <1>7
      <4> QED BY <4>1, <3>2, <3>4, <1>3, <1>4, <1>5
    <3>5. CASE latched[task[t].cpu] = t
      <4>1. CASE task[t].cpu = c
        BY <4>1, <3>5, <1>3, <1>4, <1>5
      <4>2. CASE task[t].cpu # c
        BY <4>2, <3>2, <3>5, <1>3, <1>5
      <4> QED BY <4>1, <4>2
    <3> QED BY <3>3, <3>4, <3>5
  <2> QED BY <2>1, <2>2, <2>3, <2>4, <2>5, <2>6 DEF CpuInv
<1>12. Quiet
  BY <1>3, <1>8 DEF Quiet, Unread
<1> QED BY <1>9, <1>10, <1>11, <1>12, QuietKeepsInv DEF KernelOK

LEMMA KernelKeepsInv ==
  ASSUME FifoInv, KernelStep
  PROVE  FifoInv'
<1> USE DEF latchVars, agentVars, cfsVars, taskVars
<1>1. UNCHANGED <<loopVars, fifoVars>> /\ KernelNext
  BY DEF KernelStep
<1>2. TypeOK /\ KernelTypeOK /\ MsgInv /\ CpuInv
  BY DEF FifoInv, RunqueueOK, TypeOK
<1>3. budget \in 0 .. MaxDisturb /\ MaxDisturb \in Nat
  BY <1>2, GlobalKernelAssumption DEF KernelTypeOK
<1>4. ASSUME NEW t \in Tasks, NEW b \in BOOLEAN,
             \/ KTaskNew(t, b) \/ KWakeup(t, b)
             \/ KBlock(t) \/ KYield(t) \/ KExit(t) \/ KDead(t) \/ KDepart(t)
      PROVE  FifoInv'
  BY <1>1, <1>4, ClientKeepsInv
<1>5. ASSUME NEW c \in Cpus, KSwitch(c) PROVE FifoInv'
  BY <1>1, <1>5, SwitchKeepsInv
<1>6. ASSUME NEW c \in Cpus, KAgentSwitchIn(c) PROVE FifoInv'
  <2>1. TakeCpu(c) /\ UNCHANGED <<kst, stale, cfs, budget>>
    BY <1>6 DEF KAgentSwitchIn
  <2>2. /\ ast' \in [Cpus -> {"running", "sleeping", "waking"}]
        /\ \A d \in Cpus \ {c} : ast'[d] = ast[d]
    BY <1>2, <1>6 DEF KAgentSwitchIn, KernelTypeOK
  <2>3. cfs' \in [Cpus -> BOOLEAN] /\ budget' \in 0 .. MaxDisturb
    BY <2>1, <1>2 DEF KernelTypeOK
  <2> QED BY <2>1, <2>2, <2>3, <1>1, TakeCpuKeepsInv
<1>7. ASSUME NEW c \in Cpus, KCfsArrive(c) PROVE FifoInv'
  <2>1. TakeCpu(c) /\ UNCHANGED <<kst, ast, stale>>
    BY <1>7 DEF KCfsArrive
  <2>2. /\ ast' \in [Cpus -> {"running", "sleeping", "waking"}]
        /\ \A d \in Cpus \ {c} : ast'[d] = ast[d]
    BY <2>1, <1>2 DEF KernelTypeOK
  <2>3. cfs' \in [Cpus -> BOOLEAN]
    BY <1>2, <1>7 DEF KCfsArrive, KernelTypeOK
  <2>4. budget' \in 0 .. MaxDisturb
    BY <1>3, <1>7 DEF KCfsArrive
  <2> QED BY <2>1, <2>2, <2>3, <2>4, <1>1, TakeCpuKeepsInv
<1>8. ASSUME NEW c \in Cpus, KCfsLeave(c) PROVE FifoInv'
  <2>1. UNCHANGED <<kst, oncpu, seq, chan, latched, resched, ast, stale, budget, task>>
    BY <1>1, <1>8 DEF KCfsLeave, fifoVars
  <2>2. cfs' \in [Cpus -> BOOLEAN]
    BY <1>2, <1>8 DEF KCfsLeave, KernelTypeOK
  <2>3. KernelTypeOK'
    BY <2>1, <2>2, <1>2 DEF KernelTypeOK
  <2>4. MsgInv'
    BY <2>1, <1>2, SameViewKeepsMsgInv DEF SameView, TypeOK
  <2>5. CpuInv' /\ Quiet
    BY <2>1, <1>2 DEF CpuInv, Quiet, OnCpuOrLatched, IsLatched, In, Unread
  <2> QED BY <2>3, <2>4, <2>5, <1>1, QuietKeepsInv DEF KernelOK
<1> QED BY <1>1, <1>4, <1>5, <1>6, <1>7, <1>8 DEF KernelNext
-------------------------------------------------------------------------------
(***************************************************************************)
(* Tasks change places.                                                    *)
(***************************************************************************)

\* Queue qq is queue q but for task t, which is in it or not.
Rehomed(q, qq, t, in) ==
  /\ qq \in Seq(Tasks) /\ NoRepeats(qq)
  /\ \A u \in Tasks : InQueue(u, qq) <=> IF u = t THEN in ELSE InQueue(u, q)

LEMMA StaysInQueue ==
  ASSUME NEW q \in Seq(Tasks), NoRepeats(q), NEW t \in Tasks, NEW in \in BOOLEAN,
         InQueue(t, q) <=> in
  PROVE  Rehomed(q, q, t, in)
  BY DEF Rehomed

LEMMA IsPushed ==
  ASSUME NEW q \in Seq(Tasks), NoRepeats(q), NEW t \in Tasks, ~InQueue(t, q),
         NEW b \in BOOLEAN
  PROVE  Rehomed(q, Pushed(q, t, b), t, TRUE)
  BY PushedFacts DEF Rehomed

LEMMA IsAppended ==
  ASSUME NEW q \in Seq(Tasks), NoRepeats(q), NEW t \in Tasks, ~InQueue(t, q)
  PROVE  Rehomed(q, Append(q, t), t, TRUE)
<1>1. Pushed(q, t, FALSE) = Append(q, t)
  BY DEF Pushed
<1> QED BY <1>1, IsPushed

LEMMA IsErased ==
  ASSUME NEW q \in Seq(Tasks), NoRepeats(q), NEW t \in Tasks, InQueue(t, q)
  PROVE  Rehomed(q, Erased(q, t), t, FALSE)
  BY ErasedFacts DEF Rehomed

LEMMA IsPopped ==
  ASSUME NEW q \in Seq(Tasks), NoRepeats(q), q # <<>>
  PROVE  /\ Head(q) \in Tasks /\ InQueue(Head(q), q)
         /\ Rehomed(q, Tail(q), Head(q), FALSE)
  BY DequeuedFacts DEF Rehomed

\* The cpu a task is current on, if it is: kOnCpu or about to be committed.
LEMMA MoveKeepsRunqueue ==
  ASSUME RunqueueOK, NEW t \in Tasks, ~In(t, "kRunnable"),
         task' \in [Tasks -> FifoTasks], \A u \in Tasks \ {t} : task'[u] = task[u],
         task'[t].run_state \notin {"kOnCpu", "kRunnable"},
         Rehomed(rq, rq', t, task'[t].run_state = "kQueued"),
         Rehomed(yielding, yielding', t, task'[t].run_state = "kYielding"),
         current' = Cleared(t), assigned' = assigned,
         KernelTypeOK', UNCHANGED loopVars, available' \in SUBSET Cpus
  PROVE  RunqueueOK'
<1>1. TypeOK
  BY DEF RunqueueOK
<1>2. NoTask \notin Tasks
  BY GlobalKernelAssumption
<1>3. ASSUME In(t, "kOnCpu") PROVE task[t].cpu \in Cpus /\ current[task[t].cpu] = t
  BY <1>3 DEF RunqueueOK, CurrentOk
<1>4. current' \in [Cpus -> Tasks \cup {NoTask}]
  BY <1>1 DEF Cleared, TypeOK
<1>5. ASSUME NEW c \in Cpus
      PROVE  current'[c] = IF current[c] = t THEN NoTask ELSE current[c]
  <2>1. CASE In(t, "kOnCpu")
    <3>1. current[c] = t => c = task[t].cpu
      BY <2>1, <1>2, <1>3 DEF RunqueueOK
    <3> QED BY <2>1, <3>1, <1>1, <1>3 DEF Cleared, TypeOK
  <2>2. CASE ~In(t, "kOnCpu")
    <3>1. current[c] # t
      BY <2>2, <1>2 DEF RunqueueOK
    <3> QED BY <2>2, <3>1 DEF Cleared
  <2> QED BY <2>1, <2>2
<1>6. TypeOK'
  BY <1>1, <1>4 DEF TypeOK, loopVars, Rehomed
<1>7. NoRepeats(rq') /\ NoRepeats(yielding')
  BY DEF Rehomed
<1>8. ASSUME NEW u \in Tasks
      PROVE  /\ InQueue(u, rq') <=> In(u, "kQueued")'
             /\ InQueue(u, yielding') <=> In(u, "kYielding")'
             /\ In(u, "kOnCpu")' => CurrentOk(u)'
  <2>1. CASE u = t
    BY <2>1 DEF Rehomed, In
  <2>2. CASE u # t
    <3>1. task'[u] = task[u]
      BY <2>2
    <3>2. InQueue(u, rq') <=> In(u, "kQueued")'
      BY <2>2, <3>1 DEF Rehomed, In, RunqueueOK
    <3>3. InQueue(u, yielding') <=> In(u, "kYielding")'
      BY <2>2, <3>1 DEF Rehomed, In, RunqueueOK
    <3>4. In(u, "kOnCpu")' => CurrentOk(u)'
      <4>1. In(u, "kOnCpu") => CurrentOk(u)
        BY DEF RunqueueOK
      <4> QED BY <4>1, <2>2, <3>1, <1>5 DEF In, CurrentOk
    <3> QED BY <3>2, <3>3, <3>4
  <2> QED BY <2>1, <2>2
<1>9. ASSUME NEW c \in Cpus, current'[c] # NoTask
      PROVE  /\ task'[current'[c]].known
             /\ \/ task'[current'[c]].run_state = "kOnCpu" /\ task'[current'[c]].cpu = c
                \/ task'[current'[c]].run_state = "kRunnable" /\ c \in assigned'
  <2>1. current'[c] = current[c] /\ current[c] # t /\ current[c] \in Tasks
    BY <1>1, <1>5, <1>9 DEF TypeOK
  <2>2. task'[current[c]] = task[current[c]]
    BY <2>1
  <2> QED BY <2>1, <2>2, <1>2 DEF RunqueueOK, In
<1>10. \A c, d \in Cpus : current'[c] = current'[d] /\ current'[c] # NoTask => c = d
  BY <1>5 DEF RunqueueOK
<1>11. \A c \in Cpus : (current[c] # NoTask =>
         /\ task[current[c]].known
         /\ \/ In(current[c], "kOnCpu") /\ task[current[c]].cpu = c
            \/ In(current[c], "kRunnable") /\ c \in assigned)'
  BY <1>9 DEF In
<1> QED BY <1>6, <1>7, <1>8, <1>10, <1>11 DEF RunqueueOK
-------------------------------------------------------------------------------
(***************************************************************************)
(* The message handlers.                                                   *)
(***************************************************************************)

\* While the global agent drains the channel nothing is about to be committed.
LEMMA NotScheduling ==
  ASSUME FifoInv, NEW c \in Cpus, pc[c] \in {"drain", "move"}
  PROVE  ~Scheduling /\ assigned = {} /\ c = globalCpu /\ \A t \in Tasks : ~In(t, "kRunnable")
<1>1. c = globalCpu
  BY DEF FifoInv, AgentInv
<1>2. ~Scheduling
  BY <1>1 DEF FifoInv, AgentInv, Scheduling
<1>3. assigned = {}
  BY <1>2 DEF FifoInv, AgentInv
<1> QED BY <1>1, <1>2, <1>3 DEF FifoInv, AgentInv

\* What a handler finds: the task has left its CPU, and it is where the message
\* says it was.
LEMMA DispatchFacts ==
  ASSUME FifoInv, NEW c \in Cpus, NEW type \in MsgTypes, Dispatching(c, type)
  PROVE  /\ Msg \in Messages /\ Msg \in Unread /\ Msg.task \in Tasks /\ Msg.seq \in Nat
         /\ Msg.flag \in BOOLEAN /\ Msg.type = type /\ chan # <<>>
         /\ pc[c] = "drain" /\ ~Scheduling /\ assigned = {}
         /\ \A t \in Tasks : ~In(t, "kRunnable")
         /\ AdvanceOk /\ MayBeNext(Msg) /\ Msg.seq = task[Msg.task].seqnum + 1
         /\ ~OnCpuOrLatched(Msg.task)
         /\ Ran(Msg) => ~In(Msg.task, "kYielding")
<1>1. TypeOK /\ MsgInv /\ CpuInv
  BY DEF FifoInv, RunqueueOK
<1>2. Msg.type = type /\ chan # <<>> /\ pc[c] = "drain"
  BY DEF Dispatching, At
<1>3. /\ Msg \in Unread /\ Msg \in Messages /\ Msg.task \in Tasks
      /\ Msg.seq = task[Msg.task].seqnum + 1
      /\ MayBeNext(Msg)
  BY <1>1, <1>2, HeadFacts
<1>4. ~Scheduling /\ assigned = {} /\ \A t \in Tasks : ~In(t, "kRunnable")
  BY <1>2, NotScheduling
<1>5. Msg.seq \in Nat /\ Msg.flag \in BOOLEAN
  BY <1>3 DEF Messages
<1>6. task[Msg.task].seqnum \in Nat
  BY <1>1, <1>3, TaskType
<1>7. ~OnCpuOrLatched(Msg.task)
  <2>1. task[Msg.task].seqnum # seq[Msg.task]
    BY <1>1, <1>3, SeqnumFacts
  <2> QED BY <2>1, <1>1, <1>3 DEF CpuInv
<1>8. Ran(Msg) => ~In(Msg.task, "kYielding")
  BY <1>3, <1>4 DEF FifoInv, AgentInv
<1> QED BY <1>2, <1>3, <1>4, <1>5, <1>6, <1>7, <1>8 DEF AdvanceOk

\* A handler that puts its task where the message says keeps the invariant.
LEMMA HandlingKeepsInv ==
  ASSUME FifoInv, NEW c \in Cpus, NEW type \in MsgTypes, Dispatching(c, type), Handled,
         task' \in [Tasks -> FifoTasks],
         \A u \in Tasks \ {Msg.task} : task'[u] = task[u],
         task'[Msg.task].run_state \notin {"kOnCpu", "kRunnable"},
         Learned(Msg.task),
         Rehomed(rq, rq', Msg.task, task'[Msg.task].run_state = "kQueued"),
         Rehomed(yielding, yielding', Msg.task, task'[Msg.task].run_state = "kYielding"),
         current' = Cleared(Msg.task)
  PROVE  FifoInv'
<1> USE DEF latchVars, agentVars, cfsVars, loopVars
<1>1. TypeOK /\ KernelTypeOK /\ RunqueueOK /\ MsgInv /\ CpuInv /\ AgentInv /\ ChanInOrder
  BY DEF FifoInv, RunqueueOK, MsgInv, TypeOK
<1> SUFFICES ASSUME NEW t \in Tasks, t = Msg.task PROVE FifoInv'
  BY DispatchFacts
<1>2. /\ chan # <<>> /\ pc[c] = "drain" /\ ~Scheduling /\ assigned = {} /\ Msg \in Unread
      /\ \A u \in Tasks : ~In(u, "kRunnable")
      /\ Msg.seq = task[t].seqnum + 1
      /\ ~OnCpuOrLatched(t)
  BY DispatchFacts
<1>3. /\ chan' = Tail(chan)
      /\ UNCHANGED <<kst, oncpu, seq, latched, resched, ast, stale, cfs, budget,
                     globalCpu, pc, target, failed, available, assigned>>
  BY DEF Handled
<1>4. /\ chan' \in Seq(Messages) /\ Unread' = Unread \ {Msg}
  BY <1>1, <1>2, <1>3, ConsumeFacts
<1>5. KernelTypeOK'
  BY <1>1, <1>3, <1>4 DEF KernelTypeOK
<1>6. MsgInv'
  BY <1>1, <1>2, <1>3, HandleKeepsMsgInv
<1>7. RunqueueOK'
  <2>1. available' \in SUBSET Cpus
    BY <1>1, <1>3 DEF TypeOK
  <2> QED BY <2>1, <1>1, <1>2, <1>3, <1>5, MoveKeepsRunqueue
<1>8. \A u \in Tasks : (OnCpuOrLatched(u)' <=> OnCpuOrLatched(u)) /\ (IsLatched(u)' <=> IsLatched(u))
  BY <1>3 DEF OnCpuOrLatched, IsLatched
<1>9. CpuInv'
  <2>1. \A u \in Tasks : OnCpuOrLatched(u)' =>
          /\ kst'[u] = "runnable" /\ task'[u].known /\ ~In(u, "kBlocked")'
          /\ task'[u].seqnum = seq'[u]
    BY <1>1, <1>2, <1>3, <1>8 DEF CpuInv, In
  <2>2. \A u \in Tasks : In(u, "kOnCpu")' /\ task'[u].seqnum = seq'[u] =>
          \/ oncpu'[u] = task'[u].cpu /\ ~resched'[task'[u].cpu]
          \/ latched'[task'[u].cpu] = u
    <3> SUFFICES ASSUME NEW u \in Tasks, In(u, "kOnCpu")', task'[u].seqnum = seq'[u]
                 PROVE  \/ oncpu'[u] = task'[u].cpu /\ ~resched'[task'[u].cpu]
                        \/ latched'[task'[u].cpu] = u
      OBVIOUS
    <3>1. u # t
      BY DEF In
    <3>2. task'[u] = task[u]
      BY <3>1
    <3> QED BY <3>2, <1>1, <1>3 DEF CpuInv, In
  <2> QED BY <2>1, <2>2, <1>1, <1>3, <1>8 DEF CpuInv
<1>10. ~Scheduling'
  BY <1>2, <1>3 DEF Scheduling
<1>11. ASSUME NEW u \in Tasks, In(u, "kYielding")'
       PROVE  ~OnCpuOrLatched(u)' /\ \A m \in Unread' : m.task = u => ~Ran(m)
  <2>1. CASE u = t
    <3>1. ASSUME NEW m \in Unread', m.task = t, Ran(m) PROVE FALSE
      <4>1. m \in Unread /\ m # Msg /\ MessageOK(m)
        BY <3>1, <1>1, <1>4 DEF MsgInv
      <4>2. \A p : ~Follows(m, p)
        BY <3>1 DEF Follows, Ran
      <4>3. m.seq = task[t].seqnum + 1
        BY <4>1, <4>2, <3>1 DEF MessageOK
      <4> QED BY <4>1, <4>3, <3>1, <1>1, <1>2, UnreadUnique
    <3> QED BY <2>1, <3>1, <1>2, <1>8
  <2>2. CASE u # t
    <3>1. In(u, "kYielding")
      BY <2>2, <1>11 DEF In
    <3>2. ~OnCpuOrLatched(u) /\ \A m \in Unread : m.task = u => ~Ran(m)
      BY <3>1, <1>1, <1>2 DEF AgentInv
    <3> QED BY <3>2, <1>4, <1>8
  <2> QED BY <2>1, <2>2
<1>12. ASSUME NEW u \in Tasks PROVE ~In(u, "kRunnable")'
  BY <1>2 DEF In
<1>13. AgentInv'
  BY <1>1, <1>2, <1>3, <1>11, <1>12 DEF AgentInv
<1>14. ChecksHold'
  BY <1>3 DEF FifoInv, ChecksHold
<1> QED BY <1>6, <1>7, <1>9, <1>13, <1>14 DEF FifoInv

\* Where a task is, by its state.
LEMMA PlaceFacts ==
  ASSUME FifoInv, NEW t \in Tasks
  PROVE  /\ rq \in Seq(Tasks) /\ NoRepeats(rq) /\ yielding \in Seq(Tasks) /\ NoRepeats(yielding)
         /\ InQueue(t, rq) <=> In(t, "kQueued")
         /\ InQueue(t, yielding) <=> In(t, "kYielding")
         /\ In(t, "kOnCpu") => CurrentOk(t)
         /\ task[t].run_state \in RunStates
         /\ task[t].prio_boost \in BOOLEAN /\ task[t].preempted \in BOOLEAN
<1>1. TypeOK
  BY DEF FifoInv, RunqueueOK
<1>2. task[t] \in FifoTasks /\ rq \in Seq(Tasks) /\ yielding \in Seq(Tasks)
  BY <1>1 DEF TypeOK
<1>3. /\ task[t].run_state \in RunStates
      /\ task[t].prio_boost \in BOOLEAN /\ task[t].preempted \in BOOLEAN
  BY <1>2 DEF FifoTasks
<1> QED BY <1>2, <1>3 DEF FifoInv, RunqueueOK

LEMMA TaskNewKeepsInv ==
  ASSUME FifoInv, NEW c \in Cpus, TaskNew(c)
  PROVE  FifoInv'
<1>1. Dispatching(c, "TASK_NEW") /\ "TASK_NEW" \in MsgTypes /\ Handled
  BY DEF TaskNew, MsgTypes
<1> DEFINE t == Msg.task
<1>2. t \in Tasks /\ Msg.seq \in Nat /\ Msg.flag \in BOOLEAN /\ Msg.type = "TASK_NEW" /\ MayBeNext(Msg)
  BY <1>1, DispatchFacts
<1>3. task \in [Tasks -> FifoTasks] /\ MsgInv
  BY DEF FifoInv, RunqueueOK, TypeOK
<1>4. task' = [task EXCEPT ![t].known = TRUE, ![t].seqnum = Msg.seq,
                           ![t].run_state = IF Msg.flag THEN "kQueued" ELSE "kBlocked"]
  BY DEF TaskNew
<1>5. UNCHANGED <<current, yielding>> /\ rq' = IF Msg.flag THEN Append(rq, t) ELSE rq
  BY DEF TaskNew
<1>6. task[t] = NewFifoTask
  BY <1>2, <1>3 DEF MayBeNext, MsgInv
<1> HIDE DEF t
<1>7. ~In(t, "kQueued") /\ ~In(t, "kYielding") /\ ~In(t, "kOnCpu")
  BY <1>6 DEF In, NewFifoTask
<1>8. /\ task'[t].known /\ task'[t].seqnum = Msg.seq
      /\ task'[t].run_state = IF Msg.flag THEN "kQueued" ELSE "kBlocked"
      /\ \A u \in Tasks \ {t} : task'[u] = task[u]
      /\ task' \in [Tasks -> FifoTasks]
  <2> DEFINE s == IF Msg.flag THEN "kQueued" ELSE "kBlocked"
             r == [task[t] EXCEPT !.known = TRUE, !.seqnum = Msg.seq, !.run_state = s]
  <2>1. task[t] \in FifoTasks /\ s \in RunStates
    BY <1>2, <1>3 DEF RunStates
  <2>2. task' = [task EXCEPT ![t] = r]
    BY <1>2, <1>3, <1>4
  <2> HIDE DEF s
  <2>3. r \in FifoTasks /\ r.known /\ r.seqnum = Msg.seq /\ r.run_state = s
    BY <1>2, <2>1 DEF FifoTasks
  <2> HIDE DEF r
  <2> QED BY <2>2, <2>3, <1>2, <1>3 DEF s
<1>9. Learned(t)
  BY <1>2, <1>8 DEF Learned, Final, Blocks
<1>10. Rehomed(rq, rq', t, task'[t].run_state = "kQueued")
  <2>1. CASE Msg.flag
    BY <2>1, <1>2, <1>5, <1>7, <1>8, PlaceFacts, IsAppended
  <2>2. CASE ~Msg.flag
    BY <2>2, <1>2, <1>5, <1>7, <1>8, PlaceFacts, StaysInQueue
  <2> QED BY <2>1, <2>2
<1>11. Rehomed(yielding, yielding', t, task'[t].run_state = "kYielding")
  BY <1>2, <1>5, <1>7, <1>8, PlaceFacts, StaysInQueue
<1>12. current' = Cleared(t)
  BY <1>5, <1>7 DEF Cleared
<1> QED BY <1>1, <1>8, <1>9, <1>10, <1>11, <1>12, HandlingKeepsInv DEF t

LEMMA TaskRunnableKeepsInv ==
  ASSUME FifoInv, NEW c \in Cpus, TaskRunnable(c)
  PROVE  FifoInv'
<1>1. Dispatching(c, "TASK_WAKEUP") /\ "TASK_WAKEUP" \in MsgTypes
  BY DEF TaskRunnable, MsgTypes
<1> DEFINE t == Msg.task
           front == ~Msg.flag \/ task[t].preempted
<1>2. /\ t \in Tasks /\ Msg.seq \in Nat /\ Msg.flag \in BOOLEAN /\ Msg.type = "TASK_WAKEUP"
      /\ MayBeNext(Msg) /\ AdvanceOk
  BY <1>1, DispatchFacts
<1>3. In(t, "kBlocked")
  BY <1>2 DEF MayBeNext
<1>4. /\ task' = [task EXCEPT ![t].run_state = "kQueued", ![t].prio_boost = ~Msg.flag,
                              ![t].seqnum = Msg.seq]
      /\ rq' = Pushed(rq, t, front)
      /\ UNCHANGED <<current, yielding>> /\ Handled
  BY <1>2, <1>3 DEF TaskRunnable
<1>5. task \in [Tasks -> FifoTasks]
  BY DEF FifoInv, RunqueueOK, TypeOK
<1>6. task[t].known
  BY <1>2 DEF MayBeNext
<1>7. front \in BOOLEAN
  BY <1>2, PlaceFacts
<1> HIDE DEF t, front
<1>8. ~In(t, "kQueued") /\ ~In(t, "kYielding") /\ ~In(t, "kOnCpu")
  BY <1>3 DEF In
<1>9. /\ task'[t].known /\ task'[t].seqnum = Msg.seq /\ task'[t].run_state = "kQueued"
      /\ \A u \in Tasks \ {t} : task'[u] = task[u]
      /\ task' \in [Tasks -> FifoTasks]
  <2> DEFINE b == ~Msg.flag
             r == [task[t] EXCEPT !.run_state = "kQueued", !.prio_boost = b, !.seqnum = Msg.seq]
  <2>1. task[t] \in FifoTasks /\ b \in BOOLEAN
    BY <1>2, <1>5
  <2>2. task' = [task EXCEPT ![t] = r]
    BY <1>2, <1>4, <1>5
  <2> HIDE DEF b
  <2>3. r \in FifoTasks /\ r.known = task[t].known /\ r.seqnum = Msg.seq /\ r.run_state = "kQueued"
    BY <1>2, <2>1 DEF FifoTasks, RunStates
  <2> HIDE DEF r
  <2> QED BY <2>2, <2>3, <1>2, <1>5, <1>6
<1>10. Learned(t)
  BY <1>2, <1>9 DEF Learned, Final, Blocks
<1>11. Rehomed(rq, rq', t, task'[t].run_state = "kQueued")
  BY <1>2, <1>4, <1>7, <1>8, <1>9, PlaceFacts, IsPushed
<1>12. Rehomed(yielding, yielding', t, task'[t].run_state = "kYielding")
  BY <1>2, <1>4, <1>8, <1>9, PlaceFacts, StaysInQueue
<1>13. current' = Cleared(t)
  BY <1>4, <1>8 DEF Cleared
<1> QED BY <1>1, <1>4, <1>9, <1>10, <1>11, <1>12, <1>13, HandlingKeepsInv DEF t

\* After TASK_DEPARTED and TASK_DEAD the task is freed.
LEMMA FreedFacts ==
  ASSUME FifoInv, NEW t \in Tasks, task' = [task EXCEPT ![t] = NewFifoTask]
  PROVE  /\ task'[t] = NewFifoTask /\ task'[t].run_state = "kBlocked"
         /\ \A u \in Tasks \ {t} : task'[u] = task[u]
         /\ task' \in [Tasks -> FifoTasks]
<1>1. task \in [Tasks -> FifoTasks]
  BY DEF FifoInv, RunqueueOK, TypeOK
<1>2. NewFifoTask \in FifoTasks /\ NewFifoTask.run_state = "kBlocked"
  BY DEF NewFifoTask, FifoTasks, RunStates
<1> HIDE DEF NewFifoTask
<1> QED BY <1>1, <1>2

LEMMA TaskDepartedKeepsInv ==
  ASSUME FifoInv, NEW c \in Cpus, TaskDeparted(c)
  PROVE  FifoInv'
<1>1. Dispatching(c, "TASK_DEPARTED") /\ "TASK_DEPARTED" \in MsgTypes
  BY DEF TaskDeparted, MsgTypes
<1> DEFINE t == Msg.task
<1>2. t \in Tasks /\ Msg.type = "TASK_DEPARTED" /\ ~In(t, "kRunnable")
  BY <1>1, DispatchFacts
<1>3. IF In(t, "kOnCpu") THEN CurrentOk(t)
      ELSE In(t, "kYielding") \/ In(t, "kQueued") \/ In(t, "kBlocked")
  BY <1>2, PlaceFacts DEF In, RunStates
<1>4. /\ yielding' = IF In(t, "kYielding") THEN Erased(yielding, t) ELSE yielding
      /\ current' = Cleared(t)
      /\ rq' = Dequeued(rq, t)
      /\ task' = [task EXCEPT ![t] = NewFifoTask]
      /\ Handled
  BY <1>3 DEF TaskDeparted
<1>5. Final(Msg)
  BY <1>2 DEF Final
<1> HIDE DEF t
<1>6. /\ task'[t] = NewFifoTask /\ task'[t].run_state = "kBlocked"
      /\ \A u \in Tasks \ {t} : task'[u] = task[u]
      /\ task' \in [Tasks -> FifoTasks]
  BY <1>2, <1>4, FreedFacts
<1>7. Learned(t)
  BY <1>5, <1>6 DEF Learned
<1>8. Rehomed(rq, rq', t, task'[t].run_state = "kQueued")
  <2>1. CASE In(t, "kQueued")
    BY <2>1, <1>2, <1>4, <1>6, PlaceFacts, IsErased DEF Dequeued
  <2>2. CASE ~In(t, "kQueued")
    BY <2>2, <1>2, <1>4, <1>6, PlaceFacts, StaysInQueue DEF Dequeued
  <2> QED BY <2>1, <2>2
<1>9. Rehomed(yielding, yielding', t, task'[t].run_state = "kYielding")
  <2>1. CASE In(t, "kYielding")
    BY <2>1, <1>2, <1>4, <1>6, PlaceFacts, IsErased
  <2>2. CASE ~In(t, "kYielding")
    BY <2>2, <1>2, <1>4, <1>6, PlaceFacts, StaysInQueue
  <2> QED BY <2>1, <2>2
<1> QED BY <1>1, <1>4, <1>6, <1>7, <1>8, <1>9, HandlingKeepsInv DEF t

LEMMA TaskDeadKeepsInv ==
  ASSUME FifoInv, NEW c \in Cpus, TaskDead(c)
  PROVE  FifoInv'
<1>1. Dispatching(c, "TASK_DEAD") /\ "TASK_DEAD" \in MsgTypes
  BY DEF TaskDead, MsgTypes
<1> DEFINE t == Msg.task
<1>2. t \in Tasks /\ Msg.type = "TASK_DEAD" /\ MayBeNext(Msg)
  BY <1>1, DispatchFacts
<1>3. In(t, "kBlocked") /\ Final(Msg)
  BY <1>2 DEF MayBeNext, Final
<1>4. /\ task' = [task EXCEPT ![t] = NewFifoTask]
      /\ UNCHANGED <<current, rq, yielding>> /\ Handled
  BY <1>3 DEF TaskDead
<1> HIDE DEF t
<1>5. ~In(t, "kQueued") /\ ~In(t, "kYielding") /\ ~In(t, "kOnCpu")
  BY <1>3 DEF In
<1>6. /\ task'[t] = NewFifoTask /\ task'[t].run_state = "kBlocked"
      /\ \A u \in Tasks \ {t} : task'[u] = task[u]
      /\ task' \in [Tasks -> FifoTasks]
  BY <1>2, <1>4, FreedFacts
<1>7. Learned(t)
  BY <1>3, <1>6 DEF Learned
<1>8. Rehomed(rq, rq', t, task'[t].run_state = "kQueued")
  BY <1>2, <1>4, <1>5, <1>6, PlaceFacts, StaysInQueue
<1>9. Rehomed(yielding, yielding', t, task'[t].run_state = "kYielding")
  BY <1>2, <1>4, <1>5, <1>6, PlaceFacts, StaysInQueue
<1>10. current' = Cleared(t)
  BY <1>4, <1>5 DEF Cleared
<1> QED BY <1>1, <1>4, <1>6, <1>7, <1>8, <1>9, <1>10, HandlingKeepsInv DEF t

\* TaskBlocked, TaskPreempted and TaskYield find their task queued or on its CPU.
LEMMA RanFacts ==
  ASSUME FifoInv, NEW c \in Cpus, NEW type \in {"TASK_BLOCKED", "TASK_PREEMPT", "TASK_YIELD"},
         Dispatching(c, type)
  PROVE  /\ Msg.task \in Tasks /\ Msg.seq \in Nat /\ Msg.type = type /\ type \in MsgTypes
         /\ task[Msg.task].known /\ AdvanceOk
         /\ In(Msg.task, "kQueued") \/ (In(Msg.task, "kOnCpu") /\ CurrentOk(Msg.task))
<1>1. type \in MsgTypes
  BY DEF MsgTypes
<1>2. /\ Msg.task \in Tasks /\ Msg.seq \in Nat /\ Msg.type = type /\ AdvanceOk
      /\ MayBeNext(Msg) /\ ~In(Msg.task, "kRunnable")
      /\ Ran(Msg) => ~In(Msg.task, "kYielding")
  BY <1>1, DispatchFacts
<1>3. Ran(Msg)
  BY <1>2 DEF Ran
<1>4. ~In(Msg.task, "kBlocked") /\ task[Msg.task].known
  BY <1>2, <1>3 DEF MayBeNext
<1>5. In(Msg.task, "kQueued") \/ In(Msg.task, "kOnCpu")
  BY <1>2, <1>3, <1>4, PlaceFacts DEF In, RunStates
<1> QED BY <1>1, <1>2, <1>4, <1>5, PlaceFacts

LEMMA TaskBlockedKeepsInv ==
  ASSUME FifoInv, NEW c \in Cpus, TaskBlocked(c)
  PROVE  FifoInv'
<1>1. Dispatching(c, "TASK_BLOCKED")
  BY DEF TaskBlocked
<1> DEFINE t == Msg.task
<1>2. /\ t \in Tasks /\ Msg.seq \in Nat /\ Msg.type = "TASK_BLOCKED" /\ "TASK_BLOCKED" \in MsgTypes
      /\ task[t].known /\ AdvanceOk
      /\ In(t, "kQueued") \/ (In(t, "kOnCpu") /\ CurrentOk(t))
  BY <1>1, RanFacts
<1>3. /\ current' = Cleared(t)
      /\ rq' = Dequeued(rq, t)
      /\ task' = [task EXCEPT ![t].run_state = "kBlocked", ![t].seqnum = Msg.seq]
      /\ UNCHANGED yielding /\ Handled
  BY <1>2 DEF TaskBlocked
<1>4. task \in [Tasks -> FifoTasks]
  BY DEF FifoInv, RunqueueOK, TypeOK
<1> HIDE DEF t
<1>5. /\ task'[t].known /\ task'[t].seqnum = Msg.seq /\ task'[t].run_state = "kBlocked"
      /\ \A u \in Tasks \ {t} : task'[u] = task[u]
      /\ task' \in [Tasks -> FifoTasks]
  <2> DEFINE r == [task[t] EXCEPT !.run_state = "kBlocked", !.seqnum = Msg.seq]
  <2>1. task' = [task EXCEPT ![t] = r] /\ task[t] \in FifoTasks
    BY <1>2, <1>3, <1>4
  <2>2. r \in FifoTasks /\ r.known = task[t].known /\ r.seqnum = Msg.seq /\ r.run_state = "kBlocked"
    BY <1>2, <2>1 DEF FifoTasks, RunStates
  <2> HIDE DEF r
  <2> QED BY <2>1, <2>2, <1>2, <1>4
<1>6. Learned(t)
  BY <1>2, <1>5 DEF Learned, Final, Blocks
<1>7. Rehomed(rq, rq', t, task'[t].run_state = "kQueued")
  <2>1. CASE In(t, "kQueued")
    BY <2>1, <1>2, <1>3, <1>5, PlaceFacts, IsErased DEF Dequeued
  <2>2. CASE ~In(t, "kQueued")
    BY <2>2, <1>2, <1>3, <1>5, PlaceFacts, StaysInQueue DEF Dequeued
  <2> QED BY <2>1, <2>2
<1>8. Rehomed(yielding, yielding', t, task'[t].run_state = "kYielding")
  <2>1. ~In(t, "kYielding")
    BY <1>2 DEF In
  <2> QED BY <2>1, <1>2, <1>3, <1>5, PlaceFacts, StaysInQueue
<1> QED BY <1>1, <1>2, <1>3, <1>5, <1>6, <1>7, <1>8, HandlingKeepsInv DEF t

LEMMA TaskPreemptedKeepsInv ==
  ASSUME FifoInv, NEW c \in Cpus, TaskPreempted(c)
  PROVE  FifoInv'
<1>1. Dispatching(c, "TASK_PREEMPT")
  BY DEF TaskPreempted
<1> DEFINE t == Msg.task
<1>2. /\ t \in Tasks /\ Msg.seq \in Nat /\ Msg.type = "TASK_PREEMPT" /\ "TASK_PREEMPT" \in MsgTypes
      /\ task[t].known /\ AdvanceOk
      /\ In(t, "kQueued") \/ (In(t, "kOnCpu") /\ CurrentOk(t))
  BY <1>1, RanFacts
<1>3. /\ current' = Cleared(t)
      /\ rq' = IF In(t, "kOnCpu") THEN Pushed(rq, t, TRUE) ELSE rq
      /\ task' = [task EXCEPT ![t].run_state = "kQueued", ![t].preempted = TRUE,
                              ![t].seqnum = Msg.seq]
      /\ UNCHANGED yielding /\ Handled
  BY <1>2 DEF TaskPreempted
<1>4. task \in [Tasks -> FifoTasks]
  BY DEF FifoInv, RunqueueOK, TypeOK
<1> HIDE DEF t
<1>5. /\ task'[t].known /\ task'[t].seqnum = Msg.seq /\ task'[t].run_state = "kQueued"
      /\ \A u \in Tasks \ {t} : task'[u] = task[u]
      /\ task' \in [Tasks -> FifoTasks]
  <2> DEFINE r == [task[t] EXCEPT !.run_state = "kQueued", !.preempted = TRUE, !.seqnum = Msg.seq]
  <2>1. task' = [task EXCEPT ![t] = r] /\ task[t] \in FifoTasks
    BY <1>2, <1>3, <1>4
  <2>2. r \in FifoTasks /\ r.known = task[t].known /\ r.seqnum = Msg.seq /\ r.run_state = "kQueued"
    BY <1>2, <2>1 DEF FifoTasks, RunStates
  <2> HIDE DEF r
  <2> QED BY <2>1, <2>2, <1>2, <1>4
<1>6. Learned(t)
  BY <1>2, <1>5 DEF Learned, Final, Blocks
<1>7. Rehomed(rq, rq', t, task'[t].run_state = "kQueued")
  <2>1. CASE In(t, "kOnCpu")
    <3>1. ~In(t, "kQueued")
      BY <2>1 DEF In
    <3> QED BY <2>1, <3>1, <1>2, <1>3, <1>5, PlaceFacts, IsPushed
  <2>2. CASE ~In(t, "kOnCpu")
    BY <2>2, <1>2, <1>3, <1>5, PlaceFacts, StaysInQueue
  <2> QED BY <2>1, <2>2
<1>8. Rehomed(yielding, yielding', t, task'[t].run_state = "kYielding")
  <2>1. ~In(t, "kYielding")
    BY <1>2 DEF In
  <2> QED BY <2>1, <1>2, <1>3, <1>5, PlaceFacts, StaysInQueue
<1> QED BY <1>1, <1>2, <1>3, <1>5, <1>6, <1>7, <1>8, HandlingKeepsInv DEF t

LEMMA TaskYieldKeepsInv ==
  ASSUME FifoInv, NEW c \in Cpus, TaskYield(c)
  PROVE  FifoInv'
<1>1. Dispatching(c, "TASK_YIELD")
  BY DEF TaskYield
<1> DEFINE t == Msg.task
           s == IF In(t, "kOnCpu") THEN "kYielding" ELSE task[t].run_state
<1>2. /\ t \in Tasks /\ Msg.seq \in Nat /\ Msg.type = "TASK_YIELD" /\ "TASK_YIELD" \in MsgTypes
      /\ task[t].known /\ AdvanceOk
      /\ In(t, "kQueued") \/ (In(t, "kOnCpu") /\ CurrentOk(t))
  BY <1>1, RanFacts
<1>3. /\ current' = Cleared(t)
      /\ yielding' = IF In(t, "kOnCpu") THEN Append(yielding, t) ELSE yielding
      /\ task' = [task EXCEPT ![t].run_state = IF In(t, "kOnCpu") THEN "kYielding" ELSE @,
                              ![t].seqnum = Msg.seq]
      /\ UNCHANGED rq /\ Handled
  BY <1>2 DEF TaskYield
<1>4. task \in [Tasks -> FifoTasks]
  BY DEF FifoInv, RunqueueOK, TypeOK
<1>5. \/ In(t, "kOnCpu") /\ ~In(t, "kQueued") /\ s = "kYielding"
      \/ ~In(t, "kOnCpu") /\ In(t, "kQueued") /\ s = "kQueued"
  BY <1>2 DEF In
<1>6. ~In(t, "kYielding")
  BY <1>2 DEF In
<1>7. task' = [task EXCEPT ![t] = [task[t] EXCEPT !.run_state = s, !.seqnum = Msg.seq]]
  BY <1>2, <1>3, <1>4
<1> HIDE DEF t, s
<1>8. /\ task'[t].known /\ task'[t].seqnum = Msg.seq /\ task'[t].run_state = s
      /\ \A u \in Tasks \ {t} : task'[u] = task[u]
      /\ task' \in [Tasks -> FifoTasks]
  <2> DEFINE r == [task[t] EXCEPT !.run_state = s, !.seqnum = Msg.seq]
  <2>1. task' = [task EXCEPT ![t] = r] /\ task[t] \in FifoTasks /\ s \in RunStates
    BY <1>2, <1>4, <1>5, <1>7 DEF RunStates
  <2>2. r \in FifoTasks /\ r.known = task[t].known /\ r.seqnum = Msg.seq /\ r.run_state = s
    BY <1>2, <2>1 DEF FifoTasks
  <2> HIDE DEF r
  <2> QED BY <2>1, <2>2, <1>2, <1>4
<1>9. Learned(t)
  BY <1>2, <1>5, <1>8 DEF Learned, Final, Blocks
<1>10. Rehomed(rq, rq', t, task'[t].run_state = "kQueued")
  BY <1>2, <1>3, <1>5, <1>8, PlaceFacts, StaysInQueue
<1>11. Rehomed(yielding, yielding', t, task'[t].run_state = "kYielding")
  <2>1. CASE In(t, "kOnCpu")
    BY <2>1, <1>2, <1>3, <1>5, <1>6, <1>8, PlaceFacts, IsAppended
  <2>2. CASE ~In(t, "kOnCpu")
    BY <2>2, <1>2, <1>3, <1>5, <1>6, <1>8, PlaceFacts, StaysInQueue
  <2> QED BY <2>1, <2>2
<1>12. task'[t].run_state \notin {"kOnCpu", "kRunnable"}
  BY <1>5, <1>8
<1> QED BY <1>1, <1>2, <1>3, <1>8, <1>9, <1>10, <1>11, <1>12, HandlingKeepsInv DEF t

-------------------------------------------------------------------------------
(***************************************************************************)
(* The agents' loop and GlobalSchedule.                                    *)
(***************************************************************************)

\* A step of an agent that leaves the tasks and their places alone.
LEMMA LoopKeepsInv ==
  ASSUME FifoInv, UNCHANGED <<kst, oncpu, seq, chan, latched, resched, failed,
                              task, current, rq, yielding, assigned>>,
         KernelTypeOK', \A c \in Cpus : ast'[c] = "running" => ast[c] = "running",
         globalCpu' \in Cpus, pc' \in [Cpus -> Labels], target' \in [Cpus -> Cpus],
         \A c \in Cpus : pc'[c] \in {"drain", "pick", "commit", "move"} => c = globalCpu',
         available' \in SUBSET Cpus, available' \cap assigned = {},
         assigned # {} => Scheduling',
         Scheduling' \/ ~Scheduling \/ yielding = <<>>
  PROVE  FifoInv'
<1>1. TypeOK /\ RunqueueOK /\ MsgInv /\ CpuInv /\ AgentInv
  BY DEF FifoInv, RunqueueOK
<1>2. TypeOK'
  BY <1>1 DEF TypeOK
<1>3. RunqueueOK'
  BY <1>1, <1>2 DEF RunqueueOK, In, CurrentOk
<1>4. MsgInv'
  BY <1>1, SameViewKeepsMsgInv DEF SameView, TypeOK
<1>5. CpuInv'
  BY <1>1 DEF CpuInv, OnCpuOrLatched, IsLatched, In
<1>6. ASSUME NEW t \in Tasks, In(t, "kYielding"), ~Scheduling'
      PROVE  ~OnCpuOrLatched(t) /\ \A m \in Unread : m.task = t => ~Ran(m)
  <2>1. InQueue(t, yielding)
    BY <1>1, <1>6 DEF RunqueueOK
  <2>2. yielding # <<>>
    BY <2>1 DEF InQueue
  <2> QED BY <2>2, <1>1, <1>6 DEF AgentInv
<1>7. Unread' = Unread /\ \A t \in Tasks : OnCpuOrLatched(t)' <=> OnCpuOrLatched(t)
  BY DEF Unread, OnCpuOrLatched, IsLatched
<1>8. AgentInv'
  BY <1>1, <1>6, <1>7 DEF AgentInv, In
<1>9. ChecksHold'
  BY DEF FifoInv, ChecksHold
<1> QED BY <1>3, <1>4, <1>5, <1>8, <1>9 DEF FifoInv

\* The labels after a step of agent c.
LEMMA GotoFacts ==
  ASSUME FifoInv, NEW c \in Cpus, NEW l \in Labels, Goto(c, l)
  PROVE  /\ pc' \in [Cpus -> Labels]
         /\ pc'[c] = l /\ \A d \in Cpus \ {c} : pc'[d] = pc[d]
<1>1. pc \in [Cpus -> Labels]
  BY DEF FifoInv, RunqueueOK, TypeOK
<1> QED BY <1>1 DEF Goto

LEMMA TypesFacts ==
  ASSUME FifoInv
  PROVE  /\ TypeOK /\ KernelTypeOK /\ RunqueueOK /\ MsgInv /\ CpuInv /\ AgentInv
         /\ globalCpu \in Cpus /\ target \in [Cpus -> Cpus]
         /\ task \in [Tasks -> FifoTasks] /\ current \in [Cpus -> Tasks \cup {NoTask}]
         /\ available \in SUBSET Cpus /\ assigned \in SUBSET Cpus /\ 0 \in Cpus
         /\ NoTask \notin Tasks /\ NoCpu \notin Cpus
<1>1. 0 \in Cpus /\ NoTask \notin Tasks /\ NoCpu \notin Cpus
  BY GlobalKernelAssumption DEF Cpus, NoCpu
<1> QED BY <1>1 DEF FifoInv, RunqueueOK, TypeOK

\* The top of the loop, the yield of a satellite and the ping.
LEMMA SatelliteKeepsInv ==
  ASSUME FifoInv, NEW c \in Cpus, LoopTop(c) \/ LocalYield(c) \/ PingGlobal(c),
         UNCHANGED fifoVars
  PROVE  FifoInv'
<1> USE DEF taskVars, latchVars, cfsVars, fifoVars
<1>1. /\ KernelTypeOK /\ AgentInv /\ globalCpu \in Cpus /\ target \in [Cpus -> Cpus]
      /\ available \in SUBSET Cpus /\ 0 \in Cpus
  BY TypesFacts
<1>2. /\ UNCHANGED <<kst, oncpu, seq, chan, latched, resched, failed, task, current, rq,
                     yielding, assigned, available, cfs, budget, globalCpu>>
      /\ pc[c] \in {"top", "yield", "ping"}
  BY DEF LoopTop, LocalYield, PingGlobal, At
<1>3. PICK l \in Labels : Goto(c, l) /\ (l \in {"drain", "move"} => c = globalCpu)
                                     /\ l \notin {"pick", "commit"}
  BY DEF LoopTop, LocalYield, PingGlobal, Labels
<1>4. pc' \in [Cpus -> Labels] /\ pc'[c] = l /\ \A d \in Cpus \ {c} : pc'[d] = pc[d]
  BY <1>3, GotoFacts
<1>5. Scheduling' <=> Scheduling
  BY <1>2, <1>3, <1>4 DEF Scheduling
<1>6. \A d \in Cpus : pc'[d] \in {"drain", "pick", "commit", "move"} => d = globalCpu'
  BY <1>1, <1>2, <1>3, <1>4 DEF AgentInv
<1>7. /\ ast' \in [Cpus -> {"running", "sleeping", "waking"}]
      /\ stale' \in [Cpus -> BOOLEAN] /\ target' \in [Cpus -> Cpus]
      /\ \A d \in Cpus : ast'[d] = "running" => ast[d] = "running"
  <2>1. CASE LoopTop(c)
    BY <2>1, <1>1 DEF LoopTop, KernelTypeOK
  <2>2. CASE LocalYield(c)
    BY <2>2, <1>1 DEF LocalYield, KernelTypeOK
  <2>3. CASE PingGlobal(c)
    BY <2>3, <1>1 DEF PingGlobal, WakeAgent, KernelTypeOK
  <2> QED BY <2>1, <2>2, <2>3
<1>8. KernelTypeOK'
  BY <1>1, <1>2, <1>7 DEF KernelTypeOK
<1>9. available' \in SUBSET Cpus /\ available' \cap assigned = {} /\ (assigned # {} => Scheduling')
  BY <1>1, <1>2, <1>5 DEF AgentInv
<1> QED BY <1>1, <1>2, <1>4, <1>5, <1>6, <1>7, <1>8, <1>9, LoopKeepsInv

\* The role is handed over: the other CPU's agent is not in the scheduler.
LEMMA PickNextGlobalCPUKeepsInv ==
  ASSUME FifoInv, NEW c \in Cpus, PickNextGlobalCPU(c)
  PROVE  FifoInv'
<1> USE DEF kernelVars, taskVars, latchVars, agentVars, cfsVars, fifoVars
<1>1. /\ KernelTypeOK /\ RunqueueOK /\ AgentInv /\ globalCpu \in Cpus /\ target \in [Cpus -> Cpus]
      /\ available \in SUBSET Cpus /\ current \in [Cpus -> Tasks \cup {NoTask}]
  BY TypesFacts
<1>2. pc[c] = "move" /\ ~Scheduling /\ assigned = {} /\ c = globalCpu
  BY NotScheduling DEF PickNextGlobalCPU, At
<1>3. ASSUME NEW d \in Cpus, current[d] # NoTask PROVE In(current[d], "kOnCpu")
  BY <1>1, <1>2, <1>3 DEF RunqueueOK
<1>4. CASE \E d \in Cpus : /\ SetGlobalCPU(c, d)
                           /\ UNCHANGED <<kernelVars, failed, fifoVars>>
  <2>1. PICK d \in Cpus : SetGlobalCPU(c, d) /\ UNCHANGED <<kernelVars, failed, fifoVars>>
    BY <1>4
  <2>2. /\ globalCpu' = d /\ target' = [target EXCEPT ![c] = d] /\ Goto(c, "ping")
    BY <2>1 DEF SetGlobalCPU
  <2>3. pc' \in [Cpus -> Labels] /\ pc'[c] = "ping" /\ \A e \in Cpus \ {c} : pc'[e] = pc[e]
    BY <2>2, GotoFacts DEF Labels
  <2>4. \A e \in Cpus : pc'[e] \notin {"drain", "pick", "commit", "move"}
    BY <2>3, <1>1, <1>2 DEF AgentInv
  <2>5. KernelTypeOK' /\ target' \in [Cpus -> Cpus]
    BY <2>1, <2>2, <1>1 DEF KernelTypeOK
  <2> QED BY <2>1, <2>2, <2>3, <2>4, <2>5, <1>1, <1>2, LoopKeepsInv DEF AgentInv
<1>5. CASE Goto(c, "drain") /\ UNCHANGED <<kernelVars, globalCpu, target, failed, fifoVars>>
  <2>1. pc' \in [Cpus -> Labels] /\ pc'[c] = "drain" /\ \A e \in Cpus \ {c} : pc'[e] = pc[e]
    BY <1>5, GotoFacts DEF Labels
  <2>2. \A e \in Cpus : pc'[e] \in {"drain", "pick", "commit", "move"} => e = globalCpu'
    BY <2>1, <1>1, <1>2, <1>5 DEF AgentInv
  <2>3. KernelTypeOK'
    BY <1>1, <1>5 DEF KernelTypeOK
  <2> QED BY <2>1, <2>2, <2>3, <1>1, <1>2, <1>5, LoopKeepsInv DEF AgentInv
<1> QED BY <1>3, <1>4, <1>5 DEF PickNextGlobalCPU

\* When the global agent has read all messages, its own CPU has no task: the
\* task it had was preempted when the agent got the CPU.
LEMMA FindAvailableKeepsInv ==
  ASSUME FifoInv, NEW c \in Cpus, FindAvailable(c)
  PROVE  FifoInv'
<1> USE DEF taskVars, latchVars, agentVars
<1>1. /\ TypeOK /\ KernelTypeOK /\ RunqueueOK /\ MsgInv /\ CpuInv /\ AgentInv /\ globalCpu \in Cpus
      /\ target \in [Cpus -> Cpus] /\ current \in [Cpus -> Tasks \cup {NoTask}]
      /\ NoTask \notin Tasks /\ NoCpu \notin Cpus
  BY TypesFacts
<1>2. chan = <<>> /\ ast[c] = "running" /\ pc[c] = "drain"
  BY DEF FindAvailable, At
<1>3. ~Scheduling /\ assigned = {} /\ c = globalCpu
  BY <1>2, NotScheduling
<1>4. current[globalCpu] = NoTask
  <2> SUFFICES ASSUME NEW u \in Tasks, current[globalCpu] = u PROVE FALSE
    BY <1>1
  <2>1. task[u].known /\ In(u, "kOnCpu") /\ task[u].cpu = globalCpu
    BY <1>1, <1>3 DEF RunqueueOK
  <2>2. \A m \in Unread : m.task # u
    BY <1>2 DEF Unread
  <2>3. task[u].seqnum = seq[u]
    BY <2>1, <2>2, <1>1, SeqnumFacts
  <2>4. oncpu[u] = globalCpu \/ latched[globalCpu] = u
    BY <2>1, <2>3, <1>1 DEF CpuInv
  <2> QED BY <2>4, <1>1, <1>2, <1>3 DEF CpuInv
<1>5. PICK expired \in SUBSET {d \in Cpus : current[d] # NoTask /\ Available(d)} :
        /\ Cardinality(expired) <= budget
        /\ budget' = budget - Cardinality(expired)
        /\ available' = {d \in Cpus : /\ d # globalCpu /\ Available(d)
                                      /\ current[d] = NoTask \/ d \in expired}
  BY <1>4 DEF FindAvailable
<1>6. /\ Goto(c, "pick")
      /\ UNCHANGED <<taskVars, latchVars, agentVars, cfs, globalCpu, target, failed,
                     task, current, rq, yielding, assigned>>
  BY <1>4 DEF FindAvailable
<1>7. pc' \in [Cpus -> Labels] /\ pc'[c] = "pick" /\ \A d \in Cpus \ {c} : pc'[d] = pc[d]
  BY <1>6, GotoFacts DEF Labels
<1>8. Scheduling'
  BY <1>7 DEF Scheduling
<1>9. \A d \in Cpus : pc'[d] \in {"drain", "pick", "commit", "move"} => d = globalCpu'
  BY <1>1, <1>3, <1>6, <1>7 DEF AgentInv
<1>10. budget' \in 0 .. MaxDisturb
  <2>1. expired \in SUBSET Cpus
    OBVIOUS
  <2>2. Cardinality(expired) \in Nat
    BY <2>1, ExpiredFacts
  <2>3. budget \in 0 .. MaxDisturb /\ MaxDisturb \in Nat
    BY <1>1, GlobalKernelAssumption DEF KernelTypeOK
  <2> QED BY <2>2, <2>3, <1>5
<1>11. KernelTypeOK'
  BY <1>1, <1>6, <1>10 DEF KernelTypeOK
<1>12. available' \in SUBSET Cpus /\ available' \cap assigned = {}
  BY <1>3, <1>5
<1> QED BY <1>1, <1>6, <1>7, <1>8, <1>9, <1>11, <1>12, LoopKeepsInv

LEMMA PickDoneKeepsInv ==
  ASSUME FifoInv, NEW c \in Cpus, PickDone(c)
  PROVE  FifoInv'
<1> USE DEF kernelVars, taskVars, latchVars, agentVars, cfsVars
<1>1. KernelTypeOK /\ AgentInv /\ globalCpu \in Cpus /\ target \in [Cpus -> Cpus]
  BY TypesFacts
<1>2. /\ pc[c] = "pick" /\ available' = {} /\ Goto(c, "commit")
      /\ UNCHANGED <<kernelVars, globalCpu, target, failed, task, current, rq, yielding, assigned>>
  BY DEF PickDone, At
<1>3. pc' \in [Cpus -> Labels] /\ pc'[c] = "commit" /\ \A d \in Cpus \ {c} : pc'[d] = pc[d]
  BY <1>2, GotoFacts DEF Labels
<1>4. Scheduling'
  BY <1>3 DEF Scheduling
<1>5. \A d \in Cpus : pc'[d] \in {"drain", "pick", "commit", "move"} => d = globalCpu'
  BY <1>1, <1>2, <1>3 DEF AgentInv
<1>6. KernelTypeOK'
  BY <1>1, <1>2 DEF KernelTypeOK
<1> QED BY <1>1, <1>2, <1>3, <1>4, <1>5, <1>6, LoopKeepsInv

LEMMA ScheduleDoneKeepsInv ==
  ASSUME FifoInv, NEW c \in Cpus, ScheduleDone(c)
  PROVE  FifoInv'
<1> USE DEF kernelVars, taskVars, latchVars, agentVars, cfsVars, fifoVars
<1>1. /\ KernelTypeOK /\ AgentInv /\ globalCpu \in Cpus /\ target \in [Cpus -> Cpus]
      /\ available \in SUBSET Cpus
  BY TypesFacts
<1>2. /\ pc[c] = "commit" /\ assigned = {} /\ yielding = <<>> /\ Goto(c, "top")
      /\ UNCHANGED <<kernelVars, globalCpu, target, failed, fifoVars>>
  BY DEF ScheduleDone, At
<1>3. pc' \in [Cpus -> Labels] /\ pc'[c] = "top" /\ \A d \in Cpus \ {c} : pc'[d] = pc[d]
  BY <1>2, GotoFacts DEF Labels
<1>4. \A d \in Cpus : pc'[d] \in {"drain", "pick", "commit", "move"} => d = globalCpu'
  BY <1>1, <1>2, <1>3 DEF AgentInv
<1>5. KernelTypeOK'
  BY <1>1, <1>2 DEF KernelTypeOK
<1> QED BY <1>1, <1>2, <1>3, <1>4, <1>5, LoopKeepsInv DEF AgentInv

\* A task moves between the run queue and yielding_tasks_ during GlobalSchedule.
LEMMA ShiftKeepsInv ==
  ASSUME FifoInv, Scheduling, NEW t \in Tasks, In(t, "kQueued") \/ In(t, "kYielding"),
         NEW s \in {"kQueued", "kYielding"}, task' = [task EXCEPT ![t].run_state = s],
         Rehomed(rq, rq', t, s = "kQueued"), Rehomed(yielding, yielding', t, s = "kYielding"),
         UNCHANGED <<kernelVars, loopVars, current, available, assigned>>
  PROVE  FifoInv'
<1> USE DEF kernelVars, taskVars, latchVars, agentVars, cfsVars, loopVars
<1>1. /\ TypeOK /\ KernelTypeOK /\ RunqueueOK /\ MsgInv /\ CpuInv /\ AgentInv
      /\ task \in [Tasks -> FifoTasks] /\ available \in SUBSET Cpus
  BY TypesFacts
<1>2. ~In(t, "kRunnable") /\ ~In(t, "kOnCpu") /\ ~In(t, "kBlocked")
  BY DEF In
<1>3. task[t].known
  BY <1>1, <1>2 DEF MsgInv, NewFifoTask, In
<1>4. /\ task' \in [Tasks -> FifoTasks] /\ \A u \in Tasks \ {t} : task'[u] = task[u]
      /\ task'[t].run_state = s /\ task'[t].known = task[t].known
      /\ task'[t].seqnum = task[t].seqnum /\ task'[t].cpu = task[t].cpu
  <2> DEFINE r == [task[t] EXCEPT !.run_state = s]
  <2>1. task' = [task EXCEPT ![t] = r] /\ task[t] \in FifoTasks
    BY <1>1
  <2>2. /\ r \in FifoTasks /\ r.known = task[t].known /\ r.seqnum = task[t].seqnum
        /\ r.cpu = task[t].cpu /\ r.run_state = s
    BY <2>1 DEF FifoTasks, RunStates
  <2> HIDE DEF r
  <2> QED BY <2>1, <2>2, <1>1
<1>5. KernelTypeOK'
  BY <1>1 DEF KernelTypeOK
<1>6. current' = Cleared(t)
  BY <1>2 DEF Cleared
<1>7. RunqueueOK'
  BY <1>1, <1>2, <1>4, <1>5, <1>6, MoveKeepsRunqueue
<1>8. SameView
  BY <1>2, <1>3, <1>4 DEF SameView, In
<1>9. MsgInv'
  BY <1>1, <1>8, SameViewKeepsMsgInv
<1>10. \A u \in Tasks : /\ In(u, "kBlocked")' <=> In(u, "kBlocked")
                        /\ In(u, "kRunnable")' <=> In(u, "kRunnable")
                        /\ In(u, "kOnCpu")' <=> In(u, "kOnCpu")
                        /\ task'[u].known = task[u].known
                        /\ task'[u].seqnum = task[u].seqnum
                        /\ task'[u].cpu = task[u].cpu
  BY <1>2, <1>4 DEF In
<1>11. CpuInv'
  BY <1>1, <1>10 DEF CpuInv, OnCpuOrLatched, IsLatched
<1>12. Scheduling'
  BY DEF Scheduling
<1>13. \A d \in assigned : current[d] # NoTask /\ current[d] \in Tasks
  BY <1>1 DEF AgentInv, TypeOK
<1>14. AgentInv'
  <2>1. \A d \in assigned : (In(current[d], "kRunnable"))'
    BY <1>1, <1>10, <1>13 DEF AgentInv, In
  <2> QED BY <2>1, <1>1, <1>10, <1>12 DEF AgentInv
<1>15. ChecksHold'
  BY DEF FifoInv, ChecksHold
<1> QED BY <1>7, <1>9, <1>11, <1>14, <1>15 DEF FifoInv

LEMMA SkipThisRoundKeepsInv ==
  ASSUME FifoInv, NEW c \in Cpus, SkipThisRound(c)
  PROVE  FifoInv'
<1>1. rq # <<>> /\ pc[c] = "pick"
  BY DEF SkipThisRound, At
<1>2. Scheduling
  BY <1>1 DEF Scheduling
<1>3. rq \in Seq(Tasks) /\ NoRepeats(rq)
  BY TypesFacts DEF RunqueueOK, TypeOK
<1> DEFINE t == Head(rq)
<1>4. t \in Tasks /\ InQueue(t, rq) /\ Rehomed(rq, Tail(rq), t, FALSE)
  BY <1>1, <1>3, IsPopped
<1>5. In(t, "kQueued") /\ yielding \in Seq(Tasks) /\ NoRepeats(yielding)
      /\ (InQueue(t, yielding) <=> In(t, "kYielding"))
  BY <1>4, PlaceFacts
<1>6. /\ task' = [task EXCEPT ![t].run_state = "kYielding"]
      /\ yielding' = Append(yielding, t) /\ rq' = Tail(rq)
      /\ UNCHANGED <<kernelVars, loopVars, current, available, assigned>>
  BY <1>5 DEF SkipThisRound
<1> HIDE DEF t
<1>7. Rehomed(yielding, yielding', t, TRUE)
  <2>1. ~In(t, "kYielding")
    BY <1>5 DEF In
  <2> QED BY <2>1, <1>4, <1>5, <1>6, IsAppended
<1> QED BY <1>2, <1>4, <1>5, <1>6, <1>7, ShiftKeepsInv

LEMMA UnyieldKeepsInv ==
  ASSUME FifoInv, NEW c \in Cpus, Unyield(c)
  PROVE  FifoInv'
<1>1. yielding # <<>> /\ pc[c] = "commit"
  BY DEF Unyield, At
<1>2. Scheduling
  BY <1>1 DEF Scheduling
<1>3. yielding \in Seq(Tasks) /\ NoRepeats(yielding)
  BY TypesFacts DEF RunqueueOK, TypeOK
<1> DEFINE t == Head(yielding)
<1>4. t \in Tasks /\ InQueue(t, yielding) /\ Rehomed(yielding, Tail(yielding), t, FALSE)
  BY <1>1, <1>3, IsPopped
<1>5. /\ In(t, "kYielding") /\ rq \in Seq(Tasks) /\ NoRepeats(rq)
      /\ InQueue(t, rq) <=> In(t, "kQueued")
  BY <1>4, PlaceFacts
<1>6. /\ task' = [task EXCEPT ![t].run_state = "kQueued"]
      /\ rq' = Pushed(rq, t, Boosted(t)) /\ yielding' = Tail(yielding)
      /\ UNCHANGED <<kernelVars, loopVars, current, available, assigned>>
  BY <1>5 DEF Unyield
<1>7. Boosted(t) \in BOOLEAN
  BY <1>4, PlaceFacts DEF Boosted
<1> HIDE DEF t
<1>8. Rehomed(rq, rq', t, TRUE)
  <2>1. ~In(t, "kQueued")
    BY <1>5 DEF In
  <2> QED BY <2>1, <1>4, <1>5, <1>6, <1>7, IsPushed
<1> QED BY <1>2, <1>4, <1>5, <1>6, <1>8, ShiftKeepsInv

\* The task that gets a CPU and the one that loses it change places.
LEMMA AssignKeepsInv ==
  ASSUME FifoInv, NEW c \in Cpus, Assign(c)
  PROVE  FifoInv'
<1> USE DEF kernelVars, taskVars, latchVars, agentVars, cfsVars, loopVars
<1>1. /\ TypeOK /\ KernelTypeOK /\ RunqueueOK /\ MsgInv /\ CpuInv /\ AgentInv
      /\ task \in [Tasks -> FifoTasks] /\ current \in [Cpus -> Tasks \cup {NoTask}]
      /\ available \in SUBSET Cpus /\ assigned \in SUBSET Cpus /\ NoTask \notin Tasks
  BY TypesFacts
<1> SUFFICES ASSUME NEW t, t = Head(rq), NEW d, d = Front(available),
                    NEW prev, prev = current[d]
             PROVE  FifoInv'
  OBVIOUS
<1>2. /\ pc[c] = "pick" /\ available # {} /\ rq # <<>> /\ In(t, "kQueued")
      /\ current' = [current EXCEPT ![d] = t]
      /\ available' = available \ {d} /\ assigned' = assigned \cup {d}
      /\ UNCHANGED <<kernelVars, loopVars, yielding>>
  BY DEF Assign, At
<1>3. IF prev = NoTask
        THEN task' = [task EXCEPT ![t].run_state = "kRunnable"] /\ rq' = Tail(rq)
        ELSE /\ task' = [[task EXCEPT ![t].run_state = "kRunnable"]
                           EXCEPT ![prev].run_state = "kQueued"]
             /\ rq' = Pushed(Tail(rq), prev, Boosted(prev))
  BY DEF Assign
<1>4. d \in available /\ d \in Cpus /\ d \notin assigned
  BY <1>1, <1>2, FrontFacts DEF AgentInv
<1>5. /\ t \in Tasks /\ InQueue(t, rq) /\ Rehomed(rq, Tail(rq), t, FALSE)
  BY <1>1, <1>2, IsPopped DEF RunqueueOK, TypeOK
<1>6. prev # NoTask => prev \in Tasks /\ In(prev, "kOnCpu") /\ task[prev].known /\ prev # t
  BY <1>1, <1>2, <1>4 DEF RunqueueOK, In
<1>7. task[t].known
  BY <1>1, <1>2, <1>5 DEF MsgInv, NewFifoTask, In
<1>8. Scheduling /\ Scheduling'
  BY <1>2 DEF Scheduling
<1>9. /\ task' \in [Tasks -> FifoTasks]
      /\ task'[t].run_state = "kRunnable"
      /\ prev # NoTask => task'[prev].run_state = "kQueued"
      /\ \A u \in Tasks : u # t /\ u # prev => task'[u] = task[u]
      /\ \A u \in Tasks : /\ task'[u].known = task[u].known /\ task'[u].seqnum = task[u].seqnum
                          /\ task'[u].cpu = task[u].cpu
  <2> DEFINE r == [task[t] EXCEPT !.run_state = "kRunnable"]
             p == [task[prev] EXCEPT !.run_state = "kQueued"]
  <2>1. task[t] \in FifoTasks /\ (prev # NoTask => task[prev] \in FifoTasks)
    BY <1>1, <1>5, <1>6
  <2>2. /\ r \in FifoTasks /\ r.run_state = "kRunnable" /\ r.known = task[t].known
        /\ r.seqnum = task[t].seqnum /\ r.cpu = task[t].cpu
    BY <2>1 DEF FifoTasks, RunStates
  <2>3. prev # NoTask => /\ p \in FifoTasks /\ p.run_state = "kQueued" /\ p.known = task[prev].known
                         /\ p.seqnum = task[prev].seqnum /\ p.cpu = task[prev].cpu
    BY <2>1 DEF FifoTasks, RunStates
  <2>4. task' = IF prev = NoTask THEN [task EXCEPT ![t] = r]
                                 ELSE [task EXCEPT ![t] = r, ![prev] = p]
    <3>1. CASE prev = NoTask
      BY <3>1, <1>1, <1>3, <1>5
    <3>2. CASE prev # NoTask
      BY <3>2, <1>1, <1>3, <1>5, <1>6
    <3> QED BY <3>1, <3>2
  <2> HIDE DEF r, p
  <2> QED BY <2>2, <2>3, <2>4, <1>1, <1>5, <1>6
<1>10. \A e \in Cpus : current'[e] = IF e = d THEN t ELSE current[e]
  BY <1>1, <1>2
<1>11. \A e \in Cpus : e # d /\ current[e] # NoTask =>
         /\ current[e] \in Tasks /\ current[e] # t /\ current[e] # prev
         /\ task'[current[e]] = task[current[e]]
  <2> SUFFICES ASSUME NEW e \in Cpus, e # d, current[e] # NoTask
               PROVE  current[e] \in Tasks /\ current[e] # t /\ current[e] # prev
    BY <1>9
  <2>1. current[e] \in Tasks
    BY <1>1
  <2>2. current[e] # prev
    BY <1>1, <1>4 DEF RunqueueOK
  <2>3. In(current[e], "kOnCpu") \/ In(current[e], "kRunnable")
    BY <1>1 DEF RunqueueOK
  <2>4. current[e] # t
    BY <2>3, <1>2 DEF In
  <2> QED BY <2>1, <2>2, <2>4
<1>12. /\ rq' \in Seq(Tasks) /\ NoRepeats(rq')
       /\ \A u \in Tasks : InQueue(u, rq') <=> u # t /\ (u = prev \/ InQueue(u, rq))
  <2>1. CASE prev = NoTask
    BY <2>1, <1>1, <1>3, <1>5 DEF Rehomed
  <2>2. CASE prev # NoTask
    <3>1. /\ Tail(rq) \in Seq(Tasks) /\ NoRepeats(Tail(rq))
          /\ \A u \in Tasks : InQueue(u, Tail(rq)) <=> u # t /\ InQueue(u, rq)
      BY <1>5 DEF Rehomed
    <3>2. ~InQueue(prev, rq)
      BY <2>2, <1>6, PlaceFacts DEF In
    <3>3. Boosted(prev) \in BOOLEAN
      BY <2>2, <1>6, PlaceFacts DEF Boosted
    <3>4. /\ prev \in Tasks /\ ~InQueue(prev, Tail(rq))
          /\ rq' = Pushed(Tail(rq), prev, Boosted(prev))
      BY <2>2, <3>1, <3>2, <1>3, <1>6
    <3>5. Rehomed(Tail(rq), rq', prev, TRUE)
      BY <3>1, <3>3, <3>4, IsPushed
    <3> QED BY <2>2, <3>1, <3>5, <1>6 DEF Rehomed
  <2> QED BY <2>1, <2>2
<1>13. KernelTypeOK'
  BY <1>1, <1>2 DEF KernelTypeOK
<1>14. TypeOK'
  BY <1>1, <1>2, <1>4, <1>5, <1>9, <1>12, <1>13 DEF TypeOK
<1>15. ASSUME NEW u \in Tasks
       PROVE  /\ InQueue(u, rq') <=> In(u, "kQueued")'
              /\ InQueue(u, yielding') <=> In(u, "kYielding")'
              /\ In(u, "kOnCpu")' => CurrentOk(u)'
  <2>1. /\ InQueue(u, rq) <=> In(u, "kQueued")
        /\ InQueue(u, yielding) <=> In(u, "kYielding")
        /\ In(u, "kOnCpu") => CurrentOk(u)
    BY PlaceFacts
  <2>2. CASE u = t
    BY <2>1, <2>2, <1>2, <1>9, <1>12 DEF In
  <2>3. CASE u # t /\ u = prev
    <3>1. prev # NoTask
      BY <2>3, <1>1
    <3> QED BY <2>1, <2>3, <3>1, <1>2, <1>6, <1>9, <1>12 DEF In
  <2>4. CASE u # t /\ u # prev
    <3>1. task'[u] = task[u]
      BY <2>4, <1>9
    <3>2. In(u, "kOnCpu") => task[u].cpu # d
      BY <2>1, <2>4 DEF CurrentOk
    <3> QED BY <2>1, <2>4, <3>1, <3>2, <1>2, <1>10, <1>12 DEF In, CurrentOk
  <2> QED BY <2>2, <2>3, <2>4
<1>16. \A e \in Cpus : (current[e] # NoTask =>
         /\ task[current[e]].known
         /\ \/ In(current[e], "kOnCpu") /\ task[current[e]].cpu = e
            \/ In(current[e], "kRunnable") /\ e \in assigned)'
  <2> SUFFICES ASSUME NEW e \in Cpus, current'[e] # NoTask
               PROVE  /\ task'[current'[e]].known
                      /\ \/ task'[current'[e]].run_state = "kOnCpu" /\ task'[current'[e]].cpu = e
                         \/ task'[current'[e]].run_state = "kRunnable" /\ e \in assigned'
    BY DEF In
  <2>1. CASE e = d
    BY <2>1, <1>2, <1>5, <1>7, <1>9, <1>10
  <2>2. CASE e # d
    BY <2>2, <1>1, <1>2, <1>10, <1>11 DEF RunqueueOK, In
  <2> QED BY <2>1, <2>2
<1>17. \A e, f \in Cpus : current'[e] = current'[f] /\ current'[e] # NoTask => e = f
  BY <1>1, <1>10, <1>11 DEF RunqueueOK
<1>18. RunqueueOK'
  BY <1>1, <1>2, <1>12, <1>14, <1>15, <1>16, <1>17 DEF RunqueueOK
<1>19. \A u \in Tasks : /\ In(u, "kBlocked")' <=> In(u, "kBlocked")
                        /\ In(u, "kOnCpu")' => In(u, "kOnCpu")
  <2> SUFFICES ASSUME NEW u \in Tasks
               PROVE  /\ In(u, "kBlocked")' <=> In(u, "kBlocked")
                      /\ In(u, "kOnCpu")' => In(u, "kOnCpu")
    OBVIOUS
  <2>1. CASE u = t
    BY <2>1, <1>2, <1>9 DEF In
  <2>2. CASE u = prev
    <3>1. prev # NoTask
      BY <2>2, <1>1
    <3> QED BY <2>2, <3>1, <1>6, <1>9 DEF In
  <2>3. CASE u # t /\ u # prev
    BY <2>3, <1>9 DEF In
  <2> QED BY <2>1, <2>2, <2>3
<1>20. SameView
  <2>1. ASSUME NEW u \in Tasks, ~task[u].known PROVE task'[u] = task[u]
    BY <2>1, <1>1, <1>6, <1>7, <1>9
  <2> QED BY <2>1, <1>9, <1>19 DEF SameView, In
<1>21. MsgInv'
  BY <1>1, <1>2, <1>20, SameViewKeepsMsgInv
<1>22. CpuInv'
  BY <1>1, <1>2, <1>9, <1>19 DEF CpuInv, OnCpuOrLatched, IsLatched
<1>23. AgentInv'
  <2>1. available' \cap assigned' = {}
    BY <1>1, <1>2 DEF AgentInv
  <2>2. \A e \in assigned' : (current[e] # NoTask /\ In(current[e], "kRunnable"))'
    <3> SUFFICES ASSUME NEW e \in assigned'
                 PROVE  current'[e] # NoTask /\ task'[current'[e]].run_state = "kRunnable"
      BY DEF In
    <3>1. CASE e = d
      BY <3>1, <1>1, <1>4, <1>5, <1>9, <1>10
    <3>2. CASE e # d
      <4>1. e \in assigned /\ e \in Cpus
        BY <3>2, <1>1, <1>2
      <4>2. current[e] # NoTask /\ In(current[e], "kRunnable")
        BY <4>1, <1>1 DEF AgentInv
      <4> QED BY <3>2, <4>1, <4>2, <1>10, <1>11 DEF In
    <3> QED BY <3>1, <3>2
  <2>3. ASSUME NEW u \in Tasks, In(u, "kRunnable")' PROVE \E e \in assigned' : current'[e] = u
    <3>1. CASE u = t
      BY <3>1, <1>2, <1>4, <1>10
    <3>2. CASE u # t
      <4>1. In(u, "kRunnable") /\ u # prev
        BY <3>2, <2>3, <1>1, <1>9 DEF In
      <4>2. PICK e \in assigned : current[e] = u
        BY <4>1, <1>1 DEF AgentInv
      <4> QED BY <4>2, <1>1, <1>2, <1>4, <1>10
    <3> QED BY <3>1, <3>2
  <2> QED BY <2>1, <2>2, <2>3, <1>1, <1>2, <1>8 DEF AgentInv
<1>24. ChecksHold'
  BY <1>2 DEF FifoInv, ChecksHold
<1> QED BY <1>18, <1>21, <1>22, <1>23, <1>24 DEF FifoInv

\* What the transaction of the first assigned CPU is about.
LEMMA CommitFacts ==
  ASSUME FifoInv, NEW c \in Cpus, pc[c] = "commit", assigned # {},
         NEW d, d = Front(assigned), NEW t, t = current[d]
  PROVE  /\ d \in assigned /\ d \in Cpus /\ t \in Tasks /\ t # NoTask
         /\ In(t, "kRunnable") /\ task[t].known /\ Scheduling
         /\ \A e \in Cpus : e # d => current[e] # t
<1>1. /\ RunqueueOK /\ AgentInv /\ assigned \in SUBSET Cpus
      /\ current \in [Cpus -> Tasks \cup {NoTask}]
  BY TypesFacts
<1>2. d \in assigned /\ d \in Cpus
  BY <1>1, FrontFacts
<1>3. t # NoTask /\ In(t, "kRunnable")
  BY <1>1, <1>2 DEF AgentInv
<1>4. t \in Tasks
  BY <1>1, <1>2, <1>3
<1>5. task[t].known /\ \A e \in Cpus : e # d => current[e] # t
  BY <1>1, <1>2, <1>3 DEF RunqueueOK
<1>6. Scheduling
  BY DEF Scheduling
<1> QED BY <1>2, <1>3, <1>4, <1>5, <1>6

\* However the transaction ends, the task is no longer about to be committed.
LEMMA CommittedKeepsAgentInv ==
  ASSUME FifoInv, Scheduling, UNCHANGED <<pc, globalCpu, available>>,
         NEW d \in assigned, assigned' = assigned \ {d},
         NEW t \in Tasks, t = current[d], task'[t].run_state # "kRunnable",
         \A u \in Tasks \ {t} : task'[u] = task[u],
         \A e \in Cpus : e # d => current'[e] = current[e]
  PROVE  AgentInv'
<1>1. /\ RunqueueOK /\ AgentInv /\ assigned \in SUBSET Cpus /\ NoTask \notin Tasks
      /\ current \in [Cpus -> Tasks \cup {NoTask}]
  BY TypesFacts
<1>2. Scheduling'
  BY DEF Scheduling
<1>3. \A e \in assigned' : (current[e] # NoTask /\ In(current[e], "kRunnable"))'
  <2> SUFFICES ASSUME NEW e \in assigned'
               PROVE  current'[e] # NoTask /\ task'[current'[e]].run_state = "kRunnable"
    BY DEF In
  <2>1. e \in assigned /\ e \in Cpus /\ e # d /\ d \in Cpus /\ current'[e] = current[e]
    BY <1>1
  <2>2. current[e] # NoTask /\ In(current[e], "kRunnable")
    BY <2>1, <1>1 DEF AgentInv
  <2>3. current[e] \in Tasks /\ current[e] # t
    BY <2>1, <2>2, <1>1 DEF RunqueueOK
  <2> QED BY <2>1, <2>2, <2>3 DEF In
<1>4. ASSUME NEW u \in Tasks, In(u, "kRunnable")' PROVE \E e \in assigned' : current'[e] = u
  <2>1. u # t /\ In(u, "kRunnable")
    BY <1>4 DEF In
  <2>2. PICK e \in assigned : current[e] = u
    BY <2>1, <1>1 DEF AgentInv
  <2> QED BY <2>1, <2>2, <1>1
<1>5. available' \cap assigned' = {}
  BY <1>1 DEF AgentInv
<1> QED BY <1>1, <1>2, <1>3, <1>4, <1>5 DEF AgentInv

\* The transaction failed: the task is at the front of the run queue again.
LEMMA FailedCommitKeepsInv ==
  ASSUME FifoInv, NEW c \in Cpus, pc[c] = "commit", assigned # {},
         NEW d, d = Front(assigned), NEW t, t = current[d],
         FailedCommit(d, t), assigned' = assigned \ {d},
         UNCHANGED <<kernelVars, loopVars, yielding, available>>
  PROVE  FifoInv'
<1> USE DEF kernelVars, taskVars, latchVars, agentVars, cfsVars, loopVars
<1>1. /\ TypeOK /\ KernelTypeOK /\ RunqueueOK /\ MsgInv /\ CpuInv /\ AgentInv
      /\ task \in [Tasks -> FifoTasks] /\ current \in [Cpus -> Tasks \cup {NoTask}]
      /\ assigned \in SUBSET Cpus /\ NoTask \notin Tasks
  BY TypesFacts
<1>2. /\ d \in assigned /\ d \in Cpus /\ t \in Tasks /\ In(t, "kRunnable")
      /\ task[t].known /\ Scheduling /\ \A e \in Cpus : e # d => current[e] # t
  BY CommitFacts
<1>3. /\ task' = [task EXCEPT ![t].run_state = "kQueued", ![t].prio_boost = TRUE]
      /\ rq' = Pushed(rq, t, TRUE) /\ current' = [current EXCEPT ![d] = NoTask]
  BY DEF FailedCommit
<1>4. /\ task' \in [Tasks -> FifoTasks] /\ \A u \in Tasks \ {t} : task'[u] = task[u]
      /\ task'[t].run_state = "kQueued" /\ task'[t].known = task[t].known
      /\ task'[t].seqnum = task[t].seqnum
  <2> DEFINE r == [task[t] EXCEPT !.run_state = "kQueued", !.prio_boost = TRUE]
  <2>1. task' = [task EXCEPT ![t] = r] /\ task[t] \in FifoTasks
    BY <1>1, <1>2, <1>3
  <2>2. /\ r \in FifoTasks /\ r.run_state = "kQueued" /\ r.known = task[t].known
        /\ r.seqnum = task[t].seqnum
    BY <2>1 DEF FifoTasks, RunStates
  <2> HIDE DEF r
  <2> QED BY <2>1, <2>2, <1>1, <1>2
<1>5. \A e \in Cpus : current'[e] = IF e = d THEN NoTask ELSE current[e]
  BY <1>1, <1>3
<1>6. Rehomed(rq, rq', t, TRUE)
  <2>1. ~InQueue(t, rq) /\ rq \in Seq(Tasks) /\ NoRepeats(rq)
    BY <1>2, PlaceFacts DEF In
  <2> QED BY <2>1, <1>2, <1>3, IsPushed
<1>7. KernelTypeOK'
  BY <1>1 DEF KernelTypeOK
<1>8. TypeOK'
  BY <1>1, <1>3, <1>4, <1>6, <1>7 DEF TypeOK, Rehomed
<1>9. ASSUME NEW u \in Tasks
      PROVE  /\ InQueue(u, rq') <=> In(u, "kQueued")'
             /\ InQueue(u, yielding') <=> In(u, "kYielding")'
             /\ In(u, "kOnCpu")' => CurrentOk(u)'
  <2>1. /\ InQueue(u, rq) <=> In(u, "kQueued")
        /\ InQueue(u, yielding) <=> In(u, "kYielding")
        /\ In(u, "kOnCpu") => CurrentOk(u)
    BY PlaceFacts
  <2>2. CASE u = t
    BY <2>1, <2>2, <1>2, <1>4, <1>6 DEF In, Rehomed
  <2>3. CASE u # t
    <3>1. task'[u] = task[u] /\ (InQueue(u, rq') <=> InQueue(u, rq))
      BY <2>3, <1>4, <1>6 DEF Rehomed
    <3>2. In(u, "kOnCpu") => task[u].cpu # d
      BY <2>1, <2>3 DEF CurrentOk
    <3> QED BY <2>1, <3>1, <3>2, <1>5 DEF In, CurrentOk
  <2> QED BY <2>2, <2>3
<1>10. \A e \in Cpus : (current[e] # NoTask =>
         /\ task[current[e]].known
         /\ \/ In(current[e], "kOnCpu") /\ task[current[e]].cpu = e
            \/ In(current[e], "kRunnable") /\ e \in assigned)'
  <2> SUFFICES ASSUME NEW e \in Cpus, current'[e] # NoTask
               PROVE  /\ task'[current'[e]].known
                      /\ \/ task'[current'[e]].run_state = "kOnCpu" /\ task'[current'[e]].cpu = e
                         \/ task'[current'[e]].run_state = "kRunnable" /\ e \in assigned'
    BY DEF In
  <2>1. e # d /\ current'[e] = current[e] /\ current[e] \in Tasks /\ current[e] # t
    BY <1>1, <1>2, <1>5
  <2>2. task'[current[e]] = task[current[e]]
    BY <2>1, <1>4
  <2> QED BY <2>1, <2>2, <1>1 DEF RunqueueOK, In
<1>11. \A e, f \in Cpus : current'[e] = current'[f] /\ current'[e] # NoTask => e = f
  BY <1>1, <1>5 DEF RunqueueOK
<1>12. RunqueueOK'
  BY <1>1, <1>6, <1>8, <1>9, <1>10, <1>11 DEF RunqueueOK, Rehomed
<1>13. SameView
  BY <1>2, <1>4 DEF SameView, In
<1>14. MsgInv'
  BY <1>1, <1>13, SameViewKeepsMsgInv
<1>15. \A u \in Tasks : /\ In(u, "kBlocked")' <=> In(u, "kBlocked")
                        /\ In(u, "kOnCpu")' => In(u, "kOnCpu") /\ task'[u] = task[u]
                        /\ task'[u].known = task[u].known /\ task'[u].seqnum = task[u].seqnum
  BY <1>2, <1>4 DEF In
<1>16. CpuInv'
  BY <1>1, <1>15 DEF CpuInv, OnCpuOrLatched, IsLatched
<1>17. AgentInv'
  BY <1>2, <1>4, <1>5, CommittedKeepsAgentInv
<1>18. ChecksHold'
  BY DEF FifoInv, ChecksHold
<1> QED BY <1>12, <1>14, <1>16, <1>17, <1>18 DEF FifoInv

\* The task whose transaction is committed is runnable, off the CPUs and has no
\* unread message.
LEMMA CompleteFacts ==
  ASSUME NEW d, NEW t, NEW n, TxnState(d, t, n) = "COMPLETE"
  PROVE  kst[t] = "runnable" /\ seq[t] = n /\ oncpu[t] = NoCpu /\ ~IsLatched(t)
  BY DEF TxnState, InGhost

LEMMA NotRunnableFacts ==
  ASSUME NEW d, NEW t, NEW n, TxnState(d, t, n) = "TARGET_NOT_RUNNABLE"
  PROVE  kst[t] = "blocked" /\ seq[t] = n
  BY DEF TxnState, InGhost

\* The commit latches kept and preempts the tasks of T.
Preempting(d, t, T, kept) ==
  /\ Sent(T, "TASK_PREEMPT", FALSE) /\ budget' \in 0 .. MaxDisturb
  /\ latched' = [latched EXCEPT ![d] = kept] /\ resched' = [resched EXCEPT ![d] = TRUE]
  /\ \/ ast[d] = "running" /\ T = {t} /\ kept = NoTask
     \/ /\ ast[d] # "running" /\ kept = t
        /\ t \notin T /\ \A u \in T : u = latched[d]
        /\ latched[d] # NoTask => latched[d] \in T

\* Who is preempted by the commit: the task that was latched, or the task
\* itself if the CPU's agent is still running.
LEMMA LatchFacts ==
  ASSUME KernelTypeOK, MsgInv, CpuInv, NEW d \in Cpus, NEW t \in Tasks, Latch(d, t),
         kst[t] = "runnable", oncpu[t] = NoCpu, ~IsLatched(t), ChanInOrder
  PROVE  \E T \in SUBSET Tasks, kept \in Tasks \cup {NoTask} : Preempting(d, t, T, kept)
<1>1. NoTask \notin Tasks /\ latched[d] \in Tasks \cup {NoTask} /\ latched[d] # t
  BY GlobalKernelAssumption DEF KernelTypeOK, IsLatched
<1>2. \A m \in Unread : m.seq <= seq[m.task]
  BY DEF MsgInv, MessageOK
<1> DEFINE kept == IF ast[d] = "running" THEN NoTask ELSE t
           lost == {latched[d], t} \ {kept, NoTask}
           ts == IF lost = {} THEN <<>> ELSE <<CHOOSE u \in lost : TRUE>>
<1>3. /\ kept # t => budget > 0
      /\ budget' = IF kept = t THEN budget ELSE budget - 1
      /\ latched' = [latched EXCEPT ![d] = kept]
      /\ resched' = [resched EXCEPT ![d] = TRUE]
      /\ ProduceAll(ts, "TASK_PREEMPT", FALSE)
  BY DEF Latch
<1>4. budget' \in 0 .. MaxDisturb
  BY <1>3, GlobalKernelAssumption DEF KernelTypeOK
<1>5. /\ lost \in SUBSET Tasks
      /\ \A u \in lost : lost = {u}
      /\ \/ ast[d] = "running" /\ lost = {t} /\ kept = NoTask
         \/ /\ ast[d] # "running" /\ kept = t
            /\ t \notin lost /\ \A u \in lost : u = latched[d]
            /\ latched[d] # NoTask => latched[d] \in lost
  <2>1. CASE ast[d] = "running"
    <3>1. latched[d] = NoTask
      BY <2>1 DEF CpuInv
    <3> QED BY <2>1, <3>1, <1>1
  <2>2. CASE ast[d] # "running"
    BY <2>2, <1>1
  <2> QED BY <2>1, <2>2
<1>6. ts \in Seq(Tasks) /\ NoRepeats(ts) /\ {u \in Tasks : InQueue(u, ts)} = lost
  <2> HIDE DEF lost
  <2>1. CASE lost = {}
    <3>1. ts = <<>>
      BY <2>1
    <3> HIDE DEF ts
    <3> QED BY <2>1, <3>1 DEF NoRepeats, InQueue
  <2>2. CASE lost # {}
    <3>1. PICK u \in lost : lost = {u}
      BY <2>2, <1>5
    <3>2. ts = <<u>> /\ u \in Tasks
      BY <2>2, <3>1, <1>5
    <3> HIDE DEF ts
    <3> QED BY <3>1, <3>2 DEF NoRepeats, InQueue
  <2> QED BY <2>1, <2>2
<1>7. Sent(lost, "TASK_PREEMPT", FALSE)
  <2> HIDE DEF ts, lost
  <2>1. "TASK_PREEMPT" \in MsgTypes
    BY DEF MsgTypes
  <2>2. Sent({u \in Tasks : InQueue(u, ts)}, "TASK_PREEMPT", FALSE)
    BY <2>1, <1>2, <1>3, <1>6, ProduceFacts
  <2> QED BY <2>2, <1>6
<1>8. kept \in Tasks \cup {NoTask}
  OBVIOUS
<1> HIDE DEF kept, lost, ts
<1>9. Preempting(d, t, lost, kept)
  BY <1>3, <1>4, <1>5, <1>7 DEF Preempting
<1> QED BY <1>5, <1>8, <1>9

\* The transaction is committed: the CPU will switch to the task, unless a
\* message says that it did not.
LEMMA CompleteCommitKeepsInv ==
  ASSUME FifoInv, NEW c \in Cpus, pc[c] = "commit", assigned # {},
         NEW d, d = Front(assigned), NEW t, t = current[d],
         TxnState(d, t, task[t].seqnum) = "COMPLETE", Latch(d, t),
         task' = [task EXCEPT ![t].run_state = "kOnCpu", ![t].cpu = d,
                              ![t].preempted = FALSE, ![t].prio_boost = FALSE],
         assigned' = assigned \ {d},
         UNCHANGED <<kst, oncpu, agentVars, cfs, loopVars, current, rq, yielding, available>>
  PROVE  FifoInv'
<1> USE DEF agentVars, loopVars
<1>1. /\ TypeOK /\ KernelTypeOK /\ RunqueueOK /\ MsgInv /\ CpuInv /\ AgentInv
      /\ task \in [Tasks -> FifoTasks] /\ current \in [Cpus -> Tasks \cup {NoTask}]
      /\ assigned \in SUBSET Cpus /\ NoTask \notin Tasks /\ ChanInOrder
  BY TypesFacts DEF MsgInv
<1>2. /\ d \in assigned /\ d \in Cpus /\ t \in Tasks /\ In(t, "kRunnable")
      /\ task[t].known /\ Scheduling /\ \A e \in Cpus : e # d => current[e] # t
  BY CommitFacts
<1>3. kst[t] = "runnable" /\ seq[t] = task[t].seqnum /\ oncpu[t] = NoCpu /\ ~IsLatched(t)
  BY CompleteFacts
<1>4. PICK T \in SUBSET Tasks, kept \in Tasks \cup {NoTask} : Preempting(d, t, T, kept)
  BY <1>1, <1>2, <1>3, LatchFacts
<1>5. /\ Sent(T, "TASK_PREEMPT", FALSE) /\ budget' \in 0 .. MaxDisturb
      /\ latched' = [latched EXCEPT ![d] = kept] /\ resched' = [resched EXCEPT ![d] = TRUE]
      /\ \/ ast[d] = "running" /\ T = {t} /\ kept = NoTask
         \/ ast[d] # "running" /\ kept = t /\ t \notin T /\ \A u \in T : u = latched[d]
      /\ latched[d] # NoTask /\ kept = t => latched[d] \in T
  BY <1>1, <1>2, <1>4 DEF Preempting
<1>6. /\ task' \in [Tasks -> FifoTasks] /\ \A u \in Tasks \ {t} : task'[u] = task[u]
      /\ task'[t].run_state = "kOnCpu" /\ task'[t].cpu = d /\ task'[t].known = task[t].known
      /\ task'[t].seqnum = task[t].seqnum
  <2> DEFINE r == [task[t] EXCEPT !.run_state = "kOnCpu", !.cpu = d,
                                  !.preempted = FALSE, !.prio_boost = FALSE]
  <2>1. task' = [task EXCEPT ![t] = r] /\ task[t] \in FifoTasks
    BY <1>1, <1>2
  <2>2. /\ r \in FifoTasks /\ r.run_state = "kOnCpu" /\ r.cpu = d /\ r.known = task[t].known
        /\ r.seqnum = task[t].seqnum
    BY <2>1, <1>2 DEF FifoTasks, RunStates
  <2> HIDE DEF r
  <2>3. task'[t] = r /\ \A u \in Tasks \ {t} : task'[u] = task[u]
    BY <2>1, <1>1, <1>2
  <2>4. task' \in [Tasks -> FifoTasks]
    BY <2>1, <2>2, <1>1, <1>2
  <2> QED BY <2>2, <2>3, <2>4
<1>7. \A u \in Tasks : /\ In(u, "kBlocked")' <=> In(u, "kBlocked")
                       /\ task'[u].known = task[u].known /\ task'[u].seqnum = task[u].seqnum
  BY <1>2, <1>6 DEF In
<1>8. \A e \in Cpus : /\ latched'[e] = IF e = d THEN kept ELSE latched[e]
                      /\ resched'[e] = IF e = d THEN TRUE ELSE resched[e]
  BY <1>1, <1>5 DEF KernelTypeOK
<1>9. /\ chan' \in Seq(Messages) /\ seq' \in [Tasks -> Nat]
      /\ \A u \in Tasks : seq'[u] = IF u \in T THEN seq[u] + 1 ELSE seq[u]
  BY <1>5 DEF Sent
<1>10. KernelTypeOK'
  BY <1>1, <1>5, <1>9 DEF KernelTypeOK
<1>11. TypeOK'
  BY <1>1, <1>6, <1>10 DEF TypeOK
<1>12. RunqueueOK'
  <2>1. ASSUME NEW u \in Tasks
        PROVE  /\ InQueue(u, rq') <=> In(u, "kQueued")'
               /\ InQueue(u, yielding') <=> In(u, "kYielding")'
               /\ In(u, "kOnCpu")' => CurrentOk(u)'
    <3>1. /\ InQueue(u, rq) <=> In(u, "kQueued")
          /\ InQueue(u, yielding) <=> In(u, "kYielding")
          /\ In(u, "kOnCpu") => CurrentOk(u)
      BY PlaceFacts
    <3>2. CASE u = t
      BY <3>1, <3>2, <1>2, <1>6 DEF In, CurrentOk
    <3>3. CASE u # t
      BY <3>1, <3>3, <1>6 DEF In, CurrentOk
    <3> QED BY <3>2, <3>3
  <2>2. \A e \in Cpus : (current[e] # NoTask =>
           /\ task[current[e]].known
           /\ \/ In(current[e], "kOnCpu") /\ task[current[e]].cpu = e
              \/ In(current[e], "kRunnable") /\ e \in assigned)'
    <3> SUFFICES ASSUME NEW e \in Cpus, current'[e] # NoTask
                 PROVE  /\ task'[current'[e]].known
                        /\ \/ task'[current'[e]].run_state = "kOnCpu" /\ task'[current'[e]].cpu = e
                           \/ task'[current'[e]].run_state = "kRunnable" /\ e \in assigned'
      BY DEF In
    <3>1. CASE e = d
      BY <3>1, <1>2, <1>6
    <3>2. CASE e # d
      <4>1. current[e] \in Tasks /\ current[e] # t /\ task'[current[e]] = task[current[e]]
        BY <3>2, <1>1, <1>2, <1>6
      <4> QED BY <3>2, <4>1, <1>1 DEF RunqueueOK, In
    <3> QED BY <3>1, <3>2
  <2> QED BY <2>1, <2>2, <1>1, <1>11 DEF RunqueueOK
<1>13. \A u \in T : OnCpuOrLatched(u) \/ u = t
  BY <1>2, <1>5 DEF OnCpuOrLatched, IsLatched
<1>14. MsgInv'
  <2>1. SameView
    BY <1>2, <1>6, <1>7 DEF SameView, In
  <2>2. \A u \in T : /\ kst[u] = "runnable" /\ task[u].known /\ task[u].seqnum = seq[u]
                     /\ ~In(u, "kBlocked")
    BY <1>1, <1>2, <1>3, <1>13 DEF CpuInv, In
  <2>3. \A u \in T : CanSend(u, "TASK_PREEMPT") /\ Ends(kst'[u], NewMsg(u, "TASK_PREEMPT", FALSE))
    BY <2>2 DEF CanSend, Ends, NewMsg, Blocks, Final
  <2> QED BY <2>1, <2>3, <1>1, <1>5, SendKeepsMsgInv DEF MsgTypes
<1>15. ASSUME NEW u \in Tasks, IsLatched(u)'
       PROVE  u \notin T /\ (u = t \/ IsLatched(u))
  <2>1. PICK e \in Cpus : latched'[e] = u
    BY <1>15 DEF IsLatched
  <2>2. CASE e = d
    BY <2>1, <2>2, <1>1, <1>5, <1>8
  <2>3. CASE e # d
    <3>1. latched[e] = u /\ IsLatched(u)
      BY <2>1, <2>3, <1>8 DEF IsLatched
    <3>2. u # t /\ u # latched[d]
      BY <2>3, <3>1, <1>1, <1>2, <1>3 DEF CpuInv
    <3> QED BY <3>1, <3>2, <1>5
  <2> QED BY <2>2, <2>3
<1>16. ASSUME NEW u \in Tasks, oncpu[u] # NoCpu PROVE u \notin T /\ u # t
  <2>1. u # t /\ ~IsLatched(u)
    BY <1>1, <1>3, <1>16 DEF CpuInv
  <2> QED BY <2>1, <1>2, <1>5 DEF IsLatched
<1>17. CpuInv'
  <2>1. ASSUME NEW u \in Tasks, OnCpuOrLatched(u)'
        PROVE  /\ kst'[u] = "runnable" /\ task'[u].known /\ ~In(u, "kBlocked")'
               /\ task'[u].seqnum = seq'[u]
    <3>1. u \notin T /\ (u = t \/ OnCpuOrLatched(u))
      BY <2>1, <1>15, <1>16 DEF OnCpuOrLatched
    <3>2. /\ kst[u] = "runnable" /\ task[u].known /\ ~In(u, "kBlocked")
          /\ task[u].seqnum = seq[u]
      BY <3>1, <1>1, <1>2, <1>3 DEF CpuInv, In
    <3> QED BY <3>1, <3>2, <1>7, <1>9
  <2>2. \A u \in Tasks : IsLatched(u)' => oncpu'[u] = NoCpu
    BY <1>1, <1>3, <1>15 DEF CpuInv
  <2>3. \A e, f \in Cpus : latched'[e] = latched'[f] /\ latched'[e] # NoTask => e = f
    <3>1. \A e, f \in Cpus : latched[e] = latched[f] /\ latched[e] # NoTask => e = f
      BY <1>1 DEF CpuInv
    <3>2. \A e \in Cpus : latched[e] # t
      BY <1>3 DEF IsLatched
    <3>3. kept = t \/ kept = NoTask
      BY <1>5
    <3> QED BY <3>1, <3>2, <3>3, <1>8
  <2>4. \A u, v \in Tasks : oncpu'[u] = oncpu'[v] /\ oncpu'[u] # NoCpu => u = v
    BY <1>1 DEF CpuInv
  <2>5. \A e \in Cpus : ast'[e] = "running" =>
          latched'[e] = NoTask /\ \A u \in Tasks : oncpu'[u] # e
    BY <1>1, <1>5, <1>8 DEF CpuInv
  <2>6. ASSUME NEW u \in Tasks, In(u, "kOnCpu")', task'[u].seqnum = seq'[u]
        PROVE  \/ oncpu'[u] = task'[u].cpu /\ ~resched'[task'[u].cpu]
               \/ latched'[task'[u].cpu] = u
    <3>1. task[u].seqnum <= seq[u] /\ task[u].seqnum \in Nat /\ seq[u] \in Nat
      BY <1>1, SeqnumFacts, TaskType
    <3>2. u \notin T /\ task[u].seqnum = seq[u]
      <4>1. task[u].seqnum = seq'[u]
        BY <2>6, <1>7
      <4>2. seq'[u] = IF u \in T THEN seq[u] + 1 ELSE seq[u]
        BY <1>9
      <4> QED BY <4>1, <4>2, <3>1
    <3>3. CASE u = t
      <4>1. kept = t
        BY <3>2, <3>3, <1>5
      <4>2. latched'[d] = kept /\ task'[u].cpu = d
        BY <3>3, <1>2, <1>6, <1>8
      <4> QED BY <3>3, <4>1, <4>2
    <3>4. CASE u # t
      <4>1. task'[u] = task[u] /\ In(u, "kOnCpu")
        BY <2>6, <3>4, <1>6 DEF In
      <4>2. task[u].cpu \in Cpus /\ task[u].cpu # d
        BY <3>4, <4>1, PlaceFacts DEF CurrentOk
      <4>3. \/ oncpu[u] = task[u].cpu /\ ~resched[task[u].cpu]
            \/ latched[task[u].cpu] = u
        BY <3>2, <4>1, <1>1 DEF CpuInv
      <4> QED BY <4>1, <4>2, <4>3, <1>8
    <3> QED BY <3>3, <3>4
  <2> QED BY <2>1, <2>2, <2>3, <2>4, <2>5, <2>6 DEF CpuInv
<1>18. AgentInv'
  BY <1>2, <1>6, CommittedKeepsAgentInv
<1>19. ChecksHold'
  BY DEF FifoInv, ChecksHold
<1> QED BY <1>12, <1>14, <1>17, <1>18, <1>19 DEF FifoInv

\* A runnable task without unread messages is not found blocked.
LEMMA CommitKeepsInv ==
  ASSUME FifoInv, NEW c \in Cpus, Commit(c)
  PROVE  FifoInv'
<1> SUFFICES ASSUME NEW d, d = Front(assigned), NEW t, t = current[d],
                    NEW state, state = TxnState(d, t, task[t].seqnum)
             PROVE  FifoInv'
  OBVIOUS
<1>1. pc[c] = "commit" /\ assigned # {}
  BY DEF Commit, At
<1>2. /\ TypeOK /\ MsgInv /\ t \in Tasks /\ In(t, "kRunnable")
  BY <1>1, TypesFacts, CommitFacts
<1>3. state # "TARGET_NOT_RUNNABLE"
  <2> SUFFICES ASSUME TxnState(d, t, task[t].seqnum) = "TARGET_NOT_RUNNABLE" PROVE FALSE
    OBVIOUS
  <2>1. kst[t] = "blocked" /\ seq[t] = task[t].seqnum
    BY NotRunnableFacts
  <2>2. ViewOK(t) /\ \A m \in Unread : m.task # t
    BY <2>1, <1>2, SeqnumFacts DEF MsgInv
  <2> QED BY <2>1, <2>2, <1>2 DEF ViewOK, In
<1>4. CASE state = "COMPLETE"
  <2>1. /\ Latch(d, t)
        /\ task' = [task EXCEPT ![t].run_state = "kOnCpu", ![t].cpu = d,
                                ![t].preempted = FALSE, ![t].prio_boost = FALSE]
        /\ assigned' = assigned \ {d}
        /\ UNCHANGED <<kst, oncpu, agentVars, cfs, loopVars, current, rq, yielding, available>>
    BY <1>4 DEF Commit
  <2> QED BY <2>1, <1>1, <1>4, CompleteCommitKeepsInv
<1>5. CASE state # "COMPLETE"
  <2>1. /\ FailedCommit(d, t) /\ assigned' = assigned \ {d}
        /\ UNCHANGED <<kernelVars, loopVars, yielding, available>>
    BY <1>3, <1>5 DEF Commit
  <2> QED BY <2>1, <1>1, FailedCommitKeepsInv
<1> QED BY <1>4, <1>5

-------------------------------------------------------------------------------
(***************************************************************************)
(* The theorems.                                                           *)
(***************************************************************************)

LEMMA InitFifoInv == Init => FifoInv
<1> SUFFICES ASSUME Init PROVE FifoInv
  OBVIOUS
<1> USE DEF Init, KernelInit, LoopInit
<1>1. NoTask \notin Tasks /\ 0 \in Cpus /\ MaxDisturb \in Nat
  BY GlobalKernelAssumption DEF Cpus
<1>2. KernelTypeOK
  BY <1>1 DEF KernelTypeOK
<1>3. NewFifoTask \in FifoTasks
  BY DEF NewFifoTask, FifoTasks, RunStates
<1>4. TypeOK
  BY <1>1, <1>2, <1>3 DEF TypeOK, Labels, NoFailure, Checks
<1>5. \A t \in Tasks : task[t] = NewFifoTask /\ ~task[t].known /\ In(t, "kBlocked")
  BY DEF NewFifoTask, In
<1>6. RunqueueOK
  BY <1>4, <1>5 DEF RunqueueOK, NoRepeats, InQueue, In
<1>7. Unread = {}
  BY DEF Unread
<1>8. MsgInv
  BY <1>5, <1>7 DEF MsgInv, ChanInOrder, ViewOK
<1>9. CpuInv
  BY <1>1, <1>5 DEF CpuInv, OnCpuOrLatched, IsLatched, In
<1>10. AgentInv
  BY <1>5 DEF AgentInv, In
<1> QED BY <1>6, <1>8, <1>9, <1>10 DEF FifoInv, ChecksHold

LEMMA AgentKeepsInv ==
  ASSUME FifoInv, NEW c \in Cpus, AgentStep(c)
  PROVE  FifoInv'
<1>1. CASE (LoopTop(c) \/ LocalYield(c) \/ PingGlobal(c)) /\ UNCHANGED fifoVars
  BY <1>1, SatelliteKeepsInv
<1>2. CASE Handler(c)
  BY <1>2, TaskNewKeepsInv, TaskRunnableKeepsInv, TaskDepartedKeepsInv, TaskDeadKeepsInv,
     TaskBlockedKeepsInv, TaskPreemptedKeepsInv, TaskYieldKeepsInv DEF Handler
<1>3. CASE PickNextGlobalCPU(c) \/ FindAvailable(c) \/ Assign(c) \/ SkipThisRound(c)
  BY <1>3, PickNextGlobalCPUKeepsInv, FindAvailableKeepsInv, AssignKeepsInv,
     SkipThisRoundKeepsInv
<1>4. CASE PickDone(c) \/ Commit(c) \/ Unyield(c) \/ ScheduleDone(c)
  BY <1>4, PickDoneKeepsInv, CommitKeepsInv, UnyieldKeepsInv, ScheduleDoneKeepsInv
<1> QED BY <1>1, <1>2, <1>3, <1>4 DEF AgentStep

LEMMA StutterKeepsInv ==
  ASSUME FifoInv, UNCHANGED vars
  PROVE  FifoInv'
<1>1. UNCHANGED <<loopVars, fifoVars>> /\ UNCHANGED kernelVars /\ KernelOK
  BY TypesFacts DEF vars, KernelOK
<1> USE DEF kernelVars, taskVars, latchVars, agentVars, cfsVars, fifoVars
<1>2. KernelTypeOK'
  BY <1>1 DEF KernelOK, KernelTypeOK
<1>3. MsgInv'
  BY <1>1, TypesFacts, SameViewKeepsMsgInv DEF SameView
<1>4. CpuInv' /\ Quiet
  BY <1>1 DEF KernelOK, CpuInv, Quiet, OnCpuOrLatched, IsLatched, In, Unread
<1> QED BY <1>1, <1>2, <1>3, <1>4, QuietKeepsInv DEF KernelOK

\* The invariant holds in every reachable state.
LEMMA FifoInvHolds == Spec => []FifoInv
<1>1. FifoInv /\ [Next]_vars => FifoInv'
  <2> SUFFICES ASSUME FifoInv, [Next]_vars PROVE FifoInv'
    OBVIOUS
  <2>1. CASE KernelStep
    BY <2>1, KernelKeepsInv
  <2>2. ASSUME NEW c \in Cpus, AgentStep(c) PROVE FifoInv'
    BY <2>2, AgentKeepsInv
  <2>3. CASE UNCHANGED vars
    BY <2>3, StutterKeepsInv
  <2> QED BY <2>1, <2>2, <2>3 DEF Next
<1> QED BY <1>1, InitFifoInv, PTL DEF Spec

(***************************************************************************)
(* The run queue, yielding_tasks_ and the CPUs' current hold every task    *)
(* exactly where its run_state says, whatever the timing of messages,      *)
(* preemptions, failed commits and the hand-over of the global agent.      *)
(***************************************************************************)
THEOREM CentralRunqueueSafe == Spec => []RunqueueOK
<1>1. FifoInv => RunqueueOK
  BY DEF FifoInv
<1> QED BY <1>1, FifoInvHolds, PTL

(***************************************************************************)
(* No CHECK of the handlers, of Enqueue and Dequeue, of GlobalSchedule, of *)
(* CompleteRunRequest or of PickNextGlobalCPU ever fails.                  *)
(***************************************************************************)
THEOREM CentralChecksHold == Spec => []ChecksHold
<1>1. FifoInv => ChecksHold
  BY DEF FifoInv
<1> QED BY <1>1, FifoInvHolds, PTL

(***************************************************************************)
(* At most one agent drains the channel or runs GlobalSchedule: the        *)
(* scheduler's data, which no lock protects, has one user at a time.       *)
(***************************************************************************)
THEOREM SingleGlobalAgent == Spec => []OneGlobalAgent
<1>1. FifoInv => OneGlobalAgent
  BY DEF FifoInv, AgentInv, OneGlobalAgent
<1> QED BY <1>1, FifoInvHolds, PTL

(***************************************************************************)
(* Once the messages of a task have been read, its seqnum is the barrier   *)
(* of its status word, it is kBlocked exactly if it is blocked, and if it  *)
(* is kOnCpu then its CPU runs it or will switch to it.                    *)
(***************************************************************************)
THEOREM CentralViewAgrees == Spec => []ViewAgrees
<1>1. FifoInv => ViewAgrees
  <2> SUFFICES ASSUME FifoInv, NEW t \in Tasks, task[t].known, Drained(t)
               PROVE  /\ task[t].seqnum = seq[t]
                      /\ In(t, "kBlocked") <=> kst[t] \in {"blocked", "dying"}
                      /\ In(t, "kOnCpu") => oncpu[t] = task[t].cpu \/ latched[task[t].cpu] = t
    BY DEF ViewAgrees
  <2>1. TypeOK /\ MsgInv /\ CpuInv
    BY TypesFacts
  <2>2. \A m \in Unread : m.task # t
    BY DEF Drained, Unread
  <2>3. task[t].seqnum = seq[t]
    BY <2>1, <2>2, SeqnumFacts
  <2>4. ViewOK(t)
    BY <2>1 DEF MsgInv
  <2>5. In(t, "kBlocked") <=> kst[t] \in {"blocked", "dying"}
    BY <2>2, <2>4 DEF ViewOK
  <2>6. In(t, "kOnCpu") => oncpu[t] = task[t].cpu \/ latched[task[t].cpu] = t
    BY <2>1, <2>3 DEF CpuInv
  <2> QED BY <2>3, <2>5, <2>6
<1> QED BY <1>1, FifoInvHolds, PTL
================================================================================
