---------------------------- MODULE TaskDiscovery ----------------------------
(***************************************************************************)
(* BasicDispatchScheduler::DiscoverTasks of lib/scheduler.h: how a new     *)
(* agent process learns of the threads that an earlier one, which crashed  *)
(* or was replaced, has left in the enclave.  It scans the status words    *)
(* and associates each task with its own default queue, while the kernel   *)
(* goes on: threads are woken, leave ghOSt, enter it and come back.        *)
(*                                                                         *)
(* No thread runs, because no agent schedules.  A thread that leaves ghOSt *)
(* leaves its status word behind until an agent frees it; if it comes back *)
(* it has the same gtid and a new status word.  Messages that went to the  *)
(* earlier process are lost.  The kernel is external.                      *)
(***************************************************************************)
EXTENDS Integers, Sequences

CONSTANTS
  Gtids,      \* the client threads
  NWords,     \* the capacity of the status word table
  NoGtid,
  MaxKernel   \* bound: how many things the kernel does

ASSUME DiscoveryAssumption ==
  NWords \in Nat \ {0} /\ MaxKernel \in Nat /\ NoGtid \notin Gtids

Words == 0 .. NWords - 1
NoWord == -1

VARIABLES
  sw,       \* the status words
  live,     \* the status word of each thread that is in ghOSt
  toQueue,  \* the queue a thread is associated with: the old or the default one
  inbox,    \* the default channel
  todoK,    \* how many more things the kernel does
  known,    \* the allocator's tasks
  disc,     \* where the agent is
  estales,  \* how often the task of the current status word was ESTALE
  confused, \* history: the threads associated by an earlier incarnation's word
  past,     \* history: whether a thread came before the scan began or late, or
            \* has come twice or come late and left before the scan was complete
  dfail     \* the CHECK or GHOST_ERROR that ended the process

swVars == <<sw, live, toQueue, inbox, todoK, past>>
discVars == <<swVars, known, disc, estales, confused, dfail>>

FreeWord == [inuse |-> FALSE, gtid |-> NoGtid, barrier |-> 0, runnable |-> FALSE,
             canfree |-> FALSE, brandnew |-> FALSE]

Unknown == [alive |-> FALSE, runnable |-> FALSE, seqnum |-> 0, word |-> NoWord]

\* word is the index of the scan, the rest its copy of the status word.
NoCopy == [at |-> "old", word |-> 0, barrier |-> 0, runnable |-> FALSE,
           canfree |-> FALSE, gtid |-> NoGtid]

DiscInit ==
  /\ sw = [w \in Words |-> FreeWord]
  /\ live = [t \in Gtids |-> NoWord]
  /\ toQueue = [t \in Gtids |-> "old"]
  /\ inbox = <<>>
  /\ todoK = MaxKernel
  /\ past = [t \in Gtids |-> "never"]
  /\ known = [t \in Gtids |-> Unknown]
  /\ disc = NoCopy
  /\ estales = 0
  /\ confused = {}
  /\ dfail = "none"

-------------------------------------------------------------------------------
(* The kernel.                                                              *)

Live(t) == live[t] # NoWord

KernelDoes == dfail = "none" /\ todoK > 0 /\ todoK' = todoK - 1

\* The message reaches this process if the queue is its default one.
Send(t, q, type, barrier, runnable, w) ==
  inbox' = IF q = "default"
             THEN Append(inbox, [type |-> type, gtid |-> t, seqnum |-> barrier,
                                 runnable |-> runnable, word |-> w])
             ELSE inbox

\* A thread enters ghOSt.  If it is running just then, its TASK_NEW follows
\* when it is off its CPU.
KEnter(t, runnable, oncpu) ==
  LET q == IF disc.at = "old" THEN "old" ELSE "default" IN
  /\ KernelDoes /\ ~Live(t) /\ (oncpu => runnable)
  /\ \E w \in Words :
       /\ ~sw[w].inuse
       /\ sw' = [sw EXCEPT ![w] = [inuse |-> TRUE, gtid |-> t, canfree |-> FALSE,
                                   barrier |-> IF oncpu THEN 0 ELSE 1,
                                   runnable |-> runnable, brandnew |-> oncpu]]
       /\ live' = [live EXCEPT ![t] = w]
       /\ IF oncpu THEN UNCHANGED inbox ELSE Send(t, q, "TASK_NEW", 1, runnable, w)
  /\ toQueue' = [toQueue EXCEPT ![t] = q]
  /\ past' = [past EXCEPT ![t] = IF @ # "never" THEN "churned"
                                 ELSE IF disc.at = "old" THEN "early" ELSE "late"]
  /\ UNCHANGED <<known, disc, estales, confused, dfail>>

KOffCpu(t) ==
  /\ dfail = "none" /\ Live(t) /\ sw[live[t]].brandnew
  /\ sw' = [sw EXCEPT ![live[t]].brandnew = FALSE, ![live[t]].barrier = 1]
  /\ Send(t, toQueue[t], "TASK_NEW", 1, TRUE, live[t])
  /\ UNCHANGED <<live, toQueue, todoK, past, known, disc, estales, confused, dfail>>

KWake(t) ==
  LET b == sw[live[t]].barrier + 1 IN
  /\ KernelDoes /\ Live(t) /\ ~sw[live[t]].runnable
  /\ sw' = [sw EXCEPT ![live[t]].runnable = TRUE, ![live[t]].barrier = b]
  /\ Send(t, toQueue[t], "TASK_WAKEUP", b, TRUE, live[t])
  /\ UNCHANGED <<live, toQueue, past, known, disc, estales, confused, dfail>>

KLeave(t) ==
  LET b == sw[live[t]].barrier + 1 IN
  /\ KernelDoes /\ Live(t) /\ ~sw[live[t]].brandnew
  /\ sw' = [sw EXCEPT ![live[t]].canfree = TRUE, ![live[t]].barrier = b]
  /\ Send(t, toQueue[t], "TASK_DEPARTED", b, FALSE, live[t])
  /\ live' = [live EXCEPT ![t] = NoWord]
  /\ past' = [past EXCEPT ![t] = IF @ = "late" /\ disc.at # "drain" THEN "churned" ELSE @]
  /\ UNCHANGED <<toQueue, known, disc, estales, confused, dfail>>

KernelActs ==
  \/ \E t \in Gtids, r, c \in BOOLEAN : KEnter(t, r, c)
  \/ \E t \in Gtids : KOffCpu(t) \/ KWake(t) \/ KLeave(t)

-------------------------------------------------------------------------------
(* DiscoverTasks.                                                           *)

DiscAt(l) == dfail = "none" /\ disc.at = l

DiscGoto(l) == disc' = [disc EXCEPT !.at = l]

NextWord ==
  IF disc.word < NWords - 1 THEN [NoCopy EXCEPT !.at = "scan", !.word = disc.word + 1]
                            ELSE [NoCopy EXCEPT !.at = "drain"]

\* Enclave::Ready makes the new default queue the enclave's, then discovers.
SetEnclaveDefault ==
  /\ DiscAt("old")
  /\ DiscGoto("scan")
  /\ UNCHANGED <<swVars, known, estales, confused, dfail>>

\* ForEachTaskStatusWord skips the words that are not in use.
ScanWord ==
  /\ DiscAt("scan")
  /\ disc' = IF sw[disc.word].inuse THEN [disc EXCEPT !.at = "barrier"] ELSE NextWord
  /\ estales' = 0
  /\ UNCHANGED <<swVars, known, confused, dfail>>

\* The barrier first, then the rest.
ReadSwBarrier ==
  /\ DiscAt("barrier")
  /\ disc' = [disc EXCEPT !.at = "flags", !.barrier = sw[disc.word].barrier]
  /\ UNCHANGED <<swVars, known, estales, confused, dfail>>

ReadSwFlags ==
  LET w == sw[disc.word] IN
  /\ DiscAt("flags")
  /\ disc' = [disc EXCEPT !.at = "associate", !.runnable = w.runnable,
                          !.canfree = w.canfree, !.gtid = w.gtid]
  /\ UNCHANGED <<swVars, known, estales, confused, dfail>>

Fail(where) ==
  /\ dfail' = where
  /\ UNCHANGED <<swVars, known, disc, estales, confused>>

\* FreeStatusWordInfo: the kernel reuses the word.
FreeWordInfo(w) ==
  /\ sw' = [sw EXCEPT ![w] = FreeWord]
  /\ UNCHANGED <<live, toQueue, inbox, todoK, past>>

\* ENOENT: the thread is not in ghOSt.  A Task is made to free its word.  (One
\* name for two ends of the process: "Already had task", and the CHECK in
\* LocalStatusWord::Free that the word can be freed.)
AssociateNoent ==
  /\ DiscAt("associate") /\ ~Live(disc.gtid)
  /\ \/ /\ ~known[disc.gtid].alive /\ sw[disc.word].canfree
        /\ FreeWordInfo(disc.word)
        /\ disc' = NextWord
        /\ UNCHANGED <<known, estales, confused, dfail>>
     \/ /\ known[disc.gtid].alive \/ ~sw[disc.word].canfree
        /\ Fail("AlreadyHadTask")

\* Mutant: a word that cannot be freed is read again without end.
AssociateStaleAgain ==
  /\ DiscAt("associate") /\ Live(disc.gtid)
  /\ sw[live[disc.gtid]].barrier # disc.barrier
  /\ \/ /\ disc.canfree
        /\ disc' = NextWord
        /\ UNCHANGED <<swVars, known, estales, confused, dfail>>
     \/ /\ ~disc.canfree
        /\ DiscGoto("barrier")
        /\ UNCHANGED <<swVars, known, estales, confused, dfail>>

\* ESTALE: the barrier is not the one of the thread's live status word.  The
\* word is an earlier incarnation's, or the thread was woken meanwhile.
AssociateStale ==
  /\ DiscAt("associate") /\ Live(disc.gtid)
  /\ sw[live[disc.gtid]].barrier # disc.barrier
  /\ \/ /\ disc.canfree
        /\ FreeWordInfo(disc.word)
        /\ disc' = NextWord
        /\ UNCHANGED <<known, estales, confused, dfail>>
     \/ /\ ~disc.canfree /\ estales = 0
        /\ estales' = 1
        /\ DiscGoto("barrier")
        /\ UNCHANGED <<swVars, known, confused, dfail>>
     \/ ~disc.canfree /\ estales = 1 /\ Fail("RepeatedEstale")

\* Mutant: tasks whose messages are in the default queue are discovered too.
SkippedNever == FALSE

\* ALREADY or BRAND_NEW: the task's TASK_NEW is in the default queue or will be.
Skipped == toQueue[disc.gtid] = "default" \/ sw[live[disc.gtid]].brandnew

\* The association succeeds.  Otherwise TaskNew handles a TASK_NEW that is made
\* up from the copy.
AssociateSucceeds ==
  LET t == disc.gtid IN
  /\ DiscAt("associate") /\ Live(t) /\ sw[live[t]].barrier = disc.barrier
  /\ confused' = IF live[t] # disc.word THEN confused \cup {t} ELSE confused
  /\ toQueue' = [toQueue EXCEPT ![t] = "default"]
  /\ \/ /\ Skipped
        /\ disc' = NextWord
        /\ UNCHANGED <<known, dfail>>
     \/ /\ ~Skipped /\ ~known[t].alive
        /\ known' = [known EXCEPT ![t] =
             [alive |-> TRUE, runnable |-> disc.runnable, seqnum |-> disc.barrier,
              word |-> disc.word]]
        /\ disc' = NextWord
        /\ UNCHANGED dfail
     \/ /\ ~Skipped /\ known[t].alive
        /\ dfail' = "AlreadyHadTask"
        /\ UNCHANGED <<known, disc>>
  /\ UNCHANGED <<sw, live, inbox, todoK, past, estales>>

-------------------------------------------------------------------------------
(* DispatchMessage, once discovery is complete.                             *)

DispatchNext ==
  LET m == Head(inbox)  task == known[m.gtid]
      took == inbox' = Tail(inbox) /\ UNCHANGED <<live, toQueue, todoK, past>>
      ignored == (m.type = "TASK_NEW") = task.alive
      ok == CASE m.type = "TASK_NEW"      -> TRUE
              [] m.type = "TASK_WAKEUP"   -> ~task.runnable /\ m.seqnum > task.seqnum
              [] m.type = "TASK_DEPARTED" -> sw[task.word].canfree
  IN
  /\ DiscAt("drain") /\ inbox # <<>>
  /\ \/ /\ ignored /\ took
        /\ UNCHANGED <<sw, known, disc, estales, confused, dfail>>
     \/ /\ ~ignored /\ ok /\ took
        /\ known' = [known EXCEPT ![m.gtid] =
             CASE m.type = "TASK_NEW" -> [alive |-> TRUE, runnable |-> m.runnable,
                                          seqnum |-> m.seqnum, word |-> m.word]
               [] m.type = "TASK_WAKEUP" -> [@ EXCEPT !.runnable = TRUE, !.seqnum = m.seqnum]
               [] OTHER -> Unknown]
        /\ sw' = IF m.type = "TASK_DEPARTED" THEN [sw EXCEPT ![task.word] = FreeWord] ELSE sw
        /\ UNCHANGED <<disc, estales, confused, dfail>>
     \/ ~ignored /\ ~ok /\ Fail("DispatchMessage")

DiscStep ==
  \/ SetEnclaveDefault \/ ScanWord \/ ReadSwBarrier \/ ReadSwFlags
  \/ AssociateNoent \/ AssociateStale \/ AssociateSucceeds \/ DispatchNext

DiscNext == KernelActs \/ DiscStep

DiscSpec == DiscInit /\ [][DiscNext]_discVars

-------------------------------------------------------------------------------
(***************************************************************************)
(* "All tasks that existed before we started to scan the SW region have    *)
(* been discovered, though there may be new tasks, for which the scheduler *)
(* will receive messages" (DiscoverTasks): after discovery, with the       *)
(* default channel read, the scheduler knows exactly the threads in ghOSt, *)
(* their state, sequence number and status word, and no status word is     *)
(* left over.  The exception is the one the comment on ESTALE names: the   *)
(* word of an earlier incarnation that has the live one's barrier.         *)
(***************************************************************************)
DiscoveryAgrees ==
  DiscAt("drain") /\ inbox = <<>> /\ confused = {} =>
    /\ \A t \in Gtids :
         known[t] = IF Live(t) /\ ~sw[live[t]].brandnew
                      THEN [alive |-> TRUE, runnable |-> sw[live[t]].runnable,
                            seqnum |-> sw[live[t]].barrier, word |-> live[t]]
                      ELSE Unknown
    /\ \A w \in Words : sw[w].inuse => live[sw[w].gtid] = w

(***************************************************************************)
(* "We can get at most one ESTALE", "TASK_DEPARTED would give us ENOENT"   *)
(* (DiscoverTasks): wakeups, arrivals and departures during the scan are   *)
(* harmless.  A CHECK or GHOST_ERROR of discovery, or of a handler that    *)
(* reads the default channel later, needs a thread that has been in ghOSt  *)
(* before, or that entered it and left it within the scan.                 *)
(***************************************************************************)
AbortsOnlyOnReentry ==
  dfail # "none" => \E t \in Gtids : past[t] = "churned"
==============================================================================
