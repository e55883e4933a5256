------------------------------ MODULE PrioTable ------------------------------
(***************************************************************************)
(* shared/prio_table: the table of sched_items that a client process       *)
(* shares with the agents, and the orchestrator of EDF and Shinjuku that   *)
(* copies it.  A sched_item is guarded by a seqcount; which items changed  *)
(* is published in a small hash of cells, the stream, and a counter that   *)
(* says "look at all of them" when the stream is full.                     *)
(*                                                                         *)
(* Every access to shared memory is a step of its own, in program order:   *)
(* on x86-64 a store can only be delayed past later loads, and each        *)
(* publication ends in an atomic read-modify-write, which orders it.  An   *)
(* item has two fields, besides its flags, to tell a torn copy from a      *)
(* consistent one.  The clients are external (tests/simple_edf.cc).        *)
(*                                                                         *)
(* Left out: ShinjukuOrchestrator::MakeEngineRunnable, by which the agent  *)
(* itself sets an item's runnable flag, outside the seqcount.              *)
(***************************************************************************)
EXTENDS Integers

CONSTANTS
  Clients,     \* client threads
  NItems,      \* hdr()->si_num
  StCap,       \* hdr()->st_cap
  NumRetries,  \* MarkUpdatedIndex's num_retries
  MaxUpdates   \* bound: how many updates there are

ASSUME TableAssumption ==
  /\ NItems \in Nat \ {0} /\ StCap \in Nat \ {0}
  /\ NumRetries \in 0 .. StCap - 1 /\ MaxUpdates \in Nat

Sids == 0 .. NItems - 1
Free == -1            \* kStreamFreeEntry

VARIABLES
  item,       \* the sched_items
  entries,    \* stream::entries
  scrape_all, \* stream::scrape_all
  client,     \* where each client thread is in an update
  updates,    \* how many more updates there are
  cached,     \* cachedsids_: the SchedParams of each item
  scan        \* where the agent is in RefreshSchedParams

tableVars == <<item, entries, scrape_all, client, updates, cached, scan>>

\* try is MarkUpdatedIndex's loop counter.
NoCall == [at |-> "idle", sid |-> 0, runnable |-> FALSE, try |-> 0]

\* sid is the item being copied or, in NextUpdatedIndex, the cell looked at;
\* full is full_scan; begin, gpid, flags and deadline are what was read.
NoScan == [at |-> "top", sid |-> 0, full |-> FALSE, begin |-> 0, gpid |-> 0,
           flags |-> FALSE, deadline |-> 0]

TableInit ==
  /\ item = [s \in Sids |-> [seqnum |-> 0, gpid |-> 0, flags |-> FALSE, deadline |-> 0]]
  /\ entries = [i \in 0 .. StCap - 1 |-> Free]
  /\ scrape_all = 0
  /\ client = [c \in Clients |-> NoCall]
  /\ updates = MaxUpdates
  /\ cached = [s \in Sids |-> [seqcount |-> 0, gpid |-> 0, flags |-> FALSE, deadline |-> 0]]
  /\ scan = NoScan

Locked(seqnum) == seqnum % 2 = 1

-------------------------------------------------------------------------------
(* A client thread updates an item, then marks it.                          *)

ClientAt(c, l) == client[c].at = l

ClientGoto(c, l) == client' = [client EXCEPT ![c].at = l]

Item(c) == item[client[c].sid]

StartUpdate(c, s, runnable) ==
  /\ ClientAt(c, "idle") /\ updates > 0
  /\ updates' = updates - 1
  /\ client' = [client EXCEPT ![c] = [at |-> "write_begin", sid |-> s,
                                      runnable |-> runnable, try |-> 0]]
  /\ UNCHANGED <<item, entries, scrape_all, cached, scan>>

\* The exchange that succeeds; until then the thread spins.
WriteBegin(c) ==
  /\ ClientAt(c, "write_begin") /\ ~Locked(Item(c).seqnum)
  /\ item' = [item EXCEPT ![client[c].sid].seqnum = @ + 1]
  /\ ClientGoto(c, "write")
  /\ UNCHANGED <<entries, scrape_all, updates, cached, scan>>

\* The fields get a value that names this update.
WriteFields(c) ==
  /\ ClientAt(c, "write")
  /\ item' = [item EXCEPT ![client[c].sid].gpid = Item(c).seqnum,
                          ![client[c].sid].flags = client[c].runnable]
  /\ ClientGoto(c, "write_deadline")
  /\ UNCHANGED <<entries, scrape_all, updates, cached, scan>>

WriteDeadline(c) ==
  /\ ClientAt(c, "write_deadline")
  /\ item' = [item EXCEPT ![client[c].sid].deadline = Item(c).seqnum]
  /\ ClientGoto(c, "write_end")
  /\ UNCHANGED <<entries, scrape_all, updates, cached, scan>>

WriteEnd(c) ==
  /\ ClientAt(c, "write_end")
  /\ item' = [item EXCEPT ![client[c].sid].seqnum = @ + 1]
  /\ ClientGoto(c, "mark")
  /\ UNCHANGED <<entries, scrape_all, updates, cached, scan>>

\* MarkUpdatedIndex: already in overflow?
MarkUpdatedIndex(c) ==
  /\ ClientAt(c, "mark")
  /\ ClientGoto(c, IF scrape_all > 0 THEN "scrape" ELSE "cell")
  /\ UNCHANGED <<item, entries, scrape_all, updates, cached, scan>>

MarkLoad(c) ==
  LET call == client[c]  cell == (call.sid + call.try) % StCap IN
  /\ ClientAt(c, "cell")
  /\ client' = [client EXCEPT ![c] =
       IF entries[cell] = Free       THEN [call EXCEPT !.at = "cas"]
       ELSE IF call.try < NumRetries THEN [call EXCEPT !.try = call.try + 1]
       ELSE                               [call EXCEPT !.at = "scrape"]]
  /\ UNCHANGED <<item, entries, scrape_all, updates, cached, scan>>

\* The exchange fails if another client has taken the cell.
MarkCas(c) ==
  LET call == client[c]  cell == (call.sid + call.try) % StCap IN
  /\ ClientAt(c, "cas")
  /\ \/ /\ entries[cell] = Free
        /\ entries' = [entries EXCEPT ![cell] = call.sid]
        /\ client' = [client EXCEPT ![c] = NoCall]
     \/ /\ entries[cell] # Free
        /\ client' = [client EXCEPT ![c] =
             IF call.try < NumRetries THEN [call EXCEPT !.at = "cell", !.try = call.try + 1]
             ELSE                          [call EXCEPT !.at = "scrape"]]
        /\ UNCHANGED entries
  /\ UNCHANGED <<item, scrape_all, updates, cached, scan>>

\* Mutant: an update that finds no free cell is not counted.
MarkScrapeNot(c) ==
  /\ ClientAt(c, "scrape")
  /\ client' = [client EXCEPT ![c] = NoCall]
  /\ UNCHANGED <<item, entries, scrape_all, updates, cached, scan>>

MarkScrape(c) ==
  /\ ClientAt(c, "scrape")
  /\ scrape_all' = scrape_all + 1
  /\ client' = [client EXCEPT ![c] = NoCall]
  /\ UNCHANGED <<item, entries, updates, cached, scan>>

ClientStep(c) ==
  \/ WriteBegin(c) \/ WriteFields(c) \/ WriteDeadline(c) \/ WriteEnd(c)
  \/ MarkUpdatedIndex(c) \/ MarkLoad(c) \/ MarkCas(c) \/ MarkScrape(c)

-------------------------------------------------------------------------------
(* The agent: RefreshSchedParams, again and again.  That a call makes at    *)
(* most st_cap iterations only leaves the rest to the next call.            *)

ScanGoto(l) == scan' = [scan EXCEPT !.at = l]

\* NextUpdatedIndex: in overflow?
NextUpdatedIndex ==
  /\ scan.at = "top"
  /\ ScanGoto(IF scrape_all > 0 THEN "exchange" ELSE "cell")
  /\ UNCHANGED <<item, entries, scrape_all, client, updates, cached>>

Exchange ==
  /\ scan.at = "exchange"
  /\ scrape_all' = 0
  /\ scan' = [scan EXCEPT !.at = "cell", !.full = TRUE]
  /\ UNCHANGED <<item, entries, client, updates, cached>>

\* The scan goes on with the next cell.  After the last one all items are
\* refreshed, if there was an overflow, or the call is over.
NextCell ==
  IF scan.sid < StCap - 1 THEN [scan EXCEPT !.at = "cell", !.sid = @ + 1]
  ELSE IF scan.full       THEN [NoScan EXCEPT !.at = "read_begin", !.full = TRUE]
  ELSE                         NoScan

ScanCell ==
  /\ scan.at = "cell"
  /\ scan' = IF entries[scan.sid] = Free THEN NextCell ELSE [scan EXCEPT !.at = "clear"]
  /\ UNCHANGED <<item, entries, scrape_all, client, updates, cached>>

\* Only the agent frees a cell, so what was loaded is still there.
ClearCell ==
  /\ scan.at = "clear"
  /\ entries' = [entries EXCEPT ![scan.sid] = Free]
  /\ scan' = IF scan.full THEN NextCell
             ELSE [NoScan EXCEPT !.at = "read_begin", !.sid = entries[scan.sid]]
  /\ UNCHANGED <<item, scrape_all, client, updates, cached>>

\* RefreshAllSchedParams goes on with the next item.
NextItem ==
  IF scan.full /\ scan.sid < NItems - 1
    THEN [NoScan EXCEPT !.at = "read_begin", !.sid = scan.sid + 1, !.full = TRUE]
    ELSE NoScan

\* SeqCopyParams, nothing to do if the seqcount is the one of the copy.
ReadBegin ==
  LET begin == item[scan.sid].seqnum IN
  /\ scan.at = "read_begin"
  /\ scan' = IF begin = cached[scan.sid].seqcount THEN NextItem
             ELSE [scan EXCEPT !.at = "read", !.begin = begin]
  /\ UNCHANGED <<item, entries, scrape_all, client, updates, cached>>

ReadFields ==
  /\ scan.at = "read"
  /\ scan' = [scan EXCEPT !.at = "read_deadline", !.gpid = item[scan.sid].gpid,
                          !.flags = item[scan.sid].flags]
  /\ UNCHANGED <<item, entries, scrape_all, client, updates, cached>>

ReadDeadline ==
  /\ scan.at = "read_deadline"
  /\ scan' = [scan EXCEPT !.at = "read_end", !.deadline = item[scan.sid].deadline]
  /\ UNCHANGED <<item, entries, scrape_all, client, updates, cached>>

\* Mutant: only a writer at the beginning is noticed.
ReadEndOkBegin == ~Locked(scan.begin)

ReadEndOk == ~Locked(scan.begin) /\ scan.begin = item[scan.sid].seqnum

\* A copy that failed makes the item runnable, so that the writer keeps its
\* CPU if it is the task itself; the fields stay as they were.
ReadEnd ==
  LET old == cached[scan.sid] IN
  /\ scan.at = "read_end"
  /\ cached' = [cached EXCEPT ![scan.sid] =
       IF ReadEndOk THEN [seqcount |-> scan.begin, gpid |-> scan.gpid,
                          flags |-> scan.flags, deadline |-> scan.deadline]
       ELSE IF ~old.flags THEN [old EXCEPT !.seqcount = scan.begin, !.flags = TRUE]
       ELSE old]
  /\ scan' = NextItem
  /\ UNCHANGED <<item, entries, scrape_all, client, updates>>

ScanStep ==
  \/ NextUpdatedIndex \/ Exchange \/ ScanCell \/ ClearCell
  \/ ReadBegin \/ ReadFields \/ ReadDeadline \/ ReadEnd

TableNext ==
  \/ \E c \in Clients, s \in Sids, b \in BOOLEAN : StartUpdate(c, s, b)
  \/ \E c \in Clients : ClientStep(c)
  \/ ScanStep

TableSpec == TableInit /\ [][TableNext]_tableVars

-------------------------------------------------------------------------------
(***************************************************************************)
(* "Thus, we will not miss this sched item" (RefreshSchedParam): when no   *)
(* update is under way and nothing is left in the stream, the agent's      *)
(* copies are the items, whatever cells were taken, whatever copies failed *)
(* and whatever overflowed on the way.                                     *)
(***************************************************************************)
NoUpdateLost ==
  (/\ scan.at = "top" /\ scrape_all = 0
   /\ \A i \in 0 .. StCap - 1 : entries[i] = Free
   /\ \A c \in Clients : ClientAt(c, "idle")) =>
     \A s \in Sids :
       cached[s] = [seqcount |-> item[s].seqnum, gpid |-> item[s].gpid,
                    flags |-> item[s].flags, deadline |-> item[s].deadline]

(***************************************************************************)
(* "We'll only save them into the SchedParams on success": the fields of a *)
(* copy come from one and the same update, although the client may write   *)
(* while the agent reads.                                                  *)
(***************************************************************************)
NoTornCopy == \A s \in Sids : cached[s].gpid = cached[s].deadline
==============================================================================
