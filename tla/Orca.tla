-------------------------------- MODULE Orca --------------------------------
(***************************************************************************)
(* Orca (orca/orca.cpp, orca/orca.h, orca/event_signal.h): the server that *)
(* runs one ghOSt scheduler at a time and replaces it when a client asks.  *)
(* It is one thread around select().  A round looks at the TCP socket, at  *)
(* the UDP socket and at the standard output of the scheduler, in this     *)
(* order; the descriptor of the last is the one at the top of the round.   *)
(* A client is told that its scheduler runs when the line "Initialization  *)
(* complete, ghOSt active." is read.                                       *)
(*                                                                         *)
(* Schedulers are numbered in the order they are started in.  They and the *)
(* clients (orca/orca_client.cpp) are processes of their own.  A scheduler *)
(* may crash, and a client between connect() and send().                   *)
(***************************************************************************)
EXTENDS Integers, Sequences, FiniteSets

CONSTANTS
  Clients,     \* each makes one request
  NoClient,
  MaxCrashes,  \* bound: how many schedulers crash
  MaxMetrics   \* bound: how many metrics are sent

ASSUME OrcaAssumption ==
  NoClient \notin Clients /\ MaxCrashes \in Nat /\ MaxMetrics \in Nat

Types == {"dFCFS", "cFCFS"}

VARIABLES
  at,         \* where the loop is
  round,      \* what select() found, and the scheduler whose output is watched
  conn,       \* the client of the connection that is served
  curr,       \* the last scheduler that was started
  last,       \* last_config.type
  metrics,    \* does the analyzer have any metrics?
  listeners,  \* sched_ready's: the clients that wait for their ack
  alive,      \* the schedulers that run
  signalled,  \* those that got SIGINT
  line,       \* those whose line is in the pipe and has not been read
  announced,  \* those that have written their line
  client,     \* what each client has done
  backlog,    \* the connections that have not been accepted
  datagrams,  \* unread UDP datagrams
  sent,       \* how many metrics have been sent
  crashes,    \* how many schedulers may still crash
  startedFor, \* history: the scheduler that was started for a client
  acked       \* history: the scheduler whose line a client was acked for, and
              \* whether that was in the round that served the client

orcaVars == <<at, round, conn, curr, last, metrics, listeners, alive, signalled,
              line, announced, client, backlog, datagrams, sent, crashes, startedFor, acked>>

loopState == <<round, conn, curr, last, metrics, listeners>>
schedState == <<alive, signalled, line, announced, sent, crashes>>
clientState == <<client, backlog, startedFor, acked>>

NoRound == [tcp |-> FALSE, udp |-> FALSE, out |-> FALSE, fd |-> 0, served |-> NoClient]

\* main() has started dFCFS, by default.
OrcaInit ==
  /\ at = "select" /\ round = NoRound /\ conn = NoClient
  /\ curr = 1 /\ last = "dFCFS" /\ metrics = FALSE /\ listeners = <<>>
  /\ alive = {1} /\ signalled = {} /\ line = {} /\ announced = {}
  /\ client = [c \in Clients |-> "idle"]
  /\ backlog = <<>> /\ datagrams = 0 /\ sent = 0 /\ crashes = MaxCrashes
  /\ startedFor = [c \in Clients |-> 0]
  /\ acked = [c \in Clients |-> [by |-> 0, same |-> FALSE]]

-------------------------------------------------------------------------------
(* The event loop.                                                          *)

\* A pipe is readable when something is in it or its writer is gone.
Readable(n) == n \in line \/ n \notin alive

\* Mutant: the descriptor is asked for once, before the loop.
WatchedFirst == 1

\* get_sched_stdout_fd.
Watched == curr

Select ==
  LET ready == [tcp |-> backlog # <<>>, udp |-> datagrams > 0,
                out |-> Readable(Watched), fd |-> Watched, served |-> NoClient]
  IN
  /\ at = "select" /\ (ready.tcp \/ ready.udp \/ ready.out)
  /\ at' = "tcp" /\ round' = ready
  /\ UNCHANGED <<conn, curr, last, metrics, listeners, schedState, clientState,
                 datagrams>>

\* One connection a round.
Accept ==
  /\ at = "tcp"
  /\ IF round.tcp
       THEN at' = "recv" /\ conn' = Head(backlog) /\ backlog' = Tail(backlog)
       ELSE at' = "udp" /\ UNCHANGED <<conn, backlog>>
  /\ UNCHANGED <<round, curr, last, metrics, listeners, schedState, client,
                 startedFor, acked, datagrams>>

\* suggest_from_metrics.  The variance of no metrics is not a number, which is
\* neither at least nor below a threshold.
Suggestions == IF metrics THEN Types ELSE {"dFCFS"}

\* recv_full does not return before the request is complete.  SetScheduler
\* names a scheduler, DetermineScheduler lets the analyzer choose it.
Request ==
  /\ at = "recv" /\ client[conn] = "sent"
  /\ at' = "kill"
  /\ \/ last' \in Types /\ UNCHANGED metrics
     \/ last' \in Suggestions /\ metrics' = FALSE
  /\ UNCHANGED <<round, conn, curr, listeners, schedState, clientState, datagrams>>

\* terminate_child: SIGINT (a scheduler that has crashed is a zombie), ...
Kill ==
  /\ at = "kill"
  /\ at' = "waitpid" /\ signalled' = signalled \cup {curr}
  /\ UNCHANGED <<loopState, alive, line, announced, sent, crashes, clientState, datagrams>>

\* ... then run_scheduler and sched_ready.once.
Start ==
  /\ at' = "udp" /\ curr' = curr + 1
  /\ alive' = alive \cup {curr + 1}
  /\ startedFor' = [startedFor EXCEPT ![conn] = curr + 1]
  /\ listeners' = Append(listeners, conn)
  /\ round' = [round EXCEPT !.served = conn] /\ conn' = NoClient
  /\ UNCHANGED <<last, metrics, signalled, line, announced, sent, crashes,
                 client, backlog, acked, datagrams>>

\* Mutant: SIGINT is sent, but nobody waits for the scheduler to exit.
SetSchedulerAtOnce == at = "waitpid" /\ Start

\* waitpid blocks until the old scheduler is gone.
SetScheduler == at = "waitpid" /\ curr \notin alive /\ Start

ReadDatagram ==
  /\ at = "udp"
  /\ at' = "stdout"
  /\ datagrams' = IF round.udp THEN datagrams - 1 ELSE datagrams
  /\ metrics' = (metrics \/ round.udp)
  /\ UNCHANGED <<round, conn, curr, last, listeners, schedState, clientState>>

\* Mutant: only the first callback is called.
FiredFirst == IF listeners = <<>> THEN {} ELSE {Head(listeners)}

\* EventSignal::fire calls every callback that was registered with once().
Fired == {listeners[i] : i \in DOMAIN listeners}

\* The end of a pipe reads as an empty buffer.
ReadStdout ==
  LET fire == round.out /\ round.fd \in line IN
  /\ at = "stdout"
  /\ at' = "select" /\ round' = NoRound
  /\ line' = IF fire THEN line \ {round.fd} ELSE line
  /\ listeners' = IF fire THEN <<>> ELSE listeners
  /\ client' = [c \in Clients |-> IF fire /\ c \in Fired THEN "acked" ELSE client[c]]
  /\ acked' = [c \in Clients |->
                 IF fire /\ c \in Fired THEN [by |-> round.fd, same |-> c = round.served]
                                        ELSE acked[c]]
  /\ UNCHANGED <<conn, curr, last, metrics, alive, signalled, announced, sent,
                 crashes, backlog, startedFor, datagrams>>

OrcaStep ==
  \/ Select \/ Accept \/ Request \/ Kill \/ SetScheduler \/ ReadDatagram \/ ReadStdout

-------------------------------------------------------------------------------
(* The schedulers and the clients.                                          *)

\* A scheduler that has been signalled may still get to write its line.
SchedAnnounces(n) ==
  /\ n \in alive \ announced
  /\ announced' = announced \cup {n} /\ line' = line \cup {n}
  /\ UNCHANGED <<at, loopState, alive, signalled, sent, crashes, clientState, datagrams>>

SchedExits(n) ==
  /\ n \in alive \cap signalled
  /\ alive' = alive \ {n}
  /\ UNCHANGED <<at, loopState, signalled, line, announced, sent, crashes, clientState,
                 datagrams>>

SchedCrashes(n) ==
  /\ n \in alive \ signalled /\ crashes > 0
  /\ alive' = alive \ {n} /\ crashes' = crashes - 1
  /\ UNCHANGED <<at, loopState, signalled, line, announced, sent, clientState, datagrams>>

\* OrcaMessenger sends a metric; a datagram may be lost.
SchedSends(n) ==
  /\ n \in alive \cap announced /\ sent < MaxMetrics
  /\ sent' = sent + 1
  /\ datagrams' \in {datagrams, datagrams + 1}
  /\ UNCHANGED <<at, loopState, alive, signalled, line, announced, crashes, clientState>>

ClientConnects(c) ==
  /\ client[c] = "idle"
  /\ client' = [client EXCEPT ![c] = "connected"] /\ backlog' = Append(backlog, c)
  /\ UNCHANGED <<at, loopState, schedState, startedFor, acked, datagrams>>

ClientSends(c) ==
  /\ client[c] = "connected"
  /\ client' = [client EXCEPT ![c] = "sent"]
  /\ UNCHANGED <<at, loopState, schedState, backlog, startedFor, acked, datagrams>>

ClientDies(c) ==
  /\ client[c] = "connected"
  /\ client' = [client EXCEPT ![c] = "dead"]
  /\ UNCHANGED <<at, loopState, schedState, backlog, startedFor, acked, datagrams>>

OrcaNext ==
  \/ OrcaStep
  \/ \E n \in 1 .. curr : \/ SchedAnnounces(n) \/ SchedExits(n)
                          \/ SchedCrashes(n) \/ SchedSends(n)
  \/ \E c \in Clients : ClientConnects(c) \/ ClientSends(c) \/ ClientDies(c)

OrcaSpec == OrcaInit /\ [][OrcaNext]_orcaVars

\* The default scheduler, and one for each client.
Scheds == 1 .. Cardinality(Clients) + 1

\* Orca keeps running.  A scheduler comes up and, when it is told to, goes
\* down; a client that has connected sends its request or dies.
OrcaFairSpec ==
  /\ OrcaSpec
  /\ WF_orcaVars(OrcaStep)
  /\ \A n \in Scheds : WF_orcaVars(SchedAnnounces(n)) /\ WF_orcaVars(SchedExits(n))
  /\ \A c \in Clients : WF_orcaVars(ClientSends(c) \/ ClientDies(c))

-------------------------------------------------------------------------------
(***************************************************************************)
(* "Only one scheduling agent runs at a time" (run_scheduler, about its    *)
(* static argument buffers): the next scheduler, which is to get the CPUs  *)
(* of the enclave, is started when all earlier ones are gone.              *)
(***************************************************************************)
OneSchedulerAtATime == \A m, n \in alive : m = n

(***************************************************************************)
(* A client is acknowledged when a scheduler that was started for it or    *)
(* later has announced itself.  The one exception: the line is the one of  *)
(* the scheduler it replaced, which became readable in the very round that *)
(* served the client.                                                      *)
(***************************************************************************)
AckedWhenActive ==
  \A c \in Clients : client[c] = "acked" =>
    IF acked[c].same THEN acked[c].by = startedFor[c] - 1
                     ELSE acked[c].by >= startedFor[c]

(***************************************************************************)
(* Every client that has sent its request gets its ack, also when others   *)
(* replace its scheduler before it is up, unless the last scheduler has    *)
(* died (nobody restarts it) or Orca waits in recv_full for a client that  *)
(* died before it sent its request.                                        *)
(***************************************************************************)
RequestsAnswered ==
  \A c \in Clients :
    <>[](client[c] = "sent" => \/ curr \notin alive
                               \/ at = "recv" /\ client[conn] = "dead")
=============================================================================
