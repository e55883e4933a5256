----------------------------- MODULE ChannelRing -----------------------------
(***************************************************************************)
(* LocalChannel of lib/channel.cc: the ring through which the kernel sends *)
(* messages to an agent.  The schedulers' modules take a channel to be a   *)
(* queue; this module shows that the ring is one.                          *)
(*                                                                         *)
(* Indices are unsigned and wrap around at 2^32 (here at IndexWrap), the   *)
(* length of a message is a uint16_t (here below LenWrap), and a message   *)
(* occupies as many slots as its length needs.  The agent handles a        *)
(* message in place, between Peek and Consume.  The producer is the        *)
(* kernel, external.                                                       *)
(***************************************************************************)
EXTENDS Integers, Sequences

CONSTANTS
  NElems,    \* header_->nelems
  IndexWrap, \* head and tail are modulo this
  SlotSize,  \* sizeof(ghost_msg)
  LenWrap,   \* ghost_msg::length is modulo this
  Lengths    \* the lengths of the messages

RoundUp(len) == ((len + SlotSize - 1) \div SlotSize) * SlotSize

SlotsOf(len) == RoundUp(len) \div SlotSize

\* The ring is much larger than a message: it has 65536 slots in the agents.
\* Lengths have 16 bits and indices 32.
ASSUME RingAssumption ==
  /\ NElems \in Nat \ {0} /\ SlotSize \in Nat \ {0} /\ LenWrap \in Nat
  /\ IndexWrap \in Nat /\ IndexWrap > NElems /\ IndexWrap % NElems = 0
  /\ Lengths \subseteq 1 .. LenWrap - 1
  /\ LenWrap + SlotSize <= IndexWrap
  /\ \A len \in Lengths : NElems >= 3 * SlotsOf(len)

VARIABLES
  head, tail,  \* ghost_ring::head, ghost_ring::tail
  overflow,    \* is ghost_ring::overflow more than zero?
  msgs,        \* ghost_ring::msgs
  peek,        \* where the agent is: "idle", or in Peek, or with a message
  ringAborted, \* has Peek's CHECK failed?
  parity,      \* the lowest bit of the next message's seqnum
  queue        \* the messages that were sent and not consumed (history)

ringVars == <<head, tail, overflow, msgs, peek, ringAborted, parity, queue>>

\* A slot that no unread message starts in is junk.
Junk == [type |-> "junk", length |-> 0, seqnum |-> 0]

RingInit ==
  /\ head = 0 /\ tail = 0
  /\ overflow = FALSE
  /\ msgs = [i \in 0 .. NElems - 1 |-> Junk]
  /\ peek = "idle"
  /\ ringAborted = FALSE
  /\ parity = 0
  /\ queue = <<>>

-------------------------------------------------------------------------------
(* The kernel.  A message is contiguous: if it does not fit before the end  *)
(* of the array, a MSG_NOP takes up the rest.  A message for which there    *)
(* are not enough free slots is dropped and counted.                        *)

ProduceMessage(len) ==
  LET n == SlotsOf(len)
      hidx == head % NElems
      pad == IF n > NElems - hidx THEN NElems - hidx ELSE 0
      used == (head - tail) % IndexWrap
      m == [type |-> "task", length |-> len, seqnum |-> parity]
      nop == [type |-> "nop", length |-> pad * SlotSize, seqnum |-> 0]
  IN
  /\ ~ringAborted
  /\ parity' = 1 - parity
  /\ \/ /\ pad + n <= NElems - used
        /\ msgs' = [[msgs EXCEPT ![hidx] = IF pad > 0 THEN nop ELSE @]
                      EXCEPT ![(head + pad) % NElems] = m]
        /\ head' = (head + pad + n) % IndexWrap
        /\ queue' = Append(queue, m)
        /\ UNCHANGED overflow
     \/ /\ pad + n > NElems - used
        /\ overflow' = TRUE
        /\ UNCHANGED <<head, msgs, queue>>
  /\ UNCHANGED <<tail, peek, ringAborted>>

-------------------------------------------------------------------------------
(* The agent.                                                               *)

TailSlot == tail % NElems

\* Peek returns at once if the ring is empty, without a look at overflow.
PeekHead ==
  /\ ~ringAborted /\ peek = "idle" /\ tail # head
  /\ peek' = "overflow"
  /\ UNCHANGED <<head, tail, overflow, msgs, ringAborted, parity, queue>>

\* Mutant: Peek does not look at overflow.
PeekOverflowNot ==
  /\ ~ringAborted /\ peek = "overflow"
  /\ peek' = "message"
  /\ UNCHANGED <<head, tail, overflow, msgs, ringAborted, parity, queue>>

PeekOverflow ==
  /\ ~ringAborted /\ peek = "overflow"
  /\ IF overflow THEN ringAborted' = TRUE /\ UNCHANGED peek
                 ELSE peek' = "message" /\ UNCHANGED ringAborted
  /\ UNCHANGED <<head, tail, overflow, msgs, parity, queue>>

\* The message in hand, a pointer into the ring.
Peeked == msgs[TailSlot]

\* Mutant: the sum of length and slot size is truncated to 16 bits.
ConsumedTruncated(len) == ((len + SlotSize - 1) % LenWrap) \div SlotSize

\* By how many slots Consume advances the tail, computed in 32 bits.
Consumed(len) == ((len + SlotSize - 1) % IndexWrap) \div SlotSize

Consume ==
  /\ ~ringAborted /\ peek = "message"
  /\ tail' = (tail + Consumed(Peeked.length)) % IndexWrap
  /\ msgs' = [msgs EXCEPT ![TailSlot] = Junk]
  /\ queue' = IF Peeked.type = "nop" \/ queue = <<>> THEN queue ELSE Tail(queue)
  /\ peek' = "idle"
  /\ UNCHANGED <<head, overflow, ringAborted, parity>>

RingNext ==
  \/ \E len \in Lengths : ProduceMessage(len)
  \/ PeekHead \/ PeekOverflow \/ Consume

RingSpec == RingInit /\ [][RingNext]_ringVars

-------------------------------------------------------------------------------
(***************************************************************************)
(* The ring is a queue, across the wrap-around of the indices, of the      *)
(* array and of the 16-bit length: the message in the agent's hands is the *)
(* oldest one, still intact, or padding, and the ring is found empty only  *)
(* when every message has been consumed.                                   *)
(***************************************************************************)
PeeksOldest ==
  /\ tail = head => queue = <<>>
  /\ peek = "message" =>
       Peeked.type = "nop" \/ (queue # <<>> /\ Peeked = Head(queue))

(***************************************************************************)
(* A dropped message does not go unnoticed, although Peek looks at the     *)
(* overflow counter only when the ring is not empty: once the kernel has   *)
(* dropped one, the agent cannot find the ring empty and believe that it   *)
(* has read everything.                                                    *)
(***************************************************************************)
DropIsNoticed == overflow => tail # head
==============================================================================
