-------------------------------- MODULE Queues --------------------------------
(***************************************************************************)
(* The run queues of the two FIFO schedulers: a std::deque of tasks.       *)
(***************************************************************************)
EXTENDS Integers, Sequences

InQueue(t, q) == \E i \in 1 .. Len(q) : q[i] = t

NoRepeats(q) == \A i, j \in 1 .. Len(q) : q[i] = q[j] => i = j

\* Where Enqueue puts the task.
Pushed(q, t, front) == IF front THEN <<t>> \o q ELSE Append(q, t)

\* The queue without its entry for t.
Erased(q, t) ==
  LET pos == CHOOSE i \in 1 .. Len(q) : q[i] = t
  IN  [i \in 1 .. Len(q) - 1 |-> IF i < pos THEN q[i] ELSE q[i + 1]]
===============================================================================
