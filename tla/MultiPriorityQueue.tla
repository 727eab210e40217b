------------------------ MODULE MultiPriorityQueue ------------------------
(***************************************************************************)
(* The queue of src/3rd/micro_core/module/multi_priority_queue.hpp: one    *)
(* std::queue per priority, 0 the most urgent.  Both queues of a module    *)
(* are built with the default argument, three priorities, and a message    *)
(* carries one of the three values of message/message.hpp.                 *)
(*                                                                         *)
(* A queue is a function from priorities to sequences; the operators below *)
(* are the methods of the class.                                           *)
(***************************************************************************)
EXTENDS Integers, Sequences

HighPriority   == 0
MiddlePriority == 1
LowPriority    == 2
Priority       == 0..2

QueuesOf(Msg) == [Priority -> Seq(Msg)]

NewQueue == [p \in Priority |-> <<>>]

IsEmpty(q) == \A p \in Priority : q[p] = <<>>

Size(q) == Len(q[0]) + Len(q[1]) + Len(q[2])

\* Appends to the queue of that priority (the code asserts that it exists).
Push(q, m, p) == [q EXCEPT ![p] = Append(@, m)]

\* The queue front() and pop() stop at: the first one that is not empty.
Top(q) == CHOOSE p \in Priority : /\ q[p] # <<>>
                                  /\ \A h \in Priority : h < p => q[h] = <<>>

Front(q) == Head(q[Top(q)])

\* pop() of an empty queue does nothing, front() throws: neither is modelled,
\* because module::run() tests empty() before each of them.
Pop(q) == [q EXCEPT ![Top(q)] = Tail(@)]

\* The messages in the queue.
Elements(q) == UNION {{q[p][i] : i \in DOMAIN q[p]} : p \in Priority}
=============================================================================
