---------------------------- MODULE MicroModule ----------------------------
(***************************************************************************)
(* An actor of the micro_core framework: class module of                   *)
(* src/3rd/micro_core/module/module.hpp.  Any thread may call send(); one   *)
(* worker thread runs run(); one thread (the start-up script) calls        *)
(* start() and stop().                                                     *)
(*                                                                         *)
(* A step is a stretch of code no other thread can see the middle of: the  *)
(* critical section of send(), the one in which run() swaps the queues,    *)
(* and the worker's steps between two accesses to shared state.  A handler *)
(* may call send() on its own module: while the worker is in "invoke", a   *)
(* Send step may be its own.                                               *)
(***************************************************************************)
EXTENDS MultiPriorityQueue

CONSTANTS
    Capacity,    \* MAX_MSG_COUNT
    MaxSends     \* bound on the calls of send()

ASSUME CapacityAssumption == Capacity \in Nat \ {0}
ASSUME MaxSendsAssumption == MaxSends \in Nat

VARIABLES
    m_send_queue,
    m_worker_queue,
    m_exited,
    worker,      \* where run() is: "idle" before start(), "done" after it returned
    msg,         \* run()'s local: the message being handled
    stopper,     \* where stop() is
    sends,       \* calls of send() so far (history)
    accepted,    \* those that queued a message (history)
    swaps,       \* swaps of the queues so far (history)
    swapsAtStop, \* its value when stop() raised m_exited (history)
    handled      \* the messages handled, in order (history)

vars == <<m_send_queue, m_worker_queue, m_exited, worker, msg, stopper,
          sends, accepted, swaps, swapsAtStop, handled>>

\* A message is told apart by its rank among those accepted; gen is the number
\* of swaps before it was accepted (history, never read by the code).
Message == [id : Nat \ {0}, pri : Priority, gen : Nat]
NoMessage == [id |-> 0, pri |-> LowPriority, gen |-> 0]

\* Everything is of its type.
TypeOK ==
    /\ m_send_queue \in QueuesOf(Message)
    /\ m_worker_queue \in QueuesOf(Message)
    /\ m_exited \in BOOLEAN
    /\ worker \in {"idle", "check", "wait", "drain", "invoke", "done"}
    /\ msg \in Message \cup {NoMessage}
    /\ stopper \in {"none", "joining", "returned"}
    /\ sends \in 0..MaxSends
    /\ accepted \in 0..sends
    /\ swaps \in Nat
    /\ swapsAtStop \in Nat
    /\ handled \in Seq(Message)

Init ==
    /\ m_send_queue = NewQueue
    /\ m_worker_queue = NewQueue
    /\ m_exited = FALSE
    /\ worker = "idle"
    /\ msg = NoMessage
    /\ stopper = "none"
    /\ sends = 0
    /\ accepted = 0
    /\ swaps = 0
    /\ swapsAtStop = 0
    /\ handled = <<>>

----------------------------------------------------------------------------
(***************************************************************************)
(* send(): refuses when the send queue is full, whatever is still in the   *)
(* worker queue.  The bus ignores the ERR_FAILED, so a refused message is   *)
(* gone.  init() subscribes send() to the bus, so calls come before        *)
(* start() and after stop() as well.                                       *)
(***************************************************************************)

\* The message a call with priority p queues.
\* Bug to be caught: priorities counted from one.
NewMessageFromOne(p) == [id |-> accepted + 1, pri |-> p + 1, gen |-> swaps]
NewMessage(p) == [id |-> accepted + 1, pri |-> p, gen |-> swaps]

SendAccept(p) ==
    /\ sends < MaxSends
    /\ Size(m_send_queue) < Capacity
    /\ m_send_queue' = Push(m_send_queue, NewMessage(p), p)
    /\ sends' = sends + 1
    /\ accepted' = accepted + 1
    /\ UNCHANGED <<m_worker_queue, m_exited, worker, msg, stopper, swaps, swapsAtStop, handled>>

SendRefuse ==
    /\ sends < MaxSends
    /\ Size(m_send_queue) >= Capacity
    /\ sends' = sends + 1
    /\ UNCHANGED <<m_send_queue, m_worker_queue, m_exited, worker, msg, stopper,
                   accepted, swaps, swapsAtStop, handled>>

----------------------------------------------------------------------------
(***************************************************************************)
(* start() and stop().  stop() raises m_exited and joins the worker when   *)
(* start() has created one.                                                *)
(***************************************************************************)
Start ==
    /\ worker = "idle"
    /\ worker' = "check"
    /\ UNCHANGED <<m_send_queue, m_worker_queue, m_exited, msg, stopper,
                   sends, accepted, swaps, swapsAtStop, handled>>

\* Bug to be caught: stop() returns without joining the worker.
StopWithoutJoin ==
    /\ stopper = "none"
    /\ m_exited' = TRUE
    /\ stopper' = "returned"
    /\ swapsAtStop' = swaps
    /\ UNCHANGED <<m_send_queue, m_worker_queue, worker, msg, sends, accepted, swaps, handled>>

Stop ==
    /\ stopper = "none"
    /\ m_exited' = TRUE
    /\ stopper' = IF worker = "idle" THEN "returned" ELSE "joining"
    /\ swapsAtStop' = swaps
    /\ UNCHANGED <<m_send_queue, m_worker_queue, worker, msg, sends, accepted, swaps, handled>>

Join ==
    /\ stopper = "joining"
    /\ worker = "done"
    /\ stopper' = "returned"
    /\ UNCHANGED <<m_send_queue, m_worker_queue, m_exited, worker, msg,
                   sends, accepted, swaps, swapsAtStop, handled>>

----------------------------------------------------------------------------
(***************************************************************************)
(* run().                                                                  *)
(***************************************************************************)

\* while (!m_exited)
CheckExit ==
    /\ worker = "check"
    /\ worker' = IF m_exited THEN "done" ELSE "wait"
    /\ UNCHANGED <<m_send_queue, m_worker_queue, m_exited, msg, stopper,
                   sends, accepted, swaps, swapsAtStop, handled>>

\* Bug to be caught: wait() instead of wait_for().
WaitForMessage == FALSE /\ UNCHANGED vars

\* wait_for() gives up after 100 ms with the send queue still empty: continue.
WaitTimeout ==
    /\ worker = "wait"
    /\ IsEmpty(m_send_queue)
    /\ worker' = "check"
    /\ UNCHANGED <<m_send_queue, m_worker_queue, m_exited, msg, stopper,
                   sends, accepted, swaps, swapsAtStop, handled>>

\* Bug to be caught: the worker takes a copy and leaves the messages queued.
SwapByCopy ==
    /\ worker = "wait"
    /\ ~ IsEmpty(m_send_queue)
    /\ m_worker_queue' = m_send_queue
    /\ worker' = "drain"
    /\ swaps' = swaps + 1
    /\ UNCHANGED <<m_send_queue, m_exited, msg, stopper, sends, accepted, swapsAtStop, handled>>

\* wait_for() returns with the send queue not empty: the queues change roles.
SwapQueues ==
    /\ worker = "wait"
    /\ ~ IsEmpty(m_send_queue)
    /\ m_send_queue' = m_worker_queue
    /\ m_worker_queue' = m_send_queue
    /\ worker' = "drain"
    /\ swaps' = swaps + 1
    /\ UNCHANGED <<m_exited, msg, stopper, sends, accepted, swapsAtStop, handled>>

\* msg = front(); on_invoke(msg) begins.
Invoke ==
    /\ worker = "drain"
    /\ ~ IsEmpty(m_worker_queue)
    /\ msg' = Front(m_worker_queue)
    /\ worker' = "invoke"
    /\ UNCHANGED <<m_send_queue, m_worker_queue, m_exited, stopper,
                   sends, accepted, swaps, swapsAtStop, handled>>

\* Bug to be caught: one message per swap (if instead of the inner while).
PopOnePerSwap ==
    /\ worker = "invoke"
    /\ m_worker_queue' = Pop(m_worker_queue)
    /\ handled' = Append(handled, msg)
    /\ worker' = "check"
    /\ UNCHANGED <<m_send_queue, m_exited, msg, stopper, sends, accepted, swaps, swapsAtStop>>

\* on_invoke(msg) returns, whatever it returns; pop().
PopHandled ==
    /\ worker = "invoke"
    /\ m_worker_queue' = Pop(m_worker_queue)
    /\ handled' = Append(handled, msg)
    /\ worker' = "drain"
    /\ UNCHANGED <<m_send_queue, m_exited, msg, stopper, sends, accepted, swaps, swapsAtStop>>

\* Bug to be caught: the worker waits again without looking at m_exited.
BatchDoneNoTest ==
    /\ worker = "drain"
    /\ IsEmpty(m_worker_queue)
    /\ worker' = "wait"
    /\ UNCHANGED <<m_send_queue, m_worker_queue, m_exited, msg, stopper,
                   sends, accepted, swaps, swapsAtStop, handled>>

BatchDone ==
    /\ worker = "drain"
    /\ IsEmpty(m_worker_queue)
    /\ worker' = "check"
    /\ UNCHANGED <<m_send_queue, m_worker_queue, m_exited, msg, stopper,
                   sends, accepted, swaps, swapsAtStop, handled>>

Worker == CheckExit \/ WaitTimeout \/ SwapQueues \/ Invoke \/ PopHandled \/ BatchDone

Next ==
    \/ \E p \in Priority : SendAccept(p)
    \/ SendRefuse
    \/ Start
    \/ Stop
    \/ Join
    \/ Worker

Spec == Init /\ [][Next]_vars

\* The operating system runs the worker, every handler returns, and join()
\* returns once the thread has ended.  Nobody is obliged to send or to stop.
FairSpec == Spec /\ WF_vars(Worker) /\ WF_vars(Join)

----------------------------------------------------------------------------
(***************************************************************************)
(* Properties.                                                             *)
(***************************************************************************)

\* The assertion of run() at the swap, and more: outside a batch the worker
\* queue is empty, so the queue handed to the senders holds nothing old.
WorkerQueueEmptyOutsideBatch ==
    worker \in {"idle", "check", "wait", "done"} => IsEmpty(m_worker_queue)

\* pop() takes out the message whose handler has just returned, although
\* send() ran meanwhile, possibly from that handler and with a more urgent
\* message.
PopsWhatItHandled ==
    worker = "invoke" => ~ IsEmpty(m_worker_queue) /\ msg = Front(m_worker_queue)

\* Once stop() has raised m_exited the worker takes at most one more batch:
\* the one it finds when it was already past the test of m_exited.
StopTakesAtMostOneMoreBatch ==
    m_exited => swaps <= swapsAtStop + 1

\* After stop() has returned from join(), no handler runs any more; only a
\* module that is started after being stopped still has a worker, which leaves
\* at its first test of m_exited.
NothingHandledAfterStop ==
    [][stopper = "returned" => UNCHANGED handled]_vars

\* The abstract promise: the messages of both queues are the pending ones, the
\* send queue is the open generation and a swap seals it.
Promise == INSTANCE Mailbox WITH
    gen     <- swaps,
    open    <- Size(m_send_queue),
    pending <- Elements(m_send_queue) \cup Elements(m_worker_queue)

\* A module keeps the promise of Mailbox.
ImplementsMailbox == Promise!Spec

\* See Mailbox: handled in the owed order, and nothing lost or duplicated.
HandledInOrder == Promise!HandledInOrder
EveryMessageAccountedFor == Promise!EveryMessageAccountedFor

\* A message accepted by a started module is handled unless the module is
\* stopped, whatever interleaving of senders, swaps and time-outs it meets.
Started == worker # "idle"
HandledIds == {handled[i].id : i \in DOMAIN handled}
AcceptedIsHandled ==
    \A k \in 1..MaxSends : (Started /\ accepted >= k) ~> (k \in HandledIds \/ m_exited)

\* stop() does not hang: with handlers that return, the join() it is in ends.
StopReturns == stopper = "joining" ~> stopper = "returned"
============================================================================
