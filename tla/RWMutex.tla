------------------------------ MODULE RWMutex ------------------------------
(***************************************************************************)
(* class rw_mutex of src/3rd/micro_core/thread/lock.hpp, the lock of the   *)
(* message bus: publish() holds it for reading while it calls the          *)
(* subscribers, subscribe() and unsubscribe() hold it for writing.         *)
(*                                                                         *)
(* Each method is one critical section of the inner mutex, except where it *)
(* waits on a condition variable; a step is such a section.  A waiting     *)
(* thread that has been notified, or wakes spuriously, is "rAwake" or      *)
(* "wAwake" until it gets the inner mutex back and tests its predicate.    *)
(***************************************************************************)
EXTENDS Integers, FiniteSets

CONSTANTS
    Thread,      \* the threads that publish or subscribe
    MaxWrites    \* bound on the calls of w_lock(): subscriptions are made by
                 \* the modules' init(), and there are finitely many modules

ASSUME ThreadAssumption == IsFiniteSet(Thread)
ASSUME MaxWritesAssumption == MaxWrites \in Nat

VARIABLES
    m_r_count,
    m_w_count,
    m_w_status,
    state,       \* where each thread is
    writes       \* calls of w_lock() so far (history)

vars == <<m_r_count, m_w_count, m_w_status, state, writes>>

States == {"out", "rWait", "rAwake", "reading", "wWait", "wAwake", "writing"}
In(s) == {t \in Thread : state[t] \in s}

\* Everything is of its type; the counts do not go below zero.
TypeOK ==
    /\ m_r_count \in Nat
    /\ m_w_count \in Nat
    /\ m_w_status \in BOOLEAN
    /\ state \in [Thread -> States]
    /\ writes \in 0..MaxWrites

Init ==
    /\ m_r_count = 0
    /\ m_w_count = 0
    /\ m_w_status = FALSE
    /\ state = [t \in Thread |-> "out"]
    /\ writes = 0

Goto(t, s) == state' = [state EXCEPT ![t] = s]

----------------------------------------------------------------------------
\* Bug to be caught: readers do not give way to a writer that waits.
ReaderMayEnterAnyway == ~ m_w_status
ReaderMayEnter == m_w_count = 0

WriterMayEnter == m_r_count = 0 /\ ~ m_w_status

\* r_lock(), from its call or from a wake-up to the next wait or its return.
\* Bug to be caught: a reader that waited is not counted when it comes in.
ReadEnterUncounted(t) ==
    /\ state[t] \in {"out", "rAwake"}
    /\ ReaderMayEnter
    /\ m_r_count' = IF state[t] = "out" THEN m_r_count + 1 ELSE m_r_count
    /\ Goto(t, "reading")
    /\ UNCHANGED <<m_w_count, m_w_status, writes>>
ReadEnter(t) ==
    /\ state[t] \in {"out", "rAwake"}
    /\ ReaderMayEnter
    /\ m_r_count' = m_r_count + 1
    /\ Goto(t, "reading")
    /\ UNCHANGED <<m_w_count, m_w_status, writes>>

ReadWait(t) ==
    /\ state[t] \in {"out", "rAwake"}
    /\ ~ ReaderMayEnter
    /\ Goto(t, "rWait")
    /\ UNCHANGED <<m_r_count, m_w_count, m_w_status, writes>>

\* m_w_cv.notify_one() by thread t, which leaves the lock: some waiting writer
\* wakes; with none waiting (they are all awake already) nothing else happens.
LeaveNotifyingWriter(t) ==
    IF In({"wWait"}) = {}
      THEN Goto(t, "out")
      ELSE \E w \in In({"wWait"}) : state' = [state EXCEPT ![t] = "out", ![w] = "wAwake"]

\* m_r_cv.notify_all() by thread t, which leaves the lock.
LeaveNotifyingReaders(t) ==
    state' = [u \in Thread |-> IF u = t THEN "out"
                               ELSE IF state[u] = "rWait" THEN "rAwake"
                               ELSE state[u]]

\* r_unlock()
\* Bug to be caught: the last reader leaves without waking a writer.
ReadExitSilently(t) ==
    /\ state[t] = "reading"
    /\ m_r_count' = m_r_count - 1
    /\ Goto(t, "out")
    /\ UNCHANGED <<m_w_count, m_w_status, writes>>
ReadExit(t) ==
    /\ state[t] = "reading"
    /\ m_r_count' = m_r_count - 1
    /\ IF m_r_count' = 0 /\ m_w_count > 0 THEN LeaveNotifyingWriter(t) ELSE Goto(t, "out")
    /\ UNCHANGED <<m_w_count, m_w_status, writes>>

\* w_lock(): announces the writer, then enters or waits.
WriteCall(t) ==
    /\ state[t] = "out"
    /\ writes < MaxWrites
    /\ m_w_count' = m_w_count + 1
    /\ IF WriterMayEnter
         THEN Goto(t, "writing") /\ m_w_status' = TRUE
         ELSE Goto(t, "wWait") /\ UNCHANGED m_w_status
    /\ writes' = writes + 1
    /\ UNCHANGED m_r_count

\* The rest of w_lock() after a wake-up.
\* Bug to be caught: the woken writer tests the readers only.
WriteResumeUntested(t) ==
    /\ state[t] = "wAwake"
    /\ IF m_r_count = 0
         THEN Goto(t, "writing") /\ m_w_status' = TRUE
         ELSE Goto(t, "wWait") /\ UNCHANGED m_w_status
    /\ UNCHANGED <<m_r_count, m_w_count, writes>>
WriteResume(t) ==
    /\ state[t] = "wAwake"
    /\ IF WriterMayEnter
         THEN Goto(t, "writing") /\ m_w_status' = TRUE
         ELSE Goto(t, "wWait") /\ UNCHANGED m_w_status
    /\ UNCHANGED <<m_r_count, m_w_count, writes>>

\* w_unlock(): the last writer wakes the readers, any other the next writer.
\* Bug to be caught: one reader is woken instead of all.
WriteExitOneReader(t) ==
    /\ state[t] = "writing"
    /\ m_w_count' = m_w_count - 1
    /\ m_w_status' = FALSE
    /\ IF m_w_count' = 0
         THEN IF In({"rWait"}) = {}
                THEN Goto(t, "out")
                ELSE \E r \in In({"rWait"}) : state' = [state EXCEPT ![t] = "out", ![r] = "rAwake"]
         ELSE LeaveNotifyingWriter(t)
    /\ UNCHANGED <<m_r_count, writes>>
WriteExit(t) ==
    /\ state[t] = "writing"
    /\ m_w_count' = m_w_count - 1
    /\ m_w_status' = FALSE
    /\ IF m_w_count' = 0 THEN LeaveNotifyingReaders(t) ELSE LeaveNotifyingWriter(t)
    /\ UNCHANGED <<m_r_count, writes>>

\* The condition variables may wake a thread for no reason.
SpuriousWake(t) ==
    /\ \/ state[t] = "rWait" /\ Goto(t, "rAwake")
       \/ state[t] = "wWait" /\ Goto(t, "wAwake")
    /\ UNCHANGED <<m_r_count, m_w_count, m_w_status, writes>>

\* What a thread that is inside the lock's code, or holds it, goes on to do.
\* Publishing or subscribing again is its own choice.
Proceed(t) ==
    \/ state[t] = "rAwake" /\ (ReadEnter(t) \/ ReadWait(t))
    \/ WriteResume(t)
    \/ ReadExit(t)
    \/ WriteExit(t)

Next ==
    \E t \in Thread :
        \/ ReadEnter(t)
        \/ ReadWait(t)
        \/ ReadExit(t)
        \/ WriteCall(t)
        \/ WriteResume(t)
        \/ WriteExit(t)
        \/ SpuriousWake(t)

Spec == Init /\ [][Next]_vars

\* The threads are scheduled, the subscribers called under the lock return
\* (they are send() of a module, which does not wait for the bus).
FairSpec == Spec /\ \A t \in Thread : WF_vars(Proceed(t))

----------------------------------------------------------------------------
(***************************************************************************)
(* Properties.                                                             *)
(***************************************************************************)

\* A thread that subscribes is alone in the bus: no other subscribes, and
\* none iterates over the subscribers.
MutualExclusion ==
    \A t, u \in Thread :
        state[t] = "writing" /\ u # t => state[u] \notin {"reading", "writing"}

\* No wake-up is lost: when nobody holds the lock, a thread that waits can
\* count on a thread that is awake, or on a writer that is; a notification
\* stolen by a thread that came in meanwhile is passed on when it leaves.
NoLostWakeup ==
    In({"reading", "writing"}) = {} =>
        /\ In({"wWait"}) # {} => In({"wAwake"}) # {}
        /\ In({"rWait"}) # {} => In({"wWait", "wAwake"}) # {}

\* Writers are preferred: once one has announced itself no reader comes in
\* until no writer is left.
WritersPreferred ==
    [][\A t \in Thread :
          state[t] # "reading" /\ state'[t] = "reading" =>
              In({"wWait", "wAwake", "writing"}) = {}]_vars

\* With finitely many subscriptions nobody waits for ever, although waiting
\* writers hold up every reader and a woken thread can be overtaken.
NobodyStarves ==
    \A t \in Thread :
        /\ state[t] \in {"rWait", "rAwake"} ~> state[t] = "reading"
        /\ state[t] \in {"wWait", "wAwake"} ~> state[t] = "writing"
============================================================================
