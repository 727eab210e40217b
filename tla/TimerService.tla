---------------------------- MODULE TimerService ----------------------------
(***************************************************************************)
(* The timers of src/3rd/micro_core: the timer_generator, which counts     *)
(* ticks of 100 ms on a thread of its own and publishes each, and the      *)
(* timer_processor of one module, which on the module's thread sweeps the  *)
(* list of timers for each tick message it handles.                        *)
(*                                                                         *)
(* Between the two stands the module's message queue: a tick waits behind  *)
(* the messages before it, while the generator counts on, and is dropped   *)
(* if the queue is full.  Ticks have one priority, so they stay in order   *)
(* (HandledInOrder of module MicroModule).                                 *)
(*                                                                         *)
(* A timer is added at the end of the list with a fresh, larger id, so the *)
(* std::list m_timers is the set of the ids in it, in their order, and an  *)
(* iterator is an id or End.                                               *)
(***************************************************************************)
EXTENDS Integers, Sequences

CONSTANTS
    MAX_TIMER_ID,     \* the last id add_timer() gives out
    Period,           \* the periods asked for, in ms
    TriggerTimes,     \* the numbers of calls asked for
    MaxTick           \* bound on m_timer_tick

ASSUME TimerIdAssumption == MAX_TIMER_ID \in Nat
ASSUME PeriodAssumption == Period \subseteq Nat
ASSUME TriggerTimesAssumption == TriggerTimes \subseteq Nat
ASSUME MaxTickAssumption == MaxTick \in Nat

VARIABLES
    m_timer_tick,     \* of the generator
    ticks,            \* the tick messages in the module's queue
    m_timers,         \* the ids of the timers in the list
    m_timer_idx,      \* the last id given out
    m_period_as_tick, m_trigger_times, m_time_out_tick,    \* of each timer
    at,               \* where process() is
    time_tick,        \* its argument
    it,               \* its iterator
    remove_timers,    \* its list of exhausted timers
    \* History: when a timer was added, how often it was to be called and has
    \* been; the timers due when the sweep began and those it has called.
    born, asked, fired, due, called

generator == <<m_timer_tick, ticks>>
timers == <<m_timer_idx, m_period_as_tick, m_trigger_times, m_time_out_tick, born, asked>>
vars == <<generator, timers, m_timers, at, time_tick, it, remove_timers, fired, due, called>>

Id == 1..MAX_TIMER_ID
End == MAX_TIMER_ID + 1

\* Everything is of its type; the sweep stands on a timer of the list.
TypeOK ==
    /\ m_timer_tick \in 0..MaxTick
    /\ ticks \in Seq(Nat)
    /\ m_timers \subseteq 1..m_timer_idx
    /\ m_timer_idx \in 0..MAX_TIMER_ID
    /\ {m_period_as_tick, m_trigger_times, m_time_out_tick, born, asked, fired}
          \subseteq [Id -> Nat]
    /\ at \in {"idle", "sweep", "callback"}
    /\ time_tick \in 0..MaxTick
    /\ it \in 1..End
    /\ {remove_timers, due, called} \subseteq SUBSET (1..m_timer_idx)
    /\ at = "callback" => it \in m_timers

Init ==
    /\ m_timer_tick = 0
    /\ ticks = <<>>
    /\ m_timers = {}
    /\ m_timer_idx = 0
    /\ m_period_as_tick = [i \in Id |-> 0]
    /\ m_trigger_times = [i \in Id |-> 0]
    /\ m_time_out_tick = [i \in Id |-> 0]
    /\ born = [i \in Id |-> 0]
    /\ asked = [i \in Id |-> 0]
    /\ fired = [i \in Id |-> 0]
    /\ at = "idle"
    /\ time_tick = 0
    /\ it = End
    /\ remove_timers = {}
    /\ due = {}
    /\ called = {}

----------------------------------------------------------------------------
(***************************************************************************)
(* The generator.                                                          *)
(***************************************************************************)

\* on_expired(): counts the tick, then publishes it.  The module's send()
\* drops it if the queue is full; publish() does not look at the result.  One
\* step: a timer added in between reads the same tick as one added just after.
on_expired ==
    /\ m_timer_tick < MaxTick
    /\ m_timer_tick' = m_timer_tick + 1
    /\ ticks' \in {Append(ticks, m_timer_tick'), ticks}
    /\ UNCHANGED <<timers, m_timers, at, time_tick, it, remove_timers, fired, due, called>>

(***************************************************************************)
(* The processor.  The module's handlers and, during a sweep, the timers'  *)
(* callbacks add and remove timers.                                        *)
(***************************************************************************)

\* lround(period / 100.0): halves are rounded up.
PeriodAsTick(period) == (period + 50) \div 100

\* Bug to be caught: a period shorter than a tick is let in.
AnyPeriodAccepted(period, trigger_times) ==
    trigger_times >= 1 /\ m_timer_idx < MAX_TIMER_ID
Accepted(period, trigger_times) ==
    /\ trigger_times >= 1
    /\ period >= 100
    /\ m_timer_idx < MAX_TIMER_ID

\* add_timer(); a call that is refused changes nothing.  The first time-out
\* counts from the generator's tick, which may be ahead of the sweep's.
\* Bug to be caught: the new timer counts from the tick of the last sweep.
AddTimerFromSweep(period, trigger_times) ==
    /\ at \in {"idle", "callback"}
    /\ Accepted(period, trigger_times)
    /\ LET id == m_timer_idx + 1 IN
        /\ m_timer_idx' = id
        /\ m_timers' = m_timers \cup {id}
        /\ m_period_as_tick' = [m_period_as_tick EXCEPT ![id] = PeriodAsTick(period)]
        /\ m_trigger_times' = [m_trigger_times EXCEPT ![id] = trigger_times]
        /\ m_time_out_tick' = [m_time_out_tick EXCEPT ![id] = time_tick + PeriodAsTick(period)]
        /\ born' = [born EXCEPT ![id] = m_timer_tick]
        /\ asked' = [asked EXCEPT ![id] = trigger_times]
    /\ UNCHANGED <<generator, at, time_tick, it, remove_timers, fired, due, called>>
AddTimer(period, trigger_times) ==
    /\ at \in {"idle", "callback"}
    /\ Accepted(period, trigger_times)
    /\ LET id == m_timer_idx + 1 IN
        /\ m_timer_idx' = id
        /\ m_timers' = m_timers \cup {id}
        /\ m_period_as_tick' = [m_period_as_tick EXCEPT ![id] = PeriodAsTick(period)]
        /\ m_trigger_times' = [m_trigger_times EXCEPT ![id] = trigger_times]
        /\ m_time_out_tick' = [m_time_out_tick EXCEPT ![id] = m_timer_tick + PeriodAsTick(period)]
        /\ born' = [born EXCEPT ![id] = m_timer_tick]
        /\ asked' = [asked EXCEPT ![id] = trigger_times]
    /\ UNCHANGED <<generator, at, time_tick, it, remove_timers, fired, due, called>>

\* remove_timer().  A callback must not remove the timer it is called for: the
\* sweep would go on from a node that is freed.  No module of the service does.
\* Bug to be caught: one does.
RemoveOwnTimer(id) ==
    /\ at \in {"idle", "callback"}
    /\ m_timers' = m_timers \ {id}
    /\ UNCHANGED <<generator, timers, at, time_tick, it, remove_timers, fired, due, called>>
RemoveTimer(id) ==
    /\ at \in {"idle", "callback"}
    /\ at = "callback" => id # it
    /\ m_timers' = m_timers \ {id}
    /\ UNCHANGED <<generator, timers, at, time_tick, it, remove_timers, fired, due, called>>

----------------------------------------------------------------------------
(***************************************************************************)
(* process(): one sweep.                                                   *)
(***************************************************************************)

\* The iterator moves to the first timer of the list behind id.
Behind(id) == {j \in m_timers : j > id}
MoveBehind(id) ==
    \/ Behind(id) = {} /\ it' = End
    \/ \E j \in Behind(id) : (\A k \in Behind(id) : j <= k) /\ it' = j

\* Bug to be caught: a timer is due at its time-out only, and lost with the tick.
IsDueNow(id) == m_time_out_tick[id] = time_tick
IsDue(id) == m_time_out_tick[id] <= time_tick

Begin ==
    /\ at = "idle"
    /\ ticks # <<>>
    /\ time_tick' = Head(ticks)
    /\ ticks' = Tail(ticks)
    /\ at' = "sweep"
    /\ MoveBehind(0)
    /\ due' = {i \in m_timers : m_time_out_tick[i] <= time_tick'}
    /\ UNCHANGED <<m_timer_tick, timers, m_timers, remove_timers, fired, called>>

Pass ==
    /\ at = "sweep" /\ it # End
    /\ ~ IsDue(it)
    /\ MoveBehind(it)
    /\ UNCHANGED <<generator, timers, m_timers, at, time_tick, remove_timers, fired, due, called>>

Callback ==
    /\ at = "sweep" /\ it # End
    /\ IsDue(it)
    /\ at' = "callback"
    /\ fired' = [fired EXCEPT ![it] = @ + 1]
    /\ called' = called \cup {it}
    /\ UNCHANGED <<generator, timers, m_timers, time_tick, it, remove_timers, due>>

\* Bug to be caught: a timer that is late is called until it has caught up.
CallbackReturnsCatchingUp ==
    /\ at = "callback"
    /\ at' = "sweep"
    /\ m_trigger_times' = [m_trigger_times EXCEPT ![it] = IF @ > 0 THEN @ - 1 ELSE @]
    /\ IF m_trigger_times'[it] = 0
         THEN remove_timers' = remove_timers \cup {it} /\ UNCHANGED m_time_out_tick
         ELSE /\ m_time_out_tick' = [m_time_out_tick EXCEPT ![it] = @ + m_period_as_tick[it]]
              /\ UNCHANGED remove_timers
    /\ IF m_trigger_times'[it] > 0 /\ m_time_out_tick'[it] <= time_tick
         THEN UNCHANGED it ELSE MoveBehind(it)
    /\ UNCHANGED <<generator, m_timers, m_timer_idx, m_period_as_tick, time_tick,
                   born, asked, fired, due, called>>
\* Bug to be caught: the next time-out counts from the sweep, not the last one
\* (of a timer that is called in time this is the same).
CallbackReturnsEarlier ==
    /\ at = "callback"
    /\ at' = "sweep"
    /\ m_trigger_times' = [m_trigger_times EXCEPT ![it] = IF @ > 0 THEN @ - 1 ELSE @]
    /\ IF m_trigger_times'[it] = 0
         THEN remove_timers' = remove_timers \cup {it} /\ UNCHANGED m_time_out_tick
         ELSE /\ m_time_out_tick' = [m_time_out_tick EXCEPT ![it] = time_tick + 1]
              /\ UNCHANGED remove_timers
    /\ MoveBehind(it)
    /\ UNCHANGED <<generator, m_timers, m_timer_idx, m_period_as_tick, time_tick,
                   born, asked, fired, due, called>>
CallbackReturns ==
    /\ at = "callback"
    /\ at' = "sweep"
    /\ m_trigger_times' = [m_trigger_times EXCEPT ![it] = IF @ > 0 THEN @ - 1 ELSE @]
    /\ IF m_trigger_times'[it] = 0
         THEN remove_timers' = remove_timers \cup {it} /\ UNCHANGED m_time_out_tick
         ELSE /\ m_time_out_tick' = [m_time_out_tick EXCEPT ![it] = @ + m_period_as_tick[it]]
              /\ UNCHANGED remove_timers
    /\ MoveBehind(it)
    /\ UNCHANGED <<generator, m_timers, m_timer_idx, m_period_as_tick, time_tick,
                   born, asked, fired, due, called>>

\* process() returns: its locals are gone, and the history of the sweep.
Forget == time_tick' = 0 /\ due' = {} /\ called' = {}

\* Bug to be caught: exhausted timers stay in the list.
FinishKeepingExhausted ==
    /\ at = "sweep" /\ it = End
    /\ remove_timers' = {}
    /\ at' = "idle"
    /\ Forget
    /\ UNCHANGED <<generator, timers, m_timers, it, fired>>
Finish ==
    /\ at = "sweep" /\ it = End
    /\ m_timers' = m_timers \ remove_timers
    /\ remove_timers' = {}
    /\ at' = "idle"
    /\ Forget
    /\ UNCHANGED <<generator, timers, it, fired>>

Process == Begin \/ Pass \/ Callback \/ CallbackReturns \/ Finish

Next ==
    \/ on_expired
    \/ \E period \in Period, n \in TriggerTimes : AddTimer(period, n)
    \/ \E id \in m_timers : RemoveTimer(id)
    \/ Process

Spec == Init /\ [][Next]_vars

\* The module's thread handles its messages, and the callbacks return.
FairSpec == Spec /\ WF_vars(Process)

----------------------------------------------------------------------------
(***************************************************************************)
(* Properties.                                                             *)
(***************************************************************************)

\* However far the module lags behind the generator, and whatever ticks were
\* lost, a timer has never been called more often than its period allows.
NeverTooOften ==
    \A i \in 1..m_timer_idx : born[i] + fired[i] * m_period_as_tick[i] <= m_timer_tick

\* Time-outs do not drift: that of a timer that waits is a whole number of
\* periods after the timer was added, whenever its callbacks ran.
NoDrift ==
    at = "idle" =>
        \A i \in m_timers :
            m_time_out_tick[i] = born[i] + (fired[i] + 1) * m_period_as_tick[i]

\* A timer leaves the list with its last call, and never exceeds its calls.
CallsAreCounted ==
    /\ \A i \in 1..m_timer_idx : fired[i] <= asked[i]
    /\ at = "idle" => \A i \in m_timers : fired[i] < asked[i]

\* When the sweep is over it has called exactly the timers that were due when
\* it began, but for those that another's callback has removed; none that was
\* added on the way, although the sweep comes across it.
SweepIsExact ==
    /\ called \subseteq due
    /\ at = "sweep" /\ it = End => due \cap m_timers \subseteq called

\* One tick calls a timer at most once, however late the timer is.
OncePerTick ==
    [][\A i \in Id : fired'[i] # fired[i] => i \in due \ called /\ fired'[i] = fired[i] + 1]_vars

\* A timer with a tick in the queue that reaches its time-out is called again,
\* or removed (between sweeps its time-out is the next one).
DueIsCalled ==
    \A i \in Id, n \in 0..MaxTick :
        /\ at = "idle" /\ i \in m_timers /\ fired[i] = n
        /\ \E k \in 1..Len(ticks) : m_time_out_tick[i] <= ticks[k]
        ~> i \notin m_timers \/ fired[i] > n
============================================================================
