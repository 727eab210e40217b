-------------------------- MODULE TimerServiceProofs --------------------------
(***************************************************************************)
(* The timers are exact, for any periods and any number of timers and      *)
(* ticks, however far the module lags behind and whatever ticks are lost.  *)
(***************************************************************************)
EXTENDS TimerService, TLAPS

(***************************************************************************)
(* The inductive invariant.  A timer of the list is running, or pending    *)
(* while its callback runs, or exhausted and about to be removed; time-out *)
(* and calls are known of the first two.  During a sweep what lies ahead   *)
(* of the iterator is as it was when the sweep began, but for what was     *)
(* removed, and what was added is not due.                                 *)
(***************************************************************************)
Pending == IF at = "callback" THEN {it} ELSE {}
Running == m_timers \ (Pending \cup remove_timers)

TicksInv ==
    /\ \A k \in 1..Len(ticks) : ticks[k] <= m_timer_tick
    /\ time_tick <= m_timer_tick

TimersInv ==
    /\ \A i \in 1..m_timer_idx :
        /\ m_period_as_tick[i] >= 1
        /\ born[i] + fired[i] * m_period_as_tick[i] <= m_timer_tick
        /\ fired[i] <= asked[i]
    /\ \A i \in Id : i > m_timer_idx => fired[i] = 0
    /\ \A i \in Running :
        /\ m_time_out_tick[i] = born[i] + (fired[i] + 1) * m_period_as_tick[i]
        /\ fired[i] + m_trigger_times[i] = asked[i]
        /\ m_trigger_times[i] >= 1
    /\ \A i \in Pending :
        /\ m_time_out_tick[i] = born[i] + fired[i] * m_period_as_tick[i]
        /\ fired[i] + m_trigger_times[i] = asked[i] + 1
        /\ m_trigger_times[i] >= 1

SweepInv ==
    /\ at = "idle" => due = {} /\ called = {} /\ remove_timers = {}
    /\ at = "sweep" => it \in m_timers \cup {End}
    /\ at = "callback" => it \in m_timers
    /\ \A i \in remove_timers : i < it
    /\ called \subseteq due
    /\ \A i \in called : i < it \/ i \in Pending
    /\ \A i \in due \cap m_timers : i < it \/ i \in Pending => i \in called
    /\ at # "idle" =>
         \A i \in m_timers :
            i >= it /\ i \notin Pending => (i \in due <=> m_time_out_tick[i] <= time_tick)

Inv == TypeOK /\ TicksInv /\ TimersInv /\ SweepInv

\* The arithmetic of whole periods.
LEMMA OneMorePeriod ==
    ASSUME NEW n \in Nat, NEW p \in Nat
    PROVE  /\ (n + 1) * p = n * p + p
           /\ 0 * p = 0
           /\ (0 + 1) * p = p
           /\ n * p \in Nat
  OBVIOUS

\* One call less, of at least one.
LEMMA OneCallLess ==
    ASSUME NEW n \in Nat, n >= 1
    PROVE  /\ (IF n > 0 THEN n - 1 ELSE n) = n - 1
           /\ n - 1 \in Nat
           /\ n - 1 # 0 => n - 1 >= 1
  OBVIOUS

\* A period of a tick or more, in ms, is at least one tick.
LEMMA PeriodPositive ==
    ASSUME NEW period \in Period, period >= 100
    PROVE  PeriodAsTick(period) \in Nat /\ PeriodAsTick(period) >= 1
  BY PeriodAssumption DEF PeriodAsTick

\* A queue that is bounded by n stays so when its head is taken, and is bounded
\* by n + 1 when n + 1 is appended.
LEMMA BoundedQueue ==
    ASSUME NEW n \in Nat, NEW q \in Seq(Nat), \A k \in 1..Len(q) : q[k] <= n
    PROVE  /\ \A k \in 1..Len(q) : q[k] <= n + 1
           /\ Append(q, n + 1) \in Seq(Nat)
           /\ \A k \in 1..Len(Append(q, n + 1)) : Append(q, n + 1)[k] <= n + 1
           /\ q # <<>> => /\ Head(q) \in Nat /\ Head(q) <= n
                          /\ Tail(q) \in Seq(Nat)
                          /\ \A k \in 1..Len(Tail(q)) : Tail(q)[k] <= n
  <1>1. \A k \in 1..Len(q) : q[k] \in Nat /\ q[k] <= n
    OBVIOUS
  <1>2. \A k \in 1..Len(q) : q[k] <= n + 1
    BY <1>1
  <1>3. /\ Append(q, n + 1) \in Seq(Nat)
        /\ \A k \in 1..Len(Append(q, n + 1)) : Append(q, n + 1)[k] <= n + 1
    BY <1>1, <1>2
  <1>4. ASSUME q # <<>>
        PROVE  /\ Head(q) \in Nat /\ Head(q) <= n
               /\ Tail(q) \in Seq(Nat)
               /\ \A k \in 1..Len(Tail(q)) : Tail(q)[k] <= n
    BY <1>1, <1>4
  <1> QED
    BY <1>2, <1>3, <1>4

\* Initially there is no timer.
LEMMA InitInv == Init => Inv
  <1> SUFFICES ASSUME Init
               PROVE  Inv
    OBVIOUS
  <1>1. /\ m_timer_tick \in 0..MaxTick /\ time_tick \in 0..MaxTick
        /\ m_timer_idx \in 0..MAX_TIMER_ID
        /\ it \in 1..End
    BY TimerIdAssumption, MaxTickAssumption DEF Init, End
  <1>2. TypeOK
    BY <1>1 DEF Init, TypeOK
  <1>3. \A i \in Id : fired[i] = 0
    BY DEF Init
  <1>4. 1..m_timer_idx = {} /\ Pending = {} /\ Running = {}
    BY DEF Init, Pending, Running
  <1>5. TimersInv
    BY <1>3, <1>4 DEF TimersInv
  <1>6. TicksInv /\ SweepInv
    BY <1>4 DEF Init, TicksInv, SweepInv
  <1> QED
    BY <1>2, <1>5, <1>6 DEF Inv

\* The ids given out are ids.
LEMMA Ids ==
    ASSUME TypeOK
    PROVE  /\ m_timer_idx \in Nat /\ m_timer_idx <= MAX_TIMER_ID
           /\ 1..m_timer_idx \subseteq Id
           /\ m_timers \subseteq 1..m_timer_idx
           /\ remove_timers \subseteq 1..m_timer_idx
           /\ due \subseteq 1..m_timer_idx
           /\ called \subseteq 1..m_timer_idx
           /\ it \in Nat
  <1>1. /\ m_timer_idx \in Nat /\ m_timer_idx <= MAX_TIMER_ID
        /\ 1..m_timer_idx \subseteq Id
    BY TimerIdAssumption DEF TypeOK, Id
  <1>2. it \in Nat
    BY TimerIdAssumption DEF TypeOK, Id, End
  <1> QED
    BY <1>1, <1>2 DEF TypeOK

\* All the numbers of a timer are numbers.
LEMMA Numbers ==
    ASSUME TypeOK, NEW i \in Id
    PROVE  /\ i \in Nat
           /\ m_period_as_tick[i] \in Nat /\ m_trigger_times[i] \in Nat
           /\ m_time_out_tick[i] \in Nat
           /\ born[i] \in Nat /\ asked[i] \in Nat /\ fired[i] \in Nat
           /\ fired[i] * m_period_as_tick[i] \in Nat
           /\ (fired[i] + 1) * m_period_as_tick[i] \in Nat
           /\ m_timer_tick \in Nat /\ time_tick \in Nat
  <1>1. /\ i \in Nat
        /\ m_period_as_tick[i] \in Nat /\ m_trigger_times[i] \in Nat
        /\ m_time_out_tick[i] \in Nat
        /\ born[i] \in Nat /\ asked[i] \in Nat /\ fired[i] \in Nat
        /\ m_timer_tick \in Nat /\ time_tick \in Nat
    BY DEF TypeOK, Id
  <1> QED
    BY <1>1, OneMorePeriod

----------------------------------------------------------------------------
\* A tick more; what was true of the timers stays true.
LEMMA ExpiredInv ==
    ASSUME Inv, on_expired
    PROVE  Inv'
  <1>1. /\ m_timer_tick \in Nat /\ m_timer_tick < MaxTick
        /\ m_timer_tick' = m_timer_tick + 1
        /\ ticks \in Seq(Nat)
        /\ ticks' = Append(ticks, m_timer_tick') \/ ticks' = ticks
        /\ UNCHANGED <<timers, m_timers, at, time_tick, it, remove_timers, fired, due, called>>
    BY DEF Inv, TypeOK, on_expired
  <1>2. /\ ticks' \in Seq(Nat)
        /\ \A k \in 1..Len(ticks') : ticks'[k] <= m_timer_tick'
    BY <1>1, BoundedQueue DEF Inv, TicksInv
  <1>3. m_timer_tick' \in 0..MaxTick /\ time_tick <= m_timer_tick'
    BY <1>1, MaxTickAssumption DEF Inv, TypeOK, TicksInv
  <1>4. TypeOK'
    BY <1>1, <1>2, <1>3 DEF Inv, TypeOK, timers
  <1>5. TicksInv'
    BY <1>1, <1>2, <1>3 DEF TicksInv
  <1>6. Pending' = Pending /\ Running' = Running
    BY <1>1 DEF Pending, Running
  <1>7. ASSUME NEW i \in 1..m_timer_idx
        PROVE  born[i] + fired[i] * m_period_as_tick[i] <= m_timer_tick'
    <2>1. i \in Id /\ born[i] + fired[i] * m_period_as_tick[i] <= m_timer_tick
      BY Ids DEF Inv, TimersInv
    <2> QED
      BY <1>1, <2>1, Numbers DEF Inv
  <1>8. TimersInv'
    BY <1>1, <1>6, <1>7 DEF Inv, TimersInv, timers
  <1>9. SweepInv'
    BY <1>1, <1>6 DEF Inv, SweepInv, timers
  <1> QED
    BY <1>4, <1>5, <1>8, <1>9 DEF Inv

\* A timer more: it is numbered last, is not due, and has not been called.
LEMMA AddTimerInv ==
    ASSUME Inv, NEW period \in Period, NEW n \in TriggerTimes, AddTimer(period, n)
    PROVE  Inv'
  <1> DEFINE id == m_timer_idx + 1
             P == PeriodAsTick(period)
  <1>1. /\ at \in {"idle", "callback"}
        /\ P \in Nat /\ P >= 1 /\ n \in Nat /\ n >= 1
        /\ id \in Id /\ id \in Nat
        /\ m_timer_idx' = id
        /\ m_timers' = m_timers \cup {id}
        /\ UNCHANGED <<m_timer_tick, ticks, at, time_tick, it, remove_timers, fired, due, called>>
    BY PeriodPositive, TriggerTimesAssumption, TimerIdAssumption, Ids
    DEF Inv, AddTimer, Accepted, Id, generator
  <1>2. /\ m_period_as_tick' = [m_period_as_tick EXCEPT ![id] = P]
        /\ m_trigger_times' = [m_trigger_times EXCEPT ![id] = n]
        /\ m_time_out_tick' = [m_time_out_tick EXCEPT ![id] = m_timer_tick + P]
        /\ born' = [born EXCEPT ![id] = m_timer_tick]
        /\ asked' = [asked EXCEPT ![id] = n]
    BY DEF AddTimer
  <1> HIDE DEF P
  <1>3. /\ id \notin 1..m_timer_idx
        /\ 1..id = (1..m_timer_idx) \cup {id}
        /\ id \in 0..MAX_TIMER_ID
        /\ \A i \in 1..m_timer_idx : i < id
    BY <1>1, Ids DEF Inv, Id
  <1>4. /\ m_timer_tick \in Nat /\ time_tick \in Nat /\ it \in Nat
        /\ m_timer_tick + P \in Nat
        /\ time_tick <= m_timer_tick
    BY <1>1, Numbers, Ids DEF Inv, TicksInv
  <1>5. TypeOK'
    <2>1. {m_period_as_tick', m_trigger_times', m_time_out_tick', born', asked', fired'}
             \subseteq [Id -> Nat]
      BY <1>1, <1>2, <1>4, SMTT(30) DEF Inv, TypeOK
    <2>2. m_timers' \subseteq 1..m_timer_idx' /\ m_timer_idx' \in 0..MAX_TIMER_ID
      BY <1>1, <1>3 DEF Inv, TypeOK
    <2>3. {remove_timers, due, called} \subseteq SUBSET (1..m_timer_idx')
      BY <1>1, <1>3 DEF Inv, TypeOK
    <2>4. /\ m_timer_tick \in 0..MaxTick /\ ticks \in Seq(Nat)
          /\ at \in {"idle", "callback"} /\ time_tick \in 0..MaxTick
          /\ it \in 1..End
          /\ at = "callback" => it \in m_timers'
      BY <1>1 DEF Inv, TypeOK
    <2> QED
      BY <1>1, <2>1, <2>2, <2>3, <2>4 DEF TypeOK, End
  <1>6. TicksInv'
    BY <1>1 DEF Inv, TicksInv
  <1>7. Pending' = Pending /\ Running' = Running \cup {id} /\ id \notin Pending
    BY <1>1, <1>3, Ids DEF Inv, Pending, Running, SweepInv
  <1>8. \A i \in Id \ {id} :
            /\ m_period_as_tick'[i] = m_period_as_tick[i]
            /\ m_trigger_times'[i] = m_trigger_times[i]
            /\ m_time_out_tick'[i] = m_time_out_tick[i]
            /\ born'[i] = born[i] /\ asked'[i] = asked[i] /\ fired'[i] = fired[i]
    BY <1>1, <1>2 DEF Inv, TypeOK
  <1>9. /\ m_period_as_tick'[id] = P /\ m_trigger_times'[id] = n
        /\ m_time_out_tick'[id] = m_timer_tick + P
        /\ born'[id] = m_timer_tick /\ asked'[id] = n /\ fired'[id] = 0
    BY <1>1, <1>2, <1>3 DEF Inv, TypeOK, TimersInv
  <1>10. TimersInv'
    <2>1. \A i \in Pending : i \in Id \ {id}
      BY <1>3, Ids DEF Inv, Pending, SweepInv
    <2>2. \A i \in Running : i \in Id \ {id}
      BY <1>3, Ids DEF Inv, Running
    <2>3. \A i \in 1..m_timer_idx : i \in Id \ {id}
      BY <1>3, Ids DEF Inv
    <2>4. /\ born'[id] + fired'[id] * m_period_as_tick'[id] <= m_timer_tick
          /\ m_time_out_tick'[id] = born'[id] + (fired'[id] + 1) * m_period_as_tick'[id]
      BY <1>1, <1>4, <1>9, OneMorePeriod
    <2>5. /\ m_period_as_tick'[id] >= 1
          /\ fired'[id] <= asked'[id]
          /\ fired'[id] + m_trigger_times'[id] = asked'[id]
          /\ m_trigger_times'[id] >= 1
      BY <1>1, <1>9
    <2>6. \A i \in 1..m_timer_idx' :
              /\ m_period_as_tick'[i] >= 1
              /\ born'[i] + fired'[i] * m_period_as_tick'[i] <= m_timer_tick'
              /\ fired'[i] <= asked'[i]
      BY <1>1, <1>3, <1>8, <2>3, <2>4, <2>5 DEF Inv, TimersInv
    <2>7. \A i \in Id : i > m_timer_idx' => fired'[i] = 0
      BY <1>1, Ids DEF Inv, TimersInv, Id
    <2>8. \A i \in Running' :
              /\ m_time_out_tick'[i] = born'[i] + (fired'[i] + 1) * m_period_as_tick'[i]
              /\ fired'[i] + m_trigger_times'[i] = asked'[i]
              /\ m_trigger_times'[i] >= 1
      BY <1>7, <1>8, <2>2, <2>4, <2>5 DEF Inv, TimersInv
    <2>9. \A i \in Pending' :
              /\ m_time_out_tick'[i] = born'[i] + fired'[i] * m_period_as_tick'[i]
              /\ fired'[i] + m_trigger_times'[i] = asked'[i] + 1
              /\ m_trigger_times'[i] >= 1
      BY <1>7, <1>8, <2>1 DEF Inv, TimersInv
    <2> QED
      BY <2>6, <2>7, <2>8, <2>9 DEF TimersInv
  <1>11. SweepInv'
    <2>1. id \notin due /\ ~ (m_time_out_tick'[id] <= time_tick)
      BY <1>1, <1>3, <1>4, <1>9, Ids DEF Inv
    <2>2. \A i \in m_timers : m_time_out_tick'[i] = m_time_out_tick[i]
      BY <1>3, <1>8, Ids DEF Inv
    <2> QED
      BY <1>1, <1>7, <2>1, <2>2 DEF Inv, SweepInv
  <1> QED
    BY <1>5, <1>6, <1>10, <1>11 DEF Inv

\* A timer less; in a callback it is not the one that is called.
LEMMA RemoveTimerInv ==
    ASSUME Inv, NEW id \in m_timers, RemoveTimer(id)
    PROVE  Inv'
  <1>1. /\ at \in {"idle", "callback"}
        /\ at = "callback" => id # it
        /\ m_timers' = m_timers \ {id}
        /\ UNCHANGED <<generator, timers, at, time_tick, it, remove_timers, fired, due, called>>
    BY DEF RemoveTimer
  <1>2. Pending' = Pending /\ Running' \subseteq Running
    BY <1>1 DEF Pending, Running
  <1>3. TypeOK' /\ TicksInv'
    BY <1>1 DEF Inv, TypeOK, TicksInv, generator, timers
  <1>4. TimersInv'
    BY <1>1, <1>2 DEF Inv, TimersInv, generator, timers
  <1>5. SweepInv'
    BY <1>1, <1>2 DEF Inv, SweepInv, timers
  <1> QED
    BY <1>3, <1>4, <1>5 DEF Inv

----------------------------------------------------------------------------
\* The iterator moves over no timer.
LEMMA MoveBehindSkipsNone ==
    ASSUME TypeOK, NEW id \in Nat, id <= MAX_TIMER_ID, MoveBehind(id)
    PROVE  /\ it' \in 1..End /\ it' > id
           /\ it' \in m_timers \cup {End}
           /\ \A j \in m_timers : j < it' <=> j <= id
  <1>1. \A j \in m_timers : j \in Nat /\ j >= 1 /\ j < End
    BY Ids, TimerIdAssumption DEF Id, End
  <1>2. CASE Behind(id) = {} /\ it' = End
    BY <1>1, <1>2, TimerIdAssumption DEF Behind, End
  <1>3. CASE \E j \in Behind(id) : (\A k \in Behind(id) : j <= k) /\ it' = j
    BY <1>1, <1>3, TimerIdAssumption DEF Behind, End
  <1> QED
    BY <1>2, <1>3 DEF MoveBehind

\* A sweep begins: all timers lie ahead, and those due are noted.
LEMMA BeginInv ==
    ASSUME Inv, Begin
    PROVE  Inv'
  <1>1. /\ at = "idle" /\ at' = "sweep"
        /\ ticks \in Seq(Nat) /\ ticks # <<>>
        /\ time_tick' = Head(ticks)
        /\ ticks' = Tail(ticks)
        /\ MoveBehind(0)
        /\ due' = {i \in m_timers : m_time_out_tick[i] <= time_tick'}
        /\ UNCHANGED <<m_timer_tick, timers, m_timers, remove_timers, fired, called>>
        /\ called = {} /\ remove_timers = {} /\ Pending = {} /\ Pending' = {}
        /\ m_timer_tick \in 0..MaxTick
    BY DEF Inv, TypeOK, SweepInv, Begin, Pending
  <1>2. /\ time_tick' \in Nat /\ time_tick' <= m_timer_tick
        /\ ticks' \in Seq(Nat)
        /\ \A k \in 1..Len(ticks') : ticks'[k] <= m_timer_tick
    BY <1>1, BoundedQueue DEF Inv, TicksInv
  <1>3. /\ it' \in 1..End
        /\ it' \in m_timers \cup {End}
        /\ \A j \in m_timers : j >= it'
    <2>1. /\ it' \in 1..End
          /\ it' \in m_timers \cup {End}
          /\ \A j \in m_timers : j < it' <=> j <= 0
      BY <1>1, MoveBehindSkipsNone, TimerIdAssumption DEF Inv
    <2>2. \A j \in m_timers : j \in Nat /\ j >= 1
      BY Ids DEF Inv, Id
    <2> QED
      BY <2>1, <2>2, TimerIdAssumption DEF End
  <1>4. TypeOK'
    <2>1. time_tick' \in 0..MaxTick
      BY <1>1, <1>2, MaxTickAssumption
    <2> QED
      BY <1>1, <1>2, <1>3, <2>1 DEF Inv, TypeOK, timers
  <1>5. TicksInv'
    BY <1>1, <1>2 DEF TicksInv
  <1>6. TimersInv'
    <2>1. Running' = Running
      BY <1>1 DEF Running
    <2> QED
      BY <1>1, <2>1 DEF Inv, TimersInv, timers
  <1>7. SweepInv'
    <2>1. \A i \in m_timers : ~ (i < it')
      BY <1>3, Ids, TimerIdAssumption DEF Inv, Id, End
    <2> QED
      BY <1>1, <1>3, <2>1 DEF SweepInv, timers
  <1> QED
    BY <1>4, <1>5, <1>6, <1>7 DEF Inv

\* The iterator passes a timer that is not due.
LEMMA PassInv ==
    ASSUME Inv, Pass
    PROVE  Inv'
  <1>1. /\ at = "sweep" /\ it \in m_timers
        /\ ~ (m_time_out_tick[it] <= time_tick)
        /\ MoveBehind(it)
        /\ UNCHANGED <<generator, timers, m_timers, at, time_tick, remove_timers,
                       fired, due, called>>
        /\ Pending = {} /\ Pending' = {}
    BY DEF Inv, SweepInv, Pass, IsDue, Pending
  <1>2. /\ it' \in 1..End /\ it' > it /\ it \in Nat
        /\ it' \in m_timers \cup {End}
        /\ \A j \in m_timers : j < it' <=> j <= it
    BY <1>1, MoveBehindSkipsNone, Ids DEF Inv, Id
  <1>3. it' \in Nat /\ \A j \in 1..m_timer_idx : j \in Nat
    BY <1>2, TimerIdAssumption DEF End
  <1>4. TypeOK' /\ TicksInv'
    BY <1>1, <1>2 DEF Inv, TypeOK, TicksInv, generator, timers
  <1>5. TimersInv'
    <2>1. Running' = Running
      BY <1>1 DEF Running
    <2> QED
      BY <1>1, <2>1 DEF Inv, TimersInv, generator, timers
  <1>6. SweepInv'
    <2>1. \A i \in remove_timers \cup called : i < it'
      BY <1>1, <1>2, <1>3, Ids DEF Inv, SweepInv
    <2>2. \A i \in due \cap m_timers : i < it' => i \in called
      <3>1. it \notin due
        BY <1>1, <1>2 DEF Inv, SweepInv
      <3>2. \A i \in due \cap m_timers : i <= it => i < it
        BY <1>3, <3>1, Ids DEF Inv
      <3> QED
        BY <1>1, <1>2, <3>2 DEF Inv, SweepInv
    <2>3. \A i \in m_timers : i >= it' => (i \in due <=> m_time_out_tick[i] <= time_tick)
      BY <1>1, <1>2, <1>3, Ids DEF Inv, SweepInv
    <2> QED
      BY <1>1, <1>2, <2>1, <2>2, <2>3 DEF Inv, SweepInv, timers
  <1> QED
    BY <1>4, <1>5, <1>6 DEF Inv

\* A callback: the timer was due when the sweep began, and its time-out has
\* been reached, so that a call more is within what its period allows.
LEMMA CallbackFacts ==
    ASSUME Inv, Callback
    PROVE  /\ at = "sweep" /\ at' = "callback"
           /\ it \in Running /\ it \in m_timers /\ it \in Id /\ it \in 1..m_timer_idx
           /\ it \in due /\ it \notin called
           /\ m_time_out_tick[it] <= time_tick /\ time_tick <= m_timer_tick
           /\ fired' = [fired EXCEPT ![it] = @ + 1]
           /\ called' = called \cup {it}
           /\ UNCHANGED <<generator, timers, m_timers, time_tick, it, remove_timers, due>>
           /\ Pending = {} /\ Pending' = {it}
  <1>1. /\ at = "sweep" /\ at' = "callback"
        /\ it \in m_timers
        /\ m_time_out_tick[it] <= time_tick /\ time_tick <= m_timer_tick
        /\ fired' = [fired EXCEPT ![it] = @ + 1]
        /\ called' = called \cup {it}
        /\ UNCHANGED <<generator, timers, m_timers, time_tick, it, remove_timers, due>>
        /\ Pending = {} /\ Pending' = {it}
    BY DEF Inv, SweepInv, TicksInv, Callback, IsDue, Pending
  <1>2. it \in 1..m_timer_idx /\ it \in Id /\ it \in Nat
    BY <1>1, Ids DEF Inv
  <1>3. it \notin remove_timers /\ it \notin called
    BY <1>1, <1>2 DEF Inv, SweepInv
  <1>4. it \in due
    BY <1>1, <1>2 DEF Inv, SweepInv
  <1> QED
    BY <1>1, <1>2, <1>3, <1>4 DEF Running

\* Its call is the timer's next one.
LEMMA CallbackInv ==
    ASSUME Inv, Callback
    PROVE  Inv'
  <1>1. TypeOK'
    <2>1. fired' \in [Id -> Nat]
      <3>1. fired \in [Id -> Nat] /\ fired[it] + 1 \in Nat
        BY CallbackFacts, Numbers, SMTT(30) DEF Inv, TypeOK
      <3>2. fired' = [fired EXCEPT ![it] = fired[it] + 1]
        BY CallbackFacts
      <3> QED
        BY <3>1, <3>2
    <2>2. called' \subseteq 1..m_timer_idx
      BY CallbackFacts, Ids DEF Inv
    <2>3. {m_period_as_tick', m_trigger_times', m_time_out_tick', born', asked', fired'}
             \subseteq [Id -> Nat]
      BY <2>1, CallbackFacts DEF Inv, TypeOK, timers
    <2> QED
      BY <2>2, <2>3, CallbackFacts DEF Inv, TypeOK, generator, timers
  <1>2. TicksInv'
    BY CallbackFacts DEF Inv, TicksInv, generator
  <1>3. /\ fired'[it] = fired[it] + 1
        /\ \A i \in Id \ {it} : fired'[i] = fired[i]
        /\ Running' = Running \ {it}
    BY CallbackFacts DEF Inv, TypeOK, Running
  <1>4. TimersInv'
    <2>1. /\ m_time_out_tick[it] = born[it] + fired'[it] * m_period_as_tick[it]
          /\ fired[it] + m_trigger_times[it] = asked[it]
          /\ m_trigger_times[it] >= 1
      BY <1>3, CallbackFacts DEF Inv, TimersInv
    <2>2. born[it] + fired'[it] * m_period_as_tick[it] <= m_timer_tick
      <3>1. m_time_out_tick[it] \in Nat /\ time_tick \in Nat /\ m_timer_tick \in Nat
        BY CallbackFacts, Numbers DEF Inv
      <3>2. m_time_out_tick[it] <= m_timer_tick
        BY <3>1, CallbackFacts
      <3> QED
        BY <2>1, <3>2
    <2>3. /\ fired'[it] <= asked[it]
          /\ fired'[it] + m_trigger_times[it] = asked[it] + 1
      <3>1. /\ fired'[it] = fired[it] + 1
            /\ fired[it] + m_trigger_times[it] = asked[it]
            /\ m_trigger_times[it] >= 1
            /\ m_trigger_times[it] \in Nat /\ fired[it] \in Nat /\ asked[it] \in Nat
        BY <1>3, <2>1, CallbackFacts, Numbers DEF Inv
      <3> QED
        BY <3>1
    <2>4. \A i \in 1..m_timer_idx :
              /\ m_period_as_tick[i] >= 1
              /\ born[i] + fired'[i] * m_period_as_tick[i] <= m_timer_tick
              /\ fired'[i] <= asked[i]
      BY <1>3, <2>2, <2>3, Ids DEF Inv, TimersInv
    <2>5. \A i \in Id : i > m_timer_idx => fired'[i] = 0
      BY <1>3, CallbackFacts, Ids DEF Inv, TimersInv
    <2>6. \A i \in Running' :
              /\ m_time_out_tick[i] = born[i] + (fired'[i] + 1) * m_period_as_tick[i]
              /\ fired'[i] + m_trigger_times[i] = asked[i]
              /\ m_trigger_times[i] >= 1
      BY <1>3, Ids DEF Inv, TimersInv, Running
    <2> QED
      BY <2>1, <2>3, <2>4, <2>5, <2>6, CallbackFacts DEF TimersInv, generator, timers
  <1>5. SweepInv'
    BY CallbackFacts DEF Inv, SweepInv, timers
  <1> QED
    BY <1>1, <1>2, <1>4, <1>5 DEF Inv

\* The callback returns: the timer is exhausted, or its time-out moves on by a
\* period.
LEMMA CallbackReturnsInv ==
    ASSUME Inv, CallbackReturns
    PROVE  Inv'
  <1>1. /\ at = "callback" /\ at' = "sweep"
        /\ it \in m_timers /\ it \in Id /\ it \in 1..m_timer_idx /\ it \in Nat
        /\ m_trigger_times' = [m_trigger_times EXCEPT ![it] = IF @ > 0 THEN @ - 1 ELSE @]
        /\ MoveBehind(it)
        /\ UNCHANGED <<generator, m_timers, m_timer_idx, m_period_as_tick, time_tick,
                       born, asked, fired, due, called>>
        /\ Pending = {it} /\ Pending' = {}
    BY Ids DEF Inv, SweepInv, CallbackReturns, Pending
  <1>2. m_trigger_times[it] \in Nat /\ m_trigger_times[it] >= 1
    BY <1>1, Numbers DEF Inv, TimersInv
  <1>3. /\ m_trigger_times'[it] = m_trigger_times[it] - 1
        /\ m_trigger_times'[it] \in Nat
        /\ m_trigger_times'[it] # 0 => m_trigger_times'[it] >= 1
        /\ \A i \in Id \ {it} : m_trigger_times'[i] = m_trigger_times[i]
        /\ m_trigger_times' \in [Id -> Nat]
    <2>1. /\ m_trigger_times \in [Id -> Nat]
          /\ m_trigger_times[it] - 1 \in Nat
          /\ m_trigger_times[it] - 1 # 0 => m_trigger_times[it] - 1 >= 1
          /\ m_trigger_times' = [m_trigger_times EXCEPT ![it] = m_trigger_times[it] - 1]
      <3>1. m_trigger_times \in [Id -> Nat]
        BY DEF Inv, TypeOK
      <3>2. m_trigger_times' = [m_trigger_times EXCEPT ![it] = m_trigger_times[it] - 1]
        BY <1>1, <1>2, OneCallLess
      <3> QED
        BY <1>2, <3>1, <3>2, OneCallLess
    <2> QED
      BY <1>1, <2>1
  <1>4. /\ m_time_out_tick' \in [Id -> Nat]
        /\ \A i \in Id \ {it} : m_time_out_tick'[i] = m_time_out_tick[i]
        /\ \/ m_trigger_times'[it] = 0 /\ remove_timers' = remove_timers \cup {it}
           \/ /\ m_trigger_times'[it] >= 1
              /\ m_time_out_tick'[it] = m_time_out_tick[it] + m_period_as_tick[it]
              /\ remove_timers' = remove_timers
    <2>1. m_time_out_tick[it] + m_period_as_tick[it] \in Nat
      BY <1>1, Numbers DEF Inv
    <2>2. CASE m_trigger_times'[it] = 0
      BY <2>2 DEF CallbackReturns, Inv, TypeOK
    <2>3. CASE m_trigger_times'[it] # 0
      <3>1. /\ m_time_out_tick' =
                  [m_time_out_tick EXCEPT ![it] = m_time_out_tick[it] + m_period_as_tick[it]]
            /\ remove_timers' = remove_timers
        BY <2>3 DEF CallbackReturns
      <3>2. m_trigger_times'[it] >= 1
        BY <1>3, <2>3
      <3>3. m_time_out_tick \in [Id -> Nat]
        BY DEF Inv, TypeOK
      <3> QED
        BY <1>1, <2>1, <3>1, <3>2, <3>3
    <2> QED
      BY <2>2, <2>3
  <1>5. /\ it' \in 1..End /\ it' > it
        /\ it' \in m_timers \cup {End}
        /\ \A j \in m_timers : j < it' <=> j <= it
    BY <1>1, MoveBehindSkipsNone DEF Inv, Id
  <1>6. it' \in Nat /\ \A j \in 1..m_timer_idx : j \in Nat
    BY <1>5, TimerIdAssumption DEF End
  <1>7. TypeOK'
    <2>1. {m_period_as_tick', m_trigger_times', m_time_out_tick', born', asked', fired'}
             \subseteq [Id -> Nat]
      BY <1>1, <1>3, <1>4, SMTT(30) DEF Inv, TypeOK
    <2>2. remove_timers' \subseteq 1..m_timer_idx
      BY <1>1, <1>4, Ids DEF Inv
    <2> QED
      BY <1>1, <1>5, <2>1, <2>2 DEF Inv, TypeOK, generator
  <1>8. TicksInv'
    BY <1>1 DEF Inv, TicksInv, generator
  <1>9. TimersInv'
    <2>1. \A i \in Running' \ {it} : i \in Running /\ i \in Id
      BY <1>1, <1>4, Ids DEF Inv, Running
    <2>2. ASSUME it \in Running'
          PROVE  /\ m_time_out_tick'[it] = born[it] + (fired[it] + 1) * m_period_as_tick[it]
                 /\ fired[it] + m_trigger_times'[it] = asked[it]
                 /\ m_trigger_times'[it] >= 1
      <3>1. /\ m_trigger_times'[it] >= 1
            /\ m_time_out_tick'[it] = m_time_out_tick[it] + m_period_as_tick[it]
        BY <1>4, <2>2 DEF Running
      <3>2. /\ m_time_out_tick[it] = born[it] + fired[it] * m_period_as_tick[it]
            /\ fired[it] + m_trigger_times[it] = asked[it] + 1
        BY <1>1 DEF Inv, TimersInv
      <3>3. /\ born[it] \in Nat /\ fired[it] \in Nat /\ asked[it] \in Nat
            /\ m_period_as_tick[it] \in Nat
            /\ fired[it] * m_period_as_tick[it] \in Nat
            /\ (fired[it] + 1) * m_period_as_tick[it]
                  = fired[it] * m_period_as_tick[it] + m_period_as_tick[it]
        BY <1>1, Numbers, OneMorePeriod DEF Inv
      <3>4. fired[it] + m_trigger_times'[it] = asked[it]
        <4>1. /\ m_trigger_times'[it] = m_trigger_times[it] - 1
              /\ fired[it] + m_trigger_times[it] = asked[it] + 1
              /\ m_trigger_times[it] \in Nat /\ fired[it] \in Nat /\ asked[it] \in Nat
          BY <1>2, <1>3, <3>2, <3>3
        <4> QED
          BY <4>1
      <3> QED
        BY <3>1, <3>2, <3>3, <3>4
    <2>3. \A i \in Running' :
              /\ m_time_out_tick'[i] = born[i] + (fired[i] + 1) * m_period_as_tick[i]
              /\ fired[i] + m_trigger_times'[i] = asked[i]
              /\ m_trigger_times'[i] >= 1
      BY <1>3, <1>4, <2>1, <2>2 DEF Inv, TimersInv
    <2> QED
      BY <1>1, <2>3 DEF Inv, TimersInv, generator
  <1>10. SweepInv'
    <2>1. \A i \in remove_timers' \cup called : i < it'
      BY <1>1, <1>4, <1>5, <1>6, Ids DEF Inv, SweepInv
    <2>2. \A i \in due \cap m_timers : i < it' => i \in called
      <3>1. \A i \in m_timers : i <= it => i < it \/ i \in Pending
        BY <1>1, <1>6, Ids DEF Inv
      <3> QED
        BY <1>5, <3>1 DEF Inv, SweepInv
    <2>3. \A i \in m_timers : i >= it' => (i \in due <=> m_time_out_tick'[i] <= time_tick)
      <3>1. \A i \in m_timers : i >= it' => i >= it /\ i \notin Pending /\ i \in Id
        BY <1>1, <1>5, <1>6, Ids DEF Inv
      <3> QED
        BY <1>1, <1>4, <3>1 DEF Inv, SweepInv
    <2> QED
      BY <1>1, <1>5, <2>1, <2>2, <2>3 DEF Inv, SweepInv
  <1> QED
    BY <1>7, <1>8, <1>9, <1>10 DEF Inv

\* The sweep is over: the exhausted timers leave the list.
LEMMA FinishInv ==
    ASSUME Inv, Finish
    PROVE  Inv'
  <1>1. /\ at = "sweep" /\ at' = "idle"
        /\ m_timers' = m_timers \ remove_timers
        /\ remove_timers' = {} /\ time_tick' = 0 /\ due' = {} /\ called' = {}
        /\ UNCHANGED <<generator, timers, it, fired>>
        /\ Pending = {} /\ Pending' = {}
    BY DEF Finish, Forget, Pending
  <1>2. TypeOK'
    <2>1. time_tick' \in 0..MaxTick
      BY <1>1, MaxTickAssumption
    <2>2. {remove_timers', due', called'} \subseteq SUBSET (1..m_timer_idx)
      BY <1>1
    <2>3. m_timers' \subseteq 1..m_timer_idx
      BY <1>1 DEF Inv, TypeOK
    <2> QED
      BY <1>1, <2>1, <2>2, <2>3 DEF Inv, TypeOK, generator, timers
  <1>3. TicksInv'
    BY <1>1, Numbers DEF Inv, TypeOK, TicksInv, generator
  <1>4. TimersInv'
    <2>1. Running' = Running
      BY <1>1 DEF Running
    <2> QED
      BY <1>1, <2>1 DEF Inv, TimersInv, generator, timers
  <1>5. SweepInv'
    BY <1>1 DEF SweepInv
  <1> QED
    BY <1>2, <1>3, <1>4, <1>5 DEF Inv

\* Every step preserves the invariant.
LEMMA NextInv == Inv /\ [Next]_vars => Inv'
  <1> SUFFICES ASSUME Inv, [Next]_vars
               PROVE  Inv'
    OBVIOUS
  <1>1. CASE UNCHANGED vars
    BY <1>1
    DEF vars, generator, timers, Inv, TypeOK, TicksInv, TimersInv, SweepInv, Pending, Running
  <1>2. CASE on_expired
    BY <1>2, ExpiredInv
  <1>3. CASE \E period \in Period, n \in TriggerTimes : AddTimer(period, n)
    BY <1>3, AddTimerInv
  <1>4. CASE \E id \in m_timers : RemoveTimer(id)
    BY <1>4, RemoveTimerInv
  <1>5. CASE Process
    BY <1>5, BeginInv, PassInv, CallbackInv, CallbackReturnsInv, FinishInv DEF Process
  <1> QED
    BY <1>1, <1>2, <1>3, <1>4, <1>5 DEF Next

\* The invariant holds throughout.
LEMMA InvHolds == Spec => []Inv
  BY InitInv, NextInv, PTL DEF Spec

----------------------------------------------------------------------------
\* The state of the generator and of the timers is well formed throughout.
THEOREM TimersTyped == Spec => []TypeOK
  <1>1. Inv => TypeOK
    BY DEF Inv
  <1> QED
    BY <1>1, InvHolds, PTL

\* No timer is ever called more often than its period allows.
THEOREM TimersNeverTooOften == Spec => []NeverTooOften
  <1>1. Inv => NeverTooOften
    BY DEF Inv, TimersInv, NeverTooOften
  <1> QED
    BY <1>1, InvHolds, PTL

\* Between sweeps every time-out is a whole number of periods from the start.
THEOREM TimersDoNotDrift == Spec => []NoDrift
  <1>1. Inv => NoDrift
    BY DEF Inv, TimersInv, SweepInv, Running, Pending, NoDrift
  <1> QED
    BY <1>1, InvHolds, PTL

\* No timer gets more calls than were asked for, and it leaves with the last.
THEOREM TimersCountCalls == Spec => []CallsAreCounted
  <1>1. ASSUME Inv
        PROVE  CallsAreCounted
    <2>1. ASSUME at = "idle", NEW i \in m_timers
          PROVE  fired[i] < asked[i]
      <3>1. i \in Running /\ i \in Id
        BY <1>1, <2>1, Ids DEF Inv, SweepInv, Running, Pending
      <3>2. fired[i] + m_trigger_times[i] = asked[i] /\ m_trigger_times[i] >= 1
        BY <1>1, <3>1 DEF Inv, TimersInv
      <3> QED
        BY <1>1, <3>1, <3>2, Numbers DEF Inv
    <2> QED
      BY <1>1, <2>1 DEF Inv, TimersInv, CallsAreCounted
  <1> QED
    BY <1>1, InvHolds, PTL

\* A sweep calls exactly the timers that were due when it began.
THEOREM SweepsAreExact == Spec => []SweepIsExact
  <1>1. ASSUME Inv
        PROVE  SweepIsExact
    <2>1. \A i \in m_timers : i < End
      BY <1>1, Ids, TimerIdAssumption DEF Inv, End
    <2> QED
      BY <1>1, <2>1 DEF Inv, SweepInv, SweepIsExact
  <1> QED
    BY <1>1, InvHolds, PTL

\* No tick calls a timer twice.
THEOREM TimersOncePerTick == Spec => OncePerTick
  <1> DEFINE P == \A i \in Id : fired'[i] # fired[i] =>
                                  i \in due \ called /\ fired'[i] = fired[i] + 1
  <1>1. Inv /\ [Next]_vars => [P]_vars
    <2> SUFFICES ASSUME Inv, Next
                 PROVE  P
      OBVIOUS
    <2>1. CASE Callback
      BY <2>1, CallbackFacts DEF Inv, TypeOK
    <2>2. CASE ~ Callback
      <3>1. fired' = fired
        BY <2>2 DEF Next, on_expired, AddTimer, RemoveTimer, Process, Begin, Pass,
                    CallbackReturns, Finish
      <3> QED
        BY <3>1
    <2> QED
      BY <2>1, <2>2
  <1> QED
    BY <1>1, InvHolds, PTL DEF Spec, OncePerTick
============================================================================
