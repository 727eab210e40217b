-------------------------- MODULE MessageBusProofs --------------------------
(***************************************************************************)
(* The lock of the bus excludes, loses no wake-up and prefers writers, for *)
(* every finite set of threads; and the bus inherits its exclusion, and    *)
(* with it the safety of publish(), for any topics and subscriptions.      *)
(***************************************************************************)
EXTENDS MessageBus, FiniteSetTheorems, TLAPS

Readers == In({"reading"})
Writers == In({"wWait", "wAwake", "writing"})

(***************************************************************************)
(* The inductive invariant: the three fields say what the threads' places  *)
(* say, whoever waits for writers has writers to wait for, and nobody      *)
(* reads while another writes.                                             *)
(***************************************************************************)
FieldsTell ==
    /\ m_r_count = Cardinality(Readers)
    /\ m_w_count = Cardinality(Writers)
    /\ m_w_status <=> In({"writing"}) # {}

ReadersWaitForWriters == In({"rWait"}) # {} => m_w_count > 0

LockInv ==
    /\ TypeOK
    /\ FieldsTell
    /\ ReadersWaitForWriters
    /\ MutualExclusion
    /\ NoLostWakeup

\* Sets of threads are finite, so their cardinalities are numbers, zero only
\* for the empty set.
LEMMA ThreadSets ==
    ASSUME NEW S, S \subseteq Thread
    PROVE  /\ IsFiniteSet(S)
           /\ Cardinality(S) \in Nat
           /\ Cardinality(S) = 0 <=> S = {}
  BY ThreadAssumption, FS_Subset, FS_CardinalityType, FS_EmptySet

\* One more thread makes the set one larger.
LEMMA AddThread ==
    ASSUME NEW S, S \subseteq Thread, NEW t \in Thread, t \notin S
    PROVE  Cardinality(S \cup {t}) = Cardinality(S) + 1
  BY ThreadSets, FS_AddElement

\* One thread less makes it one smaller.
LEMMA RemoveThread ==
    ASSUME NEW S, S \subseteq Thread, NEW t \in S
    PROVE  Cardinality(S \ {t}) = Cardinality(S) - 1
  BY ThreadSets, FS_RemoveElement

\* The readers and the writers are sets of threads.
LEMMA Subsets == Readers \subseteq Thread /\ Writers \subseteq Thread
  BY DEF Readers, Writers, In

\* The guards of the lock, in terms of the threads' places.
LEMMA Guards ==
    ASSUME LockInv
    PROVE  /\ ReaderMayEnter <=> Writers = {}
           /\ WriterMayEnter <=> In({"reading", "writing"}) = {}
           /\ m_r_count \in Nat /\ m_w_count \in Nat
  <1>1. /\ m_r_count = 0 <=> Readers = {}
        /\ m_w_count = 0 <=> Writers = {}
        /\ m_r_count \in Nat /\ m_w_count \in Nat
    BY ThreadSets, Subsets DEF LockInv, FieldsTell
  <1>2. In({"reading", "writing"}) = {} <=> Readers = {} /\ In({"writing"}) = {}
    BY DEF Readers, In
  <1> QED
    BY <1>1, <1>2 DEF ReaderMayEnter, WriterMayEnter, LockInv, FieldsTell

\* The invariant holds initially.
LEMMA LockInitInv == Init => LockInv
  <1> SUFFICES ASSUME Init
               PROVE  LockInv
    OBVIOUS
  <1>1. \A s \in SUBSET (States \ {"out"}) : In(s) = {}
    BY DEF Init, In
  <1>2. /\ Readers = {} /\ Writers = {} /\ In({"writing"}) = {} /\ In({"rWait"}) = {}
        /\ In({"wWait"}) = {}
    BY <1>1 DEF Readers, Writers, States
  <1>3. TypeOK
    <2>1. writes \in 0..MaxWrites /\ m_r_count \in Nat /\ m_w_count \in Nat
      BY MaxWritesAssumption DEF Init
    <2> QED
      BY <2>1 DEF Init, TypeOK, States
  <1>4. FieldsTell
    BY <1>2, FS_EmptySet DEF Init, FieldsTell
  <1>5. MutualExclusion
    BY DEF Init, MutualExclusion
  <1> QED
    BY <1>2, <1>3, <1>4, <1>5 DEF LockInv, ReadersWaitForWriters, NoLostWakeup

----------------------------------------------------------------------------
\* A reader comes in when no writer is in sight.
LEMMA ReadEnterInv ==
    ASSUME LockInv, NEW t \in Thread, ReadEnter(t)
    PROVE  LockInv'
  <1>1. /\ state \in [Thread -> States]
        /\ state' = [state EXCEPT ![t] = "reading"]
        /\ state[t] \in {"out", "rAwake"}
        /\ m_r_count' = m_r_count + 1
        /\ UNCHANGED <<m_w_count, m_w_status, writes>>
        /\ Writers = {}
        /\ m_r_count \in Nat
    BY Guards DEF LockInv, TypeOK, ReadEnter, Goto
  <1>2. Readers' = Readers \cup {t} /\ t \notin Readers /\ Writers' = {}
    BY <1>1 DEF Readers, Writers, In
  <1>3. TypeOK'
    BY <1>1 DEF LockInv, TypeOK, States
  <1>4. FieldsTell'
    <2>1. In({"writing"}) = {} /\ In({"writing"})' = {}
      BY <1>1, <1>2 DEF Writers, In
    <2> QED
      BY <1>1, <1>2, <2>1, Subsets, AddThread DEF LockInv, FieldsTell
  <1>5. In({"rWait"})' = {}
    <2>1. In({"rWait"}) = {}
      BY <1>1, FS_EmptySet DEF LockInv, FieldsTell, ReadersWaitForWriters
    <2> QED
      BY <1>1, <2>1 DEF In
  <1>6. MutualExclusion' /\ NoLostWakeup'
    BY <1>1, <1>2 DEF MutualExclusion, NoLostWakeup, Writers, In
  <1> QED
    BY <1>3, <1>4, <1>5, <1>6 DEF LockInv, ReadersWaitForWriters

\* A reader waits for the writers it has seen.
LEMMA ReadWaitInv ==
    ASSUME LockInv, NEW t \in Thread, ReadWait(t)
    PROVE  LockInv'
  <1>1. /\ state \in [Thread -> States]
        /\ state' = [state EXCEPT ![t] = "rWait"]
        /\ state[t] \in {"out", "rAwake"}
        /\ UNCHANGED <<m_r_count, m_w_count, m_w_status, writes>>
        /\ Writers # {}
        /\ m_w_count # 0 /\ m_w_count \in Nat
    BY Guards DEF LockInv, TypeOK, ReadWait, ReaderMayEnter, Goto
  <1>2. /\ Readers' = Readers /\ Writers' = Writers
        /\ In({"writing"})' = In({"writing"})
        /\ In({"wWait"})' = In({"wWait"}) /\ In({"wAwake"})' = In({"wAwake"})
    BY <1>1 DEF Readers, Writers, In
  <1>3. TypeOK'
    BY <1>1 DEF LockInv, TypeOK, States
  <1>4. FieldsTell' /\ ReadersWaitForWriters'
    BY <1>1, <1>2 DEF LockInv, FieldsTell, ReadersWaitForWriters
  <1>5. MutualExclusion'
    BY <1>1 DEF LockInv, MutualExclusion
  <1>6. NoLostWakeup'
    BY <1>1, <1>2 DEF LockInv, NoLostWakeup, Writers, In
  <1> QED
    BY <1>3, <1>4, <1>5, <1>6 DEF LockInv

\* notify_one() on the writers' condition variable moves one of them, and no
\* one else but the thread that leaves.
LEMMA LeaveNotifyingWriterMoves ==
    ASSUME NEW t \in Thread, state \in [Thread -> States], LeaveNotifyingWriter(t),
           state[t] \in {"reading", "writing"}
    PROVE  /\ state' \in [Thread -> States]
           /\ state'[t] = "out"
           /\ \A u \in Thread \ {t} :
                 \/ state'[u] = state[u]
                 \/ state[u] = "wWait" /\ state'[u] = "wAwake"
           /\ In({"wWait"})' = {} \/ In({"wAwake"})' # {}
  <1>1. CASE In({"wWait"}) = {}
    <2>1. state' = [state EXCEPT ![t] = "out"]
      BY <1>1 DEF LeaveNotifyingWriter, Goto
    <2>2. In({"wWait"})' = {}
      BY <1>1, <2>1 DEF In
    <2> QED
      BY <2>1, <2>2 DEF States
  <1>2. CASE In({"wWait"}) # {}
    <2>1. PICK w \in In({"wWait"}) : state' = [state EXCEPT ![t] = "out", ![w] = "wAwake"]
      BY <1>2 DEF LeaveNotifyingWriter
    <2>2. w \in Thread /\ state[w] = "wWait" /\ w # t
      BY <2>1 DEF In
    <2>3. w \in In({"wAwake"})'
      BY <2>1, <2>2 DEF In
    <2> QED
      BY <2>1, <2>2, <2>3 DEF States
  <1> QED
    BY <1>1, <1>2

\* The last reader to leave wakes a writer.
LEMMA ReadExitInv ==
    ASSUME LockInv, NEW t \in Thread, ReadExit(t)
    PROVE  LockInv'
  <1>1. /\ state \in [Thread -> States]
        /\ state[t] = "reading"
        /\ m_r_count' = m_r_count - 1
        /\ UNCHANGED <<m_w_count, m_w_status, writes>>
        /\ m_r_count \in Nat /\ m_w_count \in Nat
        /\ t \in Readers
    BY Guards DEF LockInv, TypeOK, ReadExit, Readers, In
  <1>2. /\ state' \in [Thread -> States]
        /\ state'[t] = "out"
        /\ \A u \in Thread \ {t} :
              \/ state'[u] = state[u]
              \/ state[u] = "wWait" /\ state'[u] = "wAwake"
        /\ (m_r_count' = 0 /\ m_w_count > 0) =>
              (In({"wWait"})' = {} \/ In({"wAwake"})' # {})
    <2>1. CASE m_r_count' = 0 /\ m_w_count > 0
      BY <1>1, <2>1, LeaveNotifyingWriterMoves DEF ReadExit
    <2>2. CASE ~ (m_r_count' = 0 /\ m_w_count > 0)
      BY <1>1, <2>2 DEF ReadExit, Goto, States
    <2> QED
      BY <2>1, <2>2
  <1>3. /\ Readers' = Readers \ {t}
        /\ Writers' = Writers
        /\ In({"writing"})' = In({"writing"})
        /\ In({"rWait"})' = In({"rWait"})
    BY <1>1, <1>2 DEF Readers, Writers, In
  <1>4. m_r_count' = Cardinality(Readers')
    BY <1>1, <1>3, Subsets, RemoveThread DEF LockInv, FieldsTell
  <1>5. TypeOK'
    <2>1. m_r_count' \in Nat
      BY <1>3, <1>4, Subsets, ThreadSets
    <2> QED
      BY <1>1, <1>2, <2>1 DEF LockInv, TypeOK
  <1>6. FieldsTell' /\ ReadersWaitForWriters'
    BY <1>1, <1>3, <1>4 DEF LockInv, FieldsTell, ReadersWaitForWriters
  <1>7. MutualExclusion'
    BY <1>1, <1>2 DEF LockInv, MutualExclusion
  <1>8. NoLostWakeup'
    <2> SUFFICES ASSUME In({"reading", "writing"})' = {}
                 PROVE  /\ In({"wWait"})' # {} => In({"wAwake"})' # {}
                        /\ In({"rWait"})' # {} => In({"wWait", "wAwake"})' # {}
      BY DEF NoLostWakeup
    <2>1. Readers' = {} /\ In({"writing"})' = {}
      BY DEF Readers, In
    <2>2. m_r_count' = 0
      BY <1>4, <2>1, FS_EmptySet
    <2>3. CASE m_w_count > 0
      <3>1. Writers # {}
        BY <2>3, FS_EmptySet DEF LockInv, FieldsTell
      <3>2. In({"wWait", "wAwake"})' # {}
        BY <1>3, <2>1, <3>1 DEF Writers, In
      <3> QED
        BY <1>2, <2>2, <2>3, <3>2
    <2>4. CASE ~ (m_w_count > 0)
      <3>1. m_w_count = 0
        BY <1>1, <2>4
      <3>2. Writers = {}
        BY <3>1, Subsets, ThreadSets DEF LockInv, FieldsTell
      <3>3. In({"wWait"})' = {} /\ In({"rWait"})' = {}
        BY <1>3, <2>4, <3>2 DEF LockInv, ReadersWaitForWriters, Writers, In
      <3> QED
        BY <3>3
    <2> QED
      BY <2>3, <2>4
  <1> QED
    BY <1>5, <1>6, <1>7, <1>8 DEF LockInv

\* A writer announces itself, and enters if nobody holds the lock.
LEMMA WriteCallInv ==
    ASSUME LockInv, NEW t \in Thread, WriteCall(t)
    PROVE  LockInv'
  <1>1. /\ state \in [Thread -> States]
        /\ state[t] = "out"
        /\ m_w_count' = m_w_count + 1
        /\ writes' = writes + 1 /\ writes < MaxWrites /\ writes \in Nat
        /\ UNCHANGED m_r_count
        /\ m_r_count \in Nat /\ m_w_count \in Nat
        /\ t \notin Writers
    BY Guards, MaxWritesAssumption DEF LockInv, TypeOK, WriteCall, Writers, In
  <1>2. \/ /\ state' = [state EXCEPT ![t] = "writing"]
           /\ m_w_status' = TRUE
           /\ In({"reading", "writing"}) = {}
        \/ /\ state' = [state EXCEPT ![t] = "wWait"]
           /\ m_w_status' = m_w_status
           /\ In({"reading", "writing"}) # {}
    BY Guards DEF WriteCall, Goto
  <1>3. /\ Readers' = Readers
        /\ Writers' = Writers \cup {t}
        /\ In({"rWait"})' = In({"rWait"})
    BY <1>1, <1>2 DEF Readers, Writers, In
  <1>4. m_w_count' = Cardinality(Writers')
    BY <1>1, <1>3, Subsets, AddThread DEF LockInv, FieldsTell
  <1>5. m_w_status' <=> In({"writing"})' # {}
    BY <1>1, <1>2 DEF LockInv, FieldsTell, In
  <1>6. TypeOK'
    <2>1. writes' \in 0..MaxWrites /\ m_r_count' \in Nat /\ m_w_count' \in Nat
      BY <1>1, MaxWritesAssumption
    <2>2. state' \in [Thread -> States] /\ m_w_status' \in BOOLEAN
      BY <1>1, <1>2 DEF LockInv, TypeOK, States
    <2> QED
      BY <2>1, <2>2 DEF TypeOK
  <1>7. FieldsTell' /\ ReadersWaitForWriters'
    BY <1>1, <1>3, <1>4, <1>5 DEF LockInv, FieldsTell, ReadersWaitForWriters
  <1>8. MutualExclusion'
    BY <1>1, <1>2 DEF LockInv, MutualExclusion, In
  <1>9. NoLostWakeup'
    <2>1. In({"reading", "writing"})' # {}
      BY <1>1, <1>2 DEF In
    <2> QED
      BY <2>1 DEF NoLostWakeup
  <1> QED
    BY <1>6, <1>7, <1>8, <1>9 DEF LockInv

\* A woken writer enters, or waits for whoever came first.
LEMMA WriteResumeInv ==
    ASSUME LockInv, NEW t \in Thread, WriteResume(t)
    PROVE  LockInv'
  <1>1. /\ state \in [Thread -> States]
        /\ state[t] = "wAwake"
        /\ UNCHANGED <<m_r_count, m_w_count, writes>>
    BY DEF LockInv, TypeOK, WriteResume
  <1>2. \/ /\ state' = [state EXCEPT ![t] = "writing"]
           /\ m_w_status' = TRUE
           /\ In({"reading", "writing"}) = {}
        \/ /\ state' = [state EXCEPT ![t] = "wWait"]
           /\ m_w_status' = m_w_status
           /\ In({"reading", "writing"}) # {}
    BY Guards DEF WriteResume, Goto
  <1>3. /\ Readers' = Readers
        /\ Writers' = Writers
        /\ In({"rWait"})' = In({"rWait"})
    BY <1>1, <1>2 DEF Readers, Writers, In
  <1>4. m_w_status' <=> In({"writing"})' # {}
    BY <1>1, <1>2 DEF LockInv, FieldsTell, In
  <1>5. TypeOK'
    BY <1>1, <1>2 DEF LockInv, TypeOK, States
  <1>6. FieldsTell' /\ ReadersWaitForWriters'
    BY <1>1, <1>3, <1>4 DEF LockInv, FieldsTell, ReadersWaitForWriters
  <1>7. MutualExclusion'
    BY <1>1, <1>2 DEF LockInv, MutualExclusion, In
  <1>8. NoLostWakeup'
    <2>1. In({"reading", "writing"})' # {}
      BY <1>1, <1>2 DEF In
    <2> QED
      BY <2>1 DEF NoLostWakeup
  <1> QED
    BY <1>5, <1>6, <1>7, <1>8 DEF LockInv

\* A writer that leaves wakes the next one or, if it is the last, the readers.
LEMMA WriteExitInv ==
    ASSUME LockInv, NEW t \in Thread, WriteExit(t)
    PROVE  LockInv'
  <1>1. /\ state \in [Thread -> States]
        /\ state[t] = "writing"
        /\ m_w_count' = m_w_count - 1
        /\ m_w_status' = FALSE
        /\ UNCHANGED <<m_r_count, writes>>
        /\ m_r_count \in Nat /\ m_w_count \in Nat
        /\ t \in Writers
        /\ \A u \in Thread \ {t} : state[u] \notin {"reading", "writing"}
    BY Guards DEF LockInv, TypeOK, WriteExit, Writers, In, MutualExclusion
  <1>2. /\ state' \in [Thread -> States]
        /\ state'[t] = "out"
        /\ \A u \in Thread \ {t} :
              \/ state'[u] = state[u]
              \/ state[u] = "wWait" /\ state'[u] = "wAwake"
              \/ state[u] = "rWait" /\ state'[u] = "rAwake"
        /\ m_w_count' = 0 => In({"rWait"})' = {}
        /\ m_w_count' # 0 => (In({"wWait"})' = {} \/ In({"wAwake"})' # {})
    <2>1. CASE m_w_count' = 0
      <3>1. state' = [u \in Thread |-> IF u = t THEN "out"
                                       ELSE IF state[u] = "rWait" THEN "rAwake"
                                       ELSE state[u]]
        BY <2>1 DEF WriteExit, LeaveNotifyingReaders
      <3>2. In({"rWait"})' = {}
        BY <3>1 DEF In
      <3> QED
        BY <1>1, <2>1, <3>1, <3>2 DEF States
    <2>2. CASE m_w_count' # 0
      BY <1>1, <2>2, LeaveNotifyingWriterMoves DEF WriteExit
    <2> QED
      BY <2>1, <2>2
  <1>3. /\ Readers' = {} /\ Readers = {}
        /\ Writers' = Writers \ {t}
        /\ In({"writing"})' = {}
        /\ In({"rWait"})' \subseteq In({"rWait"})
    BY <1>1, <1>2 DEF Readers, Writers, In
  <1>4. m_w_count' = Cardinality(Writers')
    BY <1>1, <1>3, Subsets, RemoveThread DEF LockInv, FieldsTell
  <1>5. m_w_count' \in Nat
    BY <1>3, <1>4, Subsets, ThreadSets
  <1>6. TypeOK'
    BY <1>1, <1>2, <1>5 DEF LockInv, TypeOK
  <1>7. FieldsTell'
    BY <1>1, <1>3, <1>4 DEF LockInv, FieldsTell
  <1>8. ReadersWaitForWriters'
    BY <1>2, <1>5 DEF ReadersWaitForWriters
  <1>9. MutualExclusion'
    BY <1>1, <1>2 DEF MutualExclusion
  <1>10. NoLostWakeup'
    <2>1. CASE m_w_count' = 0
      <3>1. Writers' = {}
        BY <1>3, <1>4, <2>1, Subsets, ThreadSets
      <3>2. In({"wWait"})' = {} /\ In({"rWait"})' = {}
        BY <1>2, <2>1, <3>1 DEF Writers, In
      <3> QED
        BY <3>2 DEF NoLostWakeup
    <2>2. CASE m_w_count' # 0
      <3>1. Writers' # {}
        BY <1>4, <2>2, FS_EmptySet
      <3>2. In({"wWait", "wAwake"})' # {}
        BY <1>3, <3>1 DEF Writers, In
      <3> QED
        BY <1>2, <2>2, <3>2 DEF NoLostWakeup
    <2> QED
      BY <2>1, <2>2
  <1> QED
    BY <1>6, <1>7, <1>8, <1>9, <1>10 DEF LockInv

\* A spurious wake-up disturbs nothing.
LEMMA SpuriousWakeInv ==
    ASSUME LockInv, NEW t \in Thread, SpuriousWake(t)
    PROVE  LockInv'
  <1>1. /\ state \in [Thread -> States]
        /\ \/ state[t] = "rWait" /\ state' = [state EXCEPT ![t] = "rAwake"]
           \/ state[t] = "wWait" /\ state' = [state EXCEPT ![t] = "wAwake"]
        /\ UNCHANGED <<m_r_count, m_w_count, m_w_status, writes>>
    BY DEF LockInv, TypeOK, SpuriousWake, Goto
  <1>2. /\ Readers' = Readers
        /\ Writers' = Writers
        /\ In({"writing"})' = In({"writing"})
        /\ In({"rWait"})' \subseteq In({"rWait"})
        /\ In({"wWait"})' \subseteq In({"wWait"})
        /\ In({"wAwake"}) \subseteq In({"wAwake"})'
        /\ In({"wWait", "wAwake"})' = In({"wWait", "wAwake"})
        /\ In({"reading", "writing"})' = In({"reading", "writing"})
    BY <1>1 DEF Readers, Writers, In
  <1>3. TypeOK'
    BY <1>1 DEF LockInv, TypeOK, States
  <1>4. FieldsTell' /\ ReadersWaitForWriters'
    BY <1>1, <1>2 DEF LockInv, FieldsTell, ReadersWaitForWriters
  <1>5. MutualExclusion'
    BY <1>1 DEF LockInv, MutualExclusion
  <1>6. NoLostWakeup'
    BY <1>2 DEF LockInv, NoLostWakeup
  <1> QED
    BY <1>3, <1>4, <1>5, <1>6 DEF LockInv

\* Every step preserves the invariant.
LEMMA LockNextInv == LockInv /\ [Next]_vars => LockInv'
  <1> SUFFICES ASSUME LockInv, [Next]_vars
               PROVE  LockInv'
    OBVIOUS
  <1>1. CASE UNCHANGED vars
    BY <1>1
    DEF vars, LockInv, TypeOK, FieldsTell, Readers, Writers, In, ReadersWaitForWriters,
        MutualExclusion, NoLostWakeup
  <1>2. ASSUME NEW t \in Thread,
               \/ ReadEnter(t) \/ ReadWait(t) \/ ReadExit(t) \/ WriteCall(t)
               \/ WriteResume(t) \/ WriteExit(t) \/ SpuriousWake(t)
        PROVE  LockInv'
    BY <1>2, ReadEnterInv, ReadWaitInv, ReadExitInv, WriteCallInv, WriteResumeInv,
       WriteExitInv, SpuriousWakeInv
  <1> QED
    BY <1>1, <1>2 DEF Next

\* The invariant holds throughout.
LEMMA LockInvHolds == Spec => []LockInv
  BY LockInitInv, LockNextInv, PTL DEF Spec

----------------------------------------------------------------------------
\* Type correctness: the counts never go below zero.
THEOREM LockTypeCorrect == Spec => []TypeOK
  <1>1. LockInv => TypeOK
    BY DEF LockInv
  <1> QED
    BY <1>1, LockInvHolds, PTL

\* Whoever subscribes is alone in the bus, for any number of threads.
THEOREM LockExcludes == Spec => []MutualExclusion
  <1>1. LockInv => MutualExclusion
    BY DEF LockInv
  <1> QED
    BY <1>1, LockInvHolds, PTL

\* No wake-up is lost, for any number of threads.
THEOREM LockWakes == Spec => []NoLostWakeup
  <1>1. LockInv => NoLostWakeup
    BY DEF LockInv
  <1> QED
    BY <1>1, LockInvHolds, PTL

\* No reader comes in while a writer is there or has announced itself.
THEOREM LockPrefersWriters == Spec => WritersPreferred
  <1> DEFINE P == \A t \in Thread :
                     state[t] # "reading" /\ state'[t] = "reading" =>
                         In({"wWait", "wAwake", "writing"}) = {}
  <1>1. LockInv /\ [Next]_vars => [P]_vars
    <2> SUFFICES ASSUME LockInv, Next, NEW t \in Thread,
                        state[t] # "reading", state'[t] = "reading"
                 PROVE  In({"wWait", "wAwake", "writing"}) = {}
      OBVIOUS
    <2>1. PICK u \in Thread :
             \/ ReadEnter(u) \/ ReadWait(u) \/ ReadExit(u) \/ WriteCall(u)
             \/ WriteResume(u) \/ WriteExit(u) \/ SpuriousWake(u)
      BY DEF Next
    <2>2. state \in [Thread -> States]
      BY DEF LockInv, TypeOK
    <2>3. CASE ReadEnter(u)
      BY <2>3, Guards DEF ReadEnter, Writers
    <2>4. CASE ReadExit(u) \/ WriteExit(u)
      <3>1. LeaveNotifyingWriter(u) \/ LeaveNotifyingReaders(u) \/ Goto(u, "out")
        BY <2>4 DEF ReadExit, WriteExit
      <3>2. state[u] \in {"reading", "writing"}
        BY <2>4 DEF ReadExit, WriteExit
      <3>3. state'[t] # "reading"
        BY <2>2, <3>1, <3>2, LeaveNotifyingWriterMoves DEF LeaveNotifyingReaders, Goto
      <3> QED
        BY <3>3
    <2>5. CASE ReadWait(u) \/ WriteCall(u) \/ WriteResume(u) \/ SpuriousWake(u)
      BY <2>2, <2>5 DEF ReadWait, WriteCall, WriteResume, SpuriousWake, Goto
    <2> QED
      BY <2>1, <2>3, <2>4, <2>5
  <1> QED
    BY <1>1, LockInvHolds, PTL DEF Spec, WritersPreferred
----------------------------------------------------------------------------
(***************************************************************************)
(* The bus.                                                                *)
(***************************************************************************)

\* Whatever the bus does with its lock, the lock's specification allows.
THEOREM BusUsesLock == BusSpec => Spec
  <1>1. BusInit => Init
    BY DEF BusInit
  <1>2. [BusNext]_busVars => [Next]_vars
    BY DEF BusNext, busVars, Wait, Publish, Call, Published, Subscribe, Unsubscribe, Next
  <1> QED
    BY <1>1, <1>2, PTL DEF BusSpec, Spec

\* The lock's types and exclusion hold in the bus.
LEMMA BusIsExclusive == BusSpec => [](TypeOK /\ MutualExclusion)
  BY BusUsesLock, LockTypeCorrect, LockExcludes, PTL

\* Nor does the bus lose a wake-up of its lock, or let a publisher in before a
\* thread that waits to subscribe.
THEOREM BusKeepsLockPromises == BusSpec => []NoLostWakeup /\ WritersPreferred
  BY BusUsesLock, LockWakes, LockPrefersWriters, PTL

\* No step makes a thread that did not call publish() a reader.
LEMMA OnlyPublishersRead ==
    ASSUME TypeOK, NEW t \in Thread, NEW u \in Thread, state'[u] = "reading",
           \/ ReadWait(t) \/ SpuriousWake(t) \/ WriteCall(t)
           \/ WriteResume(t) \/ ReadExit(t) \/ WriteExit(t)
    PROVE  state[u] = "reading" /\ u # t
  <1>1. state \in [Thread -> States]
    BY DEF TypeOK
  <1>2. CASE ReadWait(t) \/ SpuriousWake(t)
    BY <1>1, <1>2 DEF ReadWait, SpuriousWake, Goto
  <1>3. CASE WriteCall(t) \/ WriteResume(t)
    BY <1>1, <1>3 DEF WriteCall, WriteResume, Goto
  <1>4. CASE ReadExit(t) \/ WriteExit(t)
    <2>1. \/ LeaveNotifyingWriter(t)
          \/ LeaveNotifyingReaders(t)
          \/ Goto(t, "out")
      BY <1>4 DEF ReadExit, WriteExit
    <2>2. CASE LeaveNotifyingWriter(t)
      <3>1. CASE Goto(t, "out")
        BY <1>1, <3>1 DEF Goto
      <3>2. CASE \E w \in In({"wWait"}) :
                    state' = [state EXCEPT ![t] = "out", ![w] = "wAwake"]
        BY <1>1, <3>2 DEF In
      <3> QED
        BY <2>2, <3>1, <3>2 DEF LeaveNotifyingWriter
    <2>3. CASE LeaveNotifyingReaders(t)
      BY <1>1, <2>3 DEF LeaveNotifyingReaders
    <2>4. CASE Goto(t, "out")
      BY <1>1, <2>4 DEF Goto
    <2> QED
      BY <2>1, <2>2, <2>3, <2>4
  <1> QED
    BY <1>2, <1>3, <1>4

\* The inductive part: the types of the bus's own state, and what its
\* publishers have still to call.
BusInv ==
    /\ m_msg_invokers \in [Topic -> SUBSET Subscription]
    /\ it \in [Thread -> [topic : Topic, left : SUBSET Subscription]]
    /\ called \in [Thread -> SUBSET Subscription]
    /\ EverySubscriberOnce

\* Nobody publishes initially.
LEMMA BusInitInv == BusInit => BusInv
  BY TopicAssumption DEF BusInit, BusInv, EverySubscriberOnce, BusInit

\* A new publisher has everything to call.
LEMMA PublishInv ==
    ASSUME BusInv, TypeOK, NEW t \in Thread, Publish(t)
    PROVE  BusInv'
  <1>1. PICK topic \in Topic :
           it' = [it EXCEPT ![t] = [topic |-> topic, left |-> m_msg_invokers[topic]]]
    BY DEF Publish
  <1>2. /\ called' = [called EXCEPT ![t] = {}]
        /\ m_msg_invokers' = m_msg_invokers
        /\ state' = [state EXCEPT ![t] = "reading"]
    BY DEF Publish, ReadEnter, Goto
  <1>3. /\ it' \in [Thread -> [topic : Topic, left : SUBSET Subscription]]
        /\ called' \in [Thread -> SUBSET Subscription]
        /\ m_msg_invokers' \in [Topic -> SUBSET Subscription]
    BY <1>1, <1>2 DEF BusInv
  <1>4. EverySubscriberOnce'
    <2> SUFFICES ASSUME NEW u \in Thread, state'[u] = "reading"
                 PROVE  /\ called'[u] \union it'[u].left = m_msg_invokers[it'[u].topic]
                        /\ called'[u] \intersect it'[u].left = {}
      BY <1>2 DEF EverySubscriberOnce
    <2>1. CASE u = t
      BY <1>1, <1>2, <2>1 DEF BusInv
    <2>2. CASE u # t
      <3>1. state[u] = "reading"
        BY <1>2, <2>2 DEF TypeOK
      <3> QED
        BY <1>1, <1>2, <2>2, <3>1 DEF BusInv, EverySubscriberOnce
    <2> QED
      BY <2>1, <2>2
  <1> QED
    BY <1>3, <1>4 DEF BusInv

\* A call moves a subscription from those left to those called.
LEMMA CallInv ==
    ASSUME BusInv, NEW t \in Thread, Call(t)
    PROVE  BusInv'
  <1>1. PICK s \in it[t].left :
           /\ called' = [called EXCEPT ![t] = @ \union {s}]
           /\ it' = [it EXCEPT ![t].left = @ \ {s}]
    BY DEF Call
  <1>2. state' = state /\ m_msg_invokers' = m_msg_invokers
    BY DEF Call, vars
  <1>3. /\ it' \in [Thread -> [topic : Topic, left : SUBSET Subscription]]
        /\ called' \in [Thread -> SUBSET Subscription]
    BY <1>1 DEF BusInv
  <1>4. \A u \in Thread : it'[u].topic = it[u].topic
    BY <1>1 DEF BusInv
  <1>5. \A u \in Thread : u # t => it'[u] = it[u] /\ called'[u] = called[u]
    BY <1>1 DEF BusInv
  <1>6. it'[t].left = it[t].left \ {s} /\ called'[t] = called[t] \union {s}
    BY <1>1 DEF BusInv
  <1> QED
    BY <1>2, <1>3, <1>4, <1>5, <1>6 DEF BusInv, EverySubscriberOnce

\* Who changes the table is alone in the bus.
LEMMA WriterInv ==
    ASSUME BusInv, TypeOK, MutualExclusion, NEW t \in Thread,
           Subscribe(t) \/ Unsubscribe(t)
    PROVE  BusInv'
  <1>1. WriteExit(t) /\ it' = it /\ called' = called
    BY DEF Subscribe, Unsubscribe
  <1>2. \A u \in Thread : state'[u] # "reading"
    <2> SUFFICES ASSUME NEW u \in Thread, state'[u] = "reading"
                 PROVE  FALSE
      OBVIOUS
    <2>1. state[u] = "reading" /\ u # t
      BY <1>1, OnlyPublishersRead
    <2>2. state[t] = "writing"
      BY <1>1 DEF WriteExit
    <2> QED
      BY <2>1, <2>2 DEF MutualExclusion
  <1>3. m_msg_invokers' \in [Topic -> SUBSET Subscription]
    BY DEF Subscribe, Unsubscribe, BusInv
  <1> QED
    BY <1>1, <1>2, <1>3 DEF BusInv, EverySubscriberOnce

\* Every step keeps it, the lock excluding writers from publishers.
LEMMA BusNextInv == BusInv /\ TypeOK /\ MutualExclusion /\ [BusNext]_busVars => BusInv'
  <1> SUFFICES ASSUME BusInv, TypeOK, MutualExclusion, [BusNext]_busVars
               PROVE  BusInv'
    OBVIOUS
  <1>1. CASE UNCHANGED busVars
    BY <1>1 DEF busVars, vars, Bus, BusInv, EverySubscriberOnce
  <1>2. ASSUME NEW t \in Thread, Wait(t) \/ Published(t)
        PROVE  BusInv'
    <2>1. m_msg_invokers' = m_msg_invokers /\ it' = it /\ called' = called
      BY <1>2 DEF Wait, Published, Bus
    <2>2. \A u \in Thread : state'[u] = "reading" => state[u] = "reading"
      BY <1>2, OnlyPublishersRead DEF Wait, Published
    <2> QED
      BY <2>1, <2>2 DEF BusInv, EverySubscriberOnce
  <1> QED
    BY <1>1, <1>2, PublishInv, CallInv, WriterInv DEF BusNext

\* It holds throughout.
LEMMA BusInvHolds == BusSpec => []BusInv
  BY BusInitInv, BusNextInv, BusIsExclusive, PTL DEF BusSpec

\* Type correctness of the bus and its lock.
THEOREM BusTypeCorrect == BusSpec => []BusTypeOK
  <1>1. BusInv /\ TypeOK => BusTypeOK
    BY DEF BusInv, BusTypeOK
  <1> QED
    BY <1>1, BusInvHolds, BusIsExclusive, PTL

\* A publication calls every subscription of its topic once, whoever
\* subscribes or unsubscribes meanwhile.
THEOREM BusCallsEverySubscriberOnce == BusSpec => []EverySubscriberOnce
  <1>1. BusInv => EverySubscriberOnce
    BY DEF BusInv
  <1> QED
    BY <1>1, BusInvHolds, PTL
=============================================================================
