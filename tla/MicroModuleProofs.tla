------------------------- MODULE MicroModuleProofs -------------------------
(***************************************************************************)
(* MicroModule implements Mailbox, for every queue limit and every number  *)
(* of calls of send(); its own safety properties; what Mailbox promises;   *)
(* and what the module inherits from it.                                   *)
(***************************************************************************)
EXTENDS MicroModule, TLAPS

(***************************************************************************)
(* What push(), front() and pop() do to the messages a queue holds, for    *)
(* every set of messages and every content of the queue.                   *)
(***************************************************************************)

\* Membership in Elements, without the union.
LEMMA ElementsMember ==
    ASSUME NEW q, NEW m
    PROVE  m \in Elements(q) <=> \E p \in Priority : \E i \in DOMAIN q[p] : q[p][i] = m
  BY DEF Elements

\* Every message in a typed queue has the queue's type.
LEMMA ElementsType ==
    ASSUME NEW Msg, NEW q \in QueuesOf(Msg)
    PROVE  Elements(q) \subseteq Msg
  BY ElementsMember DEF QueuesOf

\* A new queue has the type, is empty, and holds nothing.
LEMMA NewQueueIsEmpty ==
    ASSUME NEW Msg
    PROVE  /\ NewQueue \in QueuesOf(Msg)
           /\ IsEmpty(NewQueue)
           /\ Size(NewQueue) = 0
           /\ Elements(NewQueue) = {}
  <1>1. NewQueue \in QueuesOf(Msg) /\ IsEmpty(NewQueue) /\ Size(NewQueue) = 0
    BY DEF NewQueue, QueuesOf, IsEmpty, Size, Priority
  <1>2. \A p \in Priority : DOMAIN NewQueue[p] = {}
    BY DEF NewQueue
  <1> QED
    BY <1>1, <1>2, ElementsMember

\* empty(), size() and the messages held tell the same story.
LEMMA EmptyQueue ==
    ASSUME NEW Msg, NEW q \in QueuesOf(Msg)
    PROVE  /\ Size(q) \in Nat
           /\ IsEmpty(q) <=> Size(q) = 0
           /\ IsEmpty(q) => Elements(q) = {} /\ q = NewQueue
  <1>1. Size(q) \in Nat /\ (IsEmpty(q) <=> Size(q) = 0)
    BY DEF QueuesOf, Size, IsEmpty, Priority
  <1>2. ASSUME IsEmpty(q)
        PROVE  Elements(q) = {} /\ q = NewQueue
    <2>1. q = NewQueue
      BY <1>2 DEF IsEmpty, NewQueue, QueuesOf
    <2> QED
      BY <2>1, NewQueueIsEmpty
  <1> QED
    BY <1>1, <1>2

\* The size of a queue changes by what the length of one of its three
\* sequences changes.
LEMMA SizeChange ==
    ASSUME NEW q, NEW r, NEW p \in Priority, NEW d \in Int,
           \A h \in Priority : Len(q[h]) \in Nat,
           \A h \in Priority : Len(r[h]) = IF h = p THEN Len(q[h]) + d ELSE Len(q[h])
    PROVE  Size(r) = Size(q) + d
  <1> DEFINE n(h) == Len(q[h])
  <1>1. PICK a \in Nat, b \in Nat, c \in Nat : a = n(0) /\ b = n(1) /\ c = n(2)
    BY DEF Priority
  <1>2. Size(q) = a + b + c
    BY <1>1 DEF Size
  <1>3. /\ n(0) = a /\ n(1) = b /\ n(2) = c
        /\ 0 \in Priority /\ 1 \in Priority /\ 2 \in Priority
    BY <1>1 DEF Priority
  <1>4. PICK x \in Int, y \in Int, z \in Int :
           /\ x = Len(r[0]) /\ y = Len(r[1]) /\ z = Len(r[2])
           /\ x = IF 0 = p THEN a + d ELSE a
           /\ y = IF 1 = p THEN b + d ELSE b
           /\ z = IF 2 = p THEN c + d ELSE c
    <2>1. Len(r[0]) = IF 0 = p THEN a + d ELSE a
      BY <1>3, Zenon
    <2>2. Len(r[1]) = IF 1 = p THEN b + d ELSE b
      BY <1>3
    <2>3. Len(r[2]) = IF 2 = p THEN c + d ELSE c
      BY <1>3
    <2>4. /\ (IF 0 = p THEN a + d ELSE a) \in Int
          /\ (IF 1 = p THEN b + d ELSE b) \in Int
          /\ (IF 2 = p THEN c + d ELSE c) \in Int
      OBVIOUS
    <2> QED
      BY <2>1, <2>2, <2>3, <2>4
  <1>5. Size(r) = x + y + z
    BY <1>4 DEF Size
  <1>6. p = 0 \/ p = 1 \/ p = 2
    BY DEF Priority
  <1>7. x + y + z = (a + b + c) + d
    BY <1>4, <1>6
  <1> QED
    BY <1>2, <1>5, <1>7

\* push() adds its message to those held, and nothing else.
LEMMA PushAdds ==
    ASSUME NEW Msg, NEW q \in QueuesOf(Msg), NEW m \in Msg, NEW p \in Priority
    PROVE  /\ Push(q, m, p) \in QueuesOf(Msg)
           /\ Size(Push(q, m, p)) = Size(q) + 1
           /\ Elements(Push(q, m, p)) = Elements(q) \cup {m}
  <1> DEFINE r == Push(q, m, p)
  <1>1. r \in QueuesOf(Msg)
    BY DEF Push, QueuesOf
  <1>2. Size(r) = Size(q) + 1
    <2>1. Len(r[p]) = Len(q[p]) + 1 /\ \A h \in Priority \ {p} : r[h] = q[h]
      BY DEF Push, QueuesOf
    <2>2. \A h \in Priority : Len(q[h]) \in Nat
      BY DEF QueuesOf
    <2>3. \A h \in Priority : Len(r[h]) = IF h = p THEN Len(q[h]) + 1 ELSE Len(q[h])
      BY <2>1
    <2> HIDE DEF r
    <2> QED
      BY <2>2, <2>3, SizeChange
  <1>3. ASSUME NEW x
        PROVE  x \in Elements(r) <=> x \in Elements(q) \/ x = m
    <2>1. \A h \in Priority \ {p} : r[h] = q[h]
      BY DEF Push, QueuesOf
    <2>2. r[p] = Append(q[p], m) /\ q[p] \in Seq(Msg)
      BY DEF Push, QueuesOf
    <2>3. (\E i \in DOMAIN r[p] : r[p][i] = x) <=> (\E i \in DOMAIN q[p] : q[p][i] = x) \/ x = m
      <3>1. /\ DOMAIN r[p] = 1..(Len(q[p]) + 1)
            /\ DOMAIN q[p] = 1..Len(q[p])
            /\ \A i \in 1..Len(q[p]) : r[p][i] = q[p][i]
            /\ r[p][Len(q[p]) + 1] = m
            /\ Len(q[p]) \in Nat
        BY <2>2
      <3> QED
        BY <3>1, SMTT(30)
    <2> QED
      BY <2>1, <2>3, ElementsMember
  <1> QED
    BY <1>1, <1>2, <1>3

\* front() looks at the first queue that is not empty.
LEMMA TopIsFirst ==
    ASSUME NEW Msg, NEW q \in QueuesOf(Msg), ~ IsEmpty(q)
    PROVE  /\ Top(q) \in Priority
           /\ q[Top(q)] # <<>>
           /\ \A h \in Priority : h < Top(q) => q[h] = <<>>
           /\ Front(q) \in Elements(q)
           /\ Front(q) \in Msg
           /\ Front(q) = q[Top(q)][1]
  <1>1. \E p \in Priority : q[p] # <<>> /\ \A h \in Priority : h < p => q[h] = <<>>
    BY DEF IsEmpty, Priority
  <1>2. /\ Top(q) \in Priority
        /\ q[Top(q)] # <<>>
        /\ \A h \in Priority : h < Top(q) => q[h] = <<>>
    BY <1>1 DEF Top
  <1>3. q[Top(q)] \in Seq(Msg)
    BY <1>2 DEF QueuesOf
  <1>4. /\ Front(q) = q[Top(q)][1]
        /\ 1 \in DOMAIN q[Top(q)]
        /\ Front(q) \in Msg
    BY <1>2, <1>3 DEF Front
  <1> QED
    BY <1>2, <1>4, ElementsMember

\* pop() takes out the front message and keeps the order of the others.
LEMMA PopRemovesFront ==
    ASSUME NEW Msg, NEW q \in QueuesOf(Msg), ~ IsEmpty(q)
    PROVE  /\ Pop(q) \in QueuesOf(Msg)
           /\ Size(Pop(q)) = Size(q) - 1
           /\ Elements(q) = Elements(Pop(q)) \cup {Front(q)}
           /\ \A p \in Priority \ {Top(q)} : Pop(q)[p] = q[p]
           /\ Pop(q)[Top(q)] = Tail(q[Top(q)])
  <1> DEFINE t == Top(q)
             r == Pop(q)
  <1>1. t \in Priority /\ q[t] # <<>> /\ q[t] \in Seq(Msg) /\ Front(q) = q[t][1]
    BY TopIsFirst, Zenon DEF QueuesOf
  <1>2. (\A p \in Priority \ {t} : r[p] = q[p]) /\ r[t] = Tail(q[t])
    BY <1>1 DEF Pop, QueuesOf
  <1>3. r \in QueuesOf(Msg)
    BY <1>1, <1>2 DEF Pop, QueuesOf
  <1>4. Size(r) = Size(q) - 1
    <2>1. Len(r[t]) = Len(q[t]) - 1
      BY <1>1, <1>2
    <2>2. \A p \in Priority : Len(q[p]) \in Nat
      BY DEF QueuesOf
    <2>3. \A h \in Priority : Len(r[h]) = IF h = t THEN Len(q[h]) + (-1) ELSE Len(q[h])
      BY <1>1, <1>2, <2>1, <2>2
    <2> HIDE DEF r, t
    <2>4. Size(r) = Size(q) + (-1)
      BY <1>1, <2>2, <2>3, SizeChange
    <2> QED
      BY <2>4, EmptyQueue
  <1>5. ASSUME NEW x
        PROVE  x \in Elements(q) <=> x \in Elements(r) \/ x = Front(q)
    <2>1. /\ DOMAIN q[t] = 1..Len(q[t])
          /\ DOMAIN r[t] = 1..(Len(q[t]) - 1)
          /\ Len(q[t]) \in Nat \ {0}
          /\ \A i \in 1..(Len(q[t]) - 1) : r[t][i] = q[t][i + 1]
      BY <1>1, <1>2
    <2>2. (\E i \in DOMAIN q[t] : q[t][i] = x) <=> (\E i \in DOMAIN r[t] : r[t][i] = x) \/ x = q[t][1]
      <3> HIDE DEF r, t
      <3>1. ASSUME NEW i \in DOMAIN q[t], q[t][i] = x, x # q[t][1]
            PROVE  \E j \in DOMAIN r[t] : r[t][j] = x
        <4>1. i - 1 \in 1..(Len(q[t]) - 1) /\ (i - 1) + 1 = i
          <5>1. i \in 1..Len(q[t]) /\ i # 1
            BY <2>1, <3>1
          <5> QED
            BY <2>1, <5>1
        <4>2. i - 1 \in DOMAIN r[t] /\ r[t][i - 1] = q[t][i]
          BY <2>1, <4>1
        <4> QED
          BY <4>2, <3>1
      <3>2. ASSUME NEW i \in DOMAIN r[t], r[t][i] = x
            PROVE  \E j \in DOMAIN q[t] : q[t][j] = x
        <4>1. i + 1 \in DOMAIN q[t] /\ r[t][i] = q[t][i + 1]
          BY <2>1, <3>2
        <4> QED
          BY <4>1, <3>2
      <3>3. 1 \in DOMAIN q[t]
        BY <2>1
      <3> QED
        BY <3>1, <3>2, <3>3
    <2>3. x \in Elements(r) <=> \E p \in Priority : \E i \in DOMAIN r[p] : r[p][i] = x
      BY ElementsMember
    <2>4. x \in Elements(q) <=> \E p \in Priority : \E i \in DOMAIN q[p] : q[p][i] = x
      BY ElementsMember
    <2> DEFINE InQ(p) == \E i \in DOMAIN q[p] : q[p][i] = x
               InR(p) == \E i \in DOMAIN r[p] : r[p][i] = x
    <2>5. \A p \in Priority \ {t} : InQ(p) <=> InR(p)
      BY <1>2
    <2>6. InQ(t) <=> InR(t) \/ x = Front(q)
      BY <1>1, <2>2
    <2>7. x \in Elements(r) <=> \E p \in Priority : InR(p)
      BY <2>3
    <2>8. x \in Elements(q) <=> \E p \in Priority : InQ(p)
      BY <2>4
    <2> HIDE DEF r, t, InQ, InR
    <2> QED
      BY <1>1, <2>5, <2>6, <2>7, <2>8
  <1> QED
    BY <1>2, <1>3, <1>4, <1>5

----------------------------------------------------------------------------
(***************************************************************************)
(* The inductive invariant.  The refinement needs the shape of the queues: *)
(* each message sits in the queue of its priority, a queue is sorted by    *)
(* rank, the send queue is generation swaps and the worker queue the one   *)
(* before.                                                                 *)
(***************************************************************************)
Sorted(q) ==
    \A p \in Priority :
        /\ \A i \in DOMAIN q[p] : q[p][i].pri = p /\ q[p][i].id <= accepted
        /\ \A i, j \in DOMAIN q[p] : i < j => q[p][i].id < q[p][j].id

GenerationOf(q, g) == \A m \in Elements(q) : m.gen = g

SendQueueInv ==
    /\ Size(m_send_queue) <= Capacity
    /\ Sorted(m_send_queue)
    /\ GenerationOf(m_send_queue, swaps)

WorkerQueueInv ==
    /\ Sorted(m_worker_queue)
    /\ GenerationOf(m_worker_queue, swaps - 1)
    /\ WorkerQueueEmptyOutsideBatch
    /\ PopsWhatItHandled

StopInv ==
    /\ StopTakesAtMostOneMoreBatch
    /\ m_exited /\ worker \in {"wait", "idle"} => swaps <= swapsAtStop
    /\ stopper = "returned" => m_exited /\ worker \in {"idle", "check", "done"}
    /\ stopper = "joining" => m_exited

Inv == TypeOK /\ SendQueueInv /\ WorkerQueueInv /\ StopInv

\* The invariant holds of a module that has just been built.
LEMMA InitInv == Init => Inv
  <1> SUFFICES ASSUME Init
               PROVE  Inv
    OBVIOUS
  <1>1. /\ NewQueue \in QueuesOf(Message)
        /\ IsEmpty(NewQueue)
        /\ Size(NewQueue) = 0
        /\ Elements(NewQueue) = {}
    BY NewQueueIsEmpty
  <1>2. \A p \in Priority : NewQueue[p] = <<>>
    BY DEF NewQueue
  <1>3. TypeOK
    <2>1. sends \in 0..MaxSends /\ accepted \in 0..sends /\ swaps \in Nat /\ swapsAtStop \in Nat
      BY MaxSendsAssumption DEF Init
    <2>2. handled \in Seq(Message)
      BY DEF Init
    <2> QED
      BY <1>1, <2>1, <2>2 DEF Init, TypeOK
  <1>4. SendQueueInv
    BY <1>1, <1>2, CapacityAssumption DEF Init, SendQueueInv, Sorted, GenerationOf
  <1>5. WorkerQueueInv
    BY <1>1, <1>2
    DEF Init, WorkerQueueInv, Sorted, GenerationOf, WorkerQueueEmptyOutsideBatch, PopsWhatItHandled
  <1>6. StopInv
    BY DEF Init, StopInv, StopTakesAtMostOneMoreBatch
  <1> QED
    BY <1>3, <1>4, <1>5, <1>6 DEF Inv

\* Numbers, from the types.
LEMMA Types ==
    ASSUME TypeOK
    PROVE  /\ accepted \in Nat /\ swaps \in Nat /\ swapsAtStop \in Nat /\ sends \in Nat
           /\ \A m \in Message : m.id \in Nat /\ m.gen \in Nat /\ m.pri \in Priority /\ m.pri \in Int
           /\ \A p \in Priority :
                 /\ m_send_queue[p] \in Seq(Message)
                 /\ m_worker_queue[p] \in Seq(Message)
  BY MaxSendsAssumption DEF TypeOK, Message, QueuesOf, Priority

----------------------------------------------------------------------------
(***************************************************************************)
(* Each action preserves the invariant.                                    *)
(***************************************************************************)

\* A queue that stays sorted while the ranks grow.
LEMMA SortedMonotone ==
    ASSUME NEW q \in QueuesOf(Message), TypeOK, TypeOK', accepted' >= accepted, Sorted(q)
    PROVE  \A p \in Priority :
               /\ \A i \in DOMAIN q[p] : q[p][i].pri = p /\ q[p][i].id <= accepted'
               /\ \A i, j \in DOMAIN q[p] : i < j => q[p][i].id < q[p][j].id
  <1> SUFFICES ASSUME NEW p \in Priority, NEW i \in DOMAIN q[p]
               PROVE  q[p][i].id <= accepted'
    BY DEF Sorted
  <1>1. q[p][i] \in Message
    BY DEF QueuesOf
  <1>2. q[p][i].id \in Nat
    BY <1>1 DEF Message
  <1>3. accepted \in Nat /\ accepted' \in Nat
    BY MaxSendsAssumption DEF TypeOK
  <1> QED
    BY <1>2, <1>3 DEF Sorted

\* A message accepted goes behind those of its priority.
LEMMA SendAcceptInv ==
    ASSUME Inv, NEW p \in Priority, SendAccept(p)
    PROVE  Inv'
  <1> DEFINE new == NewMessage(p)
  <1>1. accepted \in Nat /\ swaps \in Nat /\ sends \in Nat /\ sends < MaxSends
    BY Types DEF Inv, SendAccept
  <1>2. new \in Message /\ new.id = accepted + 1 /\ new.pri = p /\ new.gen = swaps
    BY <1>1 DEF Message, NewMessage
  <1>3. /\ m_send_queue' = Push(m_send_queue, new, p)
        /\ m_send_queue \in QueuesOf(Message)
        /\ m_worker_queue' = m_worker_queue
        /\ accepted' = accepted + 1 /\ sends' = sends + 1 /\ swaps' = swaps
        /\ worker' = worker /\ msg' = msg /\ m_exited' = m_exited
        /\ stopper' = stopper /\ swapsAtStop' = swapsAtStop
        /\ Size(m_send_queue) < Capacity
    BY DEF SendAccept, Inv, TypeOK
  <1> HIDE DEF new
  <1>4. /\ m_send_queue' \in QueuesOf(Message)
        /\ Size(m_send_queue') = Size(m_send_queue) + 1
        /\ Elements(m_send_queue') = Elements(m_send_queue) \cup {new}
    BY <1>2, <1>3, PushAdds
  <1>5. TypeOK'
    BY <1>1, <1>3, <1>4, MaxSendsAssumption DEF SendAccept, Inv, TypeOK
  <1>6. SendQueueInv'
    <2>1. Size(m_send_queue') <= Capacity
      BY <1>3, <1>4, EmptyQueue, CapacityAssumption
    <2>2. Sorted(m_send_queue)'
      <3>1. \A h \in Priority \ {p} : m_send_queue'[h] = m_send_queue[h]
        BY <1>3 DEF Push, QueuesOf
      <3>2. /\ m_send_queue[p] \in Seq(Message)
            /\ m_send_queue'[p] = Append(m_send_queue[p], new)
        BY <1>3 DEF Push, QueuesOf
      <3>3. /\ DOMAIN m_send_queue[p] = 1..Len(m_send_queue[p])
            /\ DOMAIN m_send_queue'[p] = 1..(Len(m_send_queue[p]) + 1)
            /\ Len(m_send_queue[p]) \in Nat
            /\ \A i \in DOMAIN m_send_queue[p] : m_send_queue'[p][i] = m_send_queue[p][i]
            /\ m_send_queue'[p][Len(m_send_queue[p]) + 1] = new
        BY <1>2, <3>2
      <3>4. \A h \in Priority :
               /\ \A i \in DOMAIN m_send_queue[h] :
                     m_send_queue[h][i].pri = h /\ m_send_queue[h][i].id <= accepted'
               /\ \A i, j \in DOMAIN m_send_queue[h] :
                     i < j => m_send_queue[h][i].id < m_send_queue[h][j].id
        BY <1>1, <1>3, <1>5, SortedMonotone DEF Inv, SendQueueInv
      <3>5. \A i \in DOMAIN m_send_queue[p] : m_send_queue[p][i].id < new.id
        <4>1. \A i \in DOMAIN m_send_queue[p] :
                 m_send_queue[p][i].id \in Nat /\ m_send_queue[p][i].id <= accepted
          BY <3>2, Types DEF Inv, SendQueueInv, Sorted
        <4> QED
          BY <1>1, <1>2, <4>1
      <3>6. ASSUME NEW h \in Priority
            PROVE  /\ \A i \in DOMAIN m_send_queue'[h] :
                        m_send_queue'[h][i].pri = h /\ m_send_queue'[h][i].id <= accepted'
                   /\ \A i, j \in DOMAIN m_send_queue'[h] :
                        i < j => m_send_queue'[h][i].id < m_send_queue'[h][j].id
        <4>1. CASE h # p
          BY <3>1, <3>4, <4>1
        <4>2. CASE h = p
          <5>1. \A i \in DOMAIN m_send_queue'[p] :
                   m_send_queue'[p][i].pri = p /\ m_send_queue'[p][i].id <= accepted'
            BY <1>1, <1>2, <1>3, <3>3, <3>4
          <5>2. \A i, j \in DOMAIN m_send_queue'[p] :
                   i < j => m_send_queue'[p][i].id < m_send_queue'[p][j].id
            BY <3>3, <3>4, <3>5
          <5> QED
            BY <4>2, <5>1, <5>2
        <4> QED
          BY <4>1, <4>2
      <3> QED
        BY <3>6 DEF Sorted
    <2>3. GenerationOf(m_send_queue, swaps)'
      BY <1>2, <1>3, <1>4 DEF Inv, SendQueueInv, GenerationOf
    <2> QED
      BY <2>1, <2>2, <2>3 DEF SendQueueInv
  <1>7. WorkerQueueInv'
    <2>1. Sorted(m_worker_queue)'
      BY <1>1, <1>3, <1>5, SortedMonotone DEF Inv, TypeOK, WorkerQueueInv, Sorted
    <2>2. GenerationOf(m_worker_queue, swaps - 1)'
      BY <1>3 DEF Inv, WorkerQueueInv, GenerationOf
    <2> QED
      BY <1>3, <2>1, <2>2
      DEF Inv, WorkerQueueInv, WorkerQueueEmptyOutsideBatch, PopsWhatItHandled
  <1>8. StopInv'
    BY <1>3 DEF Inv, StopInv, StopTakesAtMostOneMoreBatch
  <1> QED
    BY <1>5, <1>6, <1>7, <1>8 DEF Inv

\* The queues and the ranks are untouched: what is left is the worker's place.
LEMMA QueuesUnchanged ==
    ASSUME Inv, UNCHANGED <<m_send_queue, m_worker_queue, accepted, swaps>>
    PROVE  /\ SendQueueInv'
           /\ Sorted(m_worker_queue)'
           /\ GenerationOf(m_worker_queue, swaps - 1)'
  BY DEF Inv, SendQueueInv, WorkerQueueInv, Sorted, GenerationOf

\* A swap hands the senders an empty queue; the sealed generation is the batch.
LEMMA SwapQueuesInv ==
    ASSUME Inv, SwapQueues
    PROVE  Inv'
  <1>1. /\ worker = "wait" /\ worker' = "drain"
        /\ m_send_queue' = m_worker_queue /\ m_worker_queue' = m_send_queue
        /\ swaps' = swaps + 1 /\ swaps \in Nat /\ swapsAtStop \in Nat
        /\ accepted' = accepted /\ m_exited' = m_exited
        /\ stopper' = stopper /\ swapsAtStop' = swapsAtStop
    BY Types DEF SwapQueues, Inv
  <1>2. /\ m_worker_queue \in QueuesOf(Message)
        /\ IsEmpty(m_worker_queue)
        /\ Size(m_worker_queue) = 0
        /\ Elements(m_worker_queue) = {}
    BY <1>1, EmptyQueue
    DEF Inv, TypeOK, WorkerQueueInv, WorkerQueueEmptyOutsideBatch
  <1>3. TypeOK'
    BY <1>1 DEF SwapQueues, Inv, TypeOK
  <1>4. SendQueueInv'
    BY <1>1, <1>2, CapacityAssumption
    DEF Inv, SendQueueInv, WorkerQueueInv, Sorted, GenerationOf
  <1>5. WorkerQueueInv'
    <2>1. swaps' - 1 = swaps
      BY <1>1
    <2> QED
      BY <1>1, <2>1
      DEF Inv, SendQueueInv, WorkerQueueInv, Sorted, GenerationOf,
          WorkerQueueEmptyOutsideBatch, PopsWhatItHandled
  <1>6. StopInv'
    BY <1>1 DEF Inv, StopInv, StopTakesAtMostOneMoreBatch
  <1> QED
    BY <1>3, <1>4, <1>5, <1>6 DEF Inv

\* The handler sees the front message of the batch.
LEMMA InvokeInv ==
    ASSUME Inv, Invoke
    PROVE  Inv'
  <1>1. /\ m_worker_queue \in QueuesOf(Message)
        /\ ~ IsEmpty(m_worker_queue)
        /\ msg' = Front(m_worker_queue)
        /\ UNCHANGED <<m_send_queue, m_worker_queue, accepted, swaps>>
        /\ worker = "drain" /\ worker' = "invoke"
        /\ UNCHANGED <<m_exited, stopper, sends, swapsAtStop, handled>>
    BY DEF Invoke, Inv, TypeOK
  <1>2. Front(m_worker_queue) \in Message
    BY <1>1, TopIsFirst
  <1>3. TypeOK'
    BY <1>1, <1>2 DEF Inv, TypeOK
  <1>4. WorkerQueueInv'
    BY <1>1, QueuesUnchanged
    DEF WorkerQueueInv, WorkerQueueEmptyOutsideBatch, PopsWhatItHandled
  <1>5. StopInv'
    BY <1>1 DEF Inv, StopInv, StopTakesAtMostOneMoreBatch
  <1> QED
    BY <1>1, <1>3, <1>4, <1>5, QueuesUnchanged DEF Inv

\* Popping leaves the rest of the batch sorted and of the same generation.
LEMMA PopHandledInv ==
    ASSUME Inv, PopHandled
    PROVE  Inv'
  <1> DEFINE q == m_worker_queue
             t == Top(m_worker_queue)
  <1>1. /\ q \in QueuesOf(Message)
        /\ ~ IsEmpty(q)
        /\ msg = Front(q)
        /\ worker = "invoke" /\ worker' = "drain"
        /\ m_worker_queue' = Pop(q)
        /\ handled' = Append(handled, msg)
        /\ UNCHANGED <<m_send_queue, m_exited, msg, stopper, sends, accepted, swaps, swapsAtStop>>
    BY DEF PopHandled, Inv, TypeOK, WorkerQueueInv, PopsWhatItHandled
  <1>2. /\ t \in Priority /\ q[t] # <<>> /\ q[t] \in Seq(Message)
        /\ Front(q) \in Message
    BY <1>1, TopIsFirst DEF QueuesOf
  <1>3. /\ Pop(q) \in QueuesOf(Message)
        /\ Elements(q) = Elements(Pop(q)) \cup {Front(q)}
        /\ \A p \in Priority \ {t} : Pop(q)[p] = q[p]
        /\ Pop(q)[t] = Tail(q[t])
    BY <1>1, PopRemovesFront
  <1> HIDE DEF q, t
  <1>4. TypeOK'
    <2>1. handled' \in Seq(Message)
      BY <1>1, <1>2 DEF Inv, TypeOK
    <2> QED
      BY <1>1, <1>3, <2>1 DEF Inv, TypeOK
  <1>5. SendQueueInv'
    BY <1>1 DEF Inv, SendQueueInv, Sorted, GenerationOf
  <1>6. WorkerQueueInv'
    <2>1. Sorted(q)
      BY DEF Inv, WorkerQueueInv, q
    <2>2. /\ DOMAIN q[t] = 1..Len(q[t])
          /\ DOMAIN Pop(q)[t] = 1..(Len(q[t]) - 1)
          /\ Len(q[t]) \in Nat \ {0}
          /\ \A i \in 1..(Len(q[t]) - 1) : Pop(q)[t][i] = q[t][i + 1] /\ i + 1 \in 1..Len(q[t])
      BY <1>2, <1>3
    <2>3. ASSUME NEW p \in Priority
          PROVE  /\ \A i \in DOMAIN Pop(q)[p] : Pop(q)[p][i].pri = p /\ Pop(q)[p][i].id <= accepted
                 /\ \A i, j \in DOMAIN Pop(q)[p] : i < j => Pop(q)[p][i].id < Pop(q)[p][j].id
      <3>1. CASE p # t
        BY <1>3, <2>1, <3>1 DEF Sorted
      <3>2. CASE p = t
        <4>1. \A i \in DOMAIN Pop(q)[t] : Pop(q)[t][i].pri = t /\ Pop(q)[t][i].id <= accepted
          BY <1>2, <2>1, <2>2 DEF Sorted
        <4>2. \A i, j \in DOMAIN Pop(q)[t] : i < j => Pop(q)[t][i].id < Pop(q)[t][j].id
          <5> SUFFICES ASSUME NEW i \in DOMAIN Pop(q)[t], NEW j \in DOMAIN Pop(q)[t], i < j
                       PROVE  Pop(q)[t][i].id < Pop(q)[t][j].id
            OBVIOUS
          <5>1. /\ i + 1 \in DOMAIN q[t] /\ j + 1 \in DOMAIN q[t] /\ i + 1 < j + 1
                /\ Pop(q)[t][i] = q[t][i + 1] /\ Pop(q)[t][j] = q[t][j + 1]
            BY <2>2, SMTT(30)
          <5>2. \A k, l \in DOMAIN q[t] : k < l => q[t][k].id < q[t][l].id
            BY <1>2, <2>1 DEF Sorted
          <5>3. q[t][i + 1].id < q[t][j + 1].id
            BY <5>1, <5>2
          <5> QED
            BY <5>1, <5>3, Zenon
        <4> QED
          BY <3>2, <4>1, <4>2
      <3> QED
        BY <3>1, <3>2
    <2>4. Sorted(m_worker_queue)'
      BY <1>1, <2>3 DEF Sorted
    <2>5. GenerationOf(m_worker_queue, swaps - 1)'
      BY <1>1, <1>3 DEF Inv, WorkerQueueInv, GenerationOf, q
    <2> QED
      BY <1>1, <2>4, <2>5
         DEF WorkerQueueInv, WorkerQueueEmptyOutsideBatch, PopsWhatItHandled
  <1>7. StopInv'
    BY <1>1 DEF Inv, StopInv, StopTakesAtMostOneMoreBatch
  <1> QED
    BY <1>4, <1>5, <1>6, <1>7 DEF Inv

\* The remaining actions leave the queues, the ranks and msg alone.
LEMMA OtherInv ==
    ASSUME Inv,
           SendRefuse \/ Start \/ Stop \/ Join \/ CheckExit \/ WaitTimeout \/ BatchDone
    PROVE  Inv'
  <1>1. /\ UNCHANGED <<m_send_queue, m_worker_queue, accepted, swaps, msg, handled>>
        /\ swaps \in Nat
    BY Types
    DEF Inv, SendRefuse, Start, Stop, Join, CheckExit, WaitTimeout, BatchDone
  <1>2. SendQueueInv' /\ Sorted(m_worker_queue)' /\ GenerationOf(m_worker_queue, swaps - 1)'
    BY <1>1, QueuesUnchanged
  <1>3. CASE SendRefuse
    <2>1. TypeOK'
      BY <1>1, <1>3, MaxSendsAssumption DEF SendRefuse, Inv, TypeOK
    <2>2. WorkerQueueInv'
      BY <1>2, <1>3
      DEF SendRefuse, Inv, WorkerQueueInv, WorkerQueueEmptyOutsideBatch, PopsWhatItHandled
    <2>3. StopInv'
      BY <1>3 DEF SendRefuse, Inv, StopInv, StopTakesAtMostOneMoreBatch
    <2> QED
      BY <1>2, <2>1, <2>2, <2>3 DEF Inv
  <1>4. CASE Start \/ Stop \/ Join
    <2>1. TypeOK'
      BY <1>1, <1>4 DEF Start, Stop, Join, Inv, TypeOK
    <2>2. WorkerQueueInv'
      BY <1>2, <1>4
      DEF Start, Stop, Join, Inv, WorkerQueueInv, WorkerQueueEmptyOutsideBatch, PopsWhatItHandled
    <2>3. StopInv'
      BY <1>1, <1>4 DEF Start, Stop, Join, Inv, TypeOK, StopInv, StopTakesAtMostOneMoreBatch
    <2> QED
      BY <1>2, <2>1, <2>2, <2>3 DEF Inv
  <1>5. CASE CheckExit \/ WaitTimeout \/ BatchDone
    <2>1. TypeOK'
      BY <1>1, <1>5 DEF CheckExit, WaitTimeout, BatchDone, Inv, TypeOK
    <2>2. WorkerQueueInv'
      BY <1>2, <1>5
      DEF CheckExit, WaitTimeout, BatchDone, Inv, WorkerQueueInv,
          WorkerQueueEmptyOutsideBatch, PopsWhatItHandled
    <2>3. StopInv'
      BY <1>1, <1>5
      DEF CheckExit, WaitTimeout, BatchDone, Inv, StopInv, StopTakesAtMostOneMoreBatch
    <2> QED
      BY <1>2, <2>1, <2>2, <2>3 DEF Inv
  <1> QED
    BY <1>3, <1>4, <1>5

\* The invariant is inductive.
LEMMA NextInv == Inv /\ [Next]_vars => Inv'
  <1> SUFFICES ASSUME Inv, [Next]_vars
               PROVE  Inv'
    OBVIOUS
  <1>1. CASE \E p \in Priority : SendAccept(p)
    BY <1>1, SendAcceptInv
  <1>2. CASE SendRefuse \/ Start \/ Stop \/ Join \/ CheckExit \/ WaitTimeout \/ BatchDone
    BY <1>2, OtherInv
  <1>3. CASE SwapQueues
    BY <1>3, SwapQueuesInv
  <1>4. CASE Invoke
    BY <1>4, InvokeInv
  <1>5. CASE PopHandled
    BY <1>5, PopHandledInv
  <1>6. CASE UNCHANGED vars
    BY <1>6
    DEF vars, Inv, TypeOK, SendQueueInv, WorkerQueueInv, StopInv, Sorted, GenerationOf,
        WorkerQueueEmptyOutsideBatch, PopsWhatItHandled, StopTakesAtMostOneMoreBatch
  <1> QED
    BY <1>1, <1>2, <1>3, <1>4, <1>5, <1>6 DEF Next, Worker

\* It therefore holds always.
LEMMA InvHolds == Spec => []Inv
  BY InitInv, NextInv, PTL DEF Spec

----------------------------------------------------------------------------
(***************************************************************************)
(* Theorems about the module itself.                                       *)
(***************************************************************************)

\* The types hold, whatever the queue limit and the number of calls.
THEOREM TypeCorrect == Spec => []TypeOK
  <1>1. Inv => TypeOK
    BY DEF Inv
  <1> QED
    BY <1>1, InvHolds, PTL

\* The assertion of run() (module.hpp) never fails: the worker queue is empty
\* when the queues are swapped.
THEOREM SwapAssertionHolds == Spec => []WorkerQueueEmptyOutsideBatch
  <1>1. Inv => WorkerQueueEmptyOutsideBatch
    BY DEF Inv, WorkerQueueInv
  <1> QED
    BY <1>1, InvHolds, PTL

\* pop() removes the message that was handled, whoever sends meanwhile.
THEOREM PopIsRight == Spec => []PopsWhatItHandled
  <1>1. Inv => PopsWhatItHandled
    BY DEF Inv, WorkerQueueInv
  <1> QED
    BY <1>1, InvHolds, PTL

\* stop() lets at most one more batch begin.
THEOREM StopBound == Spec => []StopTakesAtMostOneMoreBatch
  <1>1. Inv => StopTakesAtMostOneMoreBatch
    BY DEF Inv, StopInv
  <1> QED
    BY <1>1, InvHolds, PTL

\* Once stop() has returned no handler runs.
THEOREM QuietAfterStop == Spec => NothingHandledAfterStop
  <1>1. Inv /\ [Next]_vars => [stopper = "returned" => UNCHANGED handled]_vars
    <2> SUFFICES ASSUME Inv, [Next]_vars, stopper = "returned"
                 PROVE  UNCHANGED handled
      OBVIOUS
    <2>1. worker # "invoke"
      BY DEF Inv, StopInv
    <2> QED
      BY <2>1
      DEF Next, Worker, vars, SendAccept, SendRefuse, Start, Stop, Join, CheckExit,
          WaitTimeout, SwapQueues, Invoke, PopHandled, BatchDone
  <1> QED
    BY <1>1, InvHolds, PTL DEF Spec, NothingHandledAfterStop

----------------------------------------------------------------------------
(***************************************************************************)
(* The refinement.                                                         *)
(***************************************************************************)
Pending == Elements(m_send_queue) \cup Elements(m_worker_queue)

\* A new module is an empty mailbox.
LEMMA InitRefines == Init => Promise!Init
  <1>1. Size(NewQueue) = 0 /\ Elements(NewQueue) = {}
    BY NewQueueIsEmpty
  <1> QED
    BY <1>1 DEF Init, Promise!Init

\* An accepted call of send() is Accept.
LEMMA SendAcceptRefines ==
    ASSUME Inv, NEW p \in Priority, SendAccept(p)
    PROVE  Promise!Accept(p)
  <1> DEFINE new == NewMessage(p)
  <1>1. new \in Message
    BY Types DEF Inv, Message, NewMessage
  <1>2. /\ Size(m_send_queue') = Size(m_send_queue) + 1
        /\ Elements(m_send_queue') = Elements(m_send_queue) \cup {new}
    BY <1>1, PushAdds DEF SendAccept, Inv, TypeOK
  <1> QED
    BY <1>2 DEF SendAccept, NewMessage, Promise!Accept

\* A swap is Seal.
LEMMA SwapQueuesRefines ==
    ASSUME Inv, SwapQueues
    PROVE  Promise!Seal
  <1>1. m_send_queue \in QueuesOf(Message) /\ m_worker_queue \in QueuesOf(Message)
    BY DEF Inv, TypeOK
  <1>2. Size(m_worker_queue) = 0 /\ Elements(m_worker_queue) = {}
    BY <1>1, EmptyQueue
    DEF SwapQueues, Inv, WorkerQueueInv, WorkerQueueEmptyOutsideBatch
  <1>3. Size(m_send_queue) > 0
    BY <1>1, EmptyQueue DEF SwapQueues
  <1>4. \A m \in Elements(m_send_queue) \cup Elements(m_worker_queue) : m.gen = swaps
    BY <1>2 DEF Inv, SendQueueInv, GenerationOf
  <1> QED
    BY <1>2, <1>3, <1>4 DEF SwapQueues, Promise!Seal

\* Popping is Handle of the message that comes before all the others: the
\* send queue holds a later generation, and the front of a sorted queue of the
\* most urgent non-empty priority precedes the rest of the batch.
LEMMA PopHandledRefines ==
    ASSUME Inv, PopHandled
    PROVE  msg \in Pending /\ Promise!Handle(msg)
  <1> DEFINE q == m_worker_queue
             t == Top(m_worker_queue)
  <1>1. /\ q \in QueuesOf(Message)
        /\ m_send_queue \in QueuesOf(Message)
        /\ ~ IsEmpty(q)
        /\ msg = Front(q)
        /\ m_worker_queue' = Pop(q)
        /\ swaps \in Nat
        /\ handled' = Append(handled, msg)
        /\ UNCHANGED <<m_send_queue, msg, accepted, swaps>>
    BY Types DEF PopHandled, Inv, TypeOK, WorkerQueueInv, PopsWhatItHandled
  <1>2. /\ t \in Priority
        /\ q[t] # <<>>
        /\ \A h \in Priority : h < t => q[h] = <<>>
        /\ Front(q) \in Elements(q)
        /\ Front(q) = q[t][1]
        /\ q[t] \in Seq(Message)
    BY <1>1, TopIsFirst DEF QueuesOf
  <1>3. /\ Elements(q) = Elements(Pop(q)) \cup {Front(q)}
        /\ \A p \in Priority \ {t} : Pop(q)[p] = q[p]
        /\ Pop(q)[t] = Tail(q[t])
    BY <1>1, PopRemovesFront
  <1>4. /\ Sorted(q)
        /\ \A m \in Elements(q) : m.gen = swaps - 1
        /\ \A m \in Elements(m_send_queue) : m.gen = swaps
    BY DEF Inv, SendQueueInv, WorkerQueueInv, GenerationOf
  <1> HIDE DEF q, t
  <1>5. 1 \in DOMAIN q[t] /\ msg.pri = t /\ msg.gen = swaps - 1
    BY <1>1, <1>2, <1>4 DEF Sorted
  <1>6. ASSUME NEW x \in Elements(q), x # msg
        PROVE  Promise!Before(msg, x)
    <2>1. PICK p \in Priority : \E i \in DOMAIN q[p] : q[p][i] = x
      BY <1>6, ElementsMember
    <2>2. PICK i \in DOMAIN q[p] : q[p][i] = x
      BY <2>1
    <2>3. x.pri = p /\ x.gen = swaps - 1
      BY <1>4, <2>2 DEF Sorted
    <2>4. ~ (p < t)
      BY <1>1, <1>2, <2>2 DEF QueuesOf
    <2>5. CASE p = t
      <3>1. i # 1 /\ i \in DOMAIN q[t] /\ 1 < i
        BY <1>1, <1>2, <1>6, <2>2, <2>5
      <3>2. msg.id < x.id
        BY <1>1, <1>2, <1>4, <1>5, <2>2, <2>5, <3>1 DEF Sorted
      <3> QED
        BY <1>5, <2>3, <2>5, <3>2 DEF Promise!Before
    <2>6. CASE p # t
      <3>1. t < p
        BY <1>2, <2>4, <2>6 DEF Priority
      <3> QED
        BY <1>5, <2>3, <3>1 DEF Promise!Before
    <2> QED
      BY <2>5, <2>6
  <1>7. ASSUME NEW x \in Elements(m_send_queue)
        PROVE  Promise!Before(msg, x) /\ x # msg
    BY <1>1, <1>4, <1>5 DEF Promise!Before
  <1>8. msg \notin Elements(Pop(q))
    <2> SUFFICES ASSUME msg \in Elements(Pop(q))
                 PROVE  FALSE
      OBVIOUS
    <2>1. PICK p \in Priority : \E i \in DOMAIN Pop(q)[p] : Pop(q)[p][i] = msg
      BY ElementsMember
    <2>2. PICK i \in DOMAIN Pop(q)[p] : Pop(q)[p][i] = msg
      BY <2>1
    <2>3. CASE p # t
      BY <1>3, <1>4, <1>5, <2>2, <2>3 DEF Sorted
    <2>4. CASE p = t
      <3>1. i + 1 \in DOMAIN q[t] /\ 1 < i + 1 /\ q[t][i + 1] = msg
        <4>1. /\ DOMAIN q[t] = 1..Len(q[t])
              /\ DOMAIN Pop(q)[t] = 1..(Len(q[t]) - 1)
              /\ Len(q[t]) \in Nat \ {0}
              /\ \A k \in 1..(Len(q[t]) - 1) : Pop(q)[t][k] = q[t][k + 1]
          BY <1>2, <1>3
        <4>2. i \in 1..(Len(q[t]) - 1) /\ Pop(q)[t][i] = msg
          BY <2>2, <2>4, <4>1
        <4> QED
          BY <4>1, <4>2
      <3>2. msg.id < msg.id
        BY <1>1, <1>2, <1>4, <1>5, <3>1 DEF Sorted
      <3>3. msg.id \in Nat
        BY <1>1, <1>2, ElementsType, Types DEF Inv
      <3> QED
        BY <3>2, <3>3
    <2> QED
      BY <2>3, <2>4
  <1>9. msg \in Pending
    BY <1>1, <1>2 DEF Pending, q
  <1>10. (Elements(m_send_queue) \cup Elements(m_worker_queue))'
            = (Elements(m_send_queue) \cup Elements(m_worker_queue)) \ {msg}
    BY <1>1, <1>3, <1>7, <1>8 DEF q
  <1>11. msg.gen < swaps
    BY <1>1, <1>5
  <1>12. Promise!Handle(msg)
    BY <1>1, <1>6, <1>7, <1>10, <1>11 DEF Promise!Handle, q
  <1> QED
    BY <1>9, <1>12

\* Every step of the module is a step of the mailbox or changes nothing in it.
LEMMA NextRefines == Inv /\ [Next]_vars => [Promise!Next]_(Promise!vars)
  <1> SUFFICES ASSUME Inv, [Next]_vars
               PROVE  Promise!Next \/ UNCHANGED Promise!vars
    OBVIOUS
  <1>1. ASSUME NEW p \in Priority, SendAccept(p)
        PROVE  Promise!Next
    BY <1>1, SendAcceptRefines DEF Promise!Next, Promise!Priority, Priority
  <1>2. CASE SendRefuse \/ Start \/ Stop \/ Join \/ CheckExit \/ WaitTimeout \/ BatchDone \/ Invoke
    BY <1>2
    DEF SendRefuse, Start, Stop, Join, CheckExit, WaitTimeout, BatchDone, Invoke, Promise!vars
  <1>3. CASE SwapQueues
    BY <1>3, SwapQueuesRefines DEF Promise!Next
  <1>4. CASE PopHandled
    BY <1>4, PopHandledRefines DEF Promise!Next, Pending
  <1>5. CASE UNCHANGED vars
    BY <1>5 DEF vars, Promise!vars
  <1> QED
    BY <1>1, <1>2, <1>3, <1>4, <1>5 DEF Next, Worker

\* A module implements the mailbox, for every queue limit.
THEOREM Implementation == Spec => ImplementsMailbox
  BY InitRefines, NextRefines, InvHolds, PTL DEF Spec, ImplementsMailbox, Promise!Spec

----------------------------------------------------------------------------
(***************************************************************************)
(* What the mailbox promises, for every capacity and number of messages.   *)
(* Its inductive invariant: that the next message comes after those that   *)
(* have been handled needs Ahead, and Ahead needs the generations to be    *)
(* ordered; conservation needs ids that are never given out twice.         *)
(***************************************************************************)
Generations ==
    /\ \A m \in Pending : m.gen <= swaps
    /\ \A i \in DOMAIN handled : handled[i].gen < swaps

Ahead ==
    \A i \in DOMAIN handled : \A m \in Pending : Promise!Before(handled[i], m)

Ids ==
    /\ \A m \in Pending : m.id <= accepted
    /\ \A i \in DOMAIN handled : handled[i].id <= accepted
    /\ \A m, n \in Pending : m.id = n.id => m = n
    /\ \A i \in DOMAIN handled : \A m \in Pending : handled[i].id # m.id

Conserved ==
    \A k \in 1..accepted :
        (\E m \in Pending : m.id = k) \/ (\E i \in DOMAIN handled : handled[i].id = k)

MailboxInv ==
    /\ Promise!TypeOK
    /\ Promise!HandledInOrder
    /\ Generations
    /\ Ahead
    /\ Ids
    /\ Conserved

\* The invariant holds of an empty mailbox.
LEMMA MailboxInitInv == Promise!Init => MailboxInv
  BY DEF Promise!Init, MailboxInv, Promise!TypeOK, Promise!HandledInOrder, Generations,
         Ahead, Ids, Conserved, Pending

\* A message, pending or handled, has numbers for its id and generation.
LEMMA MailboxNumbers ==
    ASSUME Promise!TypeOK
    PROVE  /\ \A m \in Pending : m.id \in Nat /\ m.gen \in Nat
           /\ \A i \in DOMAIN handled : handled[i].id \in Nat /\ handled[i].gen \in Nat
  <1>1. \A m \in Promise!Message : m.id \in Nat /\ m.gen \in Nat
    BY DEF Promise!Message
  <1>2. \A i \in DOMAIN handled : handled[i] \in Promise!Message
    BY DEF Promise!TypeOK, Pending
  <1>3. \A m \in Pending : m \in Promise!Message
    BY DEF Promise!TypeOK, Pending
  <1> QED
    BY <1>1, <1>2, <1>3

\* An accepted message gets a fresh id and belongs to the last generation.
LEMMA MailboxAcceptInv ==
    ASSUME MailboxInv, NEW p \in Promise!Priority, Promise!Accept(p)
    PROVE  MailboxInv'
  <1> DEFINE new == [id |-> accepted + 1, pri |-> p, gen |-> swaps]
  <1>1. /\ new \in Promise!Message
        /\ new.id = accepted + 1 /\ new.gen = swaps
        /\ Pending' = Pending \cup {new}
        /\ handled' = handled /\ swaps' = swaps /\ accepted' = accepted + 1
        /\ accepted \in Nat /\ swaps \in Nat
        /\ Pending \subseteq Promise!Message /\ handled \in Seq(Promise!Message)
    BY DEF Promise!Accept, MailboxInv, Promise!TypeOK, Promise!Message, Pending
  <1> HIDE DEF new
  <1>2. Promise!TypeOK'
    BY <1>1 DEF Promise!Accept, MailboxInv, Promise!TypeOK, Pending
  <1>3. Promise!HandledInOrder'
    BY <1>1 DEF MailboxInv, Promise!HandledInOrder, Promise!Before
  <1>4. Generations'
    BY <1>1 DEF MailboxInv, Generations
  <1>5. Ahead'
    BY <1>1 DEF MailboxInv, Generations, Ahead, Promise!Before
  <1>6. Ids'
    <2>1. \A m \in Pending' : m.id \in Nat
      BY <1>1 DEF Promise!Message
    <2>2. \A i \in DOMAIN handled : handled[i].id \in Nat
      BY MailboxNumbers DEF MailboxInv
    <2> QED
      BY <1>1, <2>1, <2>2 DEF MailboxInv, Ids
  <1>7. Conserved'
    BY <1>1 DEF MailboxInv, Conserved
  <1> QED
    BY <1>2, <1>3, <1>4, <1>5, <1>6, <1>7 DEF MailboxInv

\* Sealing changes no message.
LEMMA MailboxSealInv ==
    ASSUME MailboxInv, Promise!Seal
    PROVE  MailboxInv'
  <1>1. /\ swaps' = swaps + 1 /\ swaps \in Nat
        /\ Pending' = Pending /\ handled' = handled /\ accepted' = accepted
        /\ \A m \in Pending : m.gen \in Nat
        /\ \A i \in DOMAIN handled : handled[i].gen \in Nat
    BY MailboxNumbers DEF Promise!Seal, MailboxInv, Promise!TypeOK, Pending
  <1>2. Promise!TypeOK'
    BY <1>1 DEF Promise!Seal, MailboxInv, Promise!TypeOK, Pending
  <1>3. Promise!HandledInOrder' /\ Ahead' /\ Ids' /\ Conserved'
    BY <1>1 DEF MailboxInv, Promise!HandledInOrder, Ahead, Ids, Conserved, Promise!Before
  <1>4. Generations'
    BY <1>1 DEF MailboxInv, Generations
  <1> QED
    BY <1>2, <1>3, <1>4 DEF MailboxInv

\* The message handled precedes all that stay pending.
LEMMA MailboxHandleInv ==
    ASSUME MailboxInv, NEW h \in Pending, Promise!Handle(h)
    PROVE  MailboxInv'
  <1>1. /\ h.gen < swaps
        /\ \A x \in Pending \ {h} : Promise!Before(h, x)
        /\ Pending' = Pending \ {h}
        /\ handled' = Append(handled, h)
        /\ swaps' = swaps /\ Size(m_send_queue)' = Size(m_send_queue) /\ accepted' = accepted
        /\ Pending \subseteq Promise!Message /\ h \in Promise!Message
        /\ handled \in Seq(Promise!Message)
    BY DEF Promise!Handle, MailboxInv, Promise!TypeOK, Pending
  <1>2. /\ handled' \in Seq(Promise!Message)
        /\ DOMAIN handled = 1..Len(handled)
        /\ DOMAIN handled' = 1..(Len(handled) + 1)
        /\ Len(handled) \in Nat
        /\ \A i \in DOMAIN handled : handled'[i] = handled[i]
        /\ handled'[Len(handled) + 1] = h
    BY <1>1
  <1>3. Promise!TypeOK'
    BY <1>1, <1>2 DEF MailboxInv, Promise!TypeOK, Pending
  <1>4. Promise!HandledInOrder'
    <2> SUFFICES ASSUME NEW i \in DOMAIN handled', NEW j \in DOMAIN handled', i < j
                 PROVE  Promise!Before(handled'[i], handled'[j])
      BY DEF Promise!HandledInOrder, Promise!Before
    <2>1. i \in DOMAIN handled
      BY <1>2
    <2>2. CASE j \in DOMAIN handled
      BY <1>2, <2>1, <2>2 DEF MailboxInv, Promise!HandledInOrder
    <2>3. CASE j = Len(handled) + 1
      BY <1>1, <1>2, <2>1, <2>3 DEF MailboxInv, Ahead
    <2> QED
      BY <1>2, <2>2, <2>3
  <1>5. Generations'
    BY <1>1, <1>2 DEF MailboxInv, Generations
  <1>6. Ahead'
    <2> SUFFICES ASSUME NEW i \in DOMAIN handled', NEW m \in Pending \ {h}
                 PROVE  Promise!Before(handled'[i], m)
      BY <1>1 DEF Ahead, Promise!Before
    <2>1. CASE i \in DOMAIN handled
      BY <1>2, <2>1 DEF MailboxInv, Ahead
    <2>2. CASE i = Len(handled) + 1
      BY <1>1, <1>2, <2>2
    <2> QED
      BY <1>2, <2>1, <2>2
  <1>7. Ids'
    BY <1>1, <1>2 DEF MailboxInv, Ids
  <1>8. Conserved'
    <2> SUFFICES ASSUME NEW k \in 1..accepted
                 PROVE  \/ \E m \in Pending' : m.id = k
                        \/ \E i \in DOMAIN handled' : handled'[i].id = k
      BY <1>1 DEF Conserved
    <2>1. CASE h.id = k
      BY <1>2, <2>1
    <2>2. CASE \E m \in Pending \ {h} : m.id = k
      BY <1>1, <2>2
    <2>3. CASE \E i \in DOMAIN handled : handled[i].id = k
      BY <1>2, <2>3
    <2> QED
      BY <2>1, <2>2, <2>3 DEF MailboxInv, Conserved
  <1> QED
    BY <1>3, <1>4, <1>5, <1>6, <1>7, <1>8 DEF MailboxInv

\* The invariant is inductive.
LEMMA MailboxNextInv == MailboxInv /\ [Promise!Next]_(Promise!vars) => MailboxInv'
  <1> SUFFICES ASSUME MailboxInv, [Promise!Next]_(Promise!vars)
               PROVE  MailboxInv'
    OBVIOUS
  <1>1. CASE \E p \in Promise!Priority : Promise!Accept(p)
    BY <1>1, MailboxAcceptInv
  <1>2. CASE Promise!Seal
    BY <1>2, MailboxSealInv
  <1>3. CASE \E m \in Pending : Promise!Handle(m)
    BY <1>3, MailboxHandleInv
  <1>4. CASE UNCHANGED Promise!vars
    BY <1>4
       DEF Promise!vars, MailboxInv, Promise!TypeOK, Promise!HandledInOrder, Generations,
           Ahead, Ids, Conserved, Promise!Before, Pending
  <1> QED
    BY <1>1, <1>2, <1>3, <1>4 DEF Promise!Next, Pending

\* It therefore holds always.
LEMMA MailboxInvHolds == Promise!Spec => []MailboxInv
  BY MailboxInitInv, MailboxNextInv, PTL DEF Promise!Spec

\* Whoever keeps the promise of Mailbox handles messages in the owed order.
THEOREM MailboxOrder == Promise!Spec => []Promise!HandledInOrder
  <1>1. MailboxInv => Promise!HandledInOrder
    BY DEF MailboxInv
  <1> QED
    BY <1>1, MailboxInvHolds, PTL

\* Whoever keeps the promise of Mailbox loses and duplicates no message.
THEOREM MailboxConservation == Promise!Spec => []Promise!EveryMessageAccountedFor
  <1>1. MailboxInv => Promise!EveryMessageAccountedFor
    BY DEF MailboxInv, Conserved, Ids, Promise!EveryMessageAccountedFor, Pending
  <1> QED
    BY <1>1, MailboxInvHolds, PTL

----------------------------------------------------------------------------
(***************************************************************************)
(* What the module inherits from the mailbox it implements.                *)
(***************************************************************************)

\* Handlers run in the owed order: batches in order, the urgent first inside a
\* batch, first come first served inside a priority; and none runs twice.
THEOREM ModuleHandledInOrder == Spec => []HandledInOrder
  BY Implementation, MailboxOrder, PTL DEF ImplementsMailbox, HandledInOrder

\* Every message send() accepted is queued or handled, never both.
THEOREM ModuleConservation == Spec => []EveryMessageAccountedFor
  BY Implementation, MailboxConservation, PTL
     DEF ImplementsMailbox, EveryMessageAccountedFor
============================================================================
