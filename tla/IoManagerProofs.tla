-------------------------- MODULE IoManagerProofs --------------------------
(***************************************************************************)
(* The queue and the reads of a connection are served by one thread at a   *)
(* time, and the peer gets whole messages, for every size of the queue and *)
(* of the messages, and any number of faults and reconnections, until a    *)
(* connection overtakes another; an active channel is read from also then. *)
(***************************************************************************)
EXTENDS IoManager, SequenceTheorems, FiniteSetTheorems, TLAPS

(***************************************************************************)
(* What holds in any case: somebody reads of an active channel, or what    *)
(* became of the read is known.                                            *)
(***************************************************************************)
ReadWaits(s) == \E i \in DOMAIN s : s[i].op = "read"
Broken(s) == \E i \in DOMAIN s : s[i] = "BROKEN"

ReadFrom ==
    m_state = "ACTIVE" =>
        \/ armed["read"] > 0 \/ ReadWaits(done) \/ ReadHandler
        \/ Broken(notices) \/ silenced \/ crashed

(***************************************************************************)
(* What holds until a connection overtakes another.  Whether a second      *)
(* reader or writer may come depends on what is left of the connection     *)
(* before: once the socket has been closed nothing is promised, and a new  *)
(* connection starts from nothing, or overtakes the old one.               *)
(***************************************************************************)

\* Everything is of its type, no more than one operation of a kind is under way,
\* and the peer has begun to get no more than one message.
Tight ==
    /\ sock \in {"closed", "connecting", "connected", "broken"}
    /\ armed \in [Op -> 0..1]
    /\ done \in Seq(Completion)
    /\ handler \in HandlerStep
    /\ transferred \in 0..MsgParts
    /\ silenced \in BOOLEAN
    /\ m_state \in {"ACTIVE", "INACTIVE"}
    /\ m_queue \in 0..MAX_QUEUE_SIZE
    /\ m_send_buf \in 0..MsgParts
    /\ wire \in 0..MsgParts
    /\ caller \in {"idle", "write", "async_write", "close", "clear", "reset"}
    /\ notices \in Seq({"SUCCESS", "FAILED", "BROKEN"})
    /\ crashed \in BOOLEAN
    /\ overtaken \in BOOLEAN
    /\ faults \in 0..MaxFaults
    /\ m_reconnectors \in BOOLEAN

Alive == sock \in {"connected", "broken"}

\* Who may do what, as long as the socket is what it is.
SocketTells ==
    /\ armed["connect"] = 1 <=> sock = "connecting"
    /\ ~Alive => armed["read"] = 0 /\ armed["write"] = 0 /\ m_state = "INACTIVE"
    /\ ~Alive /\ caller # "clear" => m_queue = 0
    /\ caller \in {"write", "async_write"} => Alive
    /\ caller \in {"close", "clear", "reset"} => m_state = "INACTIVE"
    /\ caller \in {"clear", "reset"} => sock = "closed"

\* Also while the channel is not active: its socket may still be connected.
OneOfEach ==
    Alive => Readers <= 1 /\ Writers <= 1 /\ (m_queue = 0 => Writers = 0)

\* A connection on_connect() is still to be told of starts from nothing.
NewConnection ==
    \A i \in DOMAIN done :
        done[i].op = "connect" /\ done[i].res = "ok" =>
            /\ \A j \in DOMAIN done \ {i} : ~Stale(done[j])
            /\ armed["read"] = 0 /\ armed["write"] = 0
            /\ handler = "idle"
            /\ caller \notin {"write", "async_write"}
            /\ m_state = "INACTIVE"
            /\ m_queue = 0 /\ wire = 0

\* The peer has what the send buffer has not; or the buffer is new.
Between == wire \in {0, MsgParts}
Ready ==
    /\ m_send_buf > 0
    /\ wire = MsgParts - m_send_buf \/ (m_send_buf = MsgParts /\ Between)
SentOf(parts) ==
    /\ m_send_buf > 0 /\ parts <= m_send_buf
    /\ wire = MsgParts - (m_send_buf - parts)

Sending ==
    \/ armed["write"] = 1
    \/ handler \in {"do_write", "async_write"}
    \/ caller = "async_write"

PartsTell ==
    /\ m_queue > 0 /\ Alive =>
        /\ Sending => Ready
        /\ \A i \in DOMAIN done :
              done[i].op = "write" /\ done[i].res = "ok" => SentOf(done[i].parts)
        /\ handler = "on_write" => SentOf(transferred)
        /\ caller = "write" => Between
    /\ m_queue = 0 /\ Alive => Between

\* Somebody serves the queue of an active channel, or it is about to be cleared.
Served ==
    m_state = "ACTIVE" /\ m_queue > 0 => Writers = 1 \/ BrokenComing

Core == SocketTells /\ OneOfEach /\ NewConnection /\ PartsTell /\ Served

\* Nothing follows a crash, which may come wherever on_connect(), read() or
\* on_write() throws.
OneReader == m_state = "ACTIVE" => Readers <= 1
Own == ~overtaken => Tight /\ IF crashed THEN QueueHasOneWriter /\ OneReader ELSE Core

Inv == TypeOK /\ ReadFrom /\ Own

----------------------------------------------------------------------------
(***************************************************************************)
(* Completions and notices, as they come and go.                           *)
(***************************************************************************)
CountIn(s, op) == Cardinality({i \in DOMAIN s : s[i].op = op})
Status == {"SUCCESS", "FAILED", "BROKEN"}

\* Places in a sequence are finitely many, so what is counted is a number.
LEMMA Places ==
    ASSUME NEW s \in Seq(Completion), NEW op
    PROVE  /\ IsFiniteSet({i \in DOMAIN s : s[i].op = op})
           /\ CountIn(s, op) \in Nat
           /\ CountIn(s, op) = 0 <=> \A i \in DOMAIN s : s[i].op # op
  <1> DEFINE I == {i \in DOMAIN s : s[i].op = op}
  <1>1. Len(s) \in Nat /\ DOMAIN s = 1..Len(s)
    BY LenProperties
  <1>2. IsFiniteSet(1..Len(s))
    BY <1>1, FS_Interval
  <1>3. IsFiniteSet(I)
    BY <1>1, <1>2, FS_Subset
  <1>4. Cardinality(I) \in Nat /\ (Cardinality(I) = 0 <=> I = {})
    BY <1>3, FS_CardinalityType, FS_EmptySet
  <1> QED
    BY <1>3, <1>4 DEF CountIn

\* One more completion is one more of its kind.
LEMMA CountAppend ==
    ASSUME NEW s \in Seq(Completion), NEW c \in Completion, NEW op
    PROVE  CountIn(Append(s, c), op) = CountIn(s, op) + (IF c.op = op THEN 1 ELSE 0)
  <1> DEFINE I == {i \in DOMAIN s : s[i].op = op}
             J == {i \in DOMAIN Append(s, c) : Append(s, c)[i].op = op}
  <1>1. /\ Len(s) \in Nat /\ DOMAIN s = 1..Len(s)
        /\ DOMAIN Append(s, c) = 1..(Len(s) + 1)
        /\ \A i \in 1..Len(s) : Append(s, c)[i] = s[i]
        /\ Append(s, c)[Len(s) + 1] = c
    BY LenProperties, AppendProperties
  <1>2. 1..(Len(s) + 1) = 1..Len(s) \union {Len(s) + 1} /\ Len(s) + 1 \notin 1..Len(s)
    BY <1>1
  <1>3. IsFiniteSet(I) /\ Cardinality(I) \in Nat
    BY Places DEF CountIn
  <1>4. CountIn(s, op) = Cardinality(I) /\ CountIn(Append(s, c), op) = Cardinality(J)
    BY DEF CountIn
  <1>5. c.op = op => J = I \union {Len(s) + 1} /\ Len(s) + 1 \notin I
    BY <1>1, <1>2
  <1>6. c.op # op => J = I
    BY <1>1, <1>2
  <1> HIDE DEF I, J
  <1>7. c.op = op => Cardinality(J) = Cardinality(I) + 1
    BY <1>3, <1>5, FS_AddElement
  <1> QED
    BY <1>3, <1>4, <1>6, <1>7

\* The first completion is one less of its kind when it is taken.
LEMMA CountTail ==
    ASSUME NEW s \in Seq(Completion), s # <<>>, NEW op
    PROVE  CountIn(s, op) = CountIn(Tail(s), op) + (IF Head(s).op = op THEN 1 ELSE 0)
  <1> DEFINE I == {i \in DOMAIN s : s[i].op = op}
             J == {i \in DOMAIN Tail(s) : Tail(s)[i].op = op}
             Next1 == [i \in J |-> i + 1]
  <1>1. /\ Len(s) \in Nat \ {0} /\ DOMAIN s = 1..Len(s) /\ Head(s) = s[1]
        /\ Tail(s) \in Seq(Completion)
        /\ DOMAIN Tail(s) = 1..(Len(s) - 1)
        /\ \A i \in 1..(Len(s) - 1) : Tail(s)[i] = s[i + 1]
    BY LenProperties, HeadTailProperties, EmptySeq
  <1>2. IsFiniteSet(I) /\ IsFiniteSet(J) /\ Cardinality(J) \in Nat
    <2>1. IsFiniteSet(I) /\ CountIn(s, op) \in Nat
      BY Places
    <2>2. IsFiniteSet(J) /\ CountIn(Tail(s), op) \in Nat
      BY <1>1, Places
    <2> QED
      BY <2>1, <2>2 DEF CountIn
  <1>3. Next1 \in Bijection(J, I \ {1})
    <2>1. \A i \in J : i + 1 \in I \ {1}
      BY <1>1
    <2>2. \A k \in I \ {1} : k - 1 \in J /\ (k - 1) + 1 = k
      BY <1>1
    <2>3. \A i, k \in J : i + 1 = k + 1 => i = k
      BY <1>1
    <2>4. Next1 \in [J -> I \ {1}]
      BY <2>1
    <2>5. Next1 \in Injection(J, I \ {1})
      BY <2>3, <2>4 DEF Injection, IsInjective
    <2>6. \A k \in I \ {1} : \E i \in J : Next1[i] = k
      BY <2>2
    <2>7. Next1 \in Surjection(J, I \ {1})
      BY <2>4, <2>6 DEF Surjection
    <2> QED
      BY <2>5, <2>7 DEF Bijection
  <1>4. Cardinality(I \ {1}) = Cardinality(J)
    <2> HIDE DEF I, J, Next1
    <2>1. ExistsBijection(J, I \ {1})
      BY <1>3 DEF ExistsBijection
    <2>2. IsFiniteSet(I \ {1})
      BY <1>2, FS_RemoveElement, FS_Subset
    <2> QED
      BY <1>2, <2>1, <2>2, FS_Bijection
  <1>5. 1 \in I <=> Head(s).op = op
    BY <1>1
  <1>6. CountIn(s, op) = Cardinality(I) /\ CountIn(Tail(s), op) = Cardinality(J)
    BY DEF CountIn
  <1> HIDE DEF I, J
  <1>7. Cardinality(I) = Cardinality(J) + (IF 1 \in I THEN 1 ELSE 0)
    <2>1. CASE 1 \in I
      <3>1. Cardinality(I \ {1}) = Cardinality(I) - 1
        BY <1>2, <2>1, FS_RemoveElement
      <3>2. Cardinality(I) \in Nat
        BY <1>2, FS_CardinalityType
      <3> QED
        BY <1>2, <1>4, <2>1, <3>1, <3>2
    <2>2. CASE 1 \notin I
      <3>1. I \ {1} = I
        BY <2>2
      <3>2. Cardinality(I) = Cardinality(J)
        BY <1>4, <3>1, Zenon
      <3> QED
        BY <1>2, <2>2, <3>2
    <2> QED
      BY <2>1, <2>2
  <1> QED
    BY <1>5, <1>6, <1>7

\* A notice that comes leaves a BROKEN among those before it where it is ...
LEMMA BrokenAppend ==
    ASSUME NEW s \in Seq(Status), NEW x \in Status
    PROVE  Append(s, x) \in Seq(Status) /\ (Broken(Append(s, x)) <=> Broken(s) \/ x = "BROKEN")
  <1>1. /\ Len(s) \in Nat /\ DOMAIN s = 1..Len(s)
        /\ Append(s, x) \in Seq(Status)
        /\ DOMAIN Append(s, x) = 1..(Len(s) + 1)
        /\ \A i \in 1..Len(s) : Append(s, x)[i] = s[i]
        /\ Append(s, x)[Len(s) + 1] = x
    BY LenProperties, AppendProperties
  <1>2. 1..(Len(s) + 1) = 1..Len(s) \union {Len(s) + 1}
    BY <1>1
  <1> QED
    BY <1>1, <1>2 DEF Broken

\* ... and so does one that goes, unless it is the BROKEN itself.
LEMMA BrokenTail ==
    ASSUME NEW s \in Seq(Status), s # <<>>
    PROVE  Tail(s) \in Seq(Status) /\ (Broken(s) <=> Broken(Tail(s)) \/ Head(s) = "BROKEN")
  <1>1. /\ Len(s) \in Nat \ {0} /\ DOMAIN s = 1..Len(s) /\ Head(s) = s[1]
        /\ Tail(s) \in Seq(Status)
        /\ DOMAIN Tail(s) = 1..(Len(s) - 1)
        /\ \A i \in 1..(Len(s) - 1) : Tail(s)[i] = s[i + 1]
    BY LenProperties, HeadTailProperties, EmptySeq
  <1>2. \A i \in 1..Len(s) : i = 1 \/ (i - 1 \in 1..(Len(s) - 1) /\ (i - 1) + 1 = i)
    BY <1>1
  <1>3. \A i \in 1..(Len(s) - 1) : i + 1 \in 1..Len(s)
    BY <1>1
  <1>4. ASSUME NEW i \in 1..Len(s), s[i] = "BROKEN"
        PROVE  Broken(Tail(s)) \/ Head(s) = "BROKEN"
    <2>1. CASE i = 1
      BY <1>1, <1>4, <2>1
    <2>2. CASE i - 1 \in 1..(Len(s) - 1) /\ (i - 1) + 1 = i
      <3>1. Tail(s)[i - 1] = "BROKEN"
        BY <1>1, <1>4, <2>2
      <3> QED
        BY <1>1, <2>2, <3>1 DEF Broken
    <2> QED
      BY <1>2, <2>1, <2>2
  <1>5. Broken(Tail(s)) => Broken(s)
    BY <1>1, <1>3 DEF Broken
  <1>6. Head(s) = "BROKEN" => Broken(s)
    BY <1>1 DEF Broken
  <1>7. Broken(s) => Broken(Tail(s)) \/ Head(s) = "BROKEN"
    BY <1>1, <1>4 DEF Broken
  <1> QED
    BY <1>1, <1>5, <1>6, <1>7

----------------------------------------------------------------------------
(***************************************************************************)
(* The pieces the actions are made of.                                     *)
(***************************************************************************)

\* What the types say in numbers.
LEMMA Numbers ==
    ASSUME Tight
    PROVE  /\ MsgParts \in Nat \ {0} /\ MAX_QUEUE_SIZE \in Nat \ {0} /\ MaxFaults \in Nat
           /\ armed["connect"] \in {0, 1} /\ armed["read"] \in {0, 1} /\ armed["write"] \in {0, 1}
           /\ Waiting("read") \in Nat /\ Waiting("write") \in Nat
           /\ Waiting("read") = 0 <=> \A i \in DOMAIN done : done[i].op # "read"
           /\ Waiting("write") = 0 <=> \A i \in DOMAIN done : done[i].op # "write"
           /\ done \in Seq(Completion) /\ notices \in Seq(Status) /\ faults \in 0..MaxFaults
           /\ BrokenComing <=> caller \in {"close", "clear", "reset"} \/ Broken(notices)
  <1>1. MsgParts \in Nat \ {0} /\ MAX_QUEUE_SIZE \in Nat \ {0} /\ MaxFaults \in Nat
    BY SizeAssumption
  <1>2. /\ done \in Seq(Completion) /\ notices \in Seq(Status) /\ armed \in [Op -> 0..1]
        /\ faults \in 0..MaxFaults
    BY DEF Tight, Status, HandlerStep, Reading
  <1>3. \A op \in Op : Waiting(op) = CountIn(done, op)
    BY DEF Waiting, CountIn
  <1>4. /\ armed["connect"] \in {0, 1} /\ armed["read"] \in {0, 1}
        /\ armed["write"] \in {0, 1}
    BY <1>2 DEF Op
  <1>5. BrokenComing <=> caller \in {"close", "clear", "reset"} \/ Broken(notices)
    BY DEF BrokenComing, Broken
  <1>6. \A op \in Op : /\ Waiting(op) \in Nat
                       /\ Waiting(op) = 0 <=> \A i \in DOMAIN done : done[i].op # op
    BY <1>2, <1>3, Places
  <1> QED
    BY <1>1, <1>2, <1>3, <1>4, <1>5, <1>6 DEF Op

\* Nothing is counted otherwise where nothing is completed.
LEMMA SameDone ==
    ASSUME done' = done
    PROVE  Waiting("read")' = Waiting("read") /\ Waiting("write")' = Waiting("write")
  BY DEF Waiting

\* A BROKEN on its way stays on its way.
LEMMA SameNotices ==
    ASSUME notices' = notices
    PROVE  BrokenComing' <=> caller' \in {"close", "clear", "reset"} \/ Broken(notices)
  BY DEF BrokenComing, Broken

\* A completion is the last to come, and the only one that is new.
LEMMA Comes ==
    ASSUME done \in Seq(Completion), NEW c \in Completion, done' = Append(done, c)
    PROVE  /\ done' \in Seq(Completion)
           /\ Waiting("read")' = Waiting("read") + (IF c.op = "read" THEN 1 ELSE 0)
           /\ Waiting("write")' = Waiting("write") + (IF c.op = "write" THEN 1 ELSE 0)
           /\ \A i \in DOMAIN done : i \in DOMAIN done' /\ done'[i] = done[i]
           /\ \E n : /\ n \notin DOMAIN done /\ done'[n] = c
                     /\ DOMAIN done' = DOMAIN done \union {n}
  <1>1. /\ Len(done) \in Nat /\ DOMAIN done = 1..Len(done)
        /\ done' \in Seq(Completion)
        /\ DOMAIN done' = 1..(Len(done) + 1)
        /\ \A i \in 1..Len(done) : done'[i] = done[i]
        /\ done'[Len(done) + 1] = c
    BY LenProperties, AppendProperties
  <1>2. 1..(Len(done) + 1) = 1..Len(done) \union {Len(done) + 1} /\ Len(done) + 1 \notin 1..Len(done)
    BY <1>1
  <1>3. /\ Waiting("read") = CountIn(done, "read") /\ Waiting("write") = CountIn(done, "write")
        /\ Waiting("read")' = CountIn(done', "read") /\ Waiting("write")' = CountIn(done', "write")
    BY DEF Waiting, CountIn
  <1>4. /\ Waiting("read")' = Waiting("read") + (IF c.op = "read" THEN 1 ELSE 0)
        /\ Waiting("write")' = Waiting("write") + (IF c.op = "write" THEN 1 ELSE 0)
    BY <1>3, CountAppend
  <1> QED
    BY <1>1, <1>2, <1>4

\* An operation completes: it was under way, and waits for the thread.
LEMMA Completes ==
    ASSUME Tight, NEW op \in Op, NEW res \in {"ok", "timeout", "error", "aborted"},
           NEW parts \in 0..MsgParts, Complete(op, res, parts)
    PROVE  /\ done' = Append(done, Completed(op, res, parts))
           /\ Completed(op, res, parts) \in Completion
           /\ armed[op] = 1 /\ armed' \in [Op -> 0..1] /\ armed'[op] = 0
           /\ \A o \in Op \ {op} : armed'[o] = armed[o]
  <1>1. Completed(op, res, parts) \in Completion
    BY DEF Completed, Completion
  <1>2. armed \in [Op -> 0..1] /\ armed[op] > 0 /\ armed' = [armed EXCEPT ![op] = @ - 1]
    BY DEF Complete, Tight
  <1>3. armed[op] = 1
    BY <1>2
  <1> QED
    BY <1>1, <1>2, <1>3 DEF Complete

\* An operation is started: it is under way, or has failed and waits.
LEMMA Starts ==
    ASSUME Tight, NEW op \in Op, NEW ready, Start(op, ready), ready => armed[op] = 0
    PROVE  \/ /\ ready
              /\ done' = done
              /\ armed' \in [Op -> 0..1] /\ armed'[op] = 1
              /\ \A o \in Op \ {op} : armed'[o] = armed[o]
           \/ /\ ~ready
              /\ armed' = armed
              /\ Completed(op, "error", 0) \in Completion
              /\ done' = Append(done, Completed(op, "error", 0))
  <1>1. CASE ready
    BY <1>1, Numbers, SMTT(30) DEF Start, Tight
  <1>2. CASE ~ready
    <2>1. Completed(op, "error", 0) \in Completion
      BY Numbers DEF Completed, Completion
    <2> QED
      BY <1>2, <2>1 DEF Start
  <1> QED
    BY <1>1, <1>2

\* A notice is published: BROKEN is on its way if it was, or is the notice.
LEMMA Publishes ==
    ASSUME notices \in Seq(Status), NEW status \in Status, Publish(status)
    PROVE  /\ notices' \in Seq(Status)
           /\ BrokenComing' <=> \/ caller' \in {"close", "clear", "reset"}
                                \/ Broken(notices) \/ status = "BROKEN"
  BY BrokenAppend DEF Publish, BrokenComing, Broken

\* The module's thread, which was idle, takes a notice.
LEMMA Takes ==
    ASSUME notices \in Seq(Status), NEW status \in Status, Notice(status)
    PROVE  /\ caller = "idle"
           /\ notices' \in Seq(Status)
           /\ Broken(notices) <=> Broken(notices') \/ status = "BROKEN"
           /\ BrokenComing' <=> caller' \in {"close", "clear", "reset"} \/ Broken(notices')
  BY BrokenTail DEF Notice, BrokenComing, Broken

\* A handler of the codec throws, and BROKEN is on its way.
LEMMA Throws ==
    ASSUME notices \in Seq(Status), faults \in 0..MaxFaults, Throw
    PROVE  /\ notices' \in Seq(Status) /\ faults' \in 0..MaxFaults
           /\ handler' = "idle"
           /\ Broken(notices') /\ BrokenComing'
  <1>1. faults' \in 0..MaxFaults
    BY SizeAssumption DEF Throw, Fault
  <1>2. "BROKEN" \in Status /\ Publish("BROKEN")
    BY DEF Status, Throw
  <1>3. notices' \in Seq(Status) /\ Broken(notices') /\ BrokenComing'
    BY <1>2, BrokenAppend DEF Publish, BrokenComing, Broken
  <1> QED
    BY <1>1, <1>3 DEF Throw, Finish

\* A read or a write completes: whoever is at work on it is now the completion,
\* and there is no new connection yet.
LEMMA OperationCompletes ==
    ASSUME Tight, Core, NEW op \in {"read", "write"},
           NEW res \in {"ok", "timeout", "error"},
           NEW parts \in 0..MsgParts, Complete(op, res, parts)
    PROVE  /\ armed' \in [Op -> 0..1] /\ done' \in Seq(Completion)
           /\ armed[op] = 1 /\ armed'[op] = 0
           /\ armed'["connect"] = armed["connect"]
           /\ armed'["read"] <= armed["read"] /\ armed'["write"] <= armed["write"]
           /\ armed'["read"] + Waiting("read")' = armed["read"] + Waiting("read")
           /\ armed'["write"] + Waiting("write")' = armed["write"] + Waiting("write")
           /\ \A i \in DOMAIN done' :
                 \/ i \in DOMAIN done /\ done'[i] = done[i]
                 \/ done'[i] = Completed(op, res, parts)
           /\ NewConnection'
  <1>1. op \in Op /\ op # "connect" /\ res \in {"ok", "timeout", "error", "aborted"}
    BY DEF Op
  <1> DEFINE c == Completed(op, res, parts)
  <1>2. /\ done' = Append(done, c) /\ c \in Completion
        /\ armed[op] = 1 /\ armed' \in [Op -> 0..1] /\ armed'[op] = 0
        /\ \A o \in Op \ {op} : armed'[o] = armed[o]
    BY <1>1, Completes
  <1>3. c.op = op
    BY DEF Completed
  <1>4. /\ armed'["connect"] = armed["connect"]
        /\ armed'["read"] <= armed["read"] /\ armed'["write"] <= armed["write"]
    BY <1>1, <1>2, Numbers DEF Op
  <1> HIDE DEF c
  <1>5. /\ done' \in Seq(Completion)
        /\ Waiting("read")' = Waiting("read") + (IF c.op = "read" THEN 1 ELSE 0)
        /\ Waiting("write")' = Waiting("write") + (IF c.op = "write" THEN 1 ELSE 0)
        /\ \A i \in DOMAIN done : i \in DOMAIN done' /\ done'[i] = done[i]
        /\ \E n : /\ n \notin DOMAIN done /\ done'[n] = c
                  /\ DOMAIN done' = DOMAIN done \union {n}
    BY <1>2, Comes, Numbers
  <1>6. /\ armed'["read"] + Waiting("read")' = armed["read"] + Waiting("read")
        /\ armed'["write"] + Waiting("write")' = armed["write"] + Waiting("write")
    <2>1. CASE op = "read"
      BY <1>2, <1>3, <1>5, <2>1, Numbers DEF Op
    <2>2. CASE op = "write"
      BY <1>2, <1>3, <1>5, <2>2, Numbers DEF Op
    <2> QED
      BY <2>1, <2>2
  <1>7. \A i \in DOMAIN done' : (i \in DOMAIN done /\ done'[i] = done[i]) \/ done'[i] = c
    BY <1>5
  <1>8. NewConnection'
    <2>1. \A i \in DOMAIN done : ~(done[i].op = "connect" /\ done[i].res = "ok")
      BY <1>2 DEF Core, NewConnection
    <2> QED
      BY <1>1, <1>3, <1>7, <2>1 DEF NewConnection
  <1> QED
    BY <1>2, <1>4, <1>5, <1>6, <1>7, <1>8 DEF c

\* A read or a write is started by the one who was to start it.
LEMMA OperationStarts ==
    ASSUME Tight, Core, NEW op \in {"read", "write"}, Start(op, sock = "connected"),
           sock = "connected" => armed[op] = 0,
           handler # "idle" \/ caller = "async_write"
    PROVE  /\ armed' \in [Op -> 0..1] /\ done' \in Seq(Completion)
           /\ armed'["connect"] = armed["connect"]
           /\ sock # "connected" => armed' = armed
           /\ armed'["read"] + Waiting("read")' =
                armed["read"] + Waiting("read") + (IF op = "read" THEN 1 ELSE 0)
           /\ armed'["write"] + Waiting("write")' =
                armed["write"] + Waiting("write") + (IF op = "write" THEN 1 ELSE 0)
           /\ op = "read" => armed'["write"] = armed["write"]
           /\ \A i \in DOMAIN done' :
                 \/ i \in DOMAIN done /\ done'[i] = done[i]
                 \/ done'[i].res = "error"
           /\ NewConnection'
  <1>1. op \in Op /\ op # "connect"
    BY DEF Op
  <1>2. \A i \in DOMAIN done : ~(done[i].op = "connect" /\ done[i].res = "ok")
    BY DEF Core, NewConnection
  <1>3. CASE /\ sock = "connected"
             /\ done' = done
             /\ armed' \in [Op -> 0..1] /\ armed'[op] = 1
             /\ \A o \in Op \ {op} : armed'[o] = armed[o]
    <2>1. done' \in Seq(Completion) /\ NewConnection'
      BY <1>2, <1>3, Numbers DEF NewConnection
    <2>2. Waiting("read")' = Waiting("read") /\ Waiting("write")' = Waiting("write")
      BY <1>3, SameDone
    <2>3. CASE op = "read"
      BY <1>3, <2>1, <2>2, <2>3, Numbers DEF Op
    <2>4. CASE op = "write"
      BY <1>3, <2>1, <2>2, <2>4, Numbers DEF Op
    <2> QED
      BY <2>3, <2>4
  <1>4. CASE /\ sock # "connected"
             /\ armed' = armed
             /\ Completed(op, "error", 0) \in Completion
             /\ done' = Append(done, Completed(op, "error", 0))
    <2> DEFINE c == Completed(op, "error", 0)
    <2>1. c.op = op /\ c.res = "error" /\ c \in Completion /\ done' = Append(done, c)
      BY <1>4 DEF Completed
    <2> HIDE DEF c
    <2>2. /\ done' \in Seq(Completion)
          /\ Waiting("read")' = Waiting("read") + (IF c.op = "read" THEN 1 ELSE 0)
          /\ Waiting("write")' = Waiting("write") + (IF c.op = "write" THEN 1 ELSE 0)
          /\ \A i \in DOMAIN done : i \in DOMAIN done' /\ done'[i] = done[i]
          /\ \E n : /\ n \notin DOMAIN done /\ done'[n] = c
                    /\ DOMAIN done' = DOMAIN done \union {n}
      BY <2>1, Comes, Numbers
    <2>3. \A i \in DOMAIN done' : (i \in DOMAIN done /\ done'[i] = done[i]) \/ done'[i] = c
      BY <2>2
    <2>4. NewConnection'
      BY <1>2, <2>1, <2>3 DEF NewConnection
    <2>5. armed \in [Op -> 0..1]
      BY DEF Tight
    <2> QED
      BY <1>4, <2>1, <2>2, <2>3, <2>4, <2>5, Numbers
  <1> QED
    BY <1>1, <1>3, <1>4, Starts

\* The thread takes the first completion, the others move up.
LEMMA Goes ==
    ASSUME done \in Seq(Completion), done # <<>>, done' = Tail(done)
    PROVE  /\ Head(done) \in Completion /\ done' \in Seq(Completion)
           /\ 1 \in DOMAIN done /\ Head(done) = done[1]
           /\ Waiting("read") = Waiting("read")' + (IF Head(done).op = "read" THEN 1 ELSE 0)
           /\ Waiting("write") = Waiting("write")' + (IF Head(done).op = "write" THEN 1 ELSE 0)
           /\ Waiting("read")' \in Nat /\ Waiting("write")' \in Nat
           /\ \A i \in DOMAIN done' : /\ i \in Nat \ {0} /\ i + 1 \in DOMAIN done
                                      /\ done'[i] = done[i + 1]
  <1>1. /\ Len(done) \in Nat \ {0} /\ DOMAIN done = 1..Len(done)
        /\ Head(done) = done[1] /\ Head(done) \in Completion
        /\ done' \in Seq(Completion)
        /\ DOMAIN done' = 1..(Len(done) - 1)
        /\ \A i \in 1..(Len(done) - 1) : done'[i] = done[i + 1]
    BY LenProperties, HeadTailProperties, EmptySeq
  <1>2. /\ Waiting("read") = CountIn(done, "read") /\ Waiting("write") = CountIn(done, "write")
        /\ Waiting("read")' = CountIn(done', "read") /\ Waiting("write")' = CountIn(done', "write")
    BY DEF Waiting, CountIn
  <1>3. CountIn(done', "read") \in Nat /\ CountIn(done', "write") \in Nat
    BY <1>1, Places
  <1>4. /\ Waiting("read") = Waiting("read")' + (IF Head(done).op = "read" THEN 1 ELSE 0)
        /\ Waiting("write") = Waiting("write")' + (IF Head(done).op = "write" THEN 1 ELSE 0)
    BY <1>2, CountTail
  <1>5. \A i \in 1..(Len(done) - 1) : i \in Nat \ {0} /\ i + 1 \in 1..Len(done)
    BY <1>1
  <1> QED
    BY <1>1, <1>2, <1>3, <1>4, <1>5

\* A connection that breaks can still be read from, and written to, in vain.
LEMMA BreakStep ==
    ASSUME Tight, Core, Break, UNCHANGED m_reconnectors
    PROVE  Tight' /\ Core'
  <1>1. /\ sock = "connected" /\ sock' = "broken" /\ faults' \in 0..MaxFaults
        /\ UNCHANGED <<armed, done, handler, transferred, silenced, m_state, m_queue, m_send_buf, wire,
                       caller, notices, crashed, overtaken,
                       m_reconnectors>>
        /\ Waiting("read")' = Waiting("read") /\ Waiting("write")' = Waiting("write")
        /\ BrokenComing' <=> BrokenComing
    BY Numbers, SameDone, SameNotices
       DEF Break, Fault, threadVars, bufVars, Tight
  <1>2. Tight'
    BY <1>1, Numbers, SMTT(30) DEF Tight, Status, HandlerStep, Reading
  <1>3. SocketTells'
    BY <1>1 DEF Core, SocketTells, Alive
  <1>4. OneOfEach'
    BY <1>1, Numbers DEF Core, SocketTells, OneOfEach, Alive, Readers, Writers, ReadHandler, Reading
  <1>5. NewConnection'
    BY <1>1 DEF Core, SocketTells, NewConnection, Alive, Stale
  <1>6. PartsTell'
    BY <1>1, Numbers, SMTT(30)
       DEF Core, PartsTell, OneOfEach, SocketTells, Alive, Sending, Ready, SentOf, Between,
           Writers
  <1>7. Served'
    BY <1>1, Numbers, SMTT(30)
       DEF Core, SocketTells, OneOfEach, Served, Alive, Writers
  <1> QED
    BY <1>2, <1>3, <1>4, <1>5, <1>6, <1>7 DEF Core

\* read() looks at the state again, may find its buffer full, or throws, which
\* only on_connect() does not tell.
LEMMA ReadStep ==
    ASSUME Tight, Core, read, ~overtaken, UNCHANGED <<crashed, m_reconnectors>>
    PROVE  Tight' /\ Core'
  <1>1. /\ ReadHandler /\ handler' \in {"idle", "async_read"} \cup Reading
        /\ handler \notin {"on_write", "do_write", "async_write"}
        /\ handler # "idle"
        /\ ReadHandler' \/ handler' = "idle"
        /\ UNCHANGED <<sock, armed, done, transferred, m_state, m_queue, m_send_buf, wire,
                       caller, crashed, overtaken, m_reconnectors>>
        /\ Waiting("read")' = Waiting("read") /\ Waiting("write")' = Waiting("write")
        /\ notices' \in Seq(Status) /\ faults' \in 0..MaxFaults /\ silenced' \in BOOLEAN
        /\ handler' \notin {"on_write", "do_write", "async_write"}
        /\ BrokenComing => BrokenComing'
    <2>1. handler \in Reading /\ ReadHandler
      BY DEF read, ReadHandler
    <2>2. CASE /\ \/ m_state = "INACTIVE" /\ Finish
                  \/ m_state = "ACTIVE" /\ handler' = "async_read"
               /\ UNCHANGED <<silenced, notices, faults>>
      BY <2>1, <2>2, Numbers, SameDone, SameNotices
         DEF read, Finish, ReadHandler, Reading, netVars, bufVars, Tight
    <2>3. CASE Throw /\ UNCHANGED silenced
      BY <2>1, <2>3, Throws, Numbers, SameDone DEF read, Reading, netVars, bufVars, Tight
    <2>4. CASE ReadThrows
      <3>1. faults' \in 0..MaxFaults
        BY <2>4, Numbers DEF ReadThrows, Fault
      <3>2. /\ notices' \in Seq(Status) /\ silenced' \in BOOLEAN
            /\ handler' \in {"idle", handler}
            /\ BrokenComing => BrokenComing'
        <4>1. CASE Publish("BROKEN") /\ Finish /\ UNCHANGED <<silenced, crashed>>
          BY <4>1, Publishes, Numbers DEF Status, Finish, read, Tight
        <4>2. CASE notices' = notices
          BY <2>4, <4>2, SameNotices, Numbers DEF ReadThrows, Finish, read, Tight
        <4> QED
          BY <2>4, <4>1, <4>2 DEF ReadThrows
      <3> QED
        BY <2>1, <3>1, <3>2, SameDone DEF read, ReadHandler, Reading, netVars, bufVars
    <2> QED
      BY <2>2, <2>3, <2>4 DEF read
  <1>2. Tight'
    BY <1>1, Numbers, SMTT(30) DEF Tight, Status, HandlerStep, Reading
  <1>3. SocketTells'
    BY <1>1 DEF Core, SocketTells, Alive
  <1>4. OneOfEach'
    BY <1>1, Numbers DEF Core, SocketTells, OneOfEach, Alive, Readers, Writers, ReadHandler, Reading
  <1>5. NewConnection'
    BY <1>1 DEF Core, SocketTells, NewConnection, Alive, Stale
  <1>6. PartsTell'
    BY <1>1, Numbers, SMTT(30)
       DEF Core, PartsTell, OneOfEach, SocketTells, Alive, Sending, Ready, SentOf, Between,
           Writers
  <1>7. Served'
    BY <1>1, Numbers, SMTT(30)
       DEF Core, SocketTells, OneOfEach, Served, Alive, Writers
  <1> QED
    BY <1>2, <1>3, <1>4, <1>5, <1>6, <1>7 DEF Core

\* An operation of a broken socket fails.
LEMMA OperationFailsStep ==
    ASSUME Tight, Core, NEW op \in {"read", "write"}, OperationFails(op), UNCHANGED m_reconnectors
    PROVE  Tight' /\ Core'
  <1>1. /\ sock = "broken"
        /\ armed' \in [Op -> 0..1] /\ done' \in Seq(Completion)
        /\ armed'["connect"] = armed["connect"]
        /\ armed'["read"] <= armed["read"] /\ armed'["write"] <= armed["write"]
        /\ armed'["read"] + Waiting("read")' = armed["read"] + Waiting("read")
        /\ armed'["write"] + Waiting("write")' = armed["write"] + Waiting("write")
        /\ NewConnection'
        /\ BrokenComing' <=> BrokenComing
        /\ \A i \in DOMAIN done' :
              (i \in DOMAIN done /\ done'[i] = done[i]) \/ done'[i].res = "error"
        /\ UNCHANGED <<sock, handler, transferred, silenced, m_state, m_queue, m_send_buf, wire,
                       caller, notices, crashed, overtaken, faults, m_reconnectors>>
    <2>1. Complete(op, "error", 0) /\ 0 \in 0..MsgParts
      BY Numbers DEF OperationFails
    <2> QED
      BY <2>1, OperationCompletes, Numbers, SameNotices
         DEF OperationFails, Completed, threadVars, bufVars
  <1>2. Tight'
    BY <1>1, Numbers, SMTT(30) DEF Tight, Status, HandlerStep, Reading
  <1>3. SocketTells'
    BY <1>1 DEF Core, SocketTells, Alive
  <1>4. OneOfEach'
    BY <1>1, Numbers DEF Core, SocketTells, OneOfEach, Alive, Readers, Writers, ReadHandler, Reading
  <1>5. NewConnection'
    BY <1>1
  <1>6. PartsTell'
    BY <1>1, Numbers, SMTT(30)
       DEF Core, PartsTell, OneOfEach, SocketTells, Alive, Sending, Ready, SentOf, Between,
           Writers
  <1>7. Served'
    BY <1>1, Numbers, SMTT(30)
       DEF Core, SocketTells, OneOfEach, Served, Alive, Writers
  <1> QED
    BY <1>2, <1>3, <1>4, <1>5, <1>6, <1>7 DEF Core

\* Something has come in.
LEMMA ReceivesStep ==
    ASSUME Tight, Core, Receives, UNCHANGED m_reconnectors
    PROVE  Tight' /\ Core'
  <1>1. /\ sock = "connected"
        /\ armed' \in [Op -> 0..1] /\ done' \in Seq(Completion)
        /\ armed'["connect"] = armed["connect"]
        /\ armed'["read"] <= armed["read"] /\ armed'["write"] <= armed["write"]
        /\ armed'["read"] + Waiting("read")' = armed["read"] + Waiting("read")
        /\ armed'["write"] + Waiting("write")' = armed["write"] + Waiting("write")
        /\ NewConnection'
        /\ BrokenComing' <=> BrokenComing
        /\ \A i \in DOMAIN done' :
              (i \in DOMAIN done /\ done'[i] = done[i]) \/ done'[i].op = "read"
        /\ UNCHANGED <<sock, handler, transferred, silenced, m_state, m_queue, m_send_buf, wire,
                       caller, notices, crashed, overtaken, faults, m_reconnectors>>
    <2>1. Complete("read", "ok", 0) /\ 0 \in 0..MsgParts
      BY Numbers DEF Receives
    <2> QED
      BY <2>1, OperationCompletes, Numbers, SameNotices
         DEF Receives, Completed, threadVars, bufVars
  <1>2. Tight'
    BY <1>1, Numbers, SMTT(30) DEF Tight, Status, HandlerStep, Reading
  <1>3. SocketTells'
    BY <1>1 DEF Core, SocketTells, Alive
  <1>4. OneOfEach'
    BY <1>1, Numbers DEF Core, SocketTells, OneOfEach, Alive, Readers, Writers, ReadHandler, Reading
  <1>5. NewConnection'
    BY <1>1
  <1>6. PartsTell'
    BY <1>1, Numbers, SMTT(30)
       DEF Core, PartsTell, OneOfEach, SocketTells, Alive, Sending, Ready, SentOf, Between,
           Writers
  <1>7. Served'
    BY <1>1, Numbers, SMTT(30)
       DEF Core, SocketTells, OneOfEach, Served, Alive, Writers
  <1> QED
    BY <1>2, <1>3, <1>4, <1>5, <1>6, <1>7 DEF Core

\* Nothing has for too long.
LEMMA ReadTimesOutStep ==
    ASSUME Tight, Core, ReadTimesOut, UNCHANGED m_reconnectors
    PROVE  Tight' /\ Core'
  <1>1. /\ sock = "connected"
        /\ armed' \in [Op -> 0..1] /\ done' \in Seq(Completion)
        /\ armed'["connect"] = armed["connect"]
        /\ armed'["read"] <= armed["read"] /\ armed'["write"] <= armed["write"]
        /\ armed'["read"] + Waiting("read")' = armed["read"] + Waiting("read")
        /\ armed'["write"] + Waiting("write")' = armed["write"] + Waiting("write")
        /\ NewConnection'
        /\ BrokenComing' <=> BrokenComing
        /\ \A i \in DOMAIN done' :
              (i \in DOMAIN done /\ done'[i] = done[i]) \/ done'[i].op = "read"
        /\ UNCHANGED <<sock, handler, transferred, silenced, m_state, m_queue, m_send_buf, wire,
                       caller, notices, crashed, overtaken, m_reconnectors>>
        /\ faults' \in 0..MaxFaults
    <2>1. Complete("read", "timeout", 0) /\ 0 \in 0..MsgParts
      BY Numbers DEF ReadTimesOut
    <2> QED
      BY <2>1, OperationCompletes, Numbers, SameNotices
         DEF ReadTimesOut, Fault, Completed, threadVars, bufVars
  <1>2. Tight'
    BY <1>1, Numbers, SMTT(30) DEF Tight, Status, HandlerStep, Reading
  <1>3. SocketTells'
    BY <1>1 DEF Core, SocketTells, Alive
  <1>4. OneOfEach'
    BY <1>1, Numbers DEF Core, SocketTells, OneOfEach, Alive, Readers, Writers, ReadHandler, Reading
  <1>5. NewConnection'
    BY <1>1
  <1>6. PartsTell'
    BY <1>1, Numbers, SMTT(30)
       DEF Core, PartsTell, OneOfEach, SocketTells, Alive, Sending, Ready, SentOf, Between,
           Writers
  <1>7. Served'
    BY <1>1, Numbers, SMTT(30)
       DEF Core, SocketTells, OneOfEach, Served, Alive, Writers
  <1> QED
    BY <1>2, <1>3, <1>4, <1>5, <1>6, <1>7 DEF Core

\* The socket takes parts of the message in the buffer; nobody else is at work on
\* it, and there is a message in the queue.
LEMMA SendsStep ==
    ASSUME Tight, Core, NEW n \in 0..m_send_buf, Sends(n), UNCHANGED m_reconnectors
    PROVE  Tight' /\ Core'
  <1>1. /\ sock = "connected"
        /\ armed' \in [Op -> 0..1] /\ done' \in Seq(Completion)
        /\ armed'["connect"] = armed["connect"]
        /\ armed'["read"] <= armed["read"] /\ armed'["write"] <= armed["write"]
        /\ armed'["read"] + Waiting("read")' = armed["read"] + Waiting("read")
        /\ armed'["write"] + Waiting("write")' = armed["write"] + Waiting("write")
        /\ NewConnection'
        /\ BrokenComing' <=> BrokenComing
        /\ armed["write"] = 1 /\ armed'["write"] = 0
        /\ \A i \in DOMAIN done' :
              \/ i \in DOMAIN done /\ done'[i] = done[i]
              \/ done'[i].op = "write" /\ done'[i].parts = n
        /\ n \in 0..MsgParts /\ n <= m_send_buf
        /\ wire' = n + (IF wire = MsgParts THEN 0 ELSE wire)
        /\ UNCHANGED <<sock, handler, transferred, silenced, m_state, m_queue, m_send_buf,
                       caller, notices, crashed, overtaken, faults, m_reconnectors>>
    <2>1. n \in 0..MsgParts /\ n <= m_send_buf
      BY Numbers DEF Tight
    <2>2. Complete("write", "ok", n)
      BY DEF Sends
    <2>3. wire >= MsgParts <=> wire = MsgParts
      BY Numbers DEF Tight
    <2> QED
      BY <2>1, <2>2, <2>3, OperationCompletes, Numbers, SameNotices
         DEF Sends, Completed, threadVars, bufVars
  <1>2. /\ m_queue > 0 /\ Writers = 1 /\ Waiting("write") = 0
        /\ handler \notin {"on_write", "do_write", "async_write"}
        /\ caller \notin {"write", "async_write"}
        /\ \A i \in DOMAIN done : done[i].op # "write"
    <2>1. Waiting("write") \in Nat /\ armed["write"] = 1 /\ m_queue \in Nat
      BY <1>1, Numbers DEF Tight
    <2>2. Writers <= 1 /\ (m_queue = 0 => Writers = 0)
      BY <1>1 DEF Core, OneOfEach, Alive
    <2>3. /\ Writers = 1 /\ Waiting("write") = 0
          /\ handler \notin {"on_write", "do_write", "async_write"}
          /\ caller \notin {"write", "async_write"}
      BY <2>1, <2>2 DEF Writers
    <2>4. \A i \in DOMAIN done : done[i].op # "write"
      BY <2>3, Numbers
    <2> QED
      BY <2>1, <2>2, <2>3, <2>4
  <1>3. Ready
    BY <1>1, <1>2 DEF Core, PartsTell, Alive, Sending
  <1>4. wire' = MsgParts - (m_send_buf - n) /\ m_send_buf > 0 /\ wire' \in 0..MsgParts
    <2>1. /\ wire \in 0..MsgParts /\ m_send_buf \in 1..MsgParts
          /\ n \in 0..MsgParts /\ n <= m_send_buf /\ MsgParts \in Nat
      BY <1>1, <1>3, Numbers DEF Ready, Tight
    <2>2. CASE wire = MsgParts - m_send_buf
      BY <1>1, <2>1, <2>2
    <2>3. CASE m_send_buf = MsgParts /\ wire \in {0, MsgParts}
      BY <1>1, <2>1, <2>3
    <2> QED
      BY <1>3, <2>2, <2>3 DEF Ready, Between
  <1>5. Tight'
    BY <1>1, <1>4, Numbers DEF Tight, Status, HandlerStep, Reading
  <1>6. SocketTells'
    BY <1>1 DEF Core, SocketTells, Alive
  <1>7. OneOfEach'
    BY <1>1, Numbers DEF Core, SocketTells, OneOfEach, Alive, Readers, Writers, ReadHandler, Reading
  <1>8. NewConnection'
    BY <1>1
  <1>9. PartsTell'
    BY <1>1, <1>2, <1>4, Numbers, SMTT(30) DEF PartsTell, Alive, Sending, SentOf
  <1>10. Served'
    BY <1>1, Numbers, SMTT(30)
       DEF Core, SocketTells, OneOfEach, Served, Alive, Writers
  <1> QED
    BY <1>5, <1>6, <1>7, <1>8, <1>9, <1>10 DEF Core

\* on_read() hands what came in to the codec.
LEMMA OnReadStep ==
    ASSUME Tight, Core, on_read, UNCHANGED m_reconnectors
    PROVE  Tight' /\ Core'
  <1>1. /\ handler = "on_read"
        /\ handler' = "read" \/ (handler' = "idle" /\ BrokenComing')
        /\ BrokenComing => BrokenComing'
        /\ notices' \in Seq(Status) /\ faults' \in 0..MaxFaults
        /\ Waiting("read")' = Waiting("read") /\ Waiting("write")' = Waiting("write")
        /\ UNCHANGED <<sock, armed, done, transferred, silenced, m_state, m_queue, m_send_buf, wire,
                       caller, crashed, overtaken,
                       m_reconnectors>>
    <2>1. CASE handler' = "read" /\ UNCHANGED <<notices, faults>>
      BY <2>1, Numbers, SameDone, SameNotices
         DEF on_read, netVars, bufVars, Tight
    <2>2. CASE Throw
      BY <2>2, Throws, Numbers, SameDone DEF on_read, netVars, bufVars
    <2> QED
      BY <2>1, <2>2 DEF on_read
  <1>2. Tight'
    BY <1>1, Numbers, SMTT(30) DEF Tight, Status, HandlerStep, Reading
  <1>3. SocketTells'
    BY <1>1 DEF Core, SocketTells, Alive
  <1>4. OneOfEach'
    BY <1>1, Numbers DEF Core, SocketTells, OneOfEach, Alive, Readers, Writers, ReadHandler, Reading
  <1>5. NewConnection'
    BY <1>1 DEF Core, SocketTells, NewConnection, Alive, Stale
  <1>6. PartsTell'
    BY <1>1, Numbers, SMTT(30)
       DEF Core, PartsTell, OneOfEach, SocketTells, Alive, Sending, Ready, SentOf, Between,
           Writers
  <1>7. Served'
    BY <1>1, Numbers, SMTT(30)
       DEF Core, SocketTells, OneOfEach, Served, Alive, Writers
  <1> QED
    BY <1>2, <1>3, <1>4, <1>5, <1>6, <1>7 DEF Core

\* do_write() looks at the state again.
LEMMA DoWriteStep ==
    ASSUME Tight, Core, do_write, UNCHANGED m_reconnectors
    PROVE  Tight' /\ Core'
  <1>1. /\ handler = "do_write"
        /\ handler' = IF m_state = "ACTIVE" THEN "async_write" ELSE "idle"
        /\ BrokenComing <=> BrokenComing'
        /\ Waiting("read")' = Waiting("read") /\ Waiting("write")' = Waiting("write")
        /\ UNCHANGED <<sock, armed, done, transferred, silenced, m_state, m_queue, m_send_buf, wire,
                       caller, notices, crashed, overtaken, faults, m_reconnectors>>
    BY Numbers, SameDone, SameNotices DEF do_write, netVars, bufVars
  <1>2. Tight'
    BY <1>1, Numbers, SMTT(30) DEF Tight, Status, HandlerStep, Reading
  <1>3. SocketTells'
    BY <1>1 DEF Core, SocketTells, Alive
  <1>4. OneOfEach'
    BY <1>1, Numbers DEF Core, SocketTells, OneOfEach, Alive, Readers, Writers, ReadHandler, Reading
  <1>5. NewConnection'
    BY <1>1 DEF Core, SocketTells, NewConnection, Alive, Stale
  <1>6. PartsTell'
    BY <1>1, Numbers, SMTT(30)
       DEF Core, PartsTell, OneOfEach, SocketTells, Alive, Sending, Ready, SentOf, Between,
           Writers
  <1>7. Served'
    BY <1>1, Numbers, SMTT(30)
       DEF Core, SocketTells, OneOfEach, Served, Alive, Writers
  <1> QED
    BY <1>2, <1>3, <1>4, <1>5, <1>6, <1>7 DEF Core

\* The next read is started.
LEMMA StartReadStep ==
    ASSUME Tight, Core, StartTransfer("read"), UNCHANGED m_reconnectors
    PROVE  Tight' /\ Core'
  <1>1. /\ handler = "async_read" /\ handler' = "idle"
        /\ armed' \in [Op -> 0..1] /\ done' \in Seq(Completion)
        /\ armed'["connect"] = armed["connect"]
        /\ sock # "connected" => armed' = armed
        /\ \A i \in DOMAIN done' :
              (i \in DOMAIN done /\ done'[i] = done[i]) \/ done'[i].res = "error"
        /\ NewConnection'
        /\ BrokenComing' <=> BrokenComing
        /\ armed'["read"] + Waiting("read")' = armed["read"] + Waiting("read") + 1
        /\ armed'["write"] + Waiting("write")' = armed["write"] + Waiting("write")
        /\ armed'["write"] = armed["write"]
        /\ UNCHANGED <<sock, transferred, silenced, m_state, m_queue, m_send_buf, wire,
                       caller, notices, crashed, overtaken, faults, m_reconnectors>>
    <2>1. handler = "async_read" /\ Start("read", sock = "connected")
      BY DEF StartTransfer, Starting
    <2>2. sock = "connected" => armed["read"] = 0
      BY <2>1, Numbers DEF Core, OneOfEach, Alive, Readers, ReadHandler
    <2> QED
      BY <2>1, <2>2, OperationStarts, Numbers, SameNotices
         DEF StartTransfer, Finish, bufVars
  <1>2. Tight'
    BY <1>1, Numbers, SMTT(30) DEF Tight, Status, HandlerStep, Reading
  <1>3. SocketTells'
    BY <1>1 DEF Core, SocketTells, Alive
  <1>4. OneOfEach'
    BY <1>1, Numbers DEF Core, SocketTells, OneOfEach, Alive, Readers, Writers, ReadHandler, Reading
  <1>5. NewConnection'
    BY <1>1
  <1>6. PartsTell'
    BY <1>1, Numbers, SMTT(30)
       DEF Core, PartsTell, OneOfEach, SocketTells, Alive, Sending, Ready, SentOf, Between,
           Writers
  <1>7. Served'
    BY <1>1, Numbers, SMTT(30)
       DEF Core, SocketTells, OneOfEach, Served, Alive, Writers
  <1> QED
    BY <1>2, <1>3, <1>4, <1>5, <1>6, <1>7 DEF Core

\* What is left in the buffer is given to the socket.
LEMMA StartRestStep ==
    ASSUME Tight, Core, StartTransfer("write"), UNCHANGED m_reconnectors
    PROVE  Tight' /\ Core'
  <1>1. /\ handler = "async_write" /\ handler' = "idle"
        /\ armed' \in [Op -> 0..1] /\ done' \in Seq(Completion)
        /\ armed'["connect"] = armed["connect"]
        /\ sock # "connected" => armed' = armed
        /\ \A i \in DOMAIN done' :
              (i \in DOMAIN done /\ done'[i] = done[i]) \/ done'[i].res = "error"
        /\ NewConnection'
        /\ BrokenComing' <=> BrokenComing
        /\ armed'["read"] + Waiting("read")' = armed["read"] + Waiting("read")
        /\ armed'["write"] + Waiting("write")' = armed["write"] + Waiting("write") + 1
        /\ UNCHANGED <<sock, transferred, silenced, m_state, m_queue, m_send_buf, wire,
                       caller, notices, crashed, overtaken, faults, m_reconnectors>>
    <2>1. handler = "async_write" /\ Start("write", sock = "connected")
      BY DEF StartTransfer, Starting
    <2>2. sock = "connected" => armed["write"] = 0
      BY <2>1, Numbers DEF Core, OneOfEach, Alive, Writers
    <2> QED
      BY <2>1, <2>2, OperationStarts, Numbers, SameNotices
         DEF StartTransfer, Finish, bufVars
  <1>2. Tight'
    BY <1>1, Numbers, SMTT(30) DEF Tight, Status, HandlerStep, Reading
  <1>3. SocketTells'
    BY <1>1 DEF Core, SocketTells, Alive
  <1>4. OneOfEach'
    BY <1>1, Numbers, SMTT(30)
    DEF Core, SocketTells, OneOfEach, Alive, Readers, Writers, ReadHandler, Reading
  <1>5. NewConnection'
    BY <1>1
  <1>6. PartsTell'
    BY <1>1, Numbers, SMTT(30)
       DEF Core, PartsTell, OneOfEach, SocketTells, Alive, Sending, Ready, SentOf, Between,
           Writers
  <1>7. Served'
    BY <1>1, Numbers, SMTT(30)
       DEF Core, SocketTells, OneOfEach, Served, Alive, Writers
  <1> QED
    BY <1>2, <1>3, <1>4, <1>5, <1>6, <1>7 DEF Core

\* write() goes on to start what it has put into the buffer.
LEMMA StartWriteStep ==
    ASSUME Tight, Core, StartWrite, m_reconnectors' \in BOOLEAN
    PROVE  Tight' /\ Core'
  <1>1. /\ caller = "async_write" /\ caller' = "idle" /\ m_reconnectors' \in BOOLEAN
        /\ armed' \in [Op -> 0..1] /\ done' \in Seq(Completion)
        /\ armed'["connect"] = armed["connect"]
        /\ sock # "connected" => armed' = armed
        /\ \A i \in DOMAIN done' :
              (i \in DOMAIN done /\ done'[i] = done[i]) \/ done'[i].res = "error"
        /\ NewConnection'
        /\ BrokenComing' <=> BrokenComing
        /\ armed'["read"] + Waiting("read")' = armed["read"] + Waiting("read")
        /\ armed'["write"] + Waiting("write")' = armed["write"] + Waiting("write") + 1
        /\ UNCHANGED <<sock, handler, transferred, silenced, m_state, m_queue, m_send_buf, wire,
                       notices, crashed, overtaken, faults>>
    <2>1. caller = "async_write" /\ Start("write", sock = "connected")
      BY DEF StartWrite
    <2>2. sock = "connected" => armed["write"] = 0
      BY <2>1, Numbers DEF Core, OneOfEach, Alive, Writers
    <2> QED
      BY <2>1, <2>2, OperationStarts, Numbers, SameNotices
         DEF StartWrite, Returns, bufVars, threadVars
  <1>2. Tight'
    BY <1>1, Numbers, SMTT(30) DEF Tight, Status, HandlerStep, Reading
  <1>3. SocketTells'
    BY <1>1 DEF Core, SocketTells, Alive
  <1>4. OneOfEach'
    BY <1>1, Numbers DEF Core, SocketTells, OneOfEach, Alive, Readers, Writers, ReadHandler, Reading
  <1>5. NewConnection'
    BY <1>1
  <1>6. PartsTell'
    BY <1>1, Numbers, SMTT(30)
       DEF Core, PartsTell, OneOfEach, SocketTells, Alive, Sending, Ready, SentOf, Between,
           Writers
  <1>7. Served'
    BY <1>1, Numbers, SMTT(30)
       DEF Core, SocketTells, OneOfEach, Served, Alive, Writers
  <1> QED
    BY <1>2, <1>3, <1>4, <1>5, <1>6, <1>7 DEF Core

\* Its only message is put into the buffer, unless the channel has become
\* inactive or the codec throws.
LEMMA WriteFirstStep ==
    ASSUME Tight, Core, WriteFirst, m_reconnectors' \in BOOLEAN
    PROVE  Tight' /\ Core'
  <1>1. /\ caller = "write" /\ m_reconnectors' \in BOOLEAN
        /\ \/ m_state = "INACTIVE" /\ caller' = "idle" /\ m_send_buf' = 0
           \/ m_state = "ACTIVE" /\ caller' = "async_write" /\ m_send_buf' = MsgParts
           \/ m_state = "ACTIVE" /\ caller' = "idle" /\ m_send_buf' = 0 /\ BrokenComing'
        /\ BrokenComing => BrokenComing'
        /\ notices' \in Seq(Status) /\ faults' \in 0..MaxFaults
        /\ Waiting("read")' = Waiting("read") /\ Waiting("write")' = Waiting("write")
        /\ UNCHANGED <<sock, armed, done, handler, transferred, silenced, m_state, m_queue, wire,
                       crashed, overtaken>>
    <2>1. CASE /\ \/ m_state = "INACTIVE" /\ m_send_buf' = 0 /\ Returns
                  \/ m_state = "ACTIVE" /\ m_send_buf' = MsgParts /\ caller' = "async_write"
               /\ UNCHANGED <<notices, faults>>
      BY <2>1, Numbers, SameDone, SameNotices
         DEF WriteFirst, Returns, netVars, threadVars, Tight
    <2>2. CASE /\ m_state = "ACTIVE"
               /\ m_send_buf' = 0 /\ Fault /\ Publish("BROKEN") /\ Returns
      BY <2>2, Numbers, SameDone, Publishes
         DEF WriteFirst, Returns, Fault, netVars, threadVars, Tight,
             Status
    <2> QED
      BY <2>1, <2>2 DEF WriteFirst
  <1>2. Tight'
    BY <1>1, Numbers, SMTT(30) DEF Tight, Status, HandlerStep, Reading
  <1>3. SocketTells'
    BY <1>1 DEF Core, SocketTells, Alive
  <1>4. OneOfEach'
    BY <1>1, Numbers, SMTT(30)
    DEF Core, SocketTells, OneOfEach, Alive, Readers, Writers, ReadHandler, Reading
  <1>5. NewConnection'
    BY <1>1 DEF Core, SocketTells, NewConnection, Alive, Stale
  <1>6. PartsTell'
    BY <1>1, Numbers, SMTT(30)
       DEF Core, PartsTell, OneOfEach, SocketTells, Alive, Sending, Ready, SentOf, Between,
           Writers
  <1>7. Served'
    BY <1>1, Numbers, SMTT(30)
       DEF Core, SocketTells, OneOfEach, Served, Alive, Writers
  <1> QED
    BY <1>2, <1>3, <1>4, <1>5, <1>6, <1>7 DEF Core

\* write() takes a message in; whoever finds the queue empty serves it.
LEMMA WriteStep ==
    ASSUME Tight, Core, OnSuccess \/ Send
    PROVE  Tight' /\ Core'
  <1>1. /\ caller = "idle" /\ m_reconnectors' \in BOOLEAN
        /\ \/ m_queue' = m_queue /\ caller' = "idle"
           \/ /\ m_state = "ACTIVE" /\ m_queue < MAX_QUEUE_SIZE
              /\ m_queue' = m_queue + 1
              /\ caller' = IF m_queue = 0 THEN "write" ELSE "idle"
        /\ BrokenComing <=> BrokenComing'
        /\ notices' \in Seq(Status)
        /\ Waiting("read")' = Waiting("read") /\ Waiting("write")' = Waiting("write")
        /\ UNCHANGED <<sock, armed, done, handler, transferred, silenced, m_state, m_send_buf, wire,
                       crashed, overtaken, faults>>
    <2>1. /\ write
          /\ caller' \in {"idle", "write"}
      BY DEF OnSuccess, Send, write, Notice
    <2>2. /\ caller = "idle" /\ m_reconnectors' \in BOOLEAN
          /\ notices' \in Seq(Status)
          /\ BrokenComing <=> BrokenComing'
      <3>1. CASE OnSuccess
        BY <2>1, <3>1, Takes, Numbers DEF OnSuccess, Status
      <3>2. CASE Send
        BY <2>1, <3>2, SameNotices, Numbers DEF Send, Tight
      <3> QED
        BY <3>1, <3>2
    <2> QED
      BY <2>1, <2>2, SameDone DEF write, netVars, threadVars
  <1>2. m_queue \in 0..MAX_QUEUE_SIZE /\ MAX_QUEUE_SIZE \in Nat
    BY Numbers DEF Tight
  <1>3. m_state = "ACTIVE" => Alive
    BY DEF Core, SocketTells, Tight
  <1>4. m_state = "ACTIVE" /\ m_queue = 0 =>
            /\ armed["write"] = 0 /\ Waiting("write") = 0 /\ Between
            /\ handler \notin {"on_write", "do_write", "async_write"}
            /\ \A i \in DOMAIN done : done[i].op # "write"
    BY <1>3, Numbers DEF Core, OneOfEach, Writers, PartsTell
  <1>5. Tight'
    <2>1. m_queue' \in 0..MAX_QUEUE_SIZE
      BY <1>1, <1>2
    <2>2. caller' \in {"idle", "write"}
      BY <1>1
    <2> QED
      BY <1>1, <2>1, <2>2 DEF Tight, Status, HandlerStep, Reading
  <1>6. SocketTells'
    BY <1>1 DEF Core, SocketTells, Alive
  <1>7. OneOfEach'
    <2>1. CASE m_queue' = m_queue /\ caller' = "idle"
      BY <1>1, <2>1, Numbers DEF Core, OneOfEach, Alive, Readers, Writers, ReadHandler, Reading
    <2>2. CASE m_state = "ACTIVE" /\ m_queue' = m_queue + 1 /\ m_queue = 0 /\ caller' = "write"
      BY <1>1, <1>4, <2>2, Numbers
      DEF Core, OneOfEach, Alive, Readers, Writers, ReadHandler, Reading
    <2>3. CASE m_queue' = m_queue + 1 /\ m_queue # 0 /\ caller' = "idle"
      BY <1>1, <1>2, <2>3, Numbers
      DEF Core, OneOfEach, Alive, Readers, Writers, ReadHandler, Reading
    <2> QED
      BY <1>1, <2>1, <2>2, <2>3
  <1>8. NewConnection'
    BY <1>1 DEF Core, SocketTells, NewConnection, Alive, Stale
  <1>9. PartsTell'
    <2>1. CASE m_queue' = m_queue /\ caller' = "idle"
      BY <1>1, <2>1 DEF Core, PartsTell, Alive, Sending, Ready, SentOf, Between
    <2>2. CASE m_state = "ACTIVE" /\ m_queue' = m_queue + 1 /\ m_queue = 0 /\ caller' = "write"
      BY <1>1, <1>4, <2>2, Numbers DEF PartsTell, Alive, Sending, Ready, SentOf, Between
    <2>3. CASE m_queue' = m_queue + 1 /\ m_queue # 0 /\ caller' = "idle"
      BY <1>1, <1>2, <2>3 DEF Core, PartsTell, Alive, Sending, Ready, SentOf, Between
    <2> QED
      BY <1>1, <2>1, <2>2, <2>3
  <1>10. Served'
    <2>1. CASE m_queue' = m_queue /\ caller' = "idle"
      BY <1>1, <2>1, Numbers DEF Core, Served, Writers
    <2>2. CASE m_state = "ACTIVE" /\ m_queue' = m_queue + 1 /\ m_queue = 0 /\ caller' = "write"
      BY <1>1, <1>4, <2>2, Numbers DEF Core, Served, Writers
    <2>3. CASE m_queue' = m_queue + 1 /\ m_queue # 0 /\ caller' = "idle"
      BY <1>1, <1>2, <2>3, Numbers DEF Core, Served, Writers
    <2> QED
      BY <1>1, <2>1, <2>2, <2>3
  <1> QED
    BY <1>5, <1>6, <1>7, <1>8, <1>9, <1>10 DEF Core

\* A failed connection is to be made again.
LEMMA OnFailedStep ==
    ASSUME Tight, Core, OnFailed
    PROVE  Tight' /\ Core'
  <1>1. /\ caller = "idle" /\ m_reconnectors' \in BOOLEAN
        /\ BrokenComing <=> BrokenComing'
        /\ notices' \in Seq(Status)
        /\ Waiting("read")' = Waiting("read") /\ Waiting("write")' = Waiting("write")
        /\ UNCHANGED <<sock, armed, done, handler, transferred, silenced, m_state, m_queue, m_send_buf,
                       wire, caller, crashed, overtaken, faults>>
    BY Takes, Numbers, SameDone DEF OnFailed, netVars, threadVars, bufVars, Status
  <1>2. Tight'
    BY <1>1, Numbers, SMTT(30) DEF Tight, Status, HandlerStep, Reading
  <1>3. SocketTells'
    BY <1>1 DEF Core, SocketTells, Alive
  <1>4. OneOfEach'
    BY <1>1, Numbers DEF Core, SocketTells, OneOfEach, Alive, Readers, Writers, ReadHandler, Reading
  <1>5. NewConnection'
    BY <1>1 DEF Core, SocketTells, NewConnection, Alive, Stale
  <1>6. PartsTell'
    BY <1>1, Numbers, SMTT(30)
       DEF Core, PartsTell, OneOfEach, SocketTells, Alive, Sending, Ready, SentOf, Between,
           Writers
  <1>7. Served'
    BY <1>1, Numbers, SMTT(30)
       DEF Core, SocketTells, OneOfEach, Served, Alive, Writers
  <1> QED
    BY <1>2, <1>3, <1>4, <1>5, <1>6, <1>7 DEF Core

\* The module's thread begins to close a broken connection.
LEMMA OnBrokenStep ==
    ASSUME Tight, Core, OnBroken
    PROVE  Tight' /\ Core'
  <1>1. /\ caller = "idle" /\ caller' = "close" /\ m_state' = "INACTIVE"
        /\ BrokenComing'
        /\ notices' \in Seq(Status)
        /\ Waiting("read")' = Waiting("read") /\ Waiting("write")' = Waiting("write")
        /\ UNCHANGED <<sock, armed, done, handler, transferred, silenced, m_queue, m_send_buf,
                       wire, crashed, overtaken, faults, m_reconnectors>>
    BY Takes, Numbers, SameDone DEF OnBroken, close, netVars, threadVars, bufVars, Status
  <1>2. Tight'
    BY <1>1, Numbers, SMTT(30) DEF Tight, Status, HandlerStep, Reading
  <1>3. SocketTells'
    BY <1>1 DEF Core, SocketTells, Alive
  <1>4. OneOfEach'
    BY <1>1, Numbers DEF Core, SocketTells, OneOfEach, Alive, Readers, Writers, ReadHandler, Reading
  <1>5. NewConnection'
    BY <1>1 DEF Core, SocketTells, NewConnection, Alive, Stale
  <1>6. PartsTell'
    BY <1>1, Numbers, SMTT(30)
       DEF Core, PartsTell, OneOfEach, SocketTells, Alive, Sending, Ready, SentOf, Between,
           Writers
  <1>7. Served'
    BY <1>1, Numbers, SMTT(30)
       DEF Core, SocketTells, OneOfEach, Served, Alive, Writers
  <1> QED
    BY <1>2, <1>3, <1>4, <1>5, <1>6, <1>7 DEF Core

\* The queue is cleared, the socket being closed.
LEMMA ClearQueueStep ==
    ASSUME Tight, Core, ClearQueue, m_reconnectors' \in BOOLEAN
    PROVE  Tight' /\ Core'
  <1>1. /\ caller = "clear" /\ caller' = "reset" /\ m_queue' = 0 /\ m_reconnectors' \in BOOLEAN
        /\ BrokenComing'
        /\ Waiting("read")' = Waiting("read") /\ Waiting("write")' = Waiting("write")
        /\ UNCHANGED <<sock, armed, done, handler, transferred, silenced, m_state, m_send_buf,
                       wire, notices, crashed, overtaken, faults>>
    BY Numbers, SameDone, SameNotices DEF ClearQueue, netVars, threadVars
  <1>2. Tight'
    BY <1>1, Numbers, SMTT(30) DEF Tight, Status, HandlerStep, Reading
  <1>3. SocketTells'
    BY <1>1 DEF Core, SocketTells, Alive
  <1>4. OneOfEach'
    BY <1>1, Numbers DEF Core, SocketTells, OneOfEach, Alive, Readers, Writers, ReadHandler, Reading
  <1>5. NewConnection'
    BY <1>1 DEF Core, SocketTells, NewConnection, Alive, Stale
  <1>6. PartsTell'
    BY <1>1, Numbers, SMTT(30)
       DEF Core, PartsTell, OneOfEach, SocketTells, Alive, Sending, Ready, SentOf, Between,
           Writers
  <1>7. Served'
    BY <1>1, Numbers, SMTT(30)
       DEF Core, SocketTells, OneOfEach, Served, Alive, Writers
  <1> QED
    BY <1>2, <1>3, <1>4, <1>5, <1>6, <1>7 DEF Core

\* The buffers are reset, the queue being empty.
LEMMA ResetBuffersStep ==
    ASSUME Tight, Core, ResetBuffers, m_reconnectors' \in BOOLEAN
    PROVE  Tight' /\ Core'
  <1>1. /\ caller = "reset" /\ caller' = "idle" /\ m_send_buf' = 0 /\ m_reconnectors' \in BOOLEAN
        /\ Waiting("read")' = Waiting("read") /\ Waiting("write")' = Waiting("write")
        /\ UNCHANGED <<sock, armed, done, handler, transferred, silenced, m_state, m_queue,
                       wire, notices, crashed, overtaken, faults>>
    BY Numbers, SameDone DEF ResetBuffers, Returns, netVars, threadVars
  <1>2. Tight'
    BY <1>1, Numbers, SMTT(30) DEF Tight, Status, HandlerStep, Reading
  <1>3. SocketTells'
    BY <1>1 DEF Core, SocketTells, Alive
  <1>4. OneOfEach'
    BY <1>1, Numbers DEF Core, SocketTells, OneOfEach, Alive, Readers, Writers, ReadHandler, Reading
  <1>5. NewConnection'
    BY <1>1 DEF Core, SocketTells, NewConnection, Alive, Stale
  <1>6. PartsTell'
    BY <1>1, Numbers, SMTT(30)
       DEF Core, PartsTell, OneOfEach, SocketTells, Alive, Sending, Ready, SentOf, Between,
           Writers
  <1>7. Served'
    BY <1>1, Numbers, SMTT(30)
       DEF Core, SocketTells, OneOfEach, Served, Alive, Writers
  <1> QED
    BY <1>2, <1>3, <1>4, <1>5, <1>6, <1>7 DEF Core

\* A connection that cannot be made leaves the socket closed.
LEMMA ConnectFailsStep ==
    ASSUME Tight, Core, ConnectFails, UNCHANGED m_reconnectors
    PROVE  Tight' /\ Core'
  <1> DEFINE c == Completed("connect", "error", 0)
  <1>1. /\ Complete("connect", "error", 0) /\ "connect" \in Op /\ 0 \in 0..MsgParts
        /\ c.op = "connect" /\ c.res = "error"
    BY Numbers DEF ConnectFails, Op, Completed
  <1>2. /\ done' = Append(done, c) /\ c \in Completion
        /\ armed' \in [Op -> 0..1] /\ armed'["connect"] = 0
        /\ armed'["read"] = armed["read"] /\ armed'["write"] = armed["write"]
    BY <1>1, Completes DEF Op
  <1> HIDE DEF c
  <1>3. /\ sock = "connecting" /\ sock' = "closed"
        /\ armed' \in [Op -> 0..1] /\ armed'["connect"] = 0
        /\ armed'["read"] = armed["read"] /\ armed'["write"] = armed["write"]
        /\ c.op = "connect" /\ c.res = "error"
        /\ done' \in Seq(Completion)
        /\ Waiting("read")' = Waiting("read") /\ Waiting("write")' = Waiting("write")
        /\ \A i \in DOMAIN done' : (i \in DOMAIN done /\ done'[i] = done[i]) \/ done'[i] = c
        /\ faults' \in 0..MaxFaults
        /\ BrokenComing' <=> BrokenComing
        /\ UNCHANGED <<handler, transferred, silenced, m_state, m_queue, m_send_buf, wire,
                       caller, notices, crashed, overtaken,
                       m_reconnectors>>
    <2>1. /\ done' \in Seq(Completion)
          /\ Waiting("read")' = Waiting("read") /\ Waiting("write")' = Waiting("write")
          /\ \A i \in DOMAIN done' : (i \in DOMAIN done /\ done'[i] = done[i]) \/ done'[i] = c
      BY <1>1, <1>2, Comes, Numbers
    <2>2. faults' \in 0..MaxFaults
      BY Numbers DEF ConnectFails, Fault, Tight
    <2> QED
      BY <1>1, <1>2, <2>1, <2>2, SameNotices, Numbers
         DEF ConnectFails, threadVars, bufVars
  <1>4. Tight'
    BY <1>3, Numbers DEF Tight, Status, HandlerStep, Reading
  <1>5. SocketTells'
    BY <1>3 DEF Core, SocketTells, Alive
  <1>6. OneOfEach'
    BY <1>3, Numbers DEF Core, SocketTells, OneOfEach, Alive, Readers, Writers, ReadHandler, Reading
  <1>7. NewConnection'
    BY <1>3 DEF Core, SocketTells, NewConnection, Alive, Stale
  <1>8. PartsTell'
    BY <1>3, Numbers
       DEF Core, PartsTell, OneOfEach, SocketTells, Alive, Sending, Ready, SentOf, Between,
           Writers
  <1>9. Served'
    BY <1>3, Numbers DEF Core, SocketTells, OneOfEach, Served, Alive, Writers
  <1> QED
    BY <1>4, <1>5, <1>6, <1>7, <1>8, <1>9 DEF Core

\* The timer connects a channel again: only a closed socket can be.
LEMMA ReconnectStep ==
    ASSUME Tight, Core, OnReconnectTimer
    PROVE  Tight' /\ Core'
  <1> DEFINE c == Completed("connect", "error", 0)
  <1>1. /\ Start("connect", sock = "closed") /\ "connect" \in Op
        /\ c.op = "connect" /\ c.res = "error"
        /\ sock = "closed" => armed["connect"] = 0
    BY Numbers DEF OnReconnectTimer, connect, Op, Completed, Core, SocketTells
  <1>2. /\ caller = "idle"
        /\ sock' = IF sock = "closed" THEN "connecting" ELSE sock
        /\ armed' \in [Op -> 0..1]
        /\ armed'["connect"] = IF sock = "closed" THEN 1 ELSE armed["connect"]
        /\ armed'["read"] = armed["read"] /\ armed'["write"] = armed["write"]
        /\ c.op = "connect" /\ c.res = "error"
        /\ done' \in Seq(Completion)
        /\ Waiting("read")' = Waiting("read") /\ Waiting("write")' = Waiting("write")
        /\ \A i \in DOMAIN done' : (i \in DOMAIN done /\ done'[i] = done[i]) \/ done'[i] = c
        /\ BrokenComing' <=> BrokenComing
        /\ UNCHANGED <<handler, transferred, silenced, m_state, m_queue, m_send_buf, wire, faults,
                       caller, notices, crashed, overtaken,
                       m_reconnectors>>
    <2>1. /\ UNCHANGED <<handler, transferred, silenced, m_state, m_queue, m_send_buf, wire, faults,
                         caller, notices, crashed, overtaken,
                       m_reconnectors>>
          /\ caller = "idle"
          /\ sock' = IF sock = "closed" THEN "connecting" ELSE sock
      BY DEF OnReconnectTimer, connect, threadVars, bufVars
    <2>2. BrokenComing' <=> BrokenComing
      BY <2>1, SameNotices, Numbers
    <2>3. CASE sock = "closed"
      <3>1. /\ done' = done
            /\ armed' \in [Op -> 0..1] /\ armed'["connect"] = 1
            /\ armed'["read"] = armed["read"] /\ armed'["write"] = armed["write"]
        BY <1>1, <2>3, Starts DEF Op
      <3> QED
        BY <1>1, <2>1, <2>2, <2>3, <3>1, SameDone, Numbers
    <2>4. CASE sock # "closed"
      <3>1. armed' = armed /\ c \in Completion /\ done' = Append(done, c)
        BY <1>1, <2>4, Starts
      <3>2. armed \in [Op -> 0..1]
        BY DEF Tight
      <3> HIDE DEF c
      <3>3. /\ done' \in Seq(Completion)
            /\ Waiting("read")' = Waiting("read") /\ Waiting("write")' = Waiting("write")
            /\ \A i \in DOMAIN done' : (i \in DOMAIN done /\ done'[i] = done[i]) \/ done'[i] = c
        BY <1>1, <3>1, Comes, Numbers
      <3> QED
        BY <1>1, <2>1, <2>2, <2>4, <3>1, <3>2, <3>3
    <2> QED
      BY <2>3, <2>4
  <1> HIDE DEF c
  <1>3. Tight'
    BY <1>2, Numbers DEF Tight, Status, HandlerStep, Reading
  <1>4. SocketTells'
    BY <1>2 DEF Core, SocketTells, Alive
  <1>5. OneOfEach'
    BY <1>2, Numbers DEF Core, SocketTells, OneOfEach, Alive, Readers, Writers, ReadHandler, Reading
  <1>6. NewConnection'
    BY <1>2 DEF Core, SocketTells, NewConnection, Alive, Stale
  <1>7. PartsTell'
    BY <1>2, Numbers
       DEF Core, PartsTell, OneOfEach, SocketTells, Alive, Sending, Ready, SentOf, Between,
           Writers
  <1>8. Served'
    BY <1>2, Numbers DEF Core, SocketTells, OneOfEach, Served, Alive, Writers
  <1> QED
    BY <1>3, <1>4, <1>5, <1>6, <1>7, <1>8 DEF Core

\* A new connection that overtakes nothing starts from nothing.
LEMMA ConnectSucceedsStep ==
    ASSUME Tight, Core, ConnectSucceeds, ~overtaken', UNCHANGED m_reconnectors
    PROVE  Tight' /\ Core'
  <1> DEFINE c == Completed("connect", "ok", 0)
  <1>1. /\ Complete("connect", "ok", 0) /\ "connect" \in Op /\ 0 \in 0..MsgParts
        /\ c.op = "connect" /\ c.res = "ok"
    BY Numbers DEF ConnectSucceeds, Op, Completed
  <1>2. /\ done' = Append(done, c) /\ c \in Completion
        /\ armed' \in [Op -> 0..1] /\ armed'["connect"] = 0
        /\ armed'["read"] = armed["read"] /\ armed'["write"] = armed["write"]
    BY <1>1, Completes DEF Op
  <1> HIDE DEF c
  <1>3. /\ handler = "idle"
        /\ \A i \in DOMAIN done : ~Stale(done[i])
    BY DEF ConnectSucceeds
  <1>4. Waiting("read") = 0 /\ Waiting("write") = 0
    BY <1>3, Numbers DEF Stale
  <1>5. /\ sock = "connecting" /\ m_queue = 0 /\ m_state = "INACTIVE"
         /\ armed["read"] = 0 /\ armed["write"] = 0
         /\ caller \notin {"write", "async_write"}
    BY DEF ConnectSucceeds, Core, SocketTells, Alive
  <1>6. /\ sock' = "connected" /\ wire' = 0
        /\ armed' \in [Op -> 0..1] /\ armed'["connect"] = 0
        /\ armed'["read"] = 0 /\ armed'["write"] = 0
        /\ done' \in Seq(Completion)
        /\ Waiting("read")' = 0 /\ Waiting("write")' = 0
        /\ c.op = "connect" /\ c.res = "ok"
        /\ \E n : /\ n \notin DOMAIN done /\ done'[n] = c
                  /\ DOMAIN done' = DOMAIN done \union {n}
        /\ \A i \in DOMAIN done : done'[i] = done[i]
        /\ overtaken' \in BOOLEAN
        /\ UNCHANGED <<handler, transferred, silenced, m_state, m_queue, m_send_buf,
                       caller, notices, crashed, faults, m_reconnectors>>
    BY <1>1, <1>2, <1>4, <1>5, Comes, Numbers DEF ConnectSucceeds, threadVars, bufVars
  <1>7. Tight'
    BY <1>6, Numbers DEF Tight, Status, HandlerStep, Reading
  <1>8. SocketTells'
    BY <1>5, <1>6 DEF Core, SocketTells, Alive
  <1>9. OneOfEach'
    BY <1>3, <1>5, <1>6 DEF OneOfEach, Readers, Writers, ReadHandler, Reading
  <1>10. NewConnection'
    <2> PICK n : /\ n \notin DOMAIN done /\ done'[n] = c
                 /\ DOMAIN done' = DOMAIN done \union {n}
      BY <1>6
    <2>1. \A i \in DOMAIN done : ~Stale(done'[i])
      BY <1>3, <1>6
    <2>2. \A i \in DOMAIN done : ~(done'[i].op = "connect" /\ done'[i].res = "ok")
      BY <2>1 DEF Stale
    <2>3. \A j \in DOMAIN done' \ {n} : ~Stale(done'[j])
      BY <2>1
    <2> QED
      BY <1>3, <1>5, <1>6, <2>2, <2>3 DEF NewConnection, Stale
  <1>11. PartsTell'
    BY <1>5, <1>6 DEF PartsTell, Between
  <1>12. Served'
    BY <1>5, <1>6 DEF Served
  <1> QED
    BY <1>7, <1>8, <1>9, <1>10, <1>11, <1>12 DEF Core

(***************************************************************************)
(* on_connect(), on_read() and on_write() take a completion, up to where   *)
(* they look at what was transferred.                                      *)
(***************************************************************************)
Taken ==
    /\ handler = "idle" /\ done # <<>>
    /\ done' = Tail(done)
    /\ transferred' = Head(done).parts
    /\ UNCHANGED <<sock, armed, bufVars, wire, caller, faults, m_reconnectors>>

\* A new connection that waits behind another completion is still new, and only
\* attempts that failed are before it.
LEMMA StillNew ==
    ASSUME Tight, Core, Taken, m_state' \in {m_state, "INACTIVE"},
           handler' = "idle" \/ Head(done).op # "connect"
    PROVE  NewConnection'
  <1>1. /\ 1 \in DOMAIN done /\ Head(done) = done[1]
        /\ \A i \in DOMAIN done' : /\ i \in Nat \ {0} /\ i + 1 \in DOMAIN done
                                   /\ done'[i] = done[i + 1]
    BY Goes, Numbers DEF Taken
  <1>2. \A i \in DOMAIN done' : i + 1 # 1
    BY <1>1
  <1>3. \A i, j \in DOMAIN done' : i # j => i + 1 # j + 1
    BY <1>1
  <1> SUFFICES ASSUME NEW i \in DOMAIN done', done'[i].op = "connect" /\ done'[i].res = "ok"
               PROVE  /\ \A j \in DOMAIN done' \ {i} : ~Stale(done'[j])
                      /\ armed'["read"] = 0 /\ armed'["write"] = 0
                      /\ handler' = "idle"
                      /\ caller' \notin {"write", "async_write"}
                      /\ m_state' = "INACTIVE"
                      /\ m_queue' = 0 /\ wire' = 0
    BY DEF NewConnection, Stale
  <1>4. done[i + 1].op = "connect" /\ done[i + 1].res = "ok" /\ i + 1 \in DOMAIN done
    BY <1>1
  <1>5. /\ \A j \in DOMAIN done \ {i + 1} : ~Stale(done[j])
        /\ armed["read"] = 0 /\ armed["write"] = 0
        /\ caller \notin {"write", "async_write"}
        /\ m_state = "INACTIVE"
        /\ m_queue = 0 /\ wire = 0
    BY <1>4 DEF Core, NewConnection
  <1>6. ~Stale(done[1])
    BY <1>1, <1>2, <1>5
  <1>7. \A j \in DOMAIN done' \ {i} : ~Stale(done'[j])
    BY <1>1, <1>3, <1>5
  <1> QED
    BY <1>1, <1>5, <1>6, <1>7 DEF Taken, bufVars, Stale

\* A completion nobody goes on from leaves no more at work on either side.
LEMMA FewerAtWork ==
    ASSUME Tight, handler = "idle", handler' = "idle", UNCHANGED <<armed, caller>>,
           NEW r \in {0, 1}, Waiting("read") = Waiting("read")' + r,
           NEW w \in {0, 1}, Waiting("write") = Waiting("write")' + w,
           Waiting("read")' \in Nat, Waiting("write")' \in Nat
    PROVE  /\ Writers \in Nat /\ Writers' \in Nat /\ Writers' <= Writers
           /\ Readers \in Nat /\ Readers' \in Nat /\ Readers' <= Readers
  <1>1. armed["read"] \in {0, 1} /\ armed["write"] \in {0, 1}
    BY Numbers
  <1>2. Writers \in Nat /\ Writers' \in Nat /\ Writers' <= Writers
    BY <1>1 DEF Writers
  <1>3. Readers \in Nat /\ Readers' \in Nat /\ Readers' <= Readers
    BY <1>1 DEF Readers, ReadHandler, Reading
  <1> QED
    BY <1>2, <1>3

\* A completion that is taken moves no part: what is known of the message before
\* it is known after it, of the handler that goes on with what was sent too.
LEMMA PartsStay ==
    ASSUME PartsTell, UNCHANGED <<sock, armed, m_queue, m_send_buf, wire, caller>>,
           1 \in DOMAIN done,
           \A i \in DOMAIN done' : i + 1 \in DOMAIN done /\ done'[i] = done[i + 1],
           \/ handler' \in {"idle", "on_read", "timed_out"}
           \/ /\ handler' = "on_write" /\ transferred' = done[1].parts
              /\ done[1].op = "write" /\ done[1].res = "ok"
    PROVE  PartsTell'
  <1>1. CASE ~(m_queue > 0 /\ Alive)
    BY <1>1 DEF PartsTell, Alive, Between
  <1>2. CASE m_queue > 0 /\ Alive
    <2>1. /\ Sending => Ready
          /\ \A i \in DOMAIN done :
                done[i].op = "write" /\ done[i].res = "ok" => SentOf(done[i].parts)
          /\ caller = "write" => Between
      BY <1>2 DEF PartsTell
    <2>2. Sending' => Ready'
      BY <2>1 DEF Sending, Ready, Between
    <2>3. ASSUME NEW i \in DOMAIN done', done'[i].op = "write", done'[i].res = "ok"
          PROVE  SentOf(done[i].parts)'
      <3>1. i + 1 \in DOMAIN done /\ done'[i] = done[i + 1]
        OBVIOUS
      <3>2. /\ m_send_buf > 0 /\ done'[i].parts <= m_send_buf
            /\ wire = MsgParts - (m_send_buf - done'[i].parts)
        BY <2>1, <2>3, <3>1 DEF SentOf
      <3>3. m_send_buf' = m_send_buf /\ wire' = wire
        OBVIOUS
      <3> QED
        BY <3>2, <3>3, Zenon DEF SentOf
    <2>4. handler' = "on_write" => SentOf(transferred)'
      BY <2>1 DEF SentOf
    <2>5. (m_queue > 0)' /\ Alive' /\ (caller' = "write" => Between')
      BY <1>2, <2>1 DEF Alive, Between
    <2>6. (m_queue # 0)'
      BY <1>2
    <2>7. (\A i \in DOMAIN done :
              done[i].op = "write" /\ done[i].res = "ok" => SentOf(done[i].parts))'
      BY <2>3
    <2> QED
      BY <2>2, <2>4, <2>5, <2>6, <2>7, Zenon DEF PartsTell
  <1> QED
    BY <1>1, <1>2

\* An attempt that failed, or an operation that did, leaves the channel inactive.
LEMMA FailedStep ==
    ASSUME Tight, Core, Taken, NEW status \in Status, Failed(Head(done).res, status)
    PROVE  Tight' /\ Core'
  <1>1. /\ handler' = "idle" /\ m_state' = "INACTIVE"
        /\ notices' \in Seq(Status)
        /\ UNCHANGED <<silenced, crashed, overtaken>>
        /\ Head(done) \in Completion /\ done' \in Seq(Completion)
        /\ 1 \in DOMAIN done /\ Head(done) = done[1]
        /\ Waiting("read") = Waiting("read")' + (IF Head(done).op = "read" THEN 1 ELSE 0)
        /\ Waiting("write") = Waiting("write")' + (IF Head(done).op = "write" THEN 1 ELSE 0)
        /\ Waiting("read")' \in Nat /\ Waiting("write")' \in Nat
        /\ \A i \in DOMAIN done' : i + 1 \in DOMAIN done /\ done'[i] = done[i + 1]
        /\ handler = "idle" /\ transferred' = Head(done).parts /\ transferred' \in 0..MsgParts
        /\ UNCHANGED <<sock, armed, m_queue, m_send_buf, wire, caller, faults, m_reconnectors>>
    <2>1. notices' \in Seq(Status)
      BY Numbers, Publishes DEF Failed
    <2>2. Head(done).parts \in 0..MsgParts
      BY Goes, Numbers DEF Taken, Completion
    <2> QED
      BY <2>1, <2>2, Goes, Numbers DEF Taken, Failed, Finish, bufVars
  <1>2. /\ Writers \in Nat /\ Writers' \in Nat /\ Writers' <= Writers
        /\ Readers \in Nat /\ Readers' \in Nat /\ Readers' <= Readers
    BY <1>1, FewerAtWork
  <1>3. Tight'
    BY <1>1, Numbers, SMTT(30) DEF Tight, Status, HandlerStep, Reading
  <1>4. SocketTells'
    BY <1>1 DEF Core, SocketTells, Alive
  <1>5. OneOfEach'
    BY <1>1, <1>2 DEF Core, OneOfEach, Alive
  <1>6. NewConnection'
    BY <1>1, StillNew
  <1>7. PartsTell'
    BY <1>1, PartsStay DEF Core
  <1>8. Served'
    BY <1>1, Numbers, SMTT(30)
       DEF Core, SocketTells, OneOfEach, Served, Alive, Writers
  <1> QED
    BY <1>3, <1>4, <1>5, <1>6, <1>7, <1>8 DEF Core

\* An inactive channel takes no notice of what was transferred.
LEMMA IgnoredStep ==
    ASSUME Tight, Core, Taken, m_state = "INACTIVE",
           UNCHANGED <<handler, silenced, m_state, notices, crashed, overtaken>>
    PROVE  Tight' /\ Core'
  <1>1. /\ handler' = "idle" /\ m_state = "INACTIVE"
        /\ UNCHANGED <<handler, silenced, m_state, notices, crashed, overtaken>>
        /\ Head(done) \in Completion /\ done' \in Seq(Completion)
        /\ 1 \in DOMAIN done /\ Head(done) = done[1]
        /\ Waiting("read") = Waiting("read")' + (IF Head(done).op = "read" THEN 1 ELSE 0)
        /\ Waiting("write") = Waiting("write")' + (IF Head(done).op = "write" THEN 1 ELSE 0)
        /\ Waiting("read")' \in Nat /\ Waiting("write")' \in Nat
        /\ \A i \in DOMAIN done' : i + 1 \in DOMAIN done /\ done'[i] = done[i + 1]
        /\ handler = "idle" /\ transferred' = Head(done).parts /\ transferred' \in 0..MsgParts
        /\ UNCHANGED <<sock, armed, m_queue, m_send_buf, wire, caller, faults, m_reconnectors>>
    <2>1. Head(done).parts \in 0..MsgParts
      BY Goes, Numbers DEF Taken, Completion
    <2> QED
      BY <2>1, Goes, Numbers DEF Taken, bufVars
  <1>2. /\ Writers \in Nat /\ Writers' \in Nat /\ Writers' <= Writers
        /\ Readers \in Nat /\ Readers' \in Nat /\ Readers' <= Readers
    BY <1>1, FewerAtWork
  <1>3. Tight'
    BY <1>1, Numbers, SMTT(30) DEF Tight, Status, HandlerStep, Reading
  <1>4. SocketTells'
    BY <1>1 DEF Core, SocketTells, Alive
  <1>5. OneOfEach'
    BY <1>1, <1>2 DEF Core, OneOfEach, Alive
  <1>6. NewConnection'
    BY <1>1, StillNew
  <1>7. PartsTell'
    BY <1>1, PartsStay DEF Core
  <1>8. Served'
    BY <1>1, Numbers, SMTT(30)
       DEF Core, SocketTells, OneOfEach, Served, Alive, Writers
  <1> QED
    BY <1>3, <1>4, <1>5, <1>6, <1>7, <1>8 DEF Core

\* What was read or written is dealt with by the one handler there is; so is a
\* read that timed out.
LEMMA HandledStep ==
    ASSUME Tight, Core, Taken,
           Head(done).op # "connect", m_state = "ACTIVE",
           Head(done).res = "ok" \/ TimedOut(Head(done)),
           handler' = IF Head(done).res = "ok" THEN Handling(Head(done).op) ELSE "timed_out",
           UNCHANGED <<silenced, m_state, notices, crashed, overtaken>>
    PROVE  Tight' /\ Core'
  <1>1. /\ \/ Head(done).op = "read" /\ handler' \in {"on_read", "timed_out"}
           \/ Head(done).op = "write" /\ handler' = "on_write" /\ Head(done).res = "ok"
        /\ m_state = "ACTIVE"
        /\ BrokenComing' <=> BrokenComing
        /\ UNCHANGED <<silenced, m_state, notices, crashed, overtaken>>
        /\ Head(done) \in Completion /\ done' \in Seq(Completion)
        /\ 1 \in DOMAIN done /\ Head(done) = done[1]
        /\ Waiting("read") = Waiting("read")' + (IF Head(done).op = "read" THEN 1 ELSE 0)
        /\ Waiting("write") = Waiting("write")' + (IF Head(done).op = "write" THEN 1 ELSE 0)
        /\ Waiting("read")' \in Nat /\ Waiting("write")' \in Nat
        /\ \A i \in DOMAIN done' : i + 1 \in DOMAIN done /\ done'[i] = done[i + 1]
        /\ handler = "idle" /\ transferred' = Head(done).parts /\ transferred' \in 0..MsgParts
        /\ UNCHANGED <<sock, armed, m_queue, m_send_buf, wire, caller, faults, m_reconnectors>>
    <2>1. Head(done).parts \in 0..MsgParts /\ Head(done).op \in Op
      BY Goes, Numbers DEF Taken, Completion
    <2>2. \/ Head(done).op = "read" /\ handler' \in {"on_read", "timed_out"}
          \/ Head(done).op = "write" /\ handler' = "on_write" /\ Head(done).res = "ok"
      BY <2>1 DEF Handling, TimedOut, Op
    <2>3. BrokenComing' <=> BrokenComing
      BY SameNotices, Numbers DEF Taken
    <2> QED
      BY <2>1, <2>2, <2>3, Goes, Numbers DEF Taken, bufVars
  <1>2. Writers' = Writers /\ Readers' = Readers
    <2>1. armed["read"] \in {0, 1} /\ armed["write"] \in {0, 1}
      BY Numbers
    <2>2. /\ ~ReadHandler /\ handler \notin {"on_write", "do_write", "async_write"}
          /\ armed' = armed /\ caller' = caller
          /\ Waiting("read")' \in Nat /\ Waiting("write")' \in Nat
      BY <1>1 DEF ReadHandler, Reading
    <2>3. CASE Head(done).op = "read" /\ handler' \in {"on_read", "timed_out"}
      <3>1. Waiting("read") = Waiting("read")' + 1 /\ Waiting("write") = Waiting("write")' + 0
        BY <1>1, <2>3
      <3>2. ReadHandler' /\ handler' \notin {"on_write", "do_write", "async_write"}
        BY <2>3 DEF ReadHandler, Reading
      <3> QED
        BY <2>1, <2>2, <3>1, <3>2 DEF Readers, Writers
    <2>4. CASE Head(done).op = "write" /\ handler' = "on_write"
      <3>1. Waiting("read") = Waiting("read")' + 0 /\ Waiting("write") = Waiting("write")' + 1
        BY <1>1, <2>4
      <3>2. ~ReadHandler' /\ handler' = "on_write"
        BY <2>4 DEF ReadHandler, Reading
      <3> QED
        BY <2>1, <2>2, <3>1, <3>2 DEF Readers, Writers
    <2> QED
      BY <1>1, <2>3, <2>4
  <1>3. Tight'
    BY <1>1, Numbers, SMTT(30) DEF Tight, Status, HandlerStep, Reading
  <1>4. SocketTells'
    BY <1>1 DEF Core, SocketTells, Alive
  <1>5. OneOfEach'
    BY <1>1, <1>2 DEF Core, OneOfEach, Alive
  <1>6. NewConnection'
    BY <1>1, StillNew
  <1>7. PartsTell'
    BY <1>1, PartsStay DEF Core
  <1>8. Served'
    BY <1>1, <1>2 DEF Core, Served
  <1> QED
    BY <1>3, <1>4, <1>5, <1>6, <1>7, <1>8 DEF Core

\* A new connection is read from, by one, and has nothing to write.
LEMMA ConnectedStep ==
    ASSUME Tight, Core, Taken, Head(done).op = "connect", Head(done).res = "ok",
           Connected, ~crashed, ~crashed', ~overtaken'
    PROVE  Tight' /\ Core'
  <1>1. /\ Head(done).op = "connect" /\ Head(done).res = "ok"
        /\ sock \in {"connected", "broken"}
        /\ handler' = "connected" /\ m_state' = "ACTIVE" /\ silenced' \in BOOLEAN
        /\ notices' \in Seq(Status)
        /\ crashed' \in BOOLEAN /\ overtaken' \in BOOLEAN
        /\ caller # "close"
        /\ Head(done) \in Completion /\ done' \in Seq(Completion)
        /\ 1 \in DOMAIN done /\ Head(done) = done[1]
        /\ Waiting("read") = Waiting("read")' + (IF Head(done).op = "read" THEN 1 ELSE 0)
        /\ Waiting("write") = Waiting("write")' + (IF Head(done).op = "write" THEN 1 ELSE 0)
        /\ Waiting("read")' \in Nat /\ Waiting("write")' \in Nat
        /\ \A i \in DOMAIN done' : i + 1 \in DOMAIN done /\ done'[i] = done[i + 1]
        /\ handler = "idle" /\ transferred' = Head(done).parts /\ transferred' \in 0..MsgParts
        /\ UNCHANGED <<sock, armed, m_queue, m_send_buf, wire, caller, faults, m_reconnectors>>
    <2>1. Head(done).parts \in 0..MsgParts
      BY Goes, Numbers DEF Taken, Completion
    <2>2. Publish("SUCCESS") /\ "SUCCESS" \in Status
      BY DEF Connected, Status
    <2>3. notices' \in Seq(Status)
      BY <2>2, Publishes, Numbers
    <2> QED
      BY <2>1, <2>3, Goes, Numbers DEF Taken, Connected, bufVars, Tight
  <1>2. /\ \A j \in DOMAIN done \ {1} : ~Stale(done[j])
        /\ armed["read"] = 0 /\ armed["write"] = 0
        /\ caller \notin {"write", "async_write"}
        /\ m_queue = 0 /\ wire = 0
    BY <1>1 DEF Core, NewConnection
  <1>3. \A i \in DOMAIN done' : ~Stale(done'[i])
    <2>1. \A i \in DOMAIN done' : i + 1 # 1
      BY Goes, Numbers DEF Taken
    <2> QED
      BY <1>1, <1>2, <2>1
  <1>4. Waiting("read")' = 0 /\ Waiting("write")' = 0
    <2>1. /\ CountIn(done', "read") = 0 <=> \A i \in DOMAIN done' : done'[i].op # "read"
          /\ CountIn(done', "write") = 0 <=> \A i \in DOMAIN done' : done'[i].op # "write"
      BY <1>1, Places
    <2> QED
      BY <1>3, <2>1 DEF Waiting, CountIn, Stale
  <1>5. Tight'
    BY <1>1, Numbers, SMTT(30) DEF Tight, Status, HandlerStep, Reading
  <1>6. SocketTells'
    <2>1. caller \notin {"clear", "reset"}
      BY <1>1 DEF Core, SocketTells
    <2> QED
      BY <1>1, <1>2, <2>1 DEF Core, SocketTells, Alive, Tight
  <1>7. OneOfEach'
    BY <1>1, <1>2, <1>4 DEF OneOfEach, Readers, Writers, ReadHandler, Reading
  <1>8. NewConnection'
    BY <1>3 DEF NewConnection, Stale
  <1>9. PartsTell'
    BY <1>1, <1>2 DEF PartsTell, Between
  <1>10. Served'
    BY <1>1, <1>2, <1>4 DEF Served, Writers
  <1> QED
    BY <1>5, <1>6, <1>7, <1>8, <1>9, <1>10 DEF Core

\* Where on_connect() throws nobody is at work on the connection, nor is there
\* anything in its queue.
LEMMA ConnectedCrash ==
    ASSUME Tight, Core, Taken, Head(done).op = "connect", Head(done).res = "ok",
           Connected, sock # "connected", crashed', UNCHANGED <<handler, notices>>
    PROVE  Tight' /\ QueueHasOneWriter' /\ OneReader'
  <1>1. /\ Head(done).op = "connect" /\ Head(done).res = "ok"
        /\ handler' = "idle" /\ m_state' = "ACTIVE" /\ overtaken' \in BOOLEAN
        /\ silenced' \in BOOLEAN /\ crashed' = TRUE /\ notices' = notices
        /\ Head(done) \in Completion /\ done' \in Seq(Completion)
        /\ 1 \in DOMAIN done /\ Head(done) = done[1]
        /\ Waiting("read") = Waiting("read")' + (IF Head(done).op = "read" THEN 1 ELSE 0)
        /\ Waiting("write") = Waiting("write")' + (IF Head(done).op = "write" THEN 1 ELSE 0)
        /\ Waiting("read")' \in Nat /\ Waiting("write")' \in Nat
        /\ \A i \in DOMAIN done' : i + 1 \in DOMAIN done /\ done'[i] = done[i + 1]
        /\ handler = "idle" /\ transferred' = Head(done).parts /\ transferred' \in 0..MsgParts
        /\ UNCHANGED <<sock, armed, m_queue, m_send_buf, wire, caller, faults, m_reconnectors>>
    <2>1. Head(done).parts \in 0..MsgParts
      BY Goes, Numbers DEF Taken, Completion
    <2>2. crashed' = TRUE /\ overtaken' \in BOOLEAN
      BY DEF Connected, Tight
    <2> QED
      BY <2>1, <2>2, Goes, Numbers DEF Taken, Connected, bufVars
  <1>2. /\ \A j \in DOMAIN done \ {1} : ~Stale(done[j])
        /\ armed["read"] = 0 /\ armed["write"] = 0
        /\ caller \notin {"write", "async_write"}
        /\ m_queue = 0 /\ wire = 0
    BY <1>1 DEF Core, NewConnection
  <1>3. \A i \in DOMAIN done' : ~Stale(done'[i])
    <2>1. \A i \in DOMAIN done' : i + 1 # 1
      BY Goes, Numbers DEF Taken
    <2> QED
      BY <1>1, <1>2, <2>1
  <1>4. Waiting("read")' = 0 /\ Waiting("write")' = 0
    <2>1. /\ CountIn(done', "read") = 0 <=> \A i \in DOMAIN done' : done'[i].op # "read"
          /\ CountIn(done', "write") = 0 <=> \A i \in DOMAIN done' : done'[i].op # "write"
      BY <1>1, Places
    <2> QED
      BY <1>3, <2>1 DEF Waiting, CountIn, Stale
  <1>5. Tight'
    BY <1>1, Numbers, SMTT(30) DEF Tight, Status, HandlerStep, Reading
  <1>6. Writers' = 0 /\ Readers' = 0
    BY <1>1, <1>2, <1>4 DEF Readers, Writers, ReadHandler, Reading
  <1> QED
    BY <1>1, <1>2, <1>5, <1>6 DEF QueueHasOneWriter, OneReader

(***************************************************************************)
(* on_write() looks at what was transferred.                               *)
(***************************************************************************)

\* While the socket is as it was, the handler alone serves the queue, which is
\* not empty.
LEMMA OneWriter ==
    ASSUME Tight, Core, handler = "on_write", Alive
    PROVE  /\ Writers = 1 /\ m_queue > 0
           /\ armed["write"] = 0 /\ Waiting("write") = 0
           /\ caller \notin {"write", "async_write"}
           /\ \A i \in DOMAIN done : done[i].op # "write"
           /\ SentOf(transferred)
  <1>1. /\ Writers = 1
        /\ armed["write"] = 0 /\ Waiting("write") = 0
        /\ caller \notin {"write", "async_write"}
    BY Numbers DEF Core, OneOfEach, Writers
  <1>2. m_queue > 0
    BY <1>1 DEF Core, OneOfEach, Tight
  <1> QED
    BY <1>1, <1>2, Numbers DEF Core, PartsTell

\* The parts that were sent leave the buffer; the rest is written next.
LEMMA PartlySentStep ==
    ASSUME Tight, Core, PartlySent, handler = "on_write",
           UNCHANGED <<netVars, transferred, silenced, m_state, wire, caller,
                       overtaken, m_reconnectors>>
    PROVE  Tight' /\ Core'
  <1>1. /\ handler' = "do_write"
        /\ transferred = 0 \/ transferred < m_send_buf
        /\ m_send_buf' = m_send_buf - transferred
        /\ UNCHANGED <<m_queue, notices, crashed, faults>>
        /\ BrokenComing' <=> BrokenComing
        /\ handler = "on_write"
        /\ Waiting("read")' = Waiting("read") /\ Waiting("write")' = Waiting("write")
        /\ UNCHANGED <<sock, armed, done, transferred, silenced, m_state, wire, caller,
                       overtaken, m_reconnectors>>
    BY Numbers, SameDone, SameNotices DEF PartlySent, netVars
  <1>2. /\ m_queue \in 0..MAX_QUEUE_SIZE /\ m_send_buf \in 0..MsgParts
        /\ transferred \in 0..MsgParts /\ wire \in 0..MsgParts
    BY DEF Tight
  <1>3. m_state = "ACTIVE" => Alive
    BY DEF Core, SocketTells, Tight
  <1>4. m_send_buf' \in 0..MsgParts /\ (m_send_buf > 0 => m_send_buf' > 0)
    BY <1>1, <1>2, Numbers
  <1>5. Tight'
    BY <1>1, <1>4 DEF Tight, Status, HandlerStep, Reading
  <1>6. SocketTells'
    BY <1>1 DEF Core, SocketTells, Alive
  <1>7. OneOfEach'
    BY <1>1, Numbers DEF Core, SocketTells, OneOfEach, Alive, Readers, Writers, ReadHandler, Reading
  <1>8. NewConnection'
    BY <1>1 DEF Core, SocketTells, NewConnection, Alive, Stale
  <1>9. PartsTell'
    <2>1. CASE Alive
      <3>1. SentOf(transferred) /\ m_queue > 0
        BY <1>1, <2>1, OneWriter
      <3>2. Ready'
        BY <1>1, <1>2, <1>4, <3>1, Numbers DEF Ready, SentOf
      <3> QED
        BY <1>1, <2>1, <3>1, <3>2, OneWriter DEF PartsTell, Alive
    <2>2. CASE ~Alive
      BY <1>1, <2>2 DEF PartsTell, Alive
    <2> QED
      BY <2>1, <2>2
  <1>10. Served'
    BY <1>1, Numbers, SMTT(30)
       DEF Core, SocketTells, OneOfEach, Served, Alive, Writers
  <1> QED
    BY <1>5, <1>6, <1>7, <1>8, <1>9, <1>10 DEF Core

\* A whole message leaves the queue; the next one is put into the buffer, or there
\* is none, or the codec throws.
LEMMA WholeSentStep ==
    ASSUME Tight, Core, transferred > 0, transferred = m_send_buf, m_queue > 0,
           m_queue' = m_queue - 1,
           \/ m_queue' = 0 /\ m_send_buf' = 0 /\ Finish /\ UNCHANGED <<notices, faults>>
           \/ m_queue' > 0 /\ m_send_buf' = MsgParts /\ handler' = "do_write" /\ UNCHANGED <<notices, faults>>
           \/ m_queue' > 0 /\ m_send_buf' = 0 /\ Throw,
           UNCHANGED crashed, handler = "on_write",
           UNCHANGED <<netVars, transferred, silenced, m_state, wire, caller,
                       overtaken, m_reconnectors>>
    PROVE  Tight' /\ Core'
  <1>1. /\ \/ m_queue' = 0 /\ m_send_buf' = 0 /\ handler' = "idle"
           \/ m_queue' > 0 /\ m_send_buf' = MsgParts /\ handler' = "do_write"
           \/ m_queue' > 0 /\ m_send_buf' = 0 /\ handler' = "idle" /\ BrokenComing'
        /\ m_queue > 0 /\ m_queue' = m_queue - 1
        /\ transferred = m_send_buf /\ crashed' = crashed
        /\ notices' \in Seq(Status) /\ faults' \in 0..MaxFaults
        /\ BrokenComing => BrokenComing'
        /\ handler = "on_write"
        /\ Waiting("read")' = Waiting("read") /\ Waiting("write")' = Waiting("write")
        /\ UNCHANGED <<sock, armed, done, transferred, silenced, m_state, wire, caller,
                       overtaken, m_reconnectors>>
    <2>1. CASE UNCHANGED <<notices, faults>> /\ ~Throw
      BY <2>1, Numbers, SameDone, SameNotices DEF Finish, netVars, Tight
    <2>2. CASE m_queue' > 0 /\ m_send_buf' = 0 /\ Throw
      BY <2>2, Throws, Numbers, SameDone DEF netVars
    <2>3. CASE Throw /\ ~(m_queue' > 0 /\ m_send_buf' = 0)
      BY <2>3, Throws, Numbers, SameDone DEF netVars, Finish
    <2> QED
      BY <2>1, <2>2, <2>3
  <1>2. /\ m_queue \in 0..MAX_QUEUE_SIZE /\ m_send_buf \in 0..MsgParts
        /\ transferred \in 0..MsgParts /\ wire \in 0..MsgParts
    BY DEF Tight
  <1>3. m_state = "ACTIVE" => Alive
    BY DEF Core, SocketTells, Tight
  <1>4. m_send_buf' \in 0..MsgParts /\ m_queue' \in 0..MAX_QUEUE_SIZE
    BY <1>1, <1>2, Numbers
  <1>5. Tight'
    <2>1. handler' \in {"idle", "do_write"}
      BY <1>1
    <2> QED
      BY <1>1, <1>4, <2>1 DEF Tight, Status, HandlerStep, Reading
  <1>6. SocketTells'
    BY <1>1 DEF Core, SocketTells, Alive
  <1>7. OneOfEach'
    <2>1. CASE Alive
      <3>1. Writers' <= 1 /\ (m_queue' = 0 => Writers' = 0)
        BY <1>1, <2>1, OneWriter DEF Writers
      <3>2. Readers' <= Readers /\ Readers <= 1 /\ Readers \in Nat /\ Readers' \in Nat
        BY <1>1, <2>1, Numbers DEF Core, OneOfEach, Readers, ReadHandler, Reading
      <3> QED
        BY <3>1, <3>2 DEF OneOfEach
    <2>2. CASE ~Alive
      BY <1>1, <2>2 DEF OneOfEach, Alive
    <2> QED
      BY <2>1, <2>2
  <1>8. NewConnection'
    BY <1>1 DEF Core, SocketTells, NewConnection, Alive, Stale
  <1>9. PartsTell'
    <2>1. CASE Alive
      <3>1. wire = MsgParts
        BY <1>1, <1>2, <2>1, OneWriter, Numbers DEF SentOf
      <3> QED
        BY <1>1, <1>2, <2>1, <3>1, OneWriter, Numbers
           DEF PartsTell, Alive, Ready, Between, Sending
    <2>2. CASE ~Alive
      BY <1>1, <2>2 DEF PartsTell, Alive
    <2> QED
      BY <2>1, <2>2
  <1>10. Served'
    <2>1. CASE m_state = "ACTIVE"
      <3>1. m_queue' > 0 => Writers' = 1 \/ BrokenComing'
        BY <1>1, <1>3, <2>1, OneWriter DEF Writers
      <3> QED
        BY <1>1, <2>1, <3>1 DEF Served
    <2>2. CASE m_state # "ACTIVE"
      BY <1>1, <2>2 DEF Served
    <2> QED
      BY <2>1, <2>2
  <1> QED
    BY <1>5, <1>6, <1>7, <1>8, <1>9, <1>10 DEF Core

\* More than there was in the buffer cannot have been sent: BROKEN is on its way.
LEMMA TooMuchSentStep ==
    ASSUME Tight, Core, transferred > m_send_buf, Publish("BROKEN"), Finish,
           UNCHANGED <<bufVars, crashed, faults>>, handler = "on_write",
           UNCHANGED <<netVars, transferred, silenced, m_state, wire, caller,
                       overtaken, m_reconnectors>>
    PROVE  Tight' /\ Core'
  <1>1. /\ handler' = "idle" /\ BrokenComing' /\ notices' \in Seq(Status)
        /\ transferred > m_send_buf
        /\ UNCHANGED <<m_queue, m_send_buf, crashed, faults>>
        /\ handler = "on_write"
        /\ Waiting("read")' = Waiting("read") /\ Waiting("write")' = Waiting("write")
        /\ UNCHANGED <<sock, armed, done, transferred, silenced, m_state, wire, caller,
                       overtaken, m_reconnectors>>
    BY Numbers, SameDone, Publishes DEF netVars, bufVars, Finish, Status
  <1>2. /\ m_queue \in 0..MAX_QUEUE_SIZE /\ m_send_buf \in 0..MsgParts
        /\ transferred \in 0..MsgParts /\ wire \in 0..MsgParts
    BY DEF Tight
  <1>3. m_state = "ACTIVE" => Alive
    BY DEF Core, SocketTells, Tight
  <1>4. ~Alive
    BY <1>1, <1>2, OneWriter DEF SentOf
  <1>5. Tight'
    BY <1>1, Numbers, SMTT(30) DEF Tight, Status, HandlerStep, Reading
  <1>6. SocketTells'
    BY <1>1 DEF Core, SocketTells, Alive
  <1>7. OneOfEach'
    BY <1>1, <1>4 DEF OneOfEach, Alive
  <1>8. NewConnection'
    BY <1>1 DEF Core, SocketTells, NewConnection, Alive, Stale
  <1>9. PartsTell'
    BY <1>1, <1>4 DEF PartsTell, Alive
  <1>10. Served'
    BY <1>1, <1>3, <1>4 DEF Served
  <1> QED
    BY <1>5, <1>6, <1>7, <1>8, <1>9, <1>10 DEF Core

\* pop_front() of an empty queue: only a connection that has been closed has one
\* with a write behind it.
LEMMA EmptyQueueCrash ==
    ASSUME Tight, Core, transferred > 0, transferred = m_send_buf, m_queue = 0,
           m_send_buf' = 0, crashed' = TRUE, UNCHANGED <<handler, m_queue, notices, faults>>, handler = "on_write",
           UNCHANGED <<netVars, transferred, silenced, m_state, wire, caller,
                       overtaken, m_reconnectors>>
    PROVE  Tight' /\ QueueHasOneWriter' /\ OneReader'
  <1>1. Tight'
    BY Numbers DEF Tight, netVars
  <1>2. m_state' = "INACTIVE"
    BY OneWriter DEF Core, SocketTells, Alive, Tight
  <1> QED
    BY <1>1, <1>2 DEF QueueHasOneWriter, OneReader

\* Where read() throws and nobody catches it, the handler was alone at work.
LEMMA ReadCrash ==
    ASSUME Tight, Core, read, ~overtaken, ~crashed, crashed', UNCHANGED m_reconnectors
    PROVE  Tight' /\ QueueHasOneWriter' /\ OneReader'
  <1>1. /\ ReadThrows /\ handler # "read" /\ crashed' = TRUE
        /\ UNCHANGED <<handler, silenced, notices>>
    BY DEF read, ReadThrows, Throw
  <1>2. /\ faults' \in 0..MaxFaults
        /\ UNCHANGED <<sock, armed, done, transferred, m_queue, m_send_buf, m_state, wire,
                       caller, overtaken, m_reconnectors>>
        /\ BrokenComing' <=> BrokenComing
        /\ Waiting("read")' = Waiting("read") /\ Waiting("write")' = Waiting("write")
    <2>1. faults' \in 0..MaxFaults
      BY <1>1, Numbers DEF ReadThrows, Fault
    <2>2. UNCHANGED <<sock, armed, done, transferred, m_queue, m_send_buf, m_state, wire,
                       caller, overtaken, m_reconnectors>>
      BY DEF read, netVars, bufVars
    <2> QED
      BY <1>1, <2>1, <2>2, Numbers, SameDone, SameNotices
  <1>3. Tight'
    BY <1>1, <1>2, Numbers, SMTT(30) DEF Tight, HandlerStep
  <1>4. Readers' = Readers /\ Writers' = Writers
    BY <1>1, <1>2 DEF Readers, Writers, ReadHandler
  <1>5. m_state = "ACTIVE" => /\ Readers <= 1 /\ Writers <= 1
                              /\ (m_queue > 0 => Writers = 1 \/ BrokenComing)
    BY DEF Core, SocketTells, OneOfEach, Served
  <1> QED
    BY <1>1, <1>2, <1>3, <1>4, <1>5 DEF QueueHasOneWriter, OneReader

----------------------------------------------------------------------------

\* The socket is closed, and what was under way is aborted.
LEMMA CloseSocketStep ==
    ASSUME Tight, Core, CloseSocket, m_reconnectors' \in BOOLEAN
    PROVE  Tight' /\ Core'
  <1>1. /\ caller = "close" /\ caller' = "clear" /\ sock' = "closed" /\ m_reconnectors' \in BOOLEAN
        /\ m_state = "INACTIVE"
        /\ armed' = [op \in Op |-> 0]
        /\ UNCHANGED <<handler, transferred, silenced, m_queue, m_send_buf, m_state, wire, notices,
                       crashed, overtaken, faults>>
    BY DEF CloseSocket, threadVars, bufVars, Core, SocketTells
  <1>2. armed'["connect"] = 0 /\ armed'["read"] = 0 /\ armed'["write"] = 0 /\ armed' \in [Op -> 0..1]
    BY <1>1 DEF Op
  <1> PICK n \in Nat : n = armed["connect"] + armed["read"] + armed["write"]
    BY Numbers
  <1> PICK q \in [1..n -> Op] :
        /\ \A op \in Op : Cardinality({i \in DOMAIN q : q[i] = op}) = armed[op]
        /\ done' = done \o [i \in DOMAIN q |-> Completed(q[i], "aborted", 0)]
    BY DEF CloseSocket
  <1> DEFINE a == [i \in DOMAIN q |-> Completed(q[i], "aborted", 0)]
  <1>3. n \in Nat /\ DOMAIN q = 1..n
    OBVIOUS
  <1>4. /\ a \in [1..n -> Completion]
        /\ \A i \in 1..n : a[i].res = "aborted" /\ armed[a[i].op] # 0
    <2>1. \A i \in 1..n : q[i] \in Op /\ a[i] = Completed(q[i], "aborted", 0)
      BY <1>3
    <2>2. \A i \in 1..n : a[i] \in Completion /\ a[i].res = "aborted" /\ a[i].op = q[i]
      BY <2>1, Numbers DEF Completed, Completion
    <2>3. ASSUME NEW i \in 1..n
          PROVE  armed[q[i]] # 0
      <3> DEFINE I == {j \in DOMAIN q : q[j] = q[i]}
      <3>1. i \in I /\ I \subseteq 1..n /\ Cardinality(I) = armed[q[i]]
        BY <1>3, <2>1
      <3> HIDE DEF I
      <3>2. IsFiniteSet(I)
        <4>1. IsFiniteSet(1..n)
          BY <1>3, FS_Interval
        <4> QED
          BY <3>1, <4>1, FS_Subset
      <3>3. Cardinality(I) # 0
        BY <3>1, <3>2, FS_EmptySet
      <3> QED
        BY <3>1, <3>3
    <2> QED
      BY <1>3, <2>2, <2>3
  <1>5. done' = done \o a
    OBVIOUS
  <1> HIDE DEF a
  <1>6. a \in Seq(Completion) /\ Len(a) = n
    <2>1. a \in Seq(Completion)
      BY <1>3, <1>4, SeqDef
    <2>2. Len(a) \in Nat /\ DOMAIN a = 1..Len(a) /\ DOMAIN a = 1..n
      BY <1>4, <2>1, LenProperties
    <2>3. ~(Len(a) < n)
      <3>1. Len(a) < n => n \in 1..n /\ n \notin 1..Len(a)
        BY <1>3, <2>2
      <3> QED
        BY <2>2, <3>1
    <2>4. ~(n < Len(a))
      <3>1. n < Len(a) => Len(a) \in 1..Len(a) /\ Len(a) \notin 1..n
        BY <1>3, <2>2
      <3> QED
        BY <2>2, <3>1
    <2> QED
      BY <1>3, <2>1, <2>2, <2>3, <2>4
  <1>7. /\ done' \in Seq(Completion)
         /\ \A i \in DOMAIN done' :
               \/ i \in DOMAIN done /\ done'[i] = done[i]
               \/ done'[i].res = "aborted" /\ armed[done'[i].op] # 0
    <2>1. /\ done \in Seq(Completion) /\ Len(done) \in Nat /\ DOMAIN done = 1..Len(done)
          /\ Len(a) \in Nat
      BY <1>3, <1>6, Numbers, LenProperties
    <2>2. /\ done' \in Seq(Completion)
          /\ Len(done') = Len(done) + Len(a)
          /\ \A i \in 1..Len(done) + Len(a) :
                done'[i] = IF i <= Len(done) THEN done[i] ELSE a[i - Len(done)]
      <3>1. /\ done \o a \in Seq(Completion)
            /\ Len(done \o a) = Len(done) + Len(a)
            /\ \A i \in 1..Len(done) + Len(a) :
                  (done \o a)[i] = IF i <= Len(done) THEN done[i] ELSE a[i - Len(done)]
        BY <1>6, <2>1, ConcatProperties
      <3> QED
        BY <1>5, <3>1, Zenon
    <2>3. DOMAIN done' = 1..(Len(done) + Len(a))
      BY <2>2, LenProperties
    <2>4. ASSUME NEW i \in DOMAIN done'
          PROVE  \/ i \in DOMAIN done /\ done'[i] = done[i]
                 \/ done'[i].res = "aborted" /\ armed[done'[i].op] # 0
      <3>1. CASE i <= Len(done)
        BY <2>1, <2>2, <2>3, <3>1
      <3>2. CASE ~(i <= Len(done))
        <4>1. i \in 1..(Len(done) + Len(a))
          BY <2>3
        <4>2. i - Len(done) \in 1..Len(a)
          BY <2>1, <3>2, <4>1
        <4>3. done'[i] = a[i - Len(done)]
          BY <2>2, <3>2, <4>1
        <4> QED
          BY <1>4, <1>6, <4>2, <4>3
      <3> QED
        BY <3>1, <3>2
    <2> QED
      BY <2>2, <2>4
  <1>8. Tight'
    BY <1>1, <1>2, <1>7 DEF Tight
  <1>9. SocketTells'
    BY <1>1, <1>2 DEF SocketTells, Alive
  <1>10. OneOfEach'
    BY <1>1 DEF OneOfEach, Alive
  <1>11. NewConnection'
    <2>1. ASSUME NEW i \in DOMAIN done, done[i].op = "connect", done[i].res = "ok"
          PROVE  armed["read"] = 0 /\ armed["write"] = 0
      BY <2>1 DEF Core, NewConnection
    <2> SUFFICES ASSUME NEW i \in DOMAIN done', done'[i].op = "connect", done'[i].res = "ok"
                 PROVE  /\ \A j \in DOMAIN done' \ {i} : ~Stale(done'[j])
                        /\ handler' = "idle"
                        /\ m_queue' = 0 /\ wire' = 0
      BY <1>1, <1>2 DEF NewConnection, Stale
    <2>2. i \in DOMAIN done /\ done[i].op = "connect" /\ done[i].res = "ok"
      BY <1>7
    <2>3. \A j \in DOMAIN done \ {i} : ~Stale(done[j])
      BY <2>2 DEF Core, NewConnection
    <2>4. \A j \in DOMAIN done' \ {i} : ~Stale(done'[j])
      <3> SUFFICES ASSUME NEW j \in DOMAIN done' \ {i}
                   PROVE  ~Stale(done'[j])
        OBVIOUS
      <3>1. done'[j] \in Completion
        BY <1>7, ElementOfSeq, LenProperties
      <3>2. CASE j \in DOMAIN done /\ done'[j] = done[j]
        BY <2>3, <3>2 DEF Stale
      <3>3. CASE done'[j].res = "aborted" /\ armed[done'[j].op] # 0
        BY <2>1, <2>2, <3>1, <3>3 DEF Stale, Completion, Op
      <3> QED
        BY <1>7, <3>2, <3>3
    <2> QED
      BY <1>1, <2>2, <2>4 DEF Core, NewConnection
  <1>12. PartsTell'
    BY <1>1 DEF PartsTell, Alive
  <1>13. Served'
    BY <1>1 DEF Served
  <1> QED
    BY <1>8, <1>9, <1>10, <1>11, <1>12, <1>13 DEF Core

----------------------------------------------------------------------------
(***************************************************************************)
(* What holds in any case, of connections that overtook another too.       *)
(***************************************************************************)
ReadComing == armed["read"] > 0 \/ ReadWaits(done)

\* What the types say, of a connection whatever came before it.
LEMMA Sorts ==
    ASSUME TypeOK
    PROVE  /\ MsgParts \in Nat \ {0} /\ MAX_QUEUE_SIZE \in Nat \ {0} /\ MaxFaults \in Nat
           /\ armed \in [Op -> Nat] /\ armed["read"] \in Nat
           /\ done \in Seq(Completion) /\ notices \in Seq(Status) /\ faults \in 0..MaxFaults
  BY SizeAssumption DEF TypeOK, ChannelTypeOK, Status, Op

\* What is tight is of its type.
LEMMA TightTypes == Tight => TypeOK
  <1> SUFFICES ASSUME Tight
               PROVE  TypeOK
    OBVIOUS
  <1>1. armed \in [Op -> Nat]
    BY DEF Tight
  <1>2. wire \in 0..(2 * MsgParts)
    BY SizeAssumption DEF Tight
  <1> QED
    BY <1>1, <1>2 DEF Tight, TypeOK, ChannelTypeOK

\* A read that waits goes on waiting when another completion comes ...
LEMMA ReadsAppend ==
    ASSUME NEW s \in Seq(Completion), NEW c \in Completion
    PROVE  /\ Append(s, c) \in Seq(Completion)
           /\ ReadWaits(Append(s, c)) <=> ReadWaits(s) \/ c.op = "read"
  <1>1. /\ Len(s) \in Nat /\ DOMAIN s = 1..Len(s)
        /\ Append(s, c) \in Seq(Completion)
        /\ DOMAIN Append(s, c) = 1..(Len(s) + 1)
        /\ \A i \in 1..Len(s) : Append(s, c)[i] = s[i]
        /\ Append(s, c)[Len(s) + 1] = c
    BY LenProperties, AppendProperties
  <1>2. 1..(Len(s) + 1) = 1..Len(s) \union {Len(s) + 1}
    BY <1>1
  <1> QED
    BY <1>1, <1>2 DEF ReadWaits

\* ... and when one is taken, unless it is the one.
LEMMA ReadsTail ==
    ASSUME NEW s \in Seq(Completion), s # <<>>
    PROVE  /\ Tail(s) \in Seq(Completion) /\ Head(s) \in Completion
           /\ ReadWaits(s) => ReadWaits(Tail(s)) \/ Head(s).op = "read"
  <1>1. /\ Len(s) \in Nat \ {0} /\ DOMAIN s = 1..Len(s) /\ Head(s) = s[1]
        /\ Tail(s) \in Seq(Completion) /\ Head(s) \in Completion
        /\ DOMAIN Tail(s) = 1..(Len(s) - 1)
        /\ \A i \in 1..(Len(s) - 1) : Tail(s)[i] = s[i + 1]
    BY LenProperties, HeadTailProperties, EmptySeq
  <1>2. ASSUME NEW i \in 1..Len(s), s[i].op = "read"
        PROVE  ReadWaits(Tail(s)) \/ Head(s).op = "read"
    <2>1. CASE i = 1
      BY <1>1, <1>2, <2>1
    <2>2. CASE i # 1
      <3>1. i - 1 \in 1..(Len(s) - 1) /\ (i - 1) + 1 = i
        BY <1>1, <2>2
      <3>2. Tail(s)[i - 1] = s[i]
        BY <1>1, <3>1
      <3> QED
        BY <1>1, <1>2, <3>1, <3>2 DEF ReadWaits
    <2> QED
      BY <2>1, <2>2
  <1> QED
    BY <1>1, <1>2 DEF ReadWaits

\* A read that completes waits for the thread.
LEMMA CompletesLoosely ==
    ASSUME TypeOK, NEW op \in Op, NEW res \in {"ok", "timeout", "error", "aborted"},
           NEW parts \in 0..MsgParts, Complete(op, res, parts)
    PROVE  /\ armed' \in [Op -> Nat] /\ done' \in Seq(Completion)
           /\ ReadComing => ReadComing'
  <1> DEFINE c == Completed(op, res, parts)
  <1>1. c \in Completion /\ c.op = op /\ done' = Append(done, c)
    BY DEF Completed, Completion, Complete
  <1>2. /\ armed \in [Op -> Nat] /\ armed[op] > 0
        /\ armed' = [armed EXCEPT ![op] = @ - 1]
    BY Sorts DEF Complete
  <1>3. armed' \in [Op -> Nat] /\ (op # "read" => armed'["read"] = armed["read"])
    BY <1>2 DEF Op
  <1> HIDE DEF c
  <1>4. done' \in Seq(Completion) /\ (ReadWaits(done') <=> ReadWaits(done) \/ op = "read")
    BY <1>1, ReadsAppend, Sorts
  <1> QED
    BY <1>3, <1>4 DEF ReadComing

\* A read that is started is under way, or has failed and waits for the thread.
LEMMA StartsLoosely ==
    ASSUME TypeOK, NEW op \in Op, NEW ready, Start(op, ready)
    PROVE  /\ armed' \in [Op -> Nat] /\ done' \in Seq(Completion)
           /\ ReadComing \/ op = "read" => ReadComing'
  <1>1. armed \in [Op -> Nat] /\ done \in Seq(Completion)
    BY Sorts
  <1>2. CASE ready
    <2>1. armed' = [armed EXCEPT ![op] = @ + 1] /\ done' = done
      BY <1>2 DEF Start
    <2>2. /\ armed' \in [Op -> Nat]
          /\ op = "read" => armed'["read"] > 0
          /\ op # "read" => armed'["read"] = armed["read"]
      BY <1>1, <2>1 DEF Op
    <2> QED
      BY <1>1, <2>1, <2>2 DEF ReadComing
  <1>3. CASE ~ready
    <2> DEFINE c == Completed(op, "error", 0)
    <2>1. c \in Completion /\ c.op = op /\ done' = Append(done, c) /\ armed' = armed
      BY <1>3, Sorts DEF Start, Completed, Completion
    <2> HIDE DEF c
    <2>2. done' \in Seq(Completion) /\ (ReadWaits(done') <=> ReadWaits(done) \/ op = "read")
      BY <1>1, <2>1, ReadsAppend
    <2> QED
      BY <1>1, <2>1, <2>2 DEF ReadComing
  <1> QED
    BY <1>2, <1>3

\* What a step must keep for somebody to read on.
LEMMA StaysRead ==
    ASSUME ReadFrom,
           m_state' = "ACTIVE" => m_state = "ACTIVE",
           ReadComing => ReadComing',
           ReadHandler => \/ ReadComing' \/ ReadHandler' \/ Broken(notices')
                          \/ silenced' \/ crashed' \/ m_state' # "ACTIVE",
           Broken(notices) => Broken(notices') \/ m_state' # "ACTIVE",
           silenced => silenced', crashed => crashed'
    PROVE  ReadFrom'
  BY DEF ReadFrom, ReadComing

\* The network.
LEMMA NetworkLoosely ==
    ASSUME TypeOK, ReadFrom, Network, UNCHANGED m_reconnectors
    PROVE  TypeOK' /\ ReadFrom'
  <1> DEFINE Loose ==
        /\ UNCHANGED <<handler, transferred, silenced, m_state, m_queue, m_send_buf, caller,
                       notices, crashed>>
        /\ sock' \in {"closed", "connecting", "connected", "broken"}
        /\ wire' \in 0..(2 * MsgParts) /\ overtaken' \in BOOLEAN /\ faults' \in 0..MaxFaults
        /\ armed' \in [Op -> Nat] /\ done' \in Seq(Completion)
        /\ ReadComing => ReadComing'
  <1>1. /\ MsgParts \in Nat /\ 0 \in 0..MsgParts /\ faults \in 0..MaxFaults /\ MaxFaults \in Nat
        /\ sock \in {"closed", "connecting", "connected", "broken"}
        /\ wire \in 0..(2 * MsgParts) /\ overtaken \in BOOLEAN
        /\ armed \in [Op -> Nat] /\ done \in Seq(Completion)
        /\ "connect" \in Op /\ "read" \in Op /\ "write" \in Op
    BY Sorts DEF TypeOK, ChannelTypeOK, Op
  <1>2. Fault => faults' \in 0..MaxFaults
    BY <1>1 DEF Fault
  <1>3. ConnectSucceeds => Loose
    BY <1>1, CompletesLoosely DEF ConnectSucceeds, threadVars, bufVars
  <1>4. ConnectFails => Loose
    BY <1>1, <1>2, CompletesLoosely DEF ConnectFails, threadVars, bufVars
  <1>5. Break => Loose
    BY <1>1, <1>2 DEF Break, threadVars, bufVars, ReadComing
  <1>6. ASSUME NEW op \in {"read", "write"}, OperationFails(op)
        PROVE  Loose
    BY <1>1, <1>6, CompletesLoosely DEF OperationFails, threadVars, bufVars
  <1>7. Receives => Loose
    BY <1>1, CompletesLoosely DEF Receives, threadVars, bufVars
  <1>8. ReadTimesOut => Loose
    BY <1>1, <1>2, CompletesLoosely DEF ReadTimesOut, threadVars, bufVars
  <1>9. ASSUME NEW n \in 0..Given, Sends(n)
        PROVE  Loose
    <2>1. n \in 0..MsgParts
      BY <1>1 DEF Given, TypeOK, ChannelTypeOK
    <2>2. wire' = n + (IF wire >= MsgParts THEN 0 ELSE wire)
      BY <1>9 DEF Sends
    <2>3. wire' \in 0..(2 * MsgParts)
      BY <1>1, <2>1, <2>2
    <2> QED
      BY <1>1, <1>9, <2>1, <2>3, CompletesLoosely DEF Sends, threadVars, bufVars
  <1>10. Loose
    BY <1>3, <1>4, <1>5, <1>6, <1>7, <1>8, <1>9 DEF Network
  <1>11. TypeOK'
    BY <1>10 DEF TypeOK, ChannelTypeOK
  <1>12. ReadFrom'
    BY <1>10, StaysRead DEF ReadHandler
  <1> QED
    BY <1>11, <1>12

\* The thread takes a completion: of a new connection it goes on to the read, of a
\* read to its handler.
LEMMA TakeCompletionLoosely ==
    ASSUME TypeOK, ReadFrom, TakeCompletion, UNCHANGED m_reconnectors
    PROVE  TypeOK' /\ ReadFrom'
  <1> DEFINE c == Head(done)
  <1>1. /\ handler = "idle" /\ done # <<>> /\ done' = Tail(done) /\ transferred' = c.parts
        /\ UNCHANGED <<sock, armed, m_queue, m_send_buf, wire, caller, faults, m_reconnectors>>
    BY DEF TakeCompletion, bufVars
  <1>2. /\ c \in Completion /\ done' \in Seq(Completion)
        /\ ReadWaits(done) => ReadWaits(done') \/ c.op = "read"
    BY <1>1, ReadsTail, Sorts
  <1>3. c.op \in Op /\ transferred' \in 0..MsgParts
    BY <1>1, <1>2 DEF Completion
  <1> HIDE DEF c
  <1> DEFINE Loose ==
        /\ handler' \in HandlerStep /\ silenced' \in BOOLEAN
        /\ m_state' \in {"ACTIVE", "INACTIVE"} /\ notices' \in Seq(Status)
        /\ crashed' \in BOOLEAN /\ overtaken' \in BOOLEAN
        /\ ReadFrom'
  <1>4. /\ handler \in HandlerStep /\ silenced \in BOOLEAN
        /\ m_state \in {"ACTIVE", "INACTIVE"} /\ notices \in Seq(Status)
        /\ crashed \in BOOLEAN /\ overtaken \in BOOLEAN
    BY Sorts DEF TypeOK, ChannelTypeOK
  <1>5. ASSUME Connected
        PROVE  Loose
    <2>1. /\ m_state' = "ACTIVE" /\ silenced' = FALSE /\ overtaken' \in BOOLEAN
          /\ \/ crashed' = TRUE /\ UNCHANGED <<handler, notices>>
             \/ Publish("SUCCESS") /\ handler' = "connected" /\ UNCHANGED crashed
      BY <1>5 DEF Connected
    <2>2. notices' \in Seq(Status)
      BY <1>4, <2>1, Publishes DEF Status
    <2>3. ReadFrom'
      BY <2>1 DEF ReadFrom, ReadHandler, Reading
    <2> QED
      BY <1>4, <2>1, <2>2, <2>3 DEF HandlerStep, Reading
  <1>6. ASSUME NEW status \in Status, Failed(c.res, status)
        PROVE  Loose
    <2>1. notices' \in Seq(Status)
      BY <1>4, <1>6, Publishes DEF Failed
    <2>2. m_state' = "INACTIVE" /\ handler' = "idle" /\ UNCHANGED <<silenced, crashed, overtaken>>
      BY <1>6 DEF Failed, Finish
    <2> QED
      BY <1>4, <2>1, <2>2 DEF HandlerStep, ReadFrom
  <1>7. ASSUME /\ m_state = "INACTIVE"
               /\ UNCHANGED <<handler, silenced, m_state, notices, crashed, overtaken>>
        PROVE  Loose
    BY <1>4, <1>7 DEF ReadFrom
  <1>8. ASSUME /\ c.op # "connect" /\ (c.res = "ok" \/ TimedOut(c))
               /\ handler' = IF c.res = "ok" THEN Handling(c.op) ELSE "timed_out"
               /\ UNCHANGED <<silenced, m_state, notices, crashed, overtaken>>
        PROVE  Loose
    <2>1. handler' \in HandlerStep /\ (c.op = "read" => ReadHandler')
      BY <1>8 DEF Handling, HandlerStep, ReadHandler, Reading
    <2>2. ~ReadHandler
      BY <1>1 DEF ReadHandler, Reading
    <2>3. ReadFrom'
      BY <1>1, <1>2, <1>8, <2>1, <2>2 DEF ReadFrom
    <2> QED
      BY <1>4, <1>8, <2>1, <2>3
  <1>9. Loose
    <2>1. "FAILED" \in Status /\ "BROKEN" \in Status
      BY DEF Status
    <2> HIDE DEF Loose
    <2> QED
      BY <1>5, <1>6, <1>7, <1>8, <2>1 DEF TakeCompletion, c
  <1>10. TypeOK'
    BY <1>1, <1>2, <1>3, <1>9 DEF TypeOK, ChannelTypeOK, Status
  <1> QED
    BY <1>9, <1>10

\* The rest of a read's handler: whatever it throws is told, or silenced, or leaves
\* the thread.
LEMMA ReaderLoosely ==
    ASSUME TypeOK, ReadFrom, on_read \/ read, UNCHANGED m_reconnectors
    PROVE  TypeOK' /\ ReadFrom'
  <1> DEFINE Loose ==
        /\ handler' \in HandlerStep /\ silenced' \in BOOLEAN /\ crashed' \in BOOLEAN
        /\ notices' \in Seq(Status) /\ faults' \in 0..MaxFaults
        /\ ReadHandler' \/ Broken(notices') \/ silenced' \/ crashed' \/ m_state # "ACTIVE"
        /\ Broken(notices) => Broken(notices')
        /\ silenced => silenced'
        /\ crashed => crashed'
  <1>1. UNCHANGED <<sock, armed, done, transferred, m_queue, m_send_buf, m_state, wire, caller,
                    overtaken, m_reconnectors>>
    BY DEF on_read, read, netVars, bufVars
  <1>2. /\ handler \in HandlerStep /\ silenced \in BOOLEAN /\ crashed \in BOOLEAN
        /\ notices \in Seq(Status) /\ faults \in 0..MaxFaults /\ MaxFaults \in Nat
    BY Sorts DEF TypeOK, ChannelTypeOK
  <1>3. Publish("BROKEN") => notices' \in Seq(Status) /\ Broken(notices')
    BY <1>2, BrokenAppend DEF Publish, Status
  <1>4. Fault => faults' \in 0..MaxFaults
    BY <1>2 DEF Fault
  <1>5. Throw /\ UNCHANGED <<silenced, crashed>> => Loose
    BY <1>2, <1>3, <1>4 DEF Throw, Finish, HandlerStep
  <1>6. ASSUME on_read
        PROVE  Loose
    BY <1>2, <1>5, <1>6 DEF on_read, HandlerStep, ReadHandler, Reading
  <1>7. ASSUME read
        PROVE  Loose
    <2>1. CASE m_state = "INACTIVE" /\ Finish /\ UNCHANGED <<silenced, notices, crashed, faults>>
      BY <1>2, <2>1 DEF Finish, HandlerStep
    <2>2. CASE handler' = "async_read" /\ UNCHANGED <<silenced, notices, crashed, faults>>
      BY <1>2, <2>2 DEF HandlerStep, ReadHandler
    <2>3. CASE Throw /\ UNCHANGED <<silenced, crashed>>
      BY <1>5, <2>3
    <2>4. CASE ReadThrows
      <3>1. faults' \in 0..MaxFaults /\ handler' \in HandlerStep
        BY <1>2, <1>4, <2>4 DEF ReadThrows, Finish, HandlerStep
      <3>2. CASE Publish("BROKEN") /\ UNCHANGED <<silenced, crashed>>
        BY <1>2, <1>3, <3>1, <3>2
      <3>3. CASE silenced' = TRUE /\ UNCHANGED <<notices, crashed>>
        BY <1>2, <3>1, <3>3
      <3>4. CASE crashed' = TRUE /\ UNCHANGED <<silenced, notices>>
        BY <1>2, <3>1, <3>4
      <3> QED
        BY <2>4, <3>2, <3>3, <3>4 DEF ReadThrows
    <2> QED
      BY <1>7, <2>1, <2>2, <2>3, <2>4 DEF read
  <1>8. Loose
    BY <1>6, <1>7
  <1>9. TypeOK'
    BY <1>1, <1>8 DEF TypeOK, ChannelTypeOK, Status
  <1>10. ReadFrom'
    BY <1>1, <1>8, StaysRead DEF ReadComing
  <1> QED
    BY <1>9, <1>10

\* A write's handler, and the start of either operation.
LEMMA WriterLoosely ==
    ASSUME TypeOK, ReadFrom,
           on_write \/ do_write \/ StartTransfer("read") \/ StartTransfer("write"),
           UNCHANGED m_reconnectors
    PROVE  TypeOK' /\ ReadFrom'
  <1> DEFINE Loose ==
        /\ armed' \in [Op -> Nat] /\ done' \in Seq(Completion)
        /\ handler' \in HandlerStep /\ crashed' \in BOOLEAN
        /\ m_queue' \in 0..MAX_QUEUE_SIZE /\ m_send_buf' \in 0..MsgParts
        /\ notices' \in Seq(Status) /\ faults' \in 0..MaxFaults
        /\ ReadComing => ReadComing'
        /\ ReadHandler => ReadComing'
        /\ Broken(notices) => Broken(notices')
        /\ crashed => crashed'
  <1>1. UNCHANGED <<sock, transferred, silenced, m_state, wire, caller, overtaken,
                    m_reconnectors>>
    BY DEF on_write, do_write, StartTransfer, netVars
  <1>2. /\ armed \in [Op -> Nat] /\ done \in Seq(Completion)
        /\ handler \in HandlerStep /\ crashed \in BOOLEAN
        /\ m_queue \in 0..MAX_QUEUE_SIZE /\ m_send_buf \in 0..MsgParts
        /\ transferred \in 0..MsgParts /\ MsgParts \in Nat /\ MAX_QUEUE_SIZE \in Nat
        /\ notices \in Seq(Status) /\ faults \in 0..MaxFaults /\ MaxFaults \in Nat
    BY Sorts DEF TypeOK, ChannelTypeOK
  <1>3. Publish("BROKEN") => notices' \in Seq(Status) /\ Broken(notices')
    BY <1>2, BrokenAppend DEF Publish, Status
  <1>4. Throw => /\ faults' \in 0..MaxFaults /\ handler' = "idle"
                 /\ notices' \in Seq(Status) /\ Broken(notices')
    BY <1>2, <1>3 DEF Throw, Fault, Finish
  <1>5. ASSUME on_write
        PROVE  Loose
    <2>1. /\ armed' = armed /\ done' = done /\ ~ReadHandler /\ (ReadComing => ReadComing')
          /\ UNCHANGED silenced
      BY <1>5 DEF on_write, netVars, ReadHandler, Reading, ReadComing
    <2> DEFINE Rest ==
          /\ handler' \in {"do_write", "on_write", "idle"} /\ crashed' \in BOOLEAN
          /\ m_queue' \in 0..MAX_QUEUE_SIZE /\ m_send_buf' \in 0..MsgParts
          /\ notices' \in Seq(Status) /\ faults' \in 0..MaxFaults
          /\ Broken(notices) => Broken(notices')
          /\ crashed => crashed'
    <2>2. PartlySent => Rest
      BY <1>2 DEF PartlySent
    <2>3. ASSUME /\ m_send_buf' = 0 /\ crashed' = TRUE
                 /\ UNCHANGED <<handler, m_queue, notices, faults>>
          PROVE  Rest
      BY <1>2, <1>5, <2>3 DEF on_write
    <2>4. ASSUME /\ m_queue > 0
                 /\ m_queue' = m_queue - 1
                 /\ \/ m_queue' = 0 /\ m_send_buf' = 0 /\ Finish /\ UNCHANGED <<notices, faults>>
                    \/ /\ m_queue' > 0 /\ m_send_buf' = MsgParts /\ handler' = "do_write"
                       /\ UNCHANGED <<notices, faults>>
                    \/ m_queue' > 0 /\ m_send_buf' = 0 /\ Throw
                 /\ UNCHANGED crashed
          PROVE  Rest
      <3>1. m_queue' \in 0..MAX_QUEUE_SIZE /\ m_send_buf' \in 0..MsgParts
        BY <1>2, <2>4
      <3> QED
        BY <1>2, <1>4, <2>4, <3>1 DEF Finish
    <2>5. ASSUME Publish("BROKEN") /\ Finish /\ UNCHANGED <<bufVars, crashed, faults>>
          PROVE  Rest
      BY <1>2, <1>3, <2>5 DEF Finish, bufVars
    <2>6. Rest
      BY <1>5, <2>2, <2>3, <2>4, <2>5 DEF on_write
    <2> QED
      BY <1>2, <2>1, <2>6 DEF HandlerStep
  <1>6. ASSUME do_write
        PROVE  Loose
    BY <1>2, <1>6 DEF do_write, netVars, bufVars, HandlerStep, ReadHandler, Reading, ReadComing
  <1>7. ASSUME NEW op \in {"read", "write"}, StartTransfer(op)
        PROVE  Loose
    <2>1. /\ armed' \in [Op -> Nat] /\ done' \in Seq(Completion)
          /\ ReadComing \/ op = "read" => ReadComing'
      <3>1. op \in Op /\ Start(op, sock = "connected")
        BY <1>7 DEF StartTransfer, Op
      <3> QED
        BY <3>1, StartsLoosely
    <2>2. ReadHandler => op = "read"
      BY <1>7 DEF StartTransfer, Starting, ReadHandler, Reading
    <2> QED
      BY <1>2, <1>7, <2>1, <2>2 DEF StartTransfer, Finish, bufVars, HandlerStep
  <1>8. Loose
    BY <1>5, <1>6, <1>7
  <1>9. TypeOK'
    BY <1>1, <1>8 DEF TypeOK, ChannelTypeOK, Status
  <1>10. ReadFrom'
    BY <1>1, <1>8, StaysRead
  <1> QED
    BY <1>9, <1>10

\* close() aborts a read, which is then a completion for the thread.
LEMMA CloseSocketLoosely ==
    ASSUME TypeOK, CloseSocket
    PROVE  done' \in Seq(Completion) /\ (ReadComing => ReadComing')
  <1> PICK n \in Nat : n = armed["connect"] + armed["read"] + armed["write"]
    BY Sorts DEF Op
  <1> PICK q \in [1..n -> Op] :
        /\ \A op \in Op : Cardinality({i \in DOMAIN q : q[i] = op}) = armed[op]
        /\ done' = done \o [i \in DOMAIN q |-> Completed(q[i], "aborted", 0)]
    BY DEF CloseSocket
  <1> DEFINE a == [i \in DOMAIN q |-> Completed(q[i], "aborted", 0)]
  <1>1. /\ a \in [1..n -> Completion]
        /\ \A i \in 1..n : a[i].op = q[i]
    BY Sorts DEF Completed, Completion
  <1>2. done' = done \o a
    OBVIOUS
  <1>3. armed["read"] > 0 => \E i \in 1..n : a[i].op = "read"
    <2> DEFINE I == {i \in DOMAIN q : q[i] = "read"}
    <2>1. Cardinality(I) = armed["read"]
      BY DEF Op
    <2>2. I # {} => \E i \in 1..n : a[i].op = "read"
      BY <1>1
    <2> HIDE DEF I
    <2>3. I = {} => Cardinality(I) = 0
      BY FS_EmptySet
    <2>4. armed["read"] > 0 => I # {}
      BY <2>1, <2>3
    <2> QED
      BY <2>2, <2>4
  <1> HIDE DEF a
  <1>4. a \in Seq(Completion) /\ Len(a) \in Nat /\ DOMAIN a = 1..Len(a) /\ DOMAIN a = 1..n
    <2>1. a \in Seq(Completion)
      BY <1>1, SeqDef
    <2> QED
      BY <1>1, <2>1, LenProperties
  <1>5. /\ done \in Seq(Completion) /\ Len(done) \in Nat /\ DOMAIN done = 1..Len(done)
    BY Sorts, LenProperties
  <1>6. /\ done' \in Seq(Completion)
        /\ Len(done') = Len(done) + Len(a)
        /\ \A i \in 1..Len(done) + Len(a) :
              done'[i] = IF i <= Len(done) THEN done[i] ELSE a[i - Len(done)]
    <2>1. /\ done \o a \in Seq(Completion)
          /\ Len(done \o a) = Len(done) + Len(a)
          /\ \A i \in 1..Len(done) + Len(a) :
                (done \o a)[i] = IF i <= Len(done) THEN done[i] ELSE a[i - Len(done)]
      BY <1>4, <1>5, ConcatProperties
    <2> QED
      BY <1>2, <2>1, Zenon
  <1>7. DOMAIN done' = 1..(Len(done) + Len(a))
    BY <1>6, LenProperties
  <1>8. ReadWaits(done) => ReadWaits(done')
    BY <1>4, <1>5, <1>6, <1>7 DEF ReadWaits
  <1>9. ASSUME NEW i \in 1..n, a[i].op = "read"
        PROVE  ReadWaits(done')
    <2>1. i \in 1..Len(a) /\ Len(done) + i \in DOMAIN done'
      BY <1>4, <1>5, <1>7
    <2>2. done'[Len(done) + i] = a[i]
      <3>1. ~(Len(done) + i <= Len(done)) /\ (Len(done) + i) - Len(done) = i
        BY <1>5, <2>1
      <3> QED
        BY <1>6, <1>7, <2>1, <3>1
    <2> QED
      BY <1>9, <2>1, <2>2 DEF ReadWaits
  <1> QED
    BY <1>3, <1>6, <1>8, <1>9 DEF ReadComing

\* The module's thread.  It takes BROKEN away only to close the channel.
LEMMA ModuleLoosely ==
    ASSUME TypeOK, ReadFrom, Module
    PROVE  TypeOK' /\ ReadFrom'
  <1> DEFINE Loose ==
        /\ sock' \in {"closed", "connecting", "connected", "broken"}
        /\ armed' \in [Op -> Nat] /\ done' \in Seq(Completion)
        /\ m_state' \in {m_state, "INACTIVE"}
        /\ m_queue' \in 0..MAX_QUEUE_SIZE /\ m_send_buf' \in 0..MsgParts
        /\ caller' \in {"idle", "write", "async_write", "close", "clear", "reset"}
        /\ notices' \in Seq(Status) /\ faults' \in 0..MaxFaults
        /\ m_reconnectors' \in BOOLEAN
        /\ ReadComing => ReadComing'
        /\ Broken(notices) => Broken(notices') \/ m_state' = "INACTIVE"
  <1>1. UNCHANGED <<handler, transferred, silenced, wire, crashed, overtaken>>
    BY DEF Module, OnSuccess, OnFailed, OnBroken, OnReconnectTimer, Send, write, close, connect,
           Caller, WriteFirst, StartWrite, CloseSocket, ClearQueue, ResetBuffers, threadVars
  <1>2. /\ sock \in {"closed", "connecting", "connected", "broken"}
        /\ armed \in [Op -> Nat] /\ done \in Seq(Completion)
        /\ m_queue \in 0..MAX_QUEUE_SIZE /\ m_send_buf \in 0..MsgParts
        /\ MsgParts \in Nat /\ MAX_QUEUE_SIZE \in Nat /\ MaxFaults \in Nat
        /\ caller \in {"idle", "write", "async_write", "close", "clear", "reset"}
        /\ notices \in Seq(Status) /\ faults \in 0..MaxFaults
        /\ m_reconnectors \in BOOLEAN
        /\ "connect" \in Op /\ "write" \in Op
    BY Sorts DEF TypeOK, ChannelTypeOK, Op
  <1>3. done' = done /\ armed' = armed => (ReadComing => ReadComing')
    BY DEF ReadComing
  <1>4. write => /\ UNCHANGED <<sock, armed, done, m_send_buf, m_state, faults>>
                 /\ m_queue' \in 0..MAX_QUEUE_SIZE
                 /\ caller' \in {caller, "idle", "write"}
    BY <1>2 DEF write, netVars
  <1>5. ASSUME NEW status \in Status, Notice(status)
        PROVE  notices' \in Seq(Status) /\ (Broken(notices) => Broken(notices') \/ status = "BROKEN")
    BY <1>2, <1>5, Takes
  <1>6. "SUCCESS" \in Status /\ "FAILED" \in Status /\ "BROKEN" \in Status
    BY DEF Status
  <1>7. ASSUME OnSuccess
        PROVE  Loose
    <2>1. write /\ Notice("SUCCESS") /\ m_reconnectors' = FALSE
      BY <1>7 DEF OnSuccess
    <2> QED
      BY <1>2, <1>3, <1>4, <1>5, <1>6, <2>1
  <1>8. ASSUME OnFailed
        PROVE  Loose
    <2>1. /\ Notice("FAILED") /\ m_reconnectors' = TRUE
          /\ UNCHANGED <<sock, armed, done, m_queue, m_send_buf, m_state, caller, faults>>
      BY <1>8 DEF OnFailed, netVars, bufVars
    <2> QED
      BY <1>2, <1>3, <1>5, <1>6, <2>1
  <1>9. ASSUME OnBroken
        PROVE  Loose
    <2>1. /\ Notice("BROKEN") /\ m_reconnectors' = m_reconnectors
          /\ m_state' = "INACTIVE" /\ caller' = "close"
          /\ UNCHANGED <<sock, armed, done, m_queue, m_send_buf, faults>>
      BY <1>9 DEF OnBroken, close, netVars, bufVars
    <2> QED
      BY <1>2, <1>3, <1>5, <1>6, <2>1
  <1>10. ASSUME OnReconnectTimer
         PROVE  Loose
    <2>1. /\ Start("connect", sock = "closed")
          /\ sock' \in {"connecting", sock}
          /\ UNCHANGED <<m_queue, m_send_buf, m_state, caller, notices, faults, m_reconnectors>>
      BY <1>10 DEF OnReconnectTimer, connect, bufVars
    <2>2. /\ armed' \in [Op -> Nat] /\ done' \in Seq(Completion)
          /\ ReadComing => ReadComing'
      BY <1>2, <2>1, StartsLoosely
    <2> QED
      BY <1>2, <2>1, <2>2
  <1>11. ASSUME Send
         PROVE  Loose
    <2>1. write /\ UNCHANGED <<notices, m_reconnectors>>
      BY <1>11 DEF Send
    <2> QED
      BY <1>2, <1>3, <1>4, <2>1
  <1>12. ASSUME Caller /\ m_reconnectors' = (m_reconnectors \/ caller = "reset")
         PROVE  Loose
    <2>1. m_reconnectors' \in BOOLEAN
      BY <1>12
    <2>2. CASE WriteFirst
      <3>1. UNCHANGED <<sock, armed, done, m_queue, m_state>>
        BY <2>2 DEF WriteFirst, netVars
      <3>2. /\ notices' \in Seq(Status) /\ faults' \in 0..MaxFaults
            /\ Broken(notices) => Broken(notices')
        <4>1. CASE UNCHANGED <<notices, faults>>
          BY <1>2, <4>1
        <4>2. CASE Fault /\ Publish("BROKEN")
          BY <1>2, <1>6, <4>2, BrokenAppend DEF Fault, Publish
        <4> QED
          BY <2>2, <4>1, <4>2 DEF WriteFirst
      <3>3. m_send_buf' \in 0..MsgParts /\ caller' \in {"idle", "async_write"}
        BY <1>2, <2>2 DEF WriteFirst, Returns
      <3> QED
        BY <1>2, <1>3, <2>1, <3>1, <3>2, <3>3
    <2>3. CASE StartWrite
      <3>1. /\ Start("write", sock = "connected") /\ caller' = "idle"
            /\ UNCHANGED <<sock, m_queue, m_send_buf, m_state, notices, faults>>
        BY <2>3 DEF StartWrite, Returns, bufVars
      <3>2. /\ armed' \in [Op -> Nat] /\ done' \in Seq(Completion)
            /\ ReadComing => ReadComing'
        BY <1>2, <3>1, StartsLoosely
      <3> QED
        BY <1>2, <2>1, <3>1, <3>2
    <2>4. CASE CloseSocket
      <3>1. /\ sock' = "closed" /\ armed' = [op \in Op |-> 0] /\ caller' = "clear"
            /\ UNCHANGED <<m_queue, m_send_buf, m_state, notices, faults>>
        BY <2>4 DEF CloseSocket, bufVars
      <3>2. done' \in Seq(Completion) /\ (ReadComing => ReadComing')
        BY <2>4, CloseSocketLoosely
      <3> QED
        BY <1>2, <2>1, <3>1, <3>2
    <2>5. CASE ClearQueue
      BY <1>2, <1>3, <2>1, <2>5 DEF ClearQueue, netVars
    <2>6. CASE ResetBuffers
      BY <1>2, <1>3, <2>1, <2>6 DEF ResetBuffers, Returns, netVars
    <2> QED
      BY <1>12, <2>2, <2>3, <2>4, <2>5, <2>6 DEF Caller
  <1>13. Loose
    BY <1>7, <1>8, <1>9, <1>10, <1>11, <1>12 DEF Module
  <1>14. TypeOK'
    BY <1>1, <1>13 DEF TypeOK, ChannelTypeOK, Status
  <1>15. ReadFrom'
    BY <1>1, <1>13, StaysRead DEF ReadHandler
  <1> QED
    BY <1>14, <1>15

\* Every step keeps the types, and leaves somebody to read.
LEMMA NextLoosely ==
    ASSUME TypeOK, ReadFrom, Next
    PROVE  TypeOK' /\ ReadFrom'
  <1>1. CASE AsioThread /\ UNCHANGED m_reconnectors
    BY <1>1, TakeCompletionLoosely, ReaderLoosely, WriterLoosely DEF AsioThread
  <1> QED
    BY <1>1, NetworkLoosely, ModuleLoosely DEF Next

----------------------------------------------------------------------------
(***************************************************************************)
(* The invariant.                                                          *)
(***************************************************************************)

\* Bootstrap's connect() has nothing before it.
LEMMA InitInv == Init => Inv
  <1> SUFFICES ASSUME Init
               PROVE  Inv
    OBVIOUS
  <1>1. /\ sock = "connecting" /\ done = <<>> /\ handler = "idle" /\ m_state = "INACTIVE"
        /\ armed = [op \in Op |-> IF op = "connect" THEN 1 ELSE 0]
        /\ m_queue = 0 /\ m_send_buf = 0 /\ wire = 0 /\ caller = "idle" /\ notices = <<>>
        /\ transferred = 0 /\ silenced = FALSE /\ faults = 0
        /\ crashed = FALSE /\ overtaken = FALSE /\ m_reconnectors = FALSE
    BY DEF Init, ChannelInit
  <1>2. /\ armed \in [Op -> 0..1]
        /\ armed["connect"] = 1 /\ armed["read"] = 0 /\ armed["write"] = 0
    BY <1>1 DEF Op
  <1>3. /\ done \in Seq(Completion) /\ notices \in Seq({"SUCCESS", "FAILED", "BROKEN"})
        /\ m_queue \in 0..MAX_QUEUE_SIZE /\ m_send_buf \in 0..MsgParts
        /\ wire \in 0..MsgParts /\ transferred \in 0..MsgParts /\ faults \in 0..MaxFaults
    BY <1>1, SizeAssumption
  <1>4. Tight
    BY <1>1, <1>2, <1>3 DEF Tight, HandlerStep
  <1>5. Core
    BY <1>1, <1>2
       DEF Core, SocketTells, OneOfEach, NewConnection, PartsTell, Served, Alive, Between
  <1> QED
    BY <1>1, <1>4, <1>5, TightTypes DEF Inv, Own, ReadFrom

\* What a step must establish, unless the new connection overtakes the old.
LEMMA KeepsOwn ==
    ASSUME ~overtaken' => /\ Tight'
                          /\ \/ ~crashed' /\ Core'
                             \/ crashed' /\ QueueHasOneWriter' /\ OneReader'
    PROVE  Own'
  BY DEF Own

\* on_connect(), on_read() and on_write(), up to where they look at what was
\* transferred.
LEMMA TakeCompletionOwn ==
    ASSUME Tight, Core, ~crashed, ~overtaken, TakeCompletion, UNCHANGED m_reconnectors
    PROVE  Own'
  <1>1. Taken
    BY DEF TakeCompletion, Taken
  <1>2. CASE Head(done).op = "connect" /\ Head(done).res = "ok" /\ Connected
    <2>2. CASE sock # "connected" /\ crashed' = TRUE /\ UNCHANGED <<handler, notices>>
      BY <1>1, <1>2, <2>2, ConnectedCrash, KeepsOwn
    <2>3. CASE UNCHANGED crashed
      BY <1>1, <1>2, <2>3, ConnectedStep, KeepsOwn
    <2> QED
      BY <1>2, <2>2, <2>3 DEF Connected
  <1>3. CASE Head(done).op = "connect" /\ Failed(Head(done).res, "FAILED")
    BY <1>1, <1>3, FailedStep, KeepsOwn DEF Failed, Status
  <1>4. CASE m_state = "INACTIVE" /\ UNCHANGED <<handler, silenced, m_state, notices, crashed, overtaken>>
    BY <1>1, <1>4, IgnoredStep, KeepsOwn
  <1>5. CASE Failed(Head(done).res, "BROKEN")
    BY <1>1, <1>5, FailedStep, KeepsOwn DEF Failed, Status
  <1>6. CASE /\ Head(done).op # "connect" /\ m_state = "ACTIVE"
             /\ Head(done).res = "ok" \/ TimedOut(Head(done))
             /\ handler' = IF Head(done).res = "ok" THEN Handling(Head(done).op) ELSE "timed_out"
             /\ UNCHANGED <<silenced, m_state, notices, crashed, overtaken>>
    BY <1>1, <1>6, HandledStep, KeepsOwn
  <1> QED
    BY <1>2, <1>3, <1>4, <1>5, <1>6 DEF TakeCompletion

\* on_write(), whatever was transferred.
LEMMA OnWriteOwn ==
    ASSUME Tight, Core, ~crashed, ~overtaken, on_write, UNCHANGED m_reconnectors
    PROVE  Own'
  <1>1. /\ handler = "on_write"
        /\ UNCHANGED <<netVars, transferred, silenced, m_state, wire, caller,
                       overtaken, m_reconnectors>>
    BY DEF on_write
  <1>2. CASE PartlySent
    BY <1>1, <1>2, PartlySentStep, KeepsOwn DEF PartlySent
  <1>3. CASE /\ transferred > 0 /\ transferred = m_send_buf /\ m_queue = 0
             /\ m_send_buf' = 0 /\ crashed' = TRUE
             /\ UNCHANGED <<handler, m_queue, notices, faults>>
    BY <1>1, <1>3, EmptyQueueCrash, KeepsOwn
  <1>4. CASE /\ transferred > 0 /\ transferred = m_send_buf /\ m_queue > 0
             /\ m_queue' = m_queue - 1
             /\ \/ m_queue' = 0 /\ m_send_buf' = 0 /\ Finish /\ UNCHANGED <<notices, faults>>
                \/ /\ m_queue' > 0 /\ m_send_buf' = MsgParts /\ handler' = "do_write"
                   /\ UNCHANGED <<notices, faults>>
                \/ m_queue' > 0 /\ m_send_buf' = 0 /\ Throw
             /\ UNCHANGED crashed
    BY <1>1, <1>4, WholeSentStep, KeepsOwn
  <1>5. CASE /\ transferred > m_send_buf
             /\ Publish("BROKEN") /\ Finish
             /\ UNCHANGED <<bufVars, crashed, faults>>
    BY <1>1, <1>5, TooMuchSentStep, KeepsOwn
  <1> QED
    BY <1>2, <1>3, <1>4, <1>5 DEF on_write

\* The network keeps the invariant, whatever it does to the socket.
LEMMA NetworkOwn ==
    ASSUME Tight, Core, ~crashed, ~overtaken, Network, UNCHANGED m_reconnectors
    PROVE  Own'
  <1>1. CASE ConnectSucceeds
    <2>1. UNCHANGED crashed
      BY <1>1 DEF ConnectSucceeds
    <2> QED
      BY <1>1, <2>1, ConnectSucceedsStep, KeepsOwn
  <1>2. CASE ConnectFails
    BY <1>2, ConnectFailsStep, KeepsOwn DEF ConnectFails
  <1>3. CASE Break
    BY <1>3, BreakStep, KeepsOwn DEF Break
  <1>4. CASE Receives
    BY <1>4, ReceivesStep, KeepsOwn DEF Receives
  <1>5. ASSUME NEW op \in {"read", "write"}, OperationFails(op)
        PROVE  Own'
    BY <1>5, OperationFailsStep, KeepsOwn DEF OperationFails
  <1>6. CASE ReadTimesOut
    BY <1>6, ReadTimesOutStep, KeepsOwn DEF ReadTimesOut
  <1>7. ASSUME NEW n \in 0..Given, Sends(n)
        PROVE  Own'
    BY <1>7, SendsStep, KeepsOwn DEF Sends, Given
  <1> QED
    BY <1>1, <1>2, <1>3, <1>4, <1>5, <1>6, <1>7 DEF Network

\* The asio thread keeps it, in every step of every handler.
LEMMA AsioThreadOwn ==
    ASSUME Tight, Core, ~crashed, ~overtaken, AsioThread, UNCHANGED m_reconnectors
    PROVE  Own'
  <1>1. CASE TakeCompletion
    BY <1>1, TakeCompletionOwn
  <1>2. CASE on_read
    BY <1>2, OnReadStep, KeepsOwn DEF on_read
  <1>3. CASE read
    <2>1. CASE crashed'
      BY <1>3, <2>1, ReadCrash, KeepsOwn
    <2>2. CASE UNCHANGED crashed
      BY <1>3, <2>2, ReadStep, KeepsOwn
    <2> QED
      BY <1>3, <2>1, <2>2 DEF read, ReadThrows
  <1>4. CASE on_write
    BY <1>4, OnWriteOwn
  <1>5. CASE do_write
    BY <1>5, DoWriteStep, KeepsOwn DEF do_write
  <1>6. CASE StartTransfer("read")
    BY <1>6, StartReadStep, KeepsOwn DEF StartTransfer
  <1>7. CASE StartTransfer("write")
    BY <1>7, StartRestStep, KeepsOwn DEF StartTransfer
  <1> QED
    BY <1>1, <1>2, <1>3, <1>4, <1>5, <1>6, <1>7 DEF AsioThread

\* The module's thread keeps it: its notices, its timer, write() and close().
LEMMA ModuleOwn ==
    ASSUME Tight, Core, ~crashed, ~overtaken, Module
    PROVE  Own'
  <1>1. CASE OnSuccess \/ Send
    <2>1. UNCHANGED crashed
      BY <1>1 DEF OnSuccess, Send, write
    <2> QED
      BY <1>1, <2>1, WriteStep, KeepsOwn
  <1>2. CASE OnFailed
    BY <1>2, OnFailedStep, KeepsOwn DEF OnFailed
  <1>3. CASE OnBroken
    BY <1>3, OnBrokenStep, KeepsOwn DEF OnBroken, close
  <1>4. CASE OnReconnectTimer
    BY <1>4, ReconnectStep, KeepsOwn DEF OnReconnectTimer, connect
  <1>5. CASE Caller /\ m_reconnectors' = (m_reconnectors \/ caller = "reset")
    <2>1. m_reconnectors' \in BOOLEAN
      BY <1>5
    <2>2. CASE WriteFirst
      BY <2>1, <2>2, WriteFirstStep, KeepsOwn DEF WriteFirst
    <2>3. CASE StartWrite
      BY <2>1, <2>3, StartWriteStep, KeepsOwn DEF StartWrite
    <2>4. CASE CloseSocket
      BY <2>1, <2>4, CloseSocketStep, KeepsOwn DEF CloseSocket
    <2>5. CASE ClearQueue
      BY <2>1, <2>5, ClearQueueStep, KeepsOwn DEF ClearQueue
    <2>6. CASE ResetBuffers
      BY <2>1, <2>6, ResetBuffersStep, KeepsOwn DEF ResetBuffers
    <2> QED
      BY <1>5, <2>2, <2>3, <2>4, <2>5, <2>6 DEF Caller
  <1> QED
    BY <1>1, <1>2, <1>3, <1>4, <1>5 DEF Module

\* What overtook another connection has done so for good.
LEMMA OvertakenForGood ==
    ASSUME Next, overtaken
    PROVE  overtaken'
  <1>1. CASE Network
    BY <1>1
       DEF Network, ConnectSucceeds, ConnectFails, Break, Receives, ReadTimesOut, OperationFails,
           Sends
  <1>2. CASE AsioThread
    BY <1>2
       DEF AsioThread, TakeCompletion, Connected, Failed, on_read, read, on_write, do_write,
           StartTransfer
  <1>3. CASE Module
    BY <1>3
       DEF Module, OnSuccess, OnFailed, OnBroken, OnReconnectTimer, Send, write, close,
           connect, Caller, WriteFirst, StartWrite, CloseSocket, ClearQueue, ResetBuffers
  <1> QED
    BY <1>1, <1>2, <1>3 DEF Next

\* The invariant is inductive.
LEMMA NextInv == Inv /\ [Next]_vars => Inv'
  <1> SUFFICES ASSUME Inv, [Next]_vars
               PROVE  Inv'
    OBVIOUS
  <1>1. CASE Next
    <2>1. TypeOK' /\ ReadFrom'
      BY <1>1, NextLoosely DEF Inv
    <2>2. CASE overtaken
      BY <1>1, <2>1, <2>2, OvertakenForGood DEF Inv, Own
    <2>3. CASE ~overtaken
      <3>1. Tight /\ Core /\ ~crashed
        BY <1>1, <2>3 DEF Next, Inv, Own
      <3>2. CASE Network /\ UNCHANGED m_reconnectors
        BY <2>1, <2>3, <3>1, <3>2, NetworkOwn DEF Inv
      <3>3. CASE AsioThread /\ UNCHANGED m_reconnectors
        BY <2>1, <2>3, <3>1, <3>3, AsioThreadOwn DEF Inv
      <3>4. CASE Module
        BY <2>1, <2>3, <3>1, <3>4, ModuleOwn DEF Inv
      <3> QED
        BY <1>1, <3>2, <3>3, <3>4 DEF Next
    <2> QED
      BY <2>2, <2>3
  <1>2. CASE UNCHANGED vars
    <2>1. TypeOK' /\ ReadFrom'
      BY <1>2
         DEF vars, channelVars, netVars, threadVars, bufVars, Inv, TypeOK, ChannelTypeOK,
             ReadFrom, ReadHandler
    <2>2. /\ Tight' <=> Tight
          /\ QueueHasOneWriter' <=> QueueHasOneWriter
          /\ OneReader' <=> OneReader
      BY <1>2
         DEF vars, channelVars, netVars, threadVars, bufVars, Tight, QueueHasOneWriter,
             OneReader, Readers, ReadHandler, Writers, Waiting, BrokenComing
    <2>3. Core' <=> Core
      BY <1>2
         DEF vars, channelVars, netVars, threadVars, bufVars, Core, SocketTells, OneOfEach,
             NewConnection, PartsTell, Served, Alive, Readers, ReadHandler, Writers, Waiting,
             BrokenComing, Stale, Sending, Ready, SentOf, Between
    <2>4. (overtaken' <=> overtaken) /\ (crashed' <=> crashed)
      BY <1>2 DEF vars, channelVars
    <2> QED
      BY <2>1, <2>2, <2>3, <2>4 DEF Inv, Own
  <1> QED
    BY <1>1, <1>2

\* It therefore holds always.
LEMMA InvHolds == Spec => []Inv
  BY InitInv, NextInv, PTL DEF Spec

----------------------------------------------------------------------------
\* No step but that of on_write() which finds the send buffer sent takes one
\* message out of the queue; close() takes all, its loop being one step here.
LEMMA OnlyWholeMessagesLeave ==
    ASSUME TypeOK, Next, m_queue' = m_queue - 1, caller # "clear"
    PROVE  handler = "on_write" /\ transferred = m_send_buf /\ m_queue > 0
  <1>1. m_queue \in Nat
    BY SizeAssumption DEF TypeOK, ChannelTypeOK
  <1>2. m_queue' # m_queue /\ m_queue' # m_queue + 1
    BY <1>1
  <1>3. ~Network
    BY <1>2
       DEF Network, ConnectSucceeds, ConnectFails, Break, Receives, ReadTimesOut,
           OperationFails, Sends, bufVars
  <1>4. AsioThread => on_write
    BY <1>2
       DEF AsioThread, TakeCompletion, on_read, read, do_write, StartTransfer, bufVars
  <1>5. ~(OnSuccess \/ OnFailed \/ OnBroken \/ OnReconnectTimer \/ Send)
    BY <1>2
       DEF OnSuccess, OnFailed, OnBroken, OnReconnectTimer, Send, write, close, connect,
           bufVars
  <1>6. ~Caller
    BY <1>2
       DEF Caller, WriteFirst, StartWrite, CloseSocket, ClearQueue, ResetBuffers, bufVars
  <1>7. on_write
    BY <1>3, <1>4, <1>5, <1>6 DEF Next, Module
  <1> QED
    BY <1>2, <1>7 DEF on_write, PartlySent, bufVars

\* The step in which a connection overtakes another sends nothing.
LEMMA WireStays ==
    ASSUME Next, ~overtaken, overtaken'
    PROVE  wire' \in {0, wire}
  <1>1. CASE Network
    BY <1>1
       DEF Network, ConnectSucceeds, ConnectFails, Break, Receives, ReadTimesOut,
           OperationFails, Sends
  <1>2. CASE AsioThread
    BY <1>2
       DEF AsioThread, TakeCompletion, on_read, read, on_write, do_write, StartTransfer
  <1>3. CASE Module
    BY <1>3
       DEF Module, OnSuccess, OnFailed, OnBroken, OnReconnectTimer, Send, write, close,
           connect, Caller, WriteFirst, StartWrite, CloseSocket, ClearQueue, ResetBuffers
  <1> QED
    BY <1>1, <1>2, <1>3 DEF Next

----------------------------------------------------------------------------
\* Everything is of its type, for any size of the queue and of the messages and
\* any number of faults, of connections that overtook another too: the queue is
\* not overrun, nor does the rest of the send buffer fall below zero.
THEOREM ChannelTypeCorrect == Spec => []TypeOK
  <1>1. Inv => TypeOK
    BY DEF Inv
  <1> QED
    BY <1>1, InvHolds, PTL

\* Until a connection overtakes another, the queue of an active channel is served by
\* one thread at most, and by one if it is not empty, unless BROKEN is on its way,
\* upon which close() clears it.
THEOREM ChannelQueueHasOneWriter == Spec => []QueueHasOneWriter
  <1>1. Inv => QueueHasOneWriter
    <2> SUFFICES ASSUME Tight, Core, m_state = "ACTIVE"
                 PROVE  Writers <= 1 /\ (m_queue > 0 => Writers = 1 \/ BrokenComing)
      BY DEF Inv, Own, QueueHasOneWriter
    <2> QED
      BY DEF Core, SocketTells, OneOfEach, Served
  <1> QED
    BY <1>1, InvHolds, PTL

\* An active channel is read from, or BROKEN is on its way, unless on_connect() has
\* swallowed what its read() threw: of every connection, one that overtook another
\* too.  Only one read is under way, unless there was such a connection.
THEOREM ChannelActiveIsRead == Spec => []ActiveIsRead
  <1>1. Inv => ActiveIsRead
    <2> SUFFICES ASSUME Inv, m_state = "ACTIVE"
                 PROVE  /\ \/ armed["read"] > 0
                           \/ \E i \in DOMAIN done : done[i].op = "read"
                           \/ ReadHandler
                           \/ \E i \in DOMAIN notices : notices[i] = "BROKEN"
                           \/ silenced
                           \/ crashed
                        /\ ~overtaken => Readers <= 1
      BY DEF ActiveIsRead
    <2>1. ReadFrom
      BY DEF Inv
    <2>2. ~overtaken => Readers <= 1
      BY DEF Inv, Own, OneReader, Core, SocketTells, OneOfEach
    <2> QED
      BY <2>1, <2>2 DEF ReadFrom, ReadWaits, Broken
  <1> QED
    BY <1>1, InvHolds, PTL

\* Until a connection overtakes another, a message leaves the queue when the peer has
\* all its parts, and the peer gets none of them twice, however they are split and
\* however often the connection breaks.
THEOREM ChannelPeerGetsWholeMessages == Spec => PeerGetsWholeMessages
  <1> DEFINE Whole == ~overtaken =>
                 /\ wire' <= MsgParts
                 /\ m_queue' = m_queue - 1 /\ caller # "clear" => wire = MsgParts
  <1>1. Inv /\ Inv' /\ [Next]_vars => [Whole]_vars
    <2> SUFFICES ASSUME Inv, Inv', Next, ~overtaken
                 PROVE  /\ wire' <= MsgParts
                        /\ m_queue' = m_queue - 1 /\ caller # "clear" => wire = MsgParts
      BY DEF vars
    <2>1. Tight /\ Core /\ TypeOK
      BY DEF Next, Inv, Own
    <2>2. wire' <= MsgParts
      <3>1. CASE ~overtaken'
        BY <3>1, Numbers DEF Inv, Own, Tight
      <3>2. CASE overtaken'
        <4>1. wire \in 0..MsgParts /\ MsgParts \in Nat
          BY <2>1, Numbers DEF Tight
        <4>2. wire' \in {0, wire}
          BY <3>2, WireStays
        <4> QED
          BY <4>1, <4>2
      <3> QED
        BY <3>1, <3>2
    <2>3. ASSUME m_queue' = m_queue - 1, caller # "clear"
          PROVE  wire = MsgParts
      <3>1. /\ handler = "on_write" /\ transferred = m_send_buf
            /\ m_queue > 0 /\ m_send_buf \in 0..MsgParts
        BY <2>1, <2>3, OnlyWholeMessagesLeave DEF Tight
      <3>2. Alive
        BY <2>1, <2>3, <3>1 DEF Core, SocketTells
      <3>3. SentOf(transferred)
        BY <2>1, <3>1, <3>2 DEF Core, PartsTell
      <3> QED
        BY <3>1, <3>3, SizeAssumption DEF SentOf
    <2> QED
      BY <2>2, <2>3
  <1> QED
    BY <1>1, InvHolds, PTL DEF Spec, PeerGetsWholeMessages

----------------------------------------------------------------------------
CrashesWithoutConnection ==
    crashed /\ ~overtaken => sock # "connected" \/ handler \in {"connected", "timed_out"}

\* A step that crashes is of a thread that found the socket not connected: closed
\* while its completion waited, or broken; or of read() where nobody catches what it
\* throws.
LEMMA CrashStep ==
    ASSUME Tight, Core, Next, crashed'
    PROVE  sock' # "connected" \/ handler' \in {"connected", "timed_out"}
  <1>1. ~crashed
    BY DEF Next
  <1>2. ~Network
    BY <1>1
       DEF Network, ConnectSucceeds, ConnectFails, Break, Receives, ReadTimesOut,
           OperationFails, Sends
  <1>3. ~Module
    BY <1>1
       DEF Module, OnSuccess, OnFailed, OnBroken, OnReconnectTimer, Send, write, close,
           connect, Caller, WriteFirst, StartWrite, CloseSocket, ClearQueue, ResetBuffers
  <1>4. TakeCompletion \/ on_write \/ read
    BY <1>1, <1>2, <1>3 DEF Next, AsioThread, on_read, do_write, StartTransfer
  <1>5. CASE TakeCompletion
    BY <1>1, <1>5 DEF TakeCompletion, Connected, Failed
  <1>6. CASE on_write
    <2>1. handler = "on_write" /\ m_queue = 0 /\ sock' = sock
      BY <1>1, <1>6 DEF on_write, PartlySent, netVars
    <2>2. Writers # 0
      BY <2>1, Numbers DEF Writers
    <2> QED
      BY <2>1, <2>2 DEF Core, OneOfEach, Alive
  <1>7. CASE read
    BY <1>1, <1>7 DEF read, ReadThrows, Reading
  <1> QED
    BY <1>4, <1>5, <1>6, <1>7

\* Until a connection overtakes another, the process crashes, by init_addr_info() in
\* on_connect() or by front() of an empty queue in on_write(), only over a connection
\* that has been lost or closed: no interleaving with the module's thread makes it do
\* so while the socket is connected.  There is one other way: an exception that
\* read() throws outside of on_read()'s try block, and on_connect() does not catch.
THEOREM ChannelCrashesWithoutConnection == Spec => []CrashesWithoutConnection
  <1>1. Init => CrashesWithoutConnection
    BY DEF Init, ChannelInit, CrashesWithoutConnection
  <1>2. Inv /\ CrashesWithoutConnection /\ [Next]_vars => CrashesWithoutConnection'
    <2> SUFFICES ASSUME Inv, CrashesWithoutConnection, [Next]_vars
                 PROVE  CrashesWithoutConnection'
      OBVIOUS
    <2>1. CASE Next
      <3> SUFFICES ASSUME crashed', ~overtaken'
                   PROVE  sock' # "connected" \/ handler' \in {"connected", "timed_out"}
        BY DEF CrashesWithoutConnection
      <3>1. Tight /\ Core
        BY <2>1, OvertakenForGood DEF Inv, Own, Next
      <3> QED
        BY <2>1, <3>1, CrashStep
    <2>2. CASE UNCHANGED vars
      BY <2>2 DEF vars, channelVars, netVars, threadVars, CrashesWithoutConnection
    <2> QED
      BY <2>1, <2>2
  <1> QED
    BY <1>1, <1>2, InvHolds, PTL DEF Spec
=============================================================================
