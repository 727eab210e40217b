-------------------------- MODULE UdpChannelProofs --------------------------
(***************************************************************************)
(* libuv gets every buffer once and in order, and none is freed while      *)
(* libuv has it, for any number of writers and of buffers.                 *)
(***************************************************************************)
EXTENDS UdpChannel, SequenceTheorems, TLAPS

(***************************************************************************)
(* GivenOnceInOrder is inductive with the types.  Its first conjunct also  *)
(* says that the buffers given and those waiting are different ones:       *)
(* Numbered is that conjunct with an element at a time.                    *)
(***************************************************************************)
IsNumbered(g, b, n) ==
    /\ Len(g) + Len(b) = n
    /\ \A i \in 1..Len(g) : g[i] = i
    /\ \A i \in 1..Len(b) : b[i] = Len(g) + i
Numbered == IsNumbered(given, m_send_bufs, accepted)

Inv == TypeOK /\ GivenOnceInOrder

\* Buffers are numbers.
LEMMA BufSeq == ASSUME NEW s \in Seq(Buf) PROVE s \in Seq(Nat)
  <1>1. Buf \subseteq Nat
    BY BufsAssumption DEF Buf
  <1> QED
    BY <1>1, SeqMonotonic

\* The two ways to say it are one.
LEMMA NumberedIsInOrder ==
    ASSUME NEW g \in Seq(Nat), NEW b \in Seq(Nat), NEW n \in Nat
    PROVE  IsNumbered(g, b, n) <=> g \o b = [i \in 1..n |-> i]
  <1> DEFINE all == g \o b
  <1>1. /\ Len(g) \in Nat /\ Len(b) \in Nat
        /\ all \in Seq(Nat)
        /\ Len(all) = Len(g) + Len(b)
        /\ \A i \in 1..Len(g) : all[i] = g[i]
        /\ \A i \in 1..Len(b) : all[Len(g) + i] = b[i]
    OBVIOUS
  <1> HIDE DEF all
  <1>2. all \in [1..Len(all) -> Nat]
    BY <1>1, LenProperties
  <1>3. ASSUME IsNumbered(g, b, n)
        PROVE  all = [i \in 1..n |-> i]
    <2>1. Len(all) = n
      BY <1>1, <1>3 DEF IsNumbered
    <2>2. \A i \in 1..n : all[i] = i
      <3> TAKE i \in 1..n
      <3>1. CASE i <= Len(g)
        <4>1. i \in 1..Len(g)
          BY <1>1, <3>1
        <4> QED
          BY <1>1, <1>3, <4>1 DEF IsNumbered
      <3>2. CASE i > Len(g)
        <4>1. i - Len(g) \in 1..Len(b)
          BY <1>1, <1>3, <3>2 DEF IsNumbered
        <4>2. all[Len(g) + (i - Len(g))] = Len(g) + (i - Len(g))
          BY <1>1, <1>3, <4>1 DEF IsNumbered
        <4> QED
          BY <1>1, <4>2
      <3> QED
        BY <1>1, <3>1, <3>2
    <2> QED
      BY <1>2, <2>1, <2>2
  <1>4. ASSUME all = [i \in 1..n |-> i]
        PROVE  IsNumbered(g, b, n)
    <2>1. DOMAIN all = 1..Len(all) /\ DOMAIN all = 1..n
      BY <1>2, <1>4
    <2>2. Len(all) = n
      <3>1. CASE Len(all) > n
        <4>1. Len(all) \in 1..Len(all) /\ Len(all) \notin 1..n
          BY <1>1, <3>1
        <4> QED
          BY <2>1, <4>1
      <3>2. CASE Len(all) < n
        <4>1. n \in 1..n /\ n \notin 1..Len(all)
          BY <1>1, <3>2
        <4> QED
          BY <2>1, <4>1
      <3>3. Len(all) \in Nat
        BY <1>1
      <3> QED
        BY <3>1, <3>2, <3>3
    <2>3. \A i \in 1..n : all[i] = i
      BY <1>4
    <2>4. \A i \in 1..Len(g) : g[i] = i
      BY <1>1, <2>2, <2>3
    <2>5. \A i \in 1..Len(b) : b[i] = Len(g) + i
      BY <1>1, <2>2, <2>3
    <2> QED
      BY <1>1, <2>2, <2>4, <2>5 DEF IsNumbered
  <1> QED
    BY <1>3, <1>4 DEF all

\* What is given last is in the set of what is given.
LEMMA ToSetOfConcat ==
    ASSUME NEW s \in Seq(Buf), NEW t \in Seq(Buf)
    PROVE  ToSet(s \o t) = ToSet(s) \union ToSet(t)
  <1> DEFINE all == s \o t
  <1>1. /\ Len(s) \in Nat /\ Len(t) \in Nat
        /\ DOMAIN s = 1..Len(s) /\ DOMAIN t = 1..Len(t)
        /\ DOMAIN all = 1..(Len(s) + Len(t))
        /\ \A i \in 1..Len(s) : all[i] = s[i]
        /\ \A i \in 1..Len(t) : all[Len(s) + i] = t[i]
        /\ \A i \in 1..(Len(s) + Len(t)) : i \in 1..Len(s) \/ all[i] = t[i - Len(s)]
    OBVIOUS
  <1> HIDE DEF all
  <1>2. \A i \in DOMAIN all : i \in DOMAIN s \/ i - Len(s) \in DOMAIN t
    BY <1>1
  <1>3. \A x \in ToSet(all) : x \in ToSet(s) \union ToSet(t)
    BY <1>1, <1>2 DEF ToSet
  <1>4. \A i \in DOMAIN s : i \in DOMAIN all
    BY <1>1
  <1>5. \A i \in DOMAIN t : Len(s) + i \in DOMAIN all
    BY <1>1
  <1>6. \A x \in ToSet(s) \union ToSet(t) : x \in ToSet(all)
    BY <1>1, <1>4, <1>5 DEF ToSet
  <1> QED
    BY <1>3, <1>6 DEF all

\* A buffer is numbered by its place: those given come before those waiting.
LEMMA Places ==
    ASSUME Inv
    PROVE  /\ Numbered
           /\ Len(given) \in Nat /\ Len(m_send_bufs) \in Nat /\ accepted \in Nat
           /\ ToSet(given) = 1..Len(given)
           /\ ToSet(m_send_bufs) = (Len(given) + 1)..accepted
  <1>1. given \in Seq(Nat) /\ m_send_bufs \in Seq(Nat) /\ accepted \in Nat
    BY BufSeq DEF Inv, TypeOK
  <1>2. Numbered
    BY <1>1, NumberedIsInOrder DEF Inv, GivenOnceInOrder, Numbered
  <1>3. /\ DOMAIN given = 1..Len(given) /\ DOMAIN m_send_bufs = 1..Len(m_send_bufs)
        /\ Len(given) \in Nat /\ Len(m_send_bufs) \in Nat
    BY <1>1
  <1>4. ToSet(given) = 1..Len(given)
    BY <1>2, <1>3 DEF Numbered, IsNumbered, ToSet
  <1>5. ToSet(m_send_bufs) = (Len(given) + 1)..accepted
    <2>1. \A b \in ToSet(m_send_bufs) : b \in (Len(given) + 1)..accepted
      BY <1>1, <1>2, <1>3 DEF Numbered, IsNumbered, ToSet
    <2>2. ASSUME NEW b \in (Len(given) + 1)..accepted
          PROVE  b \in ToSet(m_send_bufs)
      <3>1. b - Len(given) \in DOMAIN m_send_bufs
        BY <1>1, <1>2, <1>3 DEF Numbered, IsNumbered
      <3>2. m_send_bufs[b - Len(given)] = b
        BY <1>1, <1>2, <1>3, <3>1 DEF Numbered, IsNumbered
      <3> QED
        BY <3>1, <3>2 DEF ToSet
    <2> QED
      BY <2>1, <2>2
  <1> QED
    BY <1>1, <1>2, <1>3, <1>4, <1>5

\* Nothing is encoded at first.
LEMMA InitInv == Init => Inv
  <1> SUFFICES ASSUME Init
               PROVE  Inv
    OBVIOUS
  <1>1. TypeOK
    <2>1. <<>> \in Seq(Buf)
      OBVIOUS
    <2>2. accepted \in 0..MaxBufs
      BY BufsAssumption DEF Init
    <2>3. pc \in [Writer -> {"idle", "notify"}]
      BY DEF Init
    <2> QED
      BY <2>1, <2>2, <2>3 DEF Init, TypeOK
  <1>2. given \o m_send_bufs = [i \in 1..accepted |-> i]
    <2>1. IsNumbered(<<>>, <<>>, 0)
      BY DEF IsNumbered
    <2>2. <<>> \in Seq(Nat)
      OBVIOUS
    <2> QED
      BY <2>1, <2>2, NumberedIsInOrder DEF Init
  <1>3. ToSet(given) = {}
    BY DEF Init, ToSet
  <1> QED
    BY <1>1, <1>2, <1>3 DEF Init, Inv, GivenOnceInOrder

\* A buffer that is encoded comes after all the others.
LEMMA WriteInv ==
    ASSUME Inv, NEW w \in Writer, Write(w)
    PROVE  Inv'
  <1>1. /\ given' = given /\ requests' = requests /\ freed' = freed /\ leaked' = leaked
        /\ pc' \in [Writer -> {"idle", "notify"}]
        /\ ToSet(given)' = ToSet(given)
    BY DEF Inv, TypeOK, Write, ToSet
  <1>2. CASE UNCHANGED <<accepted, m_send_bufs>>
    BY <1>1, <1>2 DEF Inv, TypeOK, GivenOnceInOrder, Write
  <1>3. CASE /\ accepted < MaxBufs /\ accepted' = accepted + 1
             /\ m_send_bufs' = Append(m_send_bufs, accepted')
    <2>1. accepted' \in 1..MaxBufs /\ accepted' \in Buf
      BY <1>3, BufsAssumption DEF Inv, TypeOK, Buf
    <2>2. TypeOK'
      BY <1>1, <1>3, <2>1, BufsAssumption DEF Inv, TypeOK, Write
    <2>3. Numbered'
      BY <1>1, <1>3, Places DEF Numbered, IsNumbered, Inv, TypeOK
    <2>4. given' \in Seq(Nat) /\ m_send_bufs' \in Seq(Nat) /\ accepted' \in Nat
      BY <2>2, BufSeq DEF TypeOK
    <2>5. (given \o m_send_bufs = [i \in 1..accepted |-> i])'
      BY <2>3, <2>4, NumberedIsInOrder DEF Numbered
    <2> QED
      BY <1>1, <2>2, <2>5 DEF Inv, GivenOnceInOrder
  <1> QED
    BY <1>2, <1>3 DEF Write, Encode

\* What was waiting is given, in its order, after all that was; what the
\* callback has freed is no request any more.
LEMMA DoWriteInv ==
    ASSUME Inv, NEW done \in SUBSET requests, do_write(done),
           accepted' = accepted, freed' = freed \union done,
           pc' = pc, async_pending' \in BOOLEAN, loop' \in {"idle", "on_async"}
    PROVE  Inv'
  <1> PICK failing \in SUBSET ToSet(m_send_bufs) :
        /\ requests' = (requests \ done) \union (ToSet(m_send_bufs) \ failing)
        /\ leaked' = leaked \union failing
        /\ given' = given \o m_send_bufs
        /\ m_send_bufs' = <<>>
    BY DEF do_write
  <1>1. /\ given' \in Seq(Buf) /\ m_send_bufs' \in Seq(Buf)
        /\ Len(given') = Len(given) + Len(m_send_bufs)
        /\ Len(m_send_bufs') = 0
    BY DEF Inv, TypeOK
  <1>2. ToSet(m_send_bufs) \subseteq Buf
    BY DEF Inv, TypeOK, ToSet
  <1>3. TypeOK'
    BY <1>1, <1>2 DEF Inv, TypeOK
  <1>4. given' \o m_send_bufs' = given \o m_send_bufs
    BY <1>1
  <1>5. ToSet(given') = ToSet(given) \union ToSet(m_send_bufs)
    BY ToSetOfConcat DEF Inv, TypeOK
  <1>6. ToSet(given) \intersect ToSet(m_send_bufs) = {}
    BY Places
  <1>7. /\ ToSet(given) = requests \union freed \union leaked
        /\ requests \intersect (freed \union leaked) = {} /\ freed \intersect leaked = {}
    BY DEF Inv, GivenOnceInOrder
  <1>8. /\ ToSet(given') = requests' \union freed' \union leaked'
        /\ requests' \intersect (freed' \union leaked') = {} /\ freed' \intersect leaked' = {}
    BY <1>5, <1>6, <1>7
  <1> QED
    BY <1>3, <1>4, <1>8 DEF Inv, GivenOnceInOrder, ToSet

\* Every step keeps the invariant.
LEMMA NextInv == Inv /\ [Next]_vars => Inv'
  <1> SUFFICES ASSUME Inv, [Next]_vars
               PROVE  Inv'
    OBVIOUS
  <1>1. ASSUME NEW w \in Writer, Write(w)
        PROVE  Inv'
    BY <1>1, WriteInv
  <1>2. ASSUME NEW w \in Writer, Notify(w)
        PROVE  Inv'
    BY <1>2 DEF Notify, Inv, TypeOK, GivenOnceInOrder, ToSet
  <1>3. CASE SeeAsync
    <2>1. TypeOK'
      BY <1>3 DEF SeeAsync, Inv, TypeOK
    <2> QED
      BY <1>3, <2>1 DEF SeeAsync, Inv, GivenOnceInOrder, ToSet
  <1>4. CASE on_async
    BY <1>4, DoWriteInv DEF on_async, Inv, TypeOK
  <1>5. ASSUME NEW buf \in Buf, on_write_callback(buf)
        PROVE  Inv'
    BY <1>5, DoWriteInv DEF on_write_callback, Inv, TypeOK
  <1>6. CASE UNCHANGED vars
    BY <1>6 DEF vars, Inv, TypeOK, GivenOnceInOrder, ToSet
  <1> QED
    BY <1>1, <1>2, <1>3, <1>4, <1>5, <1>6 DEF Next, Loop

\* It therefore holds always.
LEMMA InvHolds == Spec => []Inv
  BY InitInv, NextInv, PTL DEF Spec

\* Everything is of its type; no more buffers are numbered than are encoded.
THEOREM UdpTypeCorrect == Spec => []TypeOK
  <1>1. Inv => TypeOK
    BY DEF Inv
  <1> QED
    BY <1>1, InvHolds, PTL

\* For any number of threads and buffers, libuv gets every buffer once and in
\* the order of its encoding, and none is freed that libuv still has.
THEOREM UdpGivenOnceInOrder == Spec => []GivenOnceInOrder
  <1>1. Inv => GivenOnceInOrder
    BY DEF Inv
  <1> QED
    BY <1>1, InvHolds, PTL

----------------------------------------------------------------------------
\* What wakes the loop for the buffers that wait: a writer that has still to
\* notify it, the wake-up, or on_async(), which has begun.
WakeUpIsComing ==
    m_send_bufs # <<>> =>
        \/ async_pending
        \/ loop = "on_async"
        \/ \E w \in Writer : pc[w] = "notify"

\* No wake-up is lost, although writers' wake-ups become one, the loop forgets
\* one before it takes the lock, and completions take buffers away meanwhile:
\* what EveryBufferIsReleased needs of the state.
THEOREM UdpWakesTheLoop == Spec => []WakeUpIsComing
  <1>1. Init => WakeUpIsComing
    BY DEF Init, WakeUpIsComing
  <1>2. TypeOK /\ WakeUpIsComing /\ [Next]_vars => WakeUpIsComing'
    <2> SUFFICES ASSUME TypeOK, WakeUpIsComing, [Next]_vars
                 PROVE  WakeUpIsComing'
      OBVIOUS
    <2>1. ASSUME NEW w \in Writer, Write(w)
          PROVE  WakeUpIsComing'
      <3>1. pc'[w] = "notify"
        BY <2>1 DEF Write, TypeOK
      <3> QED
        BY <3>1 DEF WakeUpIsComing
    <2>2. ASSUME NEW w \in Writer, Notify(w)
          PROVE  WakeUpIsComing'
      BY <2>2 DEF Notify, WakeUpIsComing
    <2>3. CASE SeeAsync
      BY <2>3 DEF SeeAsync, WakeUpIsComing
    <2>4. CASE on_async \/ \E buf \in Buf : on_write_callback(buf)
      BY <2>4 DEF on_async, on_write_callback, do_write, WakeUpIsComing
    <2>5. CASE UNCHANGED vars
      BY <2>5 DEF vars, WakeUpIsComing
    <2> QED
      BY <2>1, <2>2, <2>3, <2>4, <2>5 DEF Next, Loop
  <1> QED
    BY <1>1, <1>2, UdpTypeCorrect, PTL DEF Spec
=============================================================================
