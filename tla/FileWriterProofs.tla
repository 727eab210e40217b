-------------------------- MODULE FileWriterProofs --------------------------
(***************************************************************************)
(* Type correctness of FileWriter and its two invariants, for files of any *)
(* size.  The invariants are inductive together, with the fact that no     *)
(* file is taken for a success while its transfer runs.                    *)
(***************************************************************************)
EXTENDS FileWriter, SequenceTheorems, WellFoundedInduction, TLAPS

\* While the session has a writer its transfer has not ended.
VerifiedAtEnd == writer => ~ verified

IInv == TypeOK /\ AcceptedOnceAndKept /\ FileIsSound /\ VerifiedAtEnd

(***************************************************************************)
(* A set of numbers has a smallest one, and one with a bound a largest.    *)
(***************************************************************************)
LEMMA SmallestOne ==
    ASSUME NEW T, T \subseteq Nat, T # {}
    PROVE  \E x \in T : \A y \in T : x <= y
<1> DEFINE R == OpToRel(<, Nat)
<1>1. IsWellFoundedOn(R, Nat)
  BY NatLessThanWellFounded
<1> HIDE DEF R
<1>2. \E x \in T : \A y \in T : ~ (<<y, x>> \in R)
  BY <1>1, WFMin
<1>3. \A x, y \in Nat : <<y, x>> \notin R => x <= y
  BY DEF R, OpToRel
<1>4. QED BY <1>2, <1>3

LEMMA LargestOne ==
    ASSUME NEW n \in Nat, NEW T, T \subseteq 1..n, T # {}
    PROVE  \E x \in T : \A y \in T : y <= x
<1> DEFINE U == {n - y : y \in T}
<1>1. U \subseteq Nat
  <2>1. \A y \in T : y \in 1..n /\ n - y \in Nat
    OBVIOUS
  <2>2. QED BY <2>1
<1>2. U # {}
  <2>1. PICK y \in T : TRUE
    OBVIOUS
  <2>2. n - y \in U
    BY <2>1
  <2>3. QED BY <2>2
<1>3. PICK u \in U : \A v \in U : u <= v
  BY <1>1, <1>2, SmallestOne
<1>4. PICK x \in T : u = n - x
  BY <1>3
<1>5. ASSUME NEW y \in T PROVE y <= x
  <2>1. n - y \in U
    BY <1>5
  <2>2. n - x <= n - y
    BY <1>3, <1>4, <2>1
  <2>3. QED BY <1>4, <1>5, <2>2
<1>6. QED BY <1>5

(***************************************************************************)
(* What writing does to the file: each place stays as it is or receives an *)
(* entry of the written part of the list, and receives one if there is one *)
(* for it.                                                                 *)
(***************************************************************************)
LEMMA WrittenFacts ==
    ASSUME TypeOK, NEW n \in 0..Len(m_data_list), WriteBlocks(n)
    PROVE  /\ file' \in [Place -> Entry \cup {Hole}]
           /\ \A i \in 1..n : /\ m_data_list[i] \in Entry
                              /\ m_data_list[i].data = "right"
                              /\ m_data_list[i].num # 0
           /\ \A q \in Place :
                \/ /\ file'[q] = file[q]
                   /\ \A i \in 1..n : Offset(m_data_list[i].num) # q
                \/ \E i \in 1..n : /\ Offset(m_data_list[i].num) = q
                                   /\ file'[q] = m_data_list[i]
<1>1. m_data_list \in Seq(Entry) /\ Len(m_data_list) \in Nat /\ n \in Nat
  BY LenProperties DEF TypeOK
<1>2. \A i \in 1..n : m_data_list[i] \in Entry
  BY <1>1, ElementOfSeq
<1>3. \A i \in 1..n : m_data_list[i].data = "right" /\ m_data_list[i].num # 0
  BY DEF WriteBlocks
<1>4. file' = [q \in Place |->
                IF WrittenAt(q, n) = {} THEN file[q]
                ELSE m_data_list[CHOOSE i \in WrittenAt(q, n) :
                                    \A j \in WrittenAt(q, n) : j <= i]]
  BY DEF WriteBlocks, FileWith
<1>5. ASSUME NEW q \in Place
      PROVE  \/ /\ file'[q] = file[q]
                /\ \A i \in 1..n : Offset(m_data_list[i].num) # q
             \/ \E i \in 1..n : /\ Offset(m_data_list[i].num) = q
                                /\ file'[q] = m_data_list[i]
  <2>1. CASE WrittenAt(q, n) = {}
    <3>1. file'[q] = file[q]
      BY <1>4, <1>5, <2>1
    <3>2. QED BY <2>1, <3>1 DEF WrittenAt
  <2>2. CASE WrittenAt(q, n) # {}
    <3>1. WrittenAt(q, n) \subseteq 1..n
      BY DEF WrittenAt
    <3>2. \E i \in WrittenAt(q, n) : \A j \in WrittenAt(q, n) : j <= i
      BY <1>1, <2>2, <3>1, LargestOne
    <3> DEFINE last == CHOOSE i \in WrittenAt(q, n) : \A j \in WrittenAt(q, n) : j <= i
    <3>3. last \in WrittenAt(q, n)
      BY <3>2
    <3>4. file'[q] = m_data_list[last]
      BY <1>4, <1>5, <2>2
    <3>5. QED BY <3>3, <3>4 DEF WrittenAt
  <2>3. QED BY <2>1, <2>2
<1>6. \A q \in Place : file'[q] \in Entry \cup {Hole}
  <2>1. \A q \in Place : file[q] \in Entry \cup {Hole}
    BY DEF TypeOK
  <2>2. QED BY <1>2, <1>5, <2>1
<1>7. file' \in [Place -> Entry \cup {Hole}]
  BY <1>4, <1>6
<1>8. QED BY <1>2, <1>3, <1>5, <1>7

(***************************************************************************)
(* A write cannot bring a damaged block to the disk.                       *)
(***************************************************************************)
LEMMA WrittenUndamaged ==
    ASSUME TypeOK, NEW n \in 0..Len(m_data_list), WriteBlocks(n),
           \A q \in Place : file[q].data # "damaged"
    PROVE  \A q \in Place : file'[q].data # "damaged"
BY WrittenFacts

(***************************************************************************)
(* Each number but 0 has a place.                                          *)
(***************************************************************************)
LEMMA OffsetPlace == \A b \in Number : b # 0 => Offset(b) \in Place
BY BlocksAssumption DEF Number, Place, Offset, Wrapping, PastEnd

LEMMA InitIInv == Init => IInv
<1> SUFFICES ASSUME Init PROVE IInv
  OBVIOUS
<1>2. <<>> \in Seq(Entry)
  OBVIOUS
<1>3. transfers \in 0..MaxTransfers
  BY TransfersAssumption DEF Init
<1>7. TypeOK
  BY <1>2, <1>3, Zenon DEF Init, TypeOK
<1>4. AcceptedOnceAndKept
  BY DEF Init, AcceptedOnceAndKept
<1>5. FileIsSound
  BY DEF Init, FileIsSound, Hole
<1>6. VerifiedAtEnd
  BY DEF Init, VerifiedAtEnd
<1>8. QED BY <1>4, <1>5, <1>6, <1>7 DEF IInv

(***************************************************************************)
(* One lemma per action.                                                   *)
(***************************************************************************)
LEMMA BeginIInv == IInv /\ Begin => IInv'
<1> SUFFICES ASSUME IInv, Begin PROVE IInv'
  OBVIOUS
<1>2. m_data_list' = <<>> /\ m_data_list' \in Seq(Entry)
  BY DEF Begin
<1>3. file' \in [Place -> Entry \cup {Hole}]
  BY DEF Begin, CreateAndOpen, IInv, TypeOK
<1>4. transfers' \in 0..MaxTransfers
  BY TransfersAssumption DEF Begin, IInv, TypeOK
<1>5. TypeOK'
  BY <1>2, <1>3, <1>4 DEF Begin, CreateAndOpen, IInv, TypeOK
<1>6. ASSUME m_ofs' = "good" PROVE AcceptedOnceAndKept'
  <2>1. file' = [p \in Place |-> Hole]
    BY <1>6 DEF Begin, CreateAndOpen
  <2>2. \A b \in Number : b # 0 => file'[Offset(b)].num = 0
    BY <2>1, OffsetPlace DEF Hole
  <2>3. m_data_bufs' = {} /\ DOMAIN m_data_list' = {}
    BY <1>2 DEF Begin
  <2>4. QED BY <2>2, <2>3 DEF AcceptedOnceAndKept, Waiting, OnDisk
<1>9. AcceptedOnceAndKept'
  BY <1>6 DEF AcceptedOnceAndKept
<1>7. FileIsSound'
  BY DEF Begin, CreateAndOpen, IInv, FileIsSound, Hole
<1>8. VerifiedAtEnd'
  BY DEF Begin, VerifiedAtEnd
<1>10. QED BY <1>5, <1>7, <1>8, <1>9 DEF IInv

LEMMA AddIInv ==
    ASSUME IInv, NEW b \in Number, NEW data \in Data, Add(b, data)
    PROVE  IInv'
<1> DEFINE e == [num |-> b, data |-> data]
<1>1. e \in Entry /\ m_data_list \in Seq(Entry)
  BY DEF Entry, IInv, TypeOK
<1>2. /\ m_data_list' \in Seq(Entry)
      /\ Len(m_data_list') = Len(m_data_list) + 1
      /\ \A i \in 1..Len(m_data_list) : m_data_list'[i] = m_data_list[i]
      /\ m_data_list'[Len(m_data_list) + 1] = e
  BY <1>1, AppendProperties DEF Add
<1>3. TypeOK'
  BY <1>2 DEF Add, IInv, TypeOK
<1>4. FileIsSound'
  BY DEF Add, IInv, FileIsSound, Complete
<1>5. ASSUME writer, m_ofs = "good", ~ aborted PROVE AcceptedOnceAndKept'
  <2>1. UNCHANGED file /\ m_data_bufs' = m_data_bufs \cup {b} /\ b \notin m_data_bufs
    BY DEF Add
  <2>2. DOMAIN m_data_list = 1..Len(m_data_list) /\ Len(m_data_list) \in Nat
    BY <1>1, LenProperties
  <2>3. DOMAIN m_data_list' = 1..(Len(m_data_list) + 1)
    BY <1>2, LenProperties
  <2>4. ~ OnDisk(b) /\ ~ Waiting(b)
    BY <1>5, <2>1 DEF IInv, AcceptedOnceAndKept
  <2>5. \A i \in DOMAIN m_data_list' :
            \/ i \in DOMAIN m_data_list /\ m_data_list'[i] = m_data_list[i]
            \/ i = Len(m_data_list) + 1 /\ m_data_list'[i].num = b
    BY <1>2, <2>2, <2>3
  <2>6. \A i \in DOMAIN m_data_list :
            i \in DOMAIN m_data_list' /\ m_data_list'[i] = m_data_list[i]
    BY <1>2, <2>2, <2>3
  <2>7. /\ Len(m_data_list) + 1 \in DOMAIN m_data_list'
        /\ m_data_list'[Len(m_data_list) + 1].num = b
    BY <1>2, <2>2, <2>3
  <2>8. \A c \in Number : Waiting(c)' <=> Waiting(c) \/ c = b
    BY <2>5, <2>6, <2>7 DEF Waiting
  <2>9. \A c \in Number : OnDisk(c)' <=> OnDisk(c)
    BY <2>1 DEF OnDisk
  <2>10. \A i, j \in DOMAIN m_data_list' :
            m_data_list'[i].num = m_data_list'[j].num => i = j
    BY <1>5, <2>4, <2>5 DEF IInv, AcceptedOnceAndKept, Waiting
  <2>11. m_data_bufs \subseteq Number
    BY DEF IInv, TypeOK
  <2>12. \A c \in m_data_bufs' :
            Waiting(c)' \/ \E d \in m_data_bufs' : OnDisk(d)' /\ Offset(d) = Offset(c)
    BY <1>5, <2>1, <2>8, <2>9, <2>11 DEF IInv, AcceptedOnceAndKept
  <2>13. \A c \in Number : Waiting(c)' \/ OnDisk(c)' => c \in m_data_bufs'
    BY <1>5, <2>1, <2>8, <2>9 DEF IInv, AcceptedOnceAndKept
  <2>14. \A c \in Number : ~ (Waiting(c)' /\ OnDisk(c)')
    BY <1>5, <2>4, <2>8, <2>9 DEF IInv, AcceptedOnceAndKept
  <2>15. QED BY <2>10, <2>12, <2>13, <2>14 DEF AcceptedOnceAndKept
<1>6. AcceptedOnceAndKept'
  BY <1>5 DEF Add, AcceptedOnceAndKept
<1>7. VerifiedAtEnd'
  BY DEF Add, IInv, VerifiedAtEnd
<1>8. QED BY <1>3, <1>4, <1>6, <1>7 DEF IInv

LEMMA FlushIInv == IInv /\ Flush => IInv'
<1>1. SUFFICES ASSUME IInv, Flush PROVE IInv'
  OBVIOUS
<1>2. PICK n \in 0..Len(m_data_list) :
        /\ WriteBlocks(n)
        /\ m_ofs' = IF n < Len(m_data_list) THEN "bad" ELSE m_ofs
  BY <1>1 DEF Flush
<1>3. TypeOK /\ m_data_list' = <<>> /\ <<>> \in Seq(Entry)
  BY <1>1 DEF IInv, Flush
<1>4. /\ file' \in [Place -> Entry \cup {Hole}]
      /\ \A i \in 1..n : /\ m_data_list[i] \in Entry
                         /\ m_data_list[i].data = "right"
                         /\ m_data_list[i].num # 0
      /\ \A q \in Place :
            \/ /\ file'[q] = file[q]
               /\ \A i \in 1..n : Offset(m_data_list[i].num) # q
            \/ \E i \in 1..n : /\ Offset(m_data_list[i].num) = q
                               /\ file'[q] = m_data_list[i]
  BY <1>2, <1>3, WrittenFacts
<1>5. TypeOK'
  <2>1. m_ofs' \in {"closed", "good", "bad"}
    BY <1>2, <1>3 DEF TypeOK
  <2>2. UNCHANGED <<transfers, writer, m_data_bufs, verified, aborted>>
    BY <1>1 DEF Flush
  <2>3. QED BY <1>3, <1>4, <2>1, <2>2, Zenon DEF TypeOK
<1>6. FileIsSound'
  <2>1. \A q \in Place : file'[q].data # "damaged"
    BY <1>1, <1>2, <1>3, WrittenUndamaged DEF IInv, FileIsSound
  <2>2. ~ verified'
    BY <1>1 DEF Flush, IInv, VerifiedAtEnd
  <2>3. QED BY <2>1, <2>2 DEF FileIsSound
<1>7. ASSUME m_ofs' = "good" PROVE AcceptedOnceAndKept'
  <2>1. /\ m_data_list \in Seq(Entry) /\ Len(m_data_list) \in Nat
        /\ DOMAIN m_data_list = 1..Len(m_data_list)
    BY <1>3, LenProperties DEF TypeOK
  <2>2. n = Len(m_data_list) /\ m_ofs = "good"
    <3>1. ~ (n < Len(m_data_list))
      BY <1>2, <1>7
    <3>2. m_ofs' = m_ofs
      BY <1>2, <3>1
    <3>3. Len(m_data_list) \in Nat /\ n \in 0..Len(m_data_list)
      BY <2>1, <1>2
    <3>4. n = Len(m_data_list)
      BY <3>1, <3>3
    <3>5. QED BY <1>7, <3>2, <3>4
  <2>3. /\ writer /\ ~ aborted
        /\ m_data_bufs' = m_data_bufs
        /\ m_data_bufs \subseteq Number
    BY <1>1 DEF Flush, IInv, TypeOK
  <2>4. AcceptedOnceAndKept /\ writer /\ m_ofs = "good" /\ ~ aborted
    BY <1>1, <2>2, <2>3 DEF IInv
  <2>5. ASSUME NEW b \in Number, Waiting(b)
        PROVE  b \in m_data_bufs /\ b # 0 /\ Offset(b) \in Place
    BY <2>1, <2>2, <2>4, <2>5, <1>4, OffsetPlace DEF Waiting, AcceptedOnceAndKept
  <2>6. \A i \in 1..n : m_data_list[i].num \in Number /\ Waiting(m_data_list[i].num)
    BY <1>4, <2>1, <2>2 DEF Waiting, Entry
  <2>7. ASSUME NEW q \in Place, \E i \in 1..n : Offset(m_data_list[i].num) = q
        PROVE  \E c \in m_data_bufs' : OnDisk(c)' /\ Offset(c) = q
    <3>1. PICK i \in 1..n : Offset(m_data_list[i].num) = q /\ file'[q] = m_data_list[i]
      BY <1>4, <2>7
    <3>2. m_data_list[i].num \in m_data_bufs /\ m_data_list[i].num # 0
      BY <2>5, <2>6, <3>1
    <3>3. QED BY <2>3, <3>1, <3>2 DEF OnDisk
  <2>8. ASSUME NEW b \in m_data_bufs'
        PROVE  \E c \in m_data_bufs' : OnDisk(c)' /\ Offset(c) = Offset(b)
    <3>1. b \in m_data_bufs /\ b \in Number
      BY <2>3, <2>8
    <3>2. CASE Waiting(b)
      <4>1. PICK i \in 1..n : m_data_list[i].num = b
        BY <3>2, <2>1, <2>2 DEF Waiting
      <4>2. Offset(b) \in Place
        BY <2>5, <3>1, <3>2
      <4>3. QED BY <2>7, <4>1, <4>2
    <3>3. CASE \E c \in m_data_bufs : OnDisk(c) /\ Offset(c) = Offset(b)
      <4>1. PICK c \in m_data_bufs : OnDisk(c) /\ Offset(c) = Offset(b)
        BY <3>3
      <4>2. c \in Number /\ Offset(c) \in Place
        BY <2>3, <4>1, OffsetPlace DEF OnDisk
      <4>3. CASE file'[Offset(c)] = file[Offset(c)]
        BY <2>3, <4>1, <4>3 DEF OnDisk
      <4>4. CASE \E i \in 1..n : Offset(m_data_list[i].num) = Offset(c)
        BY <2>7, <4>1, <4>2, <4>4
      <4>5. QED BY <1>4, <4>2, <4>3, <4>4
    <3>4. QED BY <2>4, <3>1, <3>2, <3>3 DEF AcceptedOnceAndKept
  <2>9. ASSUME NEW b \in Number, OnDisk(b)' PROVE b \in m_data_bufs'
    <3>1. b # 0 /\ Offset(b) \in Place /\ file'[Offset(b)].num = b
      BY <2>9, OffsetPlace DEF OnDisk
    <3>2. CASE file'[Offset(b)] = file[Offset(b)]
      BY <2>3, <2>4, <3>1, <3>2 DEF OnDisk, AcceptedOnceAndKept
    <3>3. CASE \E i \in 1..n : file'[Offset(b)] = m_data_list[i]
      BY <2>3, <2>5, <2>6, <3>1, <3>3
    <3>4. QED BY <1>4, <3>1, <3>2, <3>3
  <2>10. DOMAIN m_data_list' = {}
    BY <1>3
  <2>11. \A b \in Number : ~ Waiting(b)'
    BY <2>10 DEF Waiting
  <2>12. QED BY <2>8, <2>9, <2>10, <2>11 DEF AcceptedOnceAndKept
<1>8. AcceptedOnceAndKept'
  BY <1>7 DEF AcceptedOnceAndKept
<1>9. VerifiedAtEnd'
  BY <1>1 DEF Flush, IInv, VerifiedAtEnd
<1>10. QED BY <1>5, <1>6, <1>8, <1>9 DEF IInv

LEMMA AbortIInv == IInv /\ (AbortWriting \/ BlockWithoutChecksum) => IInv'
<1>1. ASSUME IInv, BlockWithoutChecksum PROVE IInv'
  BY <1>1 DEF BlockWithoutChecksum, IInv, TypeOK, AcceptedOnceAndKept, FileIsSound, Complete,
              VerifiedAtEnd
<1>2. ASSUME IInv, AbortWriting PROVE IInv'
  <2>1. PICK n \in 0..Len(m_data_list) : WriteBlocks(n)
    BY <1>2 DEF AbortWriting
  <2>2. /\ file' \in [Place -> Entry \cup {Hole}]
        /\ \A q \in Place : file'[q].data # "damaged"
    BY <1>2, <2>1, WrittenFacts, WrittenUndamaged DEF IInv, FileIsSound
  <2>3. TypeOK'
    BY <1>2, <2>2 DEF AbortWriting, IInv, TypeOK
  <2>4. FileIsSound'
    BY <1>2, <2>2 DEF AbortWriting, IInv, FileIsSound, VerifiedAtEnd
  <2>5. AcceptedOnceAndKept'
    BY <1>2 DEF AbortWriting, AcceptedOnceAndKept
  <2>6. VerifiedAtEnd'
    BY <1>2 DEF AbortWriting, IInv, VerifiedAtEnd
  <2>7. QED BY <2>3, <2>4, <2>5, <2>6 DEF IInv
<1>3. QED BY <1>1, <1>2

LEMMA EndIInv ==
    ASSUME IInv, NEW hash \in BOOLEAN, End(hash)
    PROVE  IInv'
<1>1. PICK n \in 0..Len(m_data_list) :
        /\ WriteBlocks(n)
        /\ m_ofs' = IF n < Len(m_data_list) \/ m_ofs = "bad" THEN "bad" ELSE "closed"
  BY DEF End
<1>2. /\ file' \in [Place -> Entry \cup {Hole}]
      /\ \A q \in Place : file'[q].data # "damaged"
  BY <1>1, WrittenFacts, WrittenUndamaged DEF IInv, FileIsSound
<1>3. m_data_list' \in Seq(Entry)
  BY DEF End
<1>4. verified' \in BOOLEAN /\ aborted' \in BOOLEAN
  BY DEF End
<1>5. TypeOK'
  BY <1>1, <1>2, <1>3, <1>4 DEF End, IInv, TypeOK
<1>6. FileIsSound'
  BY <1>2 DEF End, IInv, FileIsSound, Complete
<1>7. AcceptedOnceAndKept'
  BY DEF End, AcceptedOnceAndKept
<1>8. VerifiedAtEnd'
  BY DEF End, VerifiedAtEnd
<1>9. QED BY <1>5, <1>6, <1>7, <1>8 DEF IInv

LEMMA NextIInv == IInv /\ [Next]_vars => IInv'
<1>1. SUFFICES ASSUME IInv, [Next]_vars PROVE IInv'
  OBVIOUS
<1>2. CASE Begin
  BY <1>1, <1>2, BeginIInv
<1>3. CASE \E b \in Number, data \in Data : Add(b, data)
  BY <1>1, <1>3, AddIInv
<1>4. CASE AbortWriting \/ BlockWithoutChecksum
  BY <1>1, <1>4, AbortIInv
<1>5. CASE Flush
  BY <1>1, <1>5, FlushIInv
<1>6. CASE \E hash \in BOOLEAN : End(hash)
  BY <1>1, <1>6, EndIInv
<1>7. CASE UNCHANGED vars
  BY <1>1, <1>7 DEF vars, IInv, TypeOK, AcceptedOnceAndKept, FileIsSound, Complete,
                    VerifiedAtEnd, Waiting, OnDisk
<1>8. QED BY <1>1, <1>2, <1>3, <1>4, <1>5, <1>6, <1>7 DEF Next

LEMMA SpecIInv == Spec => []IInv
BY InitIInv, NextIInv, PTL DEF Spec

\* Type correctness, for any size of the file; the places are those of the
\* numbers that TypeOK's Number stands for.
THEOREM FileWriterTypeCorrect == Spec => []TypeOK
<1>1. IInv => TypeOK
  BY DEF IInv
<1>2. QED BY <1>1, SpecIInv, PTL

\* What add() accepts, whatever its number, is kept, once, until it is on the
\* disk, for a file of any size.
THEOREM FileWriterAcceptedOnceAndKept == Spec => []AcceptedOnceAndKept
<1>1. IInv => AcceptedOnceAndKept
  BY DEF IInv
<1>2. QED BY <1>1, SpecIInv, PTL

\* Nothing damaged reaches the disk; a file that counts as received is whole,
\* with nothing behind its end, although the numbers are not tested.
THEOREM FileWriterFileIsSound == Spec => []FileIsSound
<1>1. IInv => FileIsSound
  BY DEF IInv
<1>2. QED BY <1>1, SpecIInv, PTL
=============================================================================
