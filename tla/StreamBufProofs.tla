--------------------------- MODULE StreamBufProofs ---------------------------
(***************************************************************************)
(* The pointers of StreamBuf stay in order and inside the buffer, and it   *)
(* implements ByteQueue, for buffers of any length and any sequence of     *)
(* operations.                                                             *)
(***************************************************************************)
EXTENDS StreamBuf, SequenceTheorems, TLAPS

LEMMA ZeroIsByte == Zero \in Byte
BY ByteAssumption DEF Zero

\* What TypeOK gives: how many bytes are valid, and what they are.
LEMMA ValidFacts ==
    ASSUME TypeOK
    PROVE  /\ ValidReadLen \in Nat
           /\ Valid \in Seq(Byte)
           /\ Len(Valid) = ValidReadLen
           /\ \A i \in 1..ValidReadLen : Valid[i] = m_buf[m_read_ptr + i - 1]
<1>1. ValidReadLen \in Nat
  BY DEF TypeOK, ValidReadLen
<1>2. \A i \in 1..ValidReadLen : m_read_ptr + i - 1 \in Offset(m_len)
  BY DEF TypeOK, ValidReadLen, Offset
<1>3. \A i \in 1..ValidReadLen : m_buf[m_read_ptr + i - 1] \in Byte
  BY <1>2 DEF TypeOK
<1>4. Valid \in [1..ValidReadLen -> Byte]
  BY <1>3 DEF Valid
<1>5. Valid \in Seq(Byte) /\ Len(Valid) = ValidReadLen
  BY <1>1, <1>4
<1>6. QED BY <1>1, <1>5 DEF Valid

LEMMA PieceFacts ==
    ASSUME NEW data \in Queue!Piece
    PROVE  /\ data \in Seq(Byte)
           /\ Len(data) \in Nat \ {0}
           /\ \A i \in 1..Len(data) : data[i] \in Byte
<1>1. PICK n \in 1..MaxPut : data \in [1..n -> Byte]
  BY DEF Queue!Piece
<1>2. n \in Nat \ {0}
  BY LenAssumption
<1>3. data \in Seq(Byte) /\ Len(data) = n
  BY <1>1, <1>2
<1>4. QED BY <1>1, <1>2, <1>3

(***************************************************************************)
(* Type correctness.                                                       *)
(***************************************************************************)
LEMMA InitType == Init => TypeOK
<1>1. SUFFICES ASSUME Init PROVE TypeOK
  OBVIOUS
<1>2. m_buf \in [Offset(m_len) -> Byte]
  BY <1>1, ZeroIsByte DEF Init
<1>3. out \in Seq(Byte)
  BY <1>1 DEF Init
<1>4. m_auto_alloc \in BOOLEAN
  BY <1>1 DEF Init
<1>5. m_len \in Nat \ {0} /\ m_read_ptr = 0 /\ m_write_ptr = 0
  BY <1>1, LenAssumption DEF Init
<1>6. QED BY <1>2, <1>3, <1>4, <1>5 DEF TypeOK

LEMMA WriteInPlaceType ==
    ASSUME TypeOK, NEW data \in Queue!Piece, WriteInPlace(data)
    PROVE  TypeOK'
<1>1. Len(data) \in Nat /\ \A i \in 1..Len(data) : data[i] \in Byte
  BY PieceFacts
<1>2. \A i \in Offset(m_len) :
        i \in m_write_ptr..(m_write_ptr + Len(data) - 1) => i - m_write_ptr + 1 \in 1..Len(data)
  BY <1>1 DEF TypeOK, Offset
<1>3. m_buf' \in [Offset(m_len) -> Byte]
  BY <1>1, <1>2 DEF TypeOK, WriteInPlace
<1>4. out' \in Seq(Byte)
  BY DEF WriteInPlace
<1>5. UNCHANGED <<m_len, m_read_ptr, m_auto_alloc>>
  BY DEF WriteInPlace
<1>6. m_write_ptr' \in Nat /\ m_read_ptr' <= m_write_ptr' /\ m_write_ptr' <= m_len'
  BY <1>1, <1>5 DEF TypeOK, WriteInPlace
<1>7. QED BY <1>3, <1>4, <1>5, <1>6 DEF TypeOK

LEMMA WriteGrowingType ==
    ASSUME TypeOK, NEW data \in Queue!Piece, WriteGrowing(data)
    PROVE  /\ TypeOK'
           /\ ValidReadLen + Len(data) <= m_len'
           /\ \A i \in Nat : i < m_len' => m_buf'[i] =
                IF i < ValidReadLen THEN m_buf[m_read_ptr + i]
                ELSE IF i < ValidReadLen + Len(data) THEN data[i - ValidReadLen + 1]
                ELSE Zero
<1>1. Len(data) \in Nat /\ \A i \in 1..Len(data) : data[i] \in Byte
  BY PieceFacts
<1>2. ValidReadLen \in Nat
  BY ValidFacts
<1>3. PICK len \in Enough(data) :
        /\ m_len' = len
        /\ m_buf' = [i \in Offset(len) |->
                        IF i < ValidReadLen THEN m_buf[m_read_ptr + i]
                        ELSE IF i < ValidReadLen + Len(data) THEN data[i - ValidReadLen + 1]
                        ELSE Zero]
  BY DEF WriteGrowing
<1>4. len \in Nat \ {0} /\ len - ValidReadLen > Len(data)
  BY <1>3, LenAssumption DEF Enough, Doubled, TypeOK
<1>5. \A i \in Offset(len) :
        /\ i < ValidReadLen => m_buf[m_read_ptr + i] \in Byte
        /\ i >= ValidReadLen /\ i < ValidReadLen + Len(data) => data[i - ValidReadLen + 1] \in Byte
  <2>1. \A i \in Offset(len) : i < ValidReadLen => m_read_ptr + i \in Offset(m_len)
    BY <1>4 DEF Offset, ValidReadLen, TypeOK
  <2>2. \A i \in Offset(len) :
            i >= ValidReadLen /\ i < ValidReadLen + Len(data) => i - ValidReadLen + 1 \in 1..Len(data)
    BY <1>1, <1>2, <1>4 DEF Offset
  <2>3. QED BY <1>1, <2>1, <2>2 DEF TypeOK
<1>6. \A i \in Offset(len) : i \in Int
  BY <1>4 DEF Offset
<1>7. m_buf' \in [Offset(m_len') -> Byte]
  BY <1>1, <1>2, <1>3, <1>5, <1>6, ZeroIsByte
<1>8. out' \in Seq(Byte)
  BY DEF WriteGrowing
<1>9. m_read_ptr' = 0 /\ m_write_ptr' = ValidReadLen + Len(data) /\ m_auto_alloc' = m_auto_alloc
  BY DEF WriteGrowing
<1>10. TypeOK'
  BY <1>1, <1>2, <1>3, <1>4, <1>7, <1>8, <1>9 DEF TypeOK
<1>11. \A i \in Nat : i < len => i \in Offset(len)
  BY <1>4 DEF Offset
<1>12. QED BY <1>1, <1>2, <1>3, <1>4, <1>10, <1>11

LEMMA ReadType ==
    ASSUME TypeOK, NEW n \in 0..ValidReadLen, Read(n) \/ MoveReadPtr(n)
    PROVE  TypeOK'
<1>1. ValidReadLen \in Nat /\ Valid \in Seq(Byte) /\ Len(Valid) = ValidReadLen
  BY ValidFacts
<1>2. out' = SubSeq(Valid, 1, n)
  BY DEF Read, MoveReadPtr
<1>3. out' \in Seq(Byte)
  BY <1>1, <1>2, SubSeqProperties
<1>4. UNCHANGED <<m_buf, m_len, m_auto_alloc>>
  BY DEF Read, MoveReadPtr
<1>5. /\ m_read_ptr' \in Nat /\ m_write_ptr' \in Nat
      /\ m_read_ptr' <= m_write_ptr' /\ m_write_ptr' <= m_len'
  BY <1>1, <1>4 DEF Read, MoveReadPtr, TypeOK, ValidReadLen
<1>6. QED BY <1>3, <1>4, <1>5 DEF TypeOK

LEMMA MoveBufType == TypeOK /\ (MoveBuf \/ reset) => TypeOK'
<1>1. SUFFICES ASSUME TypeOK, MoveBuf \/ reset PROVE TypeOK'
  OBVIOUS
<1>2. ValidReadLen \in Nat /\ ValidReadLen <= m_len
  BY <1>1 DEF ValidReadLen, TypeOK
<1>3. \A i \in Offset(m_len) : i < ValidReadLen => m_read_ptr + i \in Offset(m_len)
  BY <1>1 DEF TypeOK, Offset, ValidReadLen
<1>4. m_buf' \in [Offset(m_len) -> Byte]
  BY <1>1, <1>3 DEF TypeOK, MoveBuf, reset
<1>5. out' \in Seq(Byte)
  <2>1. out' = <<>>
    BY <1>1 DEF MoveBuf, reset
  <2>2. QED BY <2>1
<1>6. UNCHANGED <<m_len, m_auto_alloc>>
  BY <1>1 DEF MoveBuf, reset
<1>7. m_read_ptr' = 0 /\ m_write_ptr' \in {0, ValidReadLen}
  BY <1>1 DEF MoveBuf, reset
<1>8. QED BY <1>1, <1>2, <1>4, <1>5, <1>6, <1>7 DEF TypeOK

LEMMA NextType == TypeOK /\ [Next]_vars => TypeOK'
<1>1. SUFFICES ASSUME TypeOK, [Next]_vars PROVE TypeOK'
  OBVIOUS
<1>2. CASE \E data \in Queue!Piece : WriteInPlace(data) \/ Receive(data)
  BY <1>1, <1>2, WriteInPlaceType DEF Receive
<1>3. CASE \E data \in Queue!Piece : WriteGrowing(data)
  BY <1>1, <1>3, WriteGrowingType
<1>4. CASE \E n \in 0..ValidReadLen : Read(n) \/ MoveReadPtr(n)
  BY <1>1, <1>4, ReadType
<1>5. CASE MoveBuf \/ reset
  BY <1>1, <1>5, MoveBufType
<1>6. CASE UNCHANGED vars
  BY <1>1, <1>6 DEF vars, TypeOK
<1>7. QED BY <1>1, <1>2, <1>3, <1>4, <1>5, <1>6 DEF Next

\* The read pointer never passes the write pointer, nor that the end of the
\* buffer, whatever is written, read, moved and grown.
THEOREM StreamBufTypeCorrect == Spec => []TypeOK
BY InitType, NextType, PTL DEF Spec

(***************************************************************************)
(* Refinement.  What the valid bytes are after a step is shown by a        *)
(* sequence of their number that agrees with them everywhere.              *)
(***************************************************************************)
ValidIsBytes ==
    /\ ValidReadLen \in Nat
    /\ Valid \in Seq(Byte)
    /\ Len(Valid) = ValidReadLen
    /\ \A i \in 1..ValidReadLen : Valid[i] = m_buf[m_read_ptr + i - 1]

LEMMA TypeGivesBytes == TypeOK => ValidIsBytes
BY ValidFacts DEF ValidIsBytes

LEMMA ValidAfter ==
    ASSUME TypeOK', NEW s \in Seq(Byte), Len(s) = ValidReadLen',
           \A i \in 1..Len(s) : s[i] = m_buf'[m_read_ptr' + i - 1]
    PROVE  Valid' = s
<1>1. ValidIsBytes'
  BY TypeGivesBytes, PTL
<1>2. Valid' \in Seq(Byte) /\ Len(Valid') = Len(s)
  BY <1>1 DEF ValidIsBytes
<1>3. \A i \in 1..Len(Valid') : Valid'[i] = s[i]
  BY <1>1, <1>2 DEF ValidIsBytes
<1>4. QED BY <1>2, <1>3, SeqEqual, Zenon

LEMMA InitRefines == Init => Queue!Init
<1>1. SUFFICES ASSUME Init PROVE Queue!Init
  OBVIOUS
<1>2. TypeOK /\ ValidReadLen = 0
  BY <1>1, InitType DEF Init, ValidReadLen
<1>3. Valid = <<>>
  BY <1>2, ValidFacts, EmptySeq
<1>4. QED BY <1>1, <1>3 DEF Init, Queue!Init

\* Both ways of writing append the data to the valid bytes.
LEMMA PutRefines ==
    ASSUME TypeOK, TypeOK', NEW data \in Queue!Piece,
           out' = <<>>,
           ValidReadLen' = ValidReadLen + Len(data),
           \A i \in 1..ValidReadLen : m_buf'[m_read_ptr' + i - 1] = m_buf[m_read_ptr + i - 1],
           \A i \in 1..Len(data) : m_buf'[m_read_ptr' + ValidReadLen + i - 1] = data[i]
    PROVE  Queue!Put(data)
<1> DEFINE s == Valid \o data
<1>1. ValidIsBytes
  BY ValidFacts DEF ValidIsBytes
<1>2. data \in Seq(Byte) /\ Len(data) \in Nat
  BY PieceFacts
<1>3. /\ s \in Seq(Byte)
      /\ Len(s) = ValidReadLen + Len(data)
      /\ \A i \in 1..(ValidReadLen + Len(data)) :
            s[i] = IF i <= ValidReadLen THEN Valid[i] ELSE data[i - ValidReadLen]
  <2>1. Valid \in Seq(Byte) /\ Len(Valid) = ValidReadLen
    BY <1>1 DEF ValidIsBytes
  <2>2. QED BY <1>2, <2>1, ConcatProperties
<1> HIDE DEF s
<1>4. ASSUME NEW i \in 1..Len(s) PROVE s[i] = m_buf'[m_read_ptr' + i - 1]
  <2>1. ValidReadLen \in Nat /\ i \in 1..(ValidReadLen + Len(data)) /\ m_read_ptr' \in Nat
    BY <1>1, <1>3, <1>4 DEF ValidIsBytes, TypeOK
  <2>2. CASE i <= ValidReadLen
    <3>1. i \in 1..ValidReadLen
      BY <2>1, <2>2
    <3>2. s[i] = Valid[i]
      BY <1>3, <2>1, <2>2
    <3>3. QED BY <1>1, <3>1, <3>2 DEF ValidIsBytes
  <2>3. CASE i > ValidReadLen
    <3> DEFINE j == i - ValidReadLen
    <3>1. j \in 1..Len(data) /\ m_read_ptr' + ValidReadLen + j - 1 = m_read_ptr' + i - 1
      BY <1>2, <2>1, <2>3
    <3>2. m_buf'[m_read_ptr' + ValidReadLen + j - 1] = data[j]
      BY <3>1
    <3>3. s[i] = data[j]
      BY <1>3, <2>1, <2>3
    <3>4. QED BY <3>1, <3>2, <3>3
  <2>4. QED BY <2>1, <2>2, <2>3
<1>5. Valid' = s
  BY <1>3, <1>4, ValidAfter
<1>6. QED BY <1>5 DEF s, Queue!Put

LEMMA WriteInPlaceRefines ==
    ASSUME TypeOK, TypeOK', NEW data \in Queue!Piece, WriteInPlace(data)
    PROVE  Queue!Put(data)
<1>1. Len(data) \in Nat \ {0}
  BY PieceFacts
<1>2. UNCHANGED <<m_len, m_read_ptr>> /\ m_write_ptr' = m_write_ptr + Len(data) /\ out' = <<>>
  BY DEF WriteInPlace
<1>3. ValidReadLen' = ValidReadLen + Len(data)
  BY <1>1, <1>2 DEF ValidReadLen, TypeOK
<1>4. \A i \in 1..ValidReadLen : m_buf'[m_read_ptr' + i - 1] = m_buf[m_read_ptr + i - 1]
  BY <1>1, <1>2 DEF WriteInPlace, TypeOK, ValidReadLen, Offset
<1>5. \A i \in 1..Len(data) : m_buf'[m_read_ptr' + ValidReadLen + i - 1] = data[i]
  BY <1>1, <1>2 DEF WriteInPlace, TypeOK, ValidReadLen, Offset
<1>6. QED BY <1>2, <1>3, <1>4, <1>5, PutRefines

LEMMA WriteGrowingRefines ==
    ASSUME TypeOK, TypeOK', NEW data \in Queue!Piece, WriteGrowing(data)
    PROVE  Queue!Put(data)
<1>1. Len(data) \in Nat \ {0} /\ ValidReadLen \in Nat
  BY PieceFacts, ValidFacts
<1>2. m_read_ptr' = 0 /\ m_write_ptr' = ValidReadLen + Len(data) /\ out' = <<>>
  BY DEF WriteGrowing
<1>3. ValidReadLen' = ValidReadLen + Len(data)
  BY <1>1, <1>2 DEF ValidReadLen
<1>4. /\ ValidReadLen + Len(data) <= m_len'
      /\ \A i \in Nat : i < m_len' => m_buf'[i] =
            IF i < ValidReadLen THEN m_buf[m_read_ptr + i]
            ELSE IF i < ValidReadLen + Len(data) THEN data[i - ValidReadLen + 1]
            ELSE Zero
  BY WriteGrowingType
<1>5. m_len' \in Nat /\ m_read_ptr \in Nat
  BY DEF TypeOK
<1>9. ValidReadLen + Len(data) <= m_len'
  BY <1>4
<1>6. \A i \in 1..ValidReadLen : m_buf'[m_read_ptr' + i - 1] = m_buf[m_read_ptr + i - 1]
  <2> SUFFICES ASSUME NEW i \in 1..ValidReadLen
                 PROVE  m_buf'[i - 1] = m_buf[m_read_ptr + (i - 1)]
    BY <1>1, <1>2, <1>5
  <2>2. i - 1 \in Nat /\ i - 1 < m_len' /\ i - 1 < ValidReadLen
    BY <1>1, <1>5, <1>9
  <2>3. QED BY <1>4, <2>2
<1>7. \A i \in 1..Len(data) : m_buf'[m_read_ptr' + ValidReadLen + i - 1] = data[i]
  <2> SUFFICES ASSUME NEW i \in 1..Len(data)
                 PROVE  m_buf'[ValidReadLen + i - 1] = data[i]
    BY <1>1, <1>2
  <2> DEFINE j == ValidReadLen + i - 1
  <2>2. /\ j \in Nat /\ j < m_len' /\ ~ (j < ValidReadLen) /\ j < ValidReadLen + Len(data)
        /\ j - ValidReadLen + 1 = i
    BY <1>1, <1>5, <1>9
  <2>3. m_buf'[j] = data[j - ValidReadLen + 1]
    BY <1>4, <2>2
  <2>4. QED BY <2>2, <2>3
<1>8. QED BY <1>2, <1>3, <1>6, <1>7, PutRefines

\* Both ways of reading take bytes from the front.
LEMMA ReadRefines ==
    ASSUME TypeOK, TypeOK', NEW n \in 0..ValidReadLen, Read(n) \/ MoveReadPtr(n)
    PROVE  Queue!Take(n)
<1> DEFINE s == SubSeq(Valid, n + 1, Len(Valid))
<1>1. ValidIsBytes
  BY ValidFacts DEF ValidIsBytes
<1>2. n \in Nat /\ n + 1 \in Int /\ Len(Valid) = ValidReadLen /\ ValidReadLen \in Nat
  BY <1>1 DEF ValidIsBytes
<1>3. \A i \in (n + 1)..Len(Valid) : Valid[i] \in Byte
  BY <1>1, <1>2, ElementOfSeq DEF ValidIsBytes
<1>4. /\ s \in Seq(Byte)
      /\ Len(s) = ValidReadLen - n
      /\ \A i \in 1..(ValidReadLen - n) : s[i] = Valid[n + i]
  <2>1. /\ s \in Seq(Byte)
        /\ Len(s) = IF n + 1 <= Len(Valid) THEN Len(Valid) - (n + 1) + 1 ELSE 0
        /\ \A i \in 1..(Len(Valid) - (n + 1) + 1) : s[i] = Valid[(n + 1) + i - 1]
    BY <1>2, <1>3, SubSeqProperties
  <2>2. QED BY <1>2, <2>1
<1>5. \A i \in 1..(ValidReadLen - n) : s[i] = m_buf[m_read_ptr + n + i - 1]
  <2>1. ASSUME NEW i \in 1..(ValidReadLen - n)
        PROVE  s[i] = m_buf[m_read_ptr + n + i - 1]
    <3>1. n + i \in 1..ValidReadLen /\ m_read_ptr + (n + i) - 1 = m_read_ptr + n + i - 1
      BY <1>2 DEF TypeOK
    <3>2. Valid[n + i] = m_buf[m_read_ptr + (n + i) - 1]
      BY <1>1, <3>1 DEF ValidIsBytes
    <3>3. QED BY <1>4, <3>1, <3>2
  <2>2. QED BY <2>1
<1>6. m_buf' = m_buf /\ out' = SubSeq(Valid, 1, n)
  BY DEF Read, MoveReadPtr
<1>7. /\ ValidReadLen' = ValidReadLen - n
      /\ ValidReadLen - n > 0 => m_read_ptr' = m_read_ptr + n
  <2>1. CASE Read(n)
    BY <1>2, <2>1 DEF Read, ValidReadLen, TypeOK
  <2>2. CASE MoveReadPtr(n)
    BY <1>2, <2>2 DEF MoveReadPtr, ValidReadLen, TypeOK
  <2>3. QED BY <2>1, <2>2
<1>8. \A i \in 1..Len(s) : s[i] = m_buf'[m_read_ptr' + i - 1]
  <2> HIDE DEF s
  <2>1. ASSUME NEW i \in 1..Len(s) PROVE s[i] = m_buf'[m_read_ptr' + i - 1]
    <3>1. i \in 1..(ValidReadLen - n) /\ ValidReadLen - n > 0
      BY <1>2, <1>4
    <3>2. QED BY <1>5, <1>6, <1>7, <3>1
  <2>2. QED BY <2>1
<1>9. Valid' = s
  <2> HIDE DEF s
  <2>1. QED BY <1>4, <1>7, <1>8, ValidAfter
<1>10. QED BY <1>6, <1>9 DEF Queue!Take

LEMMA MoveBufRefines ==
    ASSUME TypeOK, TypeOK', MoveBuf
    PROVE  Queue!Rest
<1>1. ValidIsBytes
  BY ValidFacts DEF ValidIsBytes
<1>2. ValidReadLen' = ValidReadLen /\ m_read_ptr' = 0
  BY <1>1 DEF MoveBuf, ValidReadLen, ValidIsBytes
<1>3. \A i \in 1..ValidReadLen : m_buf'[m_read_ptr' + i - 1] = m_buf[m_read_ptr + i - 1]
  <2> SUFFICES ASSUME NEW i \in 1..ValidReadLen
                 PROVE  m_buf'[i - 1] = m_buf[m_read_ptr + (i - 1)]
    BY <1>1, <1>2 DEF ValidIsBytes, TypeOK
  <2>2. i - 1 \in Offset(m_len) /\ i - 1 < ValidReadLen
    BY <1>1 DEF Offset, ValidIsBytes, ValidReadLen, TypeOK
  <2>3. QED BY <2>2 DEF MoveBuf
<1>4. \A i \in 1..Len(Valid) : Valid[i] = m_buf'[m_read_ptr' + i - 1]
  BY <1>1, <1>3 DEF ValidIsBytes
<1>5. Valid' = Valid
  BY <1>1, <1>2, <1>4, ValidAfter DEF ValidIsBytes
<1>6. QED BY <1>5 DEF MoveBuf, Queue!Rest

LEMMA ResetRefines ==
    ASSUME TypeOK, TypeOK', reset
    PROVE  Queue!Clear
<1>1. ValidReadLen' = 0
  BY DEF reset, ValidReadLen
<1>2. <<>> \in Seq(Byte) /\ Len(<<>>) = 0
  BY EmptySeq
<1>3. \A i \in 1..Len(<<>>) : <<>>[i] = m_buf'[m_read_ptr' + i - 1]
  BY <1>2
<1>4. Valid' = <<>>
  <2> DEFINE s == <<>>
  <2>1. s \in Seq(Byte) /\ Len(s) = ValidReadLen'
    BY <1>1, <1>2
  <2>2. \A i \in 1..Len(s) : s[i] = m_buf'[m_read_ptr' + i - 1]
    BY <1>3
  <2> HIDE DEF s
  <2>3. Valid' = s
    BY <2>1, <2>2, ValidAfter
  <2>4. QED BY <2>3 DEF s
<1>5. QED BY <1>4 DEF reset, Queue!Clear

LEMMA NextRefines ==
    ASSUME TypeOK, TypeOK', [Next]_vars
    PROVE  [Queue!Next]_(Queue!vars)
<1>1. CASE \E data \in Queue!Piece : WriteInPlace(data) \/ Receive(data)
  <2>1. PICK data \in Queue!Piece : WriteInPlace(data)
    BY <1>1 DEF Receive
  <2>2. QED BY <2>1, WriteInPlaceRefines DEF Queue!Next
<1>2. CASE \E data \in Queue!Piece : WriteGrowing(data)
  BY <1>2, WriteGrowingRefines DEF Queue!Next
<1>3. CASE \E n \in 0..ValidReadLen : Read(n) \/ MoveReadPtr(n)
  <2>1. PICK n \in 0..ValidReadLen : Read(n) \/ MoveReadPtr(n)
    BY <1>3
  <2>2. Queue!Take(n)
    BY <2>1, ReadRefines
  <2>3. n \in 0..Len(Valid)
    BY ValidFacts
  <2>4. QED BY <2>2, <2>3 DEF Queue!Next
<1>4. CASE MoveBuf
  BY <1>4, MoveBufRefines DEF Queue!Next
<1>5. CASE reset
  BY <1>5, ResetRefines DEF Queue!Next
<1>6. CASE UNCHANGED vars
  BY <1>6 DEF vars, Queue!vars, Valid, ValidReadLen
<1>7. QED BY <1>1, <1>2, <1>3, <1>4, <1>5, <1>6 DEF Next

\* A stream buffer is a queue of bytes, for every length it is made with and may
\* grow to: growing, moving and starting afresh lose and reorder nothing.
THEOREM StreamBufIsByteQueue == Spec => ImplementsByteQueue
<1>1. TypeOK /\ TypeOK' /\ [Next]_vars => [Queue!Next]_(Queue!vars)
  BY NextRefines
<1>2. QED BY <1>1, InitRefines, StreamBufTypeCorrect, PTL DEF Spec, ImplementsByteQueue, Queue!Spec
=============================================================================
