------------------------------ MODULE StreamBuf ------------------------------
(***************************************************************************)
(* class io_streambuf of src/3rd/micro_core/io/io_streambuf.hpp: the       *)
(* buffer a channel reads from the socket into and writes from.  Pointers  *)
(* are offsets in the buffer.  An operation that throws changes nothing,   *)
(* and is no action; an assertion is the caller's duty, and a guard here.  *)
(* m_read_bound is m_write_ptr after every operation, m_write_bound is     *)
(* m_len: they have no variable.                                           *)
(***************************************************************************)
EXTENDS Integers, Sequences

CONSTANTS
    Byte,               \* what a byte can be
    InitLen,            \* length the buffer is made with
    MAX_BYTE_BUF_LEN,   \* length it may grow to
    MaxPut              \* bound on what is written at once

ASSUME ByteAssumption == Byte # {}
ASSUME LenAssumption ==
    InitLen \in Nat \ {0} /\ MAX_BYTE_BUF_LEN \in Nat /\ MaxPut \in Nat \ {0}

VARIABLES
    m_buf,          \* the bytes, by offset
    m_len,
    m_read_ptr,
    m_write_ptr,
    m_auto_alloc,
    out             \* what the last operation read (history)

vars == <<m_buf, m_len, m_read_ptr, m_write_ptr, m_auto_alloc, out>>

Zero == CHOOSE b \in Byte : TRUE      \* a new buffer is filled with it
Offset(len) == 0..(len - 1)

\* Everything is of its type; the pointers are in order and inside the buffer.
TypeOK ==
    /\ m_len \in Nat \ {0}
    /\ m_buf \in [Offset(m_len) -> Byte]
    /\ m_read_ptr \in Nat
    /\ m_write_ptr \in Nat
    /\ m_read_ptr <= m_write_ptr
    /\ m_write_ptr <= m_len
    /\ m_auto_alloc \in BOOLEAN
    /\ out \in Seq(Byte)

Init ==
    /\ m_len = InitLen
    /\ m_buf = [i \in Offset(InitLen) |-> Zero]
    /\ m_read_ptr = 0
    /\ m_write_ptr = 0
    /\ m_auto_alloc \in BOOLEAN
    /\ out = <<>>

ValidReadLen == m_write_ptr - m_read_ptr
ValidWriteLen == m_len - m_write_ptr

\* The valid bytes, in their order.
Valid == [i \in 1..ValidReadLen |-> m_buf[m_read_ptr + i - 1]]

----------------------------------------------------------------------------
\* write_to_byte_buf(), with room behind the write pointer.
WriteInPlace(data) ==
    /\ m_write_ptr + Len(data) <= m_len
    /\ m_buf' = [i \in Offset(m_len) |->
                    IF i \in m_write_ptr..(m_write_ptr + Len(data) - 1)
                    THEN data[i - m_write_ptr + 1] ELSE m_buf[i]]
    /\ m_write_ptr' = m_write_ptr + Len(data)
    /\ out' = <<>>
    /\ UNCHANGED <<m_len, m_read_ptr, m_auto_alloc>>

\* The socket has put data behind the write pointer; then move_write_ptr().
Receive(data) ==
    /\ Len(data) <= ValidWriteLen
    /\ WriteInPlace(data)

\* write_to_byte_buf(), without: the smallest doubled length that has more
\* than enough room, where the valid bytes are moved.
Doubled == {len \in (m_len + 1)..MAX_BYTE_BUF_LEN : \E k \in 1..len : len = m_len * (2 ^ k)}
\* Bug to be caught: the bytes that are valid are not counted.
EnoughForData(data) == {len \in Doubled : len > Len(data)}
Enough(data) == {len \in Doubled : len - ValidReadLen > Len(data)}
WriteGrowing(data) ==
    /\ m_write_ptr + Len(data) > m_len
    /\ m_auto_alloc
    /\ \E len \in Enough(data) :
        /\ \A l \in Enough(data) : len <= l
        /\ m_len' = len
        /\ m_buf' = [i \in Offset(len) |->
                        IF i < ValidReadLen THEN m_buf[m_read_ptr + i]
                        ELSE IF i < ValidReadLen + Len(data) THEN data[i - ValidReadLen + 1]
                        ELSE Zero]
    /\ m_read_ptr' = 0
    /\ m_write_ptr' = ValidReadLen + Len(data)
    /\ out' = <<>>
    /\ UNCHANGED m_auto_alloc

\* read_from_byte_buf()
Read(n) ==
    /\ m_read_ptr + n <= m_write_ptr
    /\ out' = SubSeq(Valid, 1, n)
    /\ m_read_ptr' = m_read_ptr + n
    /\ UNCHANGED <<m_buf, m_len, m_write_ptr, m_auto_alloc>>

\* move_read_ptr(): what the socket has taken; all of it starts afresh.
MoveReadPtr(n) ==
    /\ n <= ValidReadLen
    /\ out' = SubSeq(Valid, 1, n)
    /\ m_read_ptr' = IF n = ValidReadLen THEN 0 ELSE m_read_ptr + n
    /\ m_write_ptr' = IF n = ValidReadLen THEN 0 ELSE m_write_ptr
    /\ UNCHANGED <<m_buf, m_len, m_auto_alloc>>

\* move_buf(): the valid bytes to the front.  A buffer that is all valid has
\* its read pointer there already.
\* Bug to be caught: the write pointer stays.
MoveBufButWritePtr ==
    /\ m_buf' = [i \in Offset(m_len) |->
                    IF i < ValidReadLen THEN m_buf[m_read_ptr + i] ELSE m_buf[i]]
    /\ m_read_ptr' = 0
    /\ out' = <<>>
    /\ UNCHANGED <<m_len, m_write_ptr, m_auto_alloc>>
MoveBuf ==
    /\ m_buf' = [i \in Offset(m_len) |->
                    IF i < ValidReadLen THEN m_buf[m_read_ptr + i] ELSE m_buf[i]]
    /\ m_read_ptr' = 0
    /\ m_write_ptr' = ValidReadLen
    /\ out' = <<>>
    /\ UNCHANGED <<m_len, m_auto_alloc>>

reset ==
    /\ m_read_ptr' = 0
    /\ m_write_ptr' = 0
    /\ out' = <<>>
    /\ UNCHANGED <<m_buf, m_len, m_auto_alloc>>

Queue == INSTANCE ByteQueue WITH bytes <- Valid, taken <- out

Next ==
    \/ \E data \in Queue!Piece : WriteInPlace(data) \/ Receive(data) \/ WriteGrowing(data)
    \/ \E n \in 0..ValidReadLen : Read(n) \/ MoveReadPtr(n)
    \/ MoveBuf
    \/ reset

Spec == Init /\ [][Next]_vars

----------------------------------------------------------------------------
(***************************************************************************)
(* Properties.                                                             *)
(***************************************************************************)

\* Through growing, moving and resetting, bytes come out once and as they went
\* in, whatever is read and written in between.
ImplementsByteQueue == Queue!Spec
=============================================================================
