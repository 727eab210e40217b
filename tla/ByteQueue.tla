------------------------------ MODULE ByteQueue ------------------------------
(***************************************************************************)
(* What a stream buffer promises: a queue of bytes.  What is put in comes  *)
(* out once and in its order; emptying it is the only way to lose bytes.   *)
(***************************************************************************)
EXTENDS Sequences, Naturals

CONSTANTS
    Byte,
    MaxPut      \* the longest piece put in at once

VARIABLES
    bytes,      \* what is in the queue
    taken       \* what the last operation took out

vars == <<bytes, taken>>

Init == bytes = <<>> /\ taken = <<>>

Piece == UNION {[1..n -> Byte] : n \in 1..MaxPut}

Put(data) ==
    /\ bytes' = bytes \o data
    /\ taken' = <<>>

Take(n) ==
    /\ taken' = SubSeq(bytes, 1, n)
    /\ bytes' = SubSeq(bytes, n + 1, Len(bytes))

Clear ==
    /\ bytes' = <<>>
    /\ taken' = <<>>

\* An operation that takes nothing and leaves the bytes as they are.
Rest ==
    /\ taken' = <<>>
    /\ UNCHANGED bytes

Next ==
    \/ \E data \in Piece : Put(data)
    \/ \E n \in 0..Len(bytes) : Take(n)
    \/ Clear
    \/ Rest

Spec == Init /\ [][Next]_vars
=============================================================================
