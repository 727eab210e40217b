----------------------------- MODULE FileWriter -----------------------------
(***************************************************************************)
(* The writer of one file that is being received: class file_writer of     *)
(* src/service/transfer_common/file_module and file_writer_manager, whose  *)
(* module thread handles the notices of the transfer and a timer.  So each *)
(* handler is one step.                                                    *)
(*                                                                         *)
(* The notices come from a transfer manager that is not in the repository  *)
(* and that gets them from a network: any of them may come at any time,    *)
(* repeated, in any order, its block damaged.  A notice that is refused    *)
(* changes nothing and is no action here.  Nothing compares the number of  *)
(* a block with the size of the file, so a number need not be that of one  *)
(* of its blocks.  A failed assertion ends the program (no configuration   *)
(* of the build defines NDEBUG).                                           *)
(***************************************************************************)
EXTENDS Integers, Sequences

CONSTANTS
    m_file_blocks_count,    \* blocks of the file
    MaxTransfers            \* bound on the transfers of this file

ASSUME BlocksAssumption == m_file_blocks_count \in Nat
ASSUME TransfersAssumption == MaxTransfers \in Nat

VARIABLES
    transfers,      \* begin notices accepted so far (history)
    writer,         \* whether the session has a writer in m_file_writers
    m_ofs,          \* the stream: "closed", "good", or "bad" after an error
    m_data_bufs,    \* numbers of the blocks accepted
    m_data_list,    \* blocks accepted since the last write_blocks()
    file,           \* at each place of the disk, the block last written there
    verified,       \* the last transfer ended with its checksum validated (history)
    aborted         \* an assertion has failed

vars == <<transfers, writer, m_ofs, m_data_bufs, m_data_list, file, verified, aborted>>

Block == 1..m_file_blocks_count

\* The offset is (number - 1) * 1200, of 64 bits.  It is negative for number
\* 0, which stands for all such; m_file_blocks_count + 1 stands for a number
\* past the end, whose block makes the file longer; m_file_blocks_count + 2
\* for one whose product wraps round, 2^60 + 1 for example, to an offset
\* where a block of the file is.
PastEnd == m_file_blocks_count + 1
Wrapping == m_file_blocks_count + 2
Number == 0..Wrapping
Place == 1..PastEnd
Offset(num) == IF num = Wrapping THEN 1 ELSE num

Data == {"right", "damaged"}
Entry == [num : Number, data : Data]
Hole == [num |-> 0, data |-> "hole"]

\* Everything is of its type.
TypeOK ==
    /\ transfers \in 0..MaxTransfers
    /\ writer \in BOOLEAN
    /\ m_ofs \in {"closed", "good", "bad"}
    /\ m_data_bufs \subseteq Number
    /\ m_data_list \in Seq(Entry)
    /\ file \in [Place -> Entry \cup {Hole}]
    /\ verified \in BOOLEAN
    /\ aborted \in BOOLEAN

Init ==
    /\ transfers = 0
    /\ writer = FALSE
    /\ m_ofs = "closed"
    /\ m_data_bufs = {}
    /\ m_data_list = <<>>
    /\ file = [p \in Place |-> Hole]
    /\ verified = FALSE
    /\ aborted = FALSE

----------------------------------------------------------------------------
\* create_null_file() and open() truncate the file, if they can open it.
\* Neither result is looked at: the file may stay as it is, the second may
\* fail where the first did not, and a stream that is not open swallows what
\* is written to it.  The file of size 0 is created but not opened.
CreateAndOpen ==
    \/ /\ file' = [p \in Place |-> Hole]
       /\ m_ofs' \in IF Block = {} THEN {"closed"} ELSE {"good", "bad"}
    \/ /\ UNCHANGED file
       /\ m_ofs' = IF Block = {} THEN "closed" ELSE "bad"

\* The begin notice, refused while the session has a writer.
Begin ==
    /\ ~ aborted
    /\ ~ writer
    /\ transfers < MaxTransfers
    /\ transfers' = transfers + 1
    /\ writer' = TRUE
    /\ verified' = FALSE
    /\ m_data_bufs' = {}
    /\ m_data_list' = <<>>
    /\ CreateAndOpen
    /\ UNCHANGED aborted

\* A block without a checksum fails the handler's assertion.
BlockWithoutChecksum ==
    /\ ~ aborted
    /\ writer
    /\ aborted' = TRUE
    /\ UNCHANGED <<transfers, writer, m_ofs, m_data_bufs, m_data_list, file, verified>>

\* file_writer::add(): a block that was accepted before is refused, also if
\* the first one was damaged.
\* Bug to be caught: only the blocks still to be written are looked through.
AddUnlessListed(b, data) ==
    /\ ~ aborted
    /\ writer
    /\ \A i \in DOMAIN m_data_list : m_data_list[i].num # b
    /\ m_data_bufs' = m_data_bufs \cup {b}
    /\ m_data_list' = Append(m_data_list, [num |-> b, data |-> data])
    /\ UNCHANGED <<transfers, writer, m_ofs, file, verified, aborted>>
Add(b, data) ==
    /\ ~ aborted
    /\ writer
    /\ b \notin m_data_bufs
    /\ m_data_bufs' = m_data_bufs \cup {b}
    /\ m_data_list' = Append(m_data_list, [num |-> b, data |-> data])
    /\ UNCHANGED <<transfers, writer, m_ofs, file, verified, aborted>>

\* write_blocks(): the list in its order, each block at its place.  A damaged
\* block fails the assertion.  The disk may fail before any block, the seek
\* fails for number 0: then the stream is bad, which is not tested, and what
\* follows is lost.
Damaged == \E i \in DOMAIN m_data_list : m_data_list[i].data = "damaged"
WrittenAt(p, n) == {i \in 1..n : Offset(m_data_list[i].num) = p}
\* Bug to be caught: the offset is that of the next block.
FileWithOffsetOneMore(n) ==
    [p \in 1..(PastEnd + 1) |->
        IF WrittenAt(p - 1, n) # {}
        THEN m_data_list[CHOOSE i \in WrittenAt(p - 1, n) : TRUE]
        ELSE IF p \in Place THEN file[p] ELSE Hole]
FileWith(n) ==
    [p \in Place |->
        IF WrittenAt(p, n) = {} THEN file[p]
        ELSE m_data_list[CHOOSE i \in WrittenAt(p, n) : \A j \in WrittenAt(p, n) : j <= i]]

\* Bug to be caught: the last block is not written.
WriteBlocksButLast(n) ==
    /\ \A i \in 1..n : m_data_list[i].data = "right" /\ m_data_list[i].num # 0
    /\ m_ofs # "good" => n = 0
    /\ file' = FileWith(IF n = 0 THEN 0 ELSE n - 1)
WriteBlocks(n) ==
    /\ \A i \in 1..n : m_data_list[i].data = "right" /\ m_data_list[i].num # 0
    /\ m_ofs # "good" => n = 0
    /\ file' = FileWith(n)

\* The assertion fails, in the timer's handler or the end's.
AbortWriting ==
    /\ ~ aborted
    /\ writer
    /\ Damaged
    /\ \E n \in 0..Len(m_data_list) : WriteBlocks(n)
    /\ aborted' = TRUE
    /\ UNCHANGED <<transfers, writer, m_ofs, m_data_bufs, m_data_list, verified>>

\* The timer of 30 seconds.
Flush ==
    /\ ~ aborted
    /\ writer
    /\ m_data_list # <<>>
    /\ ~ Damaged
    /\ \E n \in 0..Len(m_data_list) :
        /\ WriteBlocks(n)
        /\ m_ofs' = IF n < Len(m_data_list) THEN "bad" ELSE m_ofs
    /\ m_data_list' = <<>>
    /\ UNCHANGED <<transfers, writer, m_data_bufs, verified, aborted>>

\* The end notice: write, close, validate the checksum if the notice has a
\* hash, which is that of the whole file, erase the writer.  A stream that was
\* bad is left as "bad", for the properties.
Complete(f) ==
    /\ \A b \in Block : f[b] = [num |-> b, data |-> "right"]
    /\ f[PastEnd] = Hole
\* Bug to be caught: the hash that was given is not looked at.
EndUnvalidated(hash) ==
    /\ ~ aborted
    /\ writer
    /\ ~ Damaged
    /\ \E n \in 0..Len(m_data_list) :
        /\ WriteBlocks(n)
        /\ m_ofs' = IF n < Len(m_data_list) \/ m_ofs = "bad" THEN "bad" ELSE "closed"
    /\ verified' = hash
    /\ writer' = FALSE
    /\ m_data_bufs' = {}
    /\ m_data_list' = <<>>
    /\ UNCHANGED <<transfers, aborted>>
End(hash) ==
    /\ ~ aborted
    /\ writer
    /\ ~ Damaged
    /\ \E n \in 0..Len(m_data_list) :
        /\ WriteBlocks(n)
        /\ m_ofs' = IF n < Len(m_data_list) \/ m_ofs = "bad" THEN "bad" ELSE "closed"
    /\ aborted' = (hash /\ ~ Complete(file'))
    /\ verified' = (hash /\ Complete(file'))
    /\ writer' = FALSE
    /\ m_data_bufs' = {}
    /\ m_data_list' = <<>>
    /\ UNCHANGED transfers

Next ==
    \/ Begin
    \/ BlockWithoutChecksum
    \/ \E b \in Number, data \in Data : Add(b, data)
    \/ AbortWriting
    \/ Flush
    \/ \E hash \in BOOLEAN : End(hash)

Spec == Init /\ [][Next]_vars

\* The timer comes and is handled (TimerService, MicroModule).  No notice is
\* obliged to come.
FairSpec == Spec /\ WF_vars(Flush \/ AbortWriting)

----------------------------------------------------------------------------
(***************************************************************************)
(* Properties.                                                             *)
(***************************************************************************)

Waiting(b) == \E i \in DOMAIN m_data_list : m_data_list[i].num = b
OnDisk(b) == b # 0 /\ file[Offset(b)].num = b

\* What the duplicate check of add() is for: while a transfer runs and the
\* disk does not fail, whatever number comes is accepted once.  It waits to be
\* written, once, or it is on the disk, never both, unless another number
\* accepted was written at the same place; and nothing else is waiting or on
\* the disk.
AcceptedOnceAndKept ==
    writer /\ m_ofs = "good" /\ ~ aborted =>
        /\ \A b \in m_data_bufs :
            Waiting(b) \/ \E c \in m_data_bufs : OnDisk(c) /\ Offset(c) = Offset(b)
        /\ \A b \in Number : Waiting(b) \/ OnDisk(b) => b \in m_data_bufs
        /\ \A b \in Number : ~ (Waiting(b) /\ OnDisk(b))
        /\ \A i, j \in DOMAIN m_data_list :
            m_data_list[i].num = m_data_list[j].num => i = j

\* No damaged block reaches the disk, at whatever place.  A transfer that
\* ended with a hash left the whole file, no block overwritten by one whose
\* number is not of the file and nothing behind the last, until the next
\* transfer begins: notices that come late change nothing, and an end that
\* comes early is not taken for a success.
FileIsSound ==
    /\ \A p \in Place : file[p].data # "damaged"
    /\ verified => Complete(file)

\* Every block accepted is written at its place, by the timer or by the end,
\* unless the disk or an assertion fails or its number has no place.
AcceptedReachesDisk ==
    \A b \in Number :
        b \in m_data_bufs ~> \/ \E c \in Number : OnDisk(c) /\ Offset(c) = Offset(b)
                             \/ m_ofs = "bad"
                             \/ aborted
=============================================================================
