------------------------------ MODULE UdpChannel ------------------------------
(***************************************************************************)
(* The sending side of src/3rd/micro_core/io/udp_channel.hpp, with the     *)
(* codec that fills its buffers (trans_codec.cpp): any thread              *)
(* encodes under the lock and wakes the loop's thread, which alone gives   *)
(* the buffers to libuv and frees them when libuv is done.  Wake-ups that  *)
(* are not yet seen are one (uv_async_send).                               *)
(***************************************************************************)
EXTENDS Naturals, Sequences, SequencesExt

CONSTANTS
    Writer,     \* threads that send
    MaxBufs     \* bound on the buffers encoded

ASSUME BufsAssumption == MaxBufs \in Nat \ {0}

VARIABLES
    m_send_bufs,    \* encoded, not yet given to libuv; a buffer is its number
    accepted,       \* how many have been encoded
    pc,             \* where each writer is in write() or batch_write()
    async_pending,  \* uv_async_t: the loop is to call on_async()
    loop,           \* where the loop's thread is
    requests,       \* buffers libuv has, whose callback is still to come
    given,          \* all it has been asked to send, in order (history)
    freed,          \* by the callback
    leaked          \* uv_udp_send() failed: no callback, and nobody frees

vars == <<m_send_bufs, accepted, pc, async_pending, loop, requests, given, freed, leaked>>

Buf == 1..MaxBufs

\* Everything is of its type.
TypeOK ==
    /\ m_send_bufs \in Seq(Buf)
    /\ accepted \in 0..MaxBufs
    /\ pc \in [Writer -> {"idle", "notify"}]
    /\ async_pending \in BOOLEAN
    /\ loop \in {"idle", "on_async"}
    /\ requests \subseteq Buf
    /\ given \in Seq(Buf)
    /\ freed \subseteq Buf
    /\ leaked \subseteq Buf

Init ==
    /\ m_send_bufs = <<>>
    /\ accepted = 0
    /\ pc = [w \in Writer |-> "idle"]
    /\ async_pending = FALSE
    /\ loop = "idle"
    /\ requests = {}
    /\ given = <<>>
    /\ freed = {}
    /\ leaked = {}

----------------------------------------------------------------------------
\* The codec, under the lock: a message, or a batch of them, is one buffer
\* more; an empty batch is none.
Encode ==
    \/ /\ accepted < MaxBufs
       /\ accepted' = accepted + 1
       /\ m_send_bufs' = Append(m_send_bufs, accepted')
    \/ UNCHANGED <<accepted, m_send_bufs>>

\* write() and batch_write(), up to the end of the lock.
Write(w) ==
    /\ pc[w] = "idle"
    /\ pc' = [pc EXCEPT ![w] = "notify"]
    /\ Encode
    /\ UNCHANGED <<async_pending, loop, requests, given, freed, leaked>>

Notify(w) ==
    /\ pc[w] = "notify"
    /\ pc' = [pc EXCEPT ![w] = "idle"]
    /\ async_pending' = TRUE
    /\ UNCHANGED <<m_send_bufs, accepted, loop, requests, given, freed, leaked>>

\* do_write(), under the lock: libuv gets all that is there, or refuses it.
\* Bugs to be caught: the buffers stay; a wake-up sends one of them.
do_writeUnpopped(done) ==
    \E failing \in SUBSET ToSet(m_send_bufs) :
        /\ requests' = (requests \ done) \union (ToSet(m_send_bufs) \ failing)
        /\ leaked' = leaked \union failing
        /\ given' = given \o m_send_bufs
        /\ UNCHANGED m_send_bufs
do_writeOne(done) ==
    LET first == SubSeq(m_send_bufs, 1, IF m_send_bufs = <<>> THEN 0 ELSE 1) IN
    \E failing \in SUBSET ToSet(first) :
        /\ requests' = (requests \ done) \union (ToSet(first) \ failing)
        /\ leaked' = leaked \union failing
        /\ given' = given \o first
        /\ m_send_bufs' = SubSeq(m_send_bufs, Len(first) + 1, Len(m_send_bufs))
do_write(done) ==
    \E failing \in SUBSET ToSet(m_send_bufs) :
        /\ requests' = (requests \ done) \union (ToSet(m_send_bufs) \ failing)
        /\ leaked' = leaked \union failing
        /\ given' = given \o m_send_bufs
        /\ m_send_bufs' = <<>>

\* The loop forgets the wake-up, then calls on_async().
SeeAsync ==
    /\ loop = "idle" /\ async_pending
    /\ async_pending' = FALSE
    /\ loop' = "on_async"
    /\ UNCHANGED <<m_send_bufs, accepted, pc, requests, given, freed, leaked>>

on_async ==
    /\ loop = "on_async"
    /\ do_write({})
    /\ loop' = "idle"
    /\ UNCHANGED <<accepted, pc, async_pending, freed>>

\* on_write_callback(): on_write(), which sends what has come in meanwhile,
\* then frees the buffer, sent or not.
\* Bug to be caught: the one after it is freed.
on_write_callbackNext(buf) ==
    /\ loop = "idle" /\ buf \in requests
    /\ do_write({buf})
    /\ freed' = freed \union {buf + 1}
    /\ UNCHANGED <<accepted, pc, async_pending, loop>>
on_write_callback(buf) ==
    /\ loop = "idle" /\ buf \in requests
    /\ do_write({buf})
    /\ freed' = freed \union {buf}
    /\ UNCHANGED <<accepted, pc, async_pending, loop>>

Loop == SeeAsync \/ on_async \/ \E buf \in Buf : on_write_callback(buf)

Next == Loop \/ \E w \in Writer : Write(w) \/ Notify(w)

\* The threads run, and libuv calls back for every request it has accepted.
Spec ==
    /\ Init /\ [][Next]_vars
    /\ WF_vars(SeeAsync) /\ WF_vars(on_async)
    /\ \A buf \in Buf : SF_vars(on_write_callback(buf))
    /\ \A w \in Writer : WF_vars(Notify(w))

----------------------------------------------------------------------------
(***************************************************************************)
(* Properties.                                                             *)
(***************************************************************************)

\* Whatever writers and callbacks cross, libuv gets every buffer once and in the
\* order of its encoding, and none is freed that libuv still has.
GivenOnceInOrder ==
    /\ given \o m_send_bufs = [i \in 1..accepted |-> i]
    /\ ToSet(given) = requests \union freed \union leaked
    /\ requests \intersect (freed \union leaked) = {} /\ freed \intersect leaked = {}

\* Wake-ups that become one leave no buffer behind: each is given to libuv in
\* the end, and freed unless libuv has refused it.
EveryBufferIsReleased == \A buf \in Buf : (accepted >= buf) ~> (buf \in freed \union leaked)
=============================================================================
