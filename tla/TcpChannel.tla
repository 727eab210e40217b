------------------------------ MODULE TcpChannel ------------------------------
(***************************************************************************)
(* class tcp_channel of src/3rd/micro_core/io/tcp_channel.hpp, its socket, *)
(* and the connection tcp_connector.hpp makes with it.  The completions of *)
(* the socket's operations run on one asio thread, in order; write(),      *)
(* close() and connect() are called by another, the module's (IoManager).  *)
(* A handler is cut where it has tested m_state: the other thread may run  *)
(* between the test and what follows it.  Messages are alike, MsgParts     *)
(* parts long each, so that the queue is its length and the send buffer    *)
(* the number of parts in it.                                              *)
(***************************************************************************)
EXTENDS Integers, Sequences, FiniteSets

CONSTANTS
    MAX_QUEUE_SIZE,
    MsgParts,
    MaxFaults           \* bound on what the network and the codec do wrong

ASSUME SizeAssumption ==
    MAX_QUEUE_SIZE \in Nat \ {0} /\ MsgParts \in Nat \ {0} /\ MaxFaults \in Nat

VARIABLES
    sock,           \* "closed" (may connect), "connecting", "connected", "broken"
    armed,          \* asynchronous operations under way, by kind
    done,           \* completions waiting for the asio thread
    handler,        \* where that thread is in a handler
    transferred,    \* bytes_transferred of the handler, in parts
    silenced,       \* on_connect() swallowed what its read() threw (history)
    m_state,
    m_queue,        \* messages accepted; the first is the one being sent
    m_send_buf,     \* parts of it not yet handed to the socket
    wire,           \* parts of the last message the peer began to get (history)
    caller,         \* where the module's thread is in write() or close()
    notices,        \* what the handlers have published for the module
    crashed,        \* an exception left the thread, or front() of an empty queue
    overtaken,      \* a connection came about before the last one was done with (history)
    faults

netVars == <<sock, armed, done>>
bufVars == <<m_queue, m_send_buf>>
threadVars == <<handler, transferred, silenced>>
channelVars == <<netVars, threadVars, bufVars, m_state, wire, caller, notices,
                 crashed, overtaken, faults>>

Op == {"connect", "read", "write"}
Completion == [op : Op, res : {"ok", "timeout", "error", "aborted"}, parts : 0..MsgParts]
Completed(op, res, parts) == [op |-> op, res |-> res, parts |-> parts]

\* Bootstrap has called connect() on the new channel.
ChannelInit ==
    /\ sock = "connecting"
    /\ armed = [op \in Op |-> IF op = "connect" THEN 1 ELSE 0]
    /\ done = <<>>
    /\ handler = "idle"
    /\ transferred = 0
    /\ silenced = FALSE
    /\ m_state = "INACTIVE"
    /\ m_queue = 0
    /\ m_send_buf = 0
    /\ wire = 0
    /\ caller = "idle"
    /\ notices = <<>>
    /\ crashed = FALSE
    /\ overtaken = FALSE
    /\ faults = 0

\* Where read() was called from: on_connect(), on_read() after a time-out,
\* which is outside of its try block, or the end of that block.
Reading == {"connected", "timed_out", "read"}
HandlerStep == {"idle", "on_read", "async_read", "on_write", "do_write", "async_write"} \cup Reading

\* Everything is of its type.
ChannelTypeOK ==
    /\ sock \in {"closed", "connecting", "connected", "broken"}
    /\ armed \in [Op -> Nat]
    /\ done \in Seq(Completion)
    /\ handler \in HandlerStep
    /\ transferred \in 0..MsgParts
    /\ silenced \in BOOLEAN
    /\ m_state \in {"ACTIVE", "INACTIVE"}
    /\ m_queue \in 0..MAX_QUEUE_SIZE
    /\ m_send_buf \in 0..MsgParts
    /\ wire \in 0..(2 * MsgParts)
    /\ caller \in {"idle", "write", "async_write", "close", "clear", "reset"}
    /\ notices \in Seq({"SUCCESS", "FAILED", "BROKEN"})
    /\ crashed \in BOOLEAN
    /\ overtaken \in BOOLEAN
    /\ faults \in 0..MaxFaults

Publish(status) == notices' = Append(notices, status)
Fault == faults < MaxFaults /\ faults' = faults + 1

----------------------------------------------------------------------------
(* The socket. *)

Complete(op, res, parts) ==
    /\ armed[op] > 0
    /\ armed' = [armed EXCEPT ![op] = @ - 1]
    /\ done' = Append(done, Completed(op, res, parts))

\* An operation that cannot start completes with an error at once.
Start(op, ready) ==
    IF ready
    THEN armed' = [armed EXCEPT ![op] = @ + 1] /\ UNCHANGED done
    ELSE done' = Append(done, Completed(op, "error", 0)) /\ UNCHANGED armed

\* What of the connection before makes a new one overtake it.
Stale(c) == c.op # "connect" \/ c.res = "ok"
ConnectSucceeds ==
    /\ sock = "connecting"
    /\ Complete("connect", "ok", 0)
    /\ sock' = "connected"
    /\ wire' = 0
    /\ overtaken' = (overtaken \/ handler # "idle" \/ \E i \in DOMAIN done : Stale(done[i]))
    /\ UNCHANGED <<threadVars, m_state, bufVars, caller, notices, crashed, faults>>

ConnectFails ==
    /\ sock = "connecting" /\ Fault
    /\ Complete("connect", "error", 0)
    /\ sock' = "closed"
    /\ UNCHANGED <<threadVars, m_state, bufVars, wire, caller, notices, crashed, overtaken>>

Break ==
    /\ sock = "connected" /\ Fault
    /\ sock' = "broken"
    /\ UNCHANGED <<armed, done, threadVars, m_state, bufVars, wire, caller, notices, crashed, overtaken>>

OperationFails(op) ==
    /\ sock = "broken" /\ Complete(op, "error", 0)
    /\ UNCHANGED <<sock, threadVars, m_state, bufVars, wire, caller, notices, crashed, overtaken, faults>>

Receives ==
    /\ sock = "connected" /\ Complete("read", "ok", 0)
    /\ UNCHANGED <<sock, threadVars, m_state, bufVars, wire, caller, notices, crashed, overtaken, faults>>

\* Error 121 of the operating system, after which the socket may be used.
ReadTimesOut ==
    /\ sock = "connected" /\ Fault
    /\ Complete("read", "timeout", 0)
    /\ UNCHANGED <<sock, threadVars, m_state, bufVars, wire, caller, notices, crashed, overtaken>>

\* The socket takes n of the parts it was given.  These are m_send_buf, unless
\* another connection's handlers or close() have touched the buffer since.
Given == IF overtaken THEN MsgParts ELSE m_send_buf
Sends(n) ==
    /\ sock = "connected" /\ Complete("write", "ok", n)
    /\ wire' = n + (IF wire >= MsgParts THEN 0 ELSE wire)
    /\ UNCHANGED <<sock, threadVars, m_state, bufVars, caller, notices, crashed, overtaken, faults>>

Network ==
    \/ ConnectSucceeds \/ ConnectFails \/ Break \/ Receives \/ ReadTimesOut
    \/ \E op \in {"read", "write"} : OperationFails(op)
    \/ \E n \in 0..Given : Sends(n)

----------------------------------------------------------------------------
(* The handlers, on the asio thread.  Each step is of the whole process:   *)
(* a step that crashes it is the last.                                     *)

Finish == handler' = "idle"
Handling(op) == IF op = "read" THEN "on_read" ELSE "on_write"
Starting(op) == IF op = "read" THEN "async_read" ELSE "async_write"

\* A handler of the codec throws: it is told, and says BROKEN.
Throw == Fault /\ Publish("BROKEN") /\ Finish

\* on_connect(): it may be in the midst of close().  init_addr_info() of a socket
\* no longer connected throws, and nothing catches it; of a broken one, it may.
Connected ==
    /\ m_state' = "ACTIVE"
    /\ silenced' = FALSE
    /\ overtaken' = (overtaken \/ caller = "close")
    /\ \/ sock # "connected" /\ crashed' = TRUE /\ UNCHANGED <<handler, notices>>
       \/ /\ sock \in {"connected", "broken"}
          /\ Publish("SUCCESS")
          /\ handler' = "connected"
          /\ UNCHANGED crashed
Failed(res, status) ==
    /\ m_state' = "INACTIVE"
    /\ IF res = "aborted" THEN UNCHANGED notices ELSE Publish(status)
    /\ Finish
    /\ UNCHANGED <<silenced, crashed, overtaken>>

\* The thread takes a completion; on_read() and on_write() up to where they
\* look at what was transferred.  on_read() forgives a time-out.
TimedOut(c) == c.op = "read" /\ c.res = "timeout"
TakeCompletion ==
    /\ handler = "idle" /\ done # <<>>
    /\ done' = Tail(done)
    /\ LET c == Head(done) IN
        /\ transferred' = c.parts
        /\ \/ c.op = "connect" /\ c.res = "ok" /\ Connected
           \/ c.op = "connect" /\ c.res # "ok" /\ Failed(c.res, "FAILED")
           \/ /\ c.op # "connect" /\ m_state = "INACTIVE"
              /\ UNCHANGED <<handler, silenced, m_state, notices, crashed, overtaken>>
           \/ /\ c.op # "connect" /\ m_state = "ACTIVE" /\ c.res # "ok" /\ ~TimedOut(c)
              /\ Failed(c.res, "BROKEN")
           \/ /\ c.op # "connect" /\ m_state = "ACTIVE" /\ (c.res = "ok" \/ TimedOut(c))
              /\ handler' = IF c.res = "ok" THEN Handling(c.op) ELSE "timed_out"
              /\ UNCHANGED <<silenced, m_state, notices, crashed, overtaken>>
    /\ UNCHANGED <<sock, armed, bufVars, wire, caller, faults>>

\* Bug to be caught: the next read is left to someone else.
on_readOnce ==
    /\ handler = "on_read"
    /\ Finish
    /\ UNCHANGED <<netVars, transferred, silenced, bufVars, m_state, wire, caller, notices, crashed, overtaken, faults>>

\* The rest of on_read(): the codec takes what came in, or throws.  (A read of no
\* bytes, line 332, does not come: asio makes it an end of file, an error.)
on_read ==
    /\ handler = "on_read"
    /\ \/ handler' = "read" /\ UNCHANGED <<notices, faults>>
       \/ Throw
    /\ UNCHANGED <<netVars, transferred, silenced, bufVars, m_state, wire, caller, crashed, overtaken>>

\* What read() throws is caught: by on_read(), which says BROKEN; by
\* on_connect(), if it is a boost::exception, which says nothing.  Any other
\* leaves the thread.
ReadThrows ==
    /\ Fault
    /\ \/ handler = "read" /\ Publish("BROKEN") /\ Finish /\ UNCHANGED <<silenced, crashed>>
       \/ handler = "connected" /\ silenced' = TRUE /\ Finish /\ UNCHANGED <<notices, crashed>>
       \/ handler # "read" /\ crashed' = TRUE /\ UNCHANGED <<handler, silenced, notices>>

\* read(): a receive buffer the codec has left full is an exception for the
\* handlers to tell.  That of a new connection, or after a time-out, is not full.
read ==
    /\ handler \in Reading
    /\ \/ /\ m_state = "INACTIVE" /\ Finish
          /\ UNCHANGED <<silenced, notices, crashed, faults>>
       \/ /\ m_state = "ACTIVE" /\ handler' = "async_read"
          /\ UNCHANGED <<silenced, notices, crashed, faults>>
       \/ /\ m_state = "ACTIVE" /\ (handler = "read" \/ overtaken) /\ Throw
          /\ UNCHANGED <<silenced, crashed>>
       \/ m_state = "ACTIVE" /\ ReadThrows
    /\ UNCHANGED <<netVars, transferred, bufVars, m_state, wire, caller, overtaken>>

\* Bug to be caught: the parts that are sent stay in the buffer.
PartlySentUnmoved ==
    /\ transferred = 0 \/ transferred < m_send_buf
    /\ handler' = "do_write"
    /\ UNCHANGED <<m_queue, m_send_buf, notices, crashed, faults>>
PartlySent ==
    /\ transferred = 0 \/ transferred < m_send_buf
    /\ m_send_buf' = m_send_buf - transferred
    /\ handler' = "do_write"
    /\ UNCHANGED <<m_queue, notices, crashed, faults>>

\* The rest of on_write(), with the lock from the whole message on: the codec
\* writes the next one into the buffer, or throws.
on_write ==
    /\ handler = "on_write"
    /\ \/ PartlySent
       \/ /\ transferred > 0 /\ transferred = m_send_buf /\ m_queue = 0
          /\ m_send_buf' = 0 /\ crashed' = TRUE
          /\ UNCHANGED <<handler, m_queue, notices, faults>>
       \/ /\ transferred > 0 /\ transferred = m_send_buf /\ m_queue > 0
          /\ m_queue' = m_queue - 1
          /\ \/ m_queue' = 0 /\ m_send_buf' = 0 /\ Finish /\ UNCHANGED <<notices, faults>>
             \/ /\ m_queue' > 0 /\ m_send_buf' = MsgParts /\ handler' = "do_write"
                /\ UNCHANGED <<notices, faults>>
             \/ m_queue' > 0 /\ m_send_buf' = 0 /\ Throw
          /\ UNCHANGED crashed
       \/ /\ transferred > m_send_buf
          /\ Publish("BROKEN") /\ Finish
          /\ UNCHANGED <<bufVars, crashed, faults>>
    /\ UNCHANGED <<netVars, transferred, silenced, m_state, wire, caller, overtaken>>

\* Bug to be caught: a socket that took nothing is not written to again.
do_writeIfMoved ==
    /\ handler = "do_write"
    /\ handler' = IF m_state = "ACTIVE" /\ transferred > 0 THEN "async_write" ELSE "idle"
    /\ UNCHANGED <<netVars, transferred, silenced, bufVars, m_state, wire, caller, notices, crashed, overtaken, faults>>

do_write ==
    /\ handler = "do_write"
    /\ handler' = IF m_state = "ACTIVE" THEN "async_write" ELSE "idle"
    /\ UNCHANGED <<netVars, transferred, silenced, bufVars, m_state, wire, caller, notices, crashed, overtaken, faults>>

\* async_read_some(), async_write_some(): the last thing a handler does.
StartTransfer(op) ==
    /\ handler = Starting(op)
    /\ Start(op, sock = "connected")
    /\ Finish
    /\ UNCHANGED <<sock, transferred, silenced, bufVars, m_state, wire, caller, notices, crashed, overtaken, faults>>

AsioThread ==
    \/ TakeCompletion \/ on_read \/ read \/ on_write \/ do_write
    \/ \E op \in {"read", "write"} : StartTransfer(op)

----------------------------------------------------------------------------
(* What the module's thread calls.  write() and close() give it back with  *)
(* caller = "idle"; notices is left to the module.                         *)

Returns == caller' = "idle"

\* Bugs to be caught: one message too many is taken in; whoever queues a
\* message sends it.
writeOneTooMany ==
    /\ \/ /\ m_state = "INACTIVE" \/ m_queue > MAX_QUEUE_SIZE
          /\ UNCHANGED <<m_queue, caller>>
       \/ /\ m_state = "ACTIVE" /\ m_queue <= MAX_QUEUE_SIZE
          /\ m_queue' = m_queue + 1
          /\ caller' = IF m_queue = 0 THEN "write" ELSE "idle"
    /\ UNCHANGED <<netVars, threadVars, m_send_buf, m_state, wire, crashed, overtaken, faults>>
writeAtOnce ==
    /\ \/ /\ m_state = "INACTIVE" \/ m_queue >= MAX_QUEUE_SIZE
          /\ UNCHANGED <<m_queue, caller>>
       \/ /\ m_state = "ACTIVE" /\ m_queue < MAX_QUEUE_SIZE
          /\ m_queue' = m_queue + 1
          /\ caller' = "write"
    /\ UNCHANGED <<netVars, threadVars, m_send_buf, m_state, wire, crashed, overtaken, faults>>

\* write(), up to where it lets go of the lock.
write ==
    /\ \/ /\ m_state = "INACTIVE" \/ m_queue >= MAX_QUEUE_SIZE
          /\ UNCHANGED <<m_queue, caller>>
       \/ /\ m_state = "ACTIVE" /\ m_queue < MAX_QUEUE_SIZE
          /\ m_queue' = m_queue + 1
          /\ caller' = IF m_queue = 0 THEN "write" ELSE "idle"
    /\ UNCHANGED <<netVars, threadVars, m_send_buf, m_state, wire, crashed, overtaken, faults>>

\* Its rest, for the only message of the queue.
WriteFirst ==
    /\ caller = "write"
    /\ \/ /\ m_state = "INACTIVE"
          /\ m_send_buf' = 0 /\ Returns /\ UNCHANGED <<notices, faults>>
       \/ /\ m_state = "ACTIVE"
          /\ m_send_buf' = MsgParts /\ caller' = "async_write" /\ UNCHANGED <<notices, faults>>
       \/ /\ m_state = "ACTIVE"
          /\ m_send_buf' = 0 /\ Fault /\ Publish("BROKEN") /\ Returns
    /\ UNCHANGED <<netVars, threadVars, m_queue, m_state, wire, crashed, overtaken>>

StartWrite ==
    /\ caller = "async_write"
    /\ Start("write", sock = "connected")
    /\ Returns
    /\ UNCHANGED <<sock, threadVars, bufVars, m_state, wire, notices, crashed, overtaken, faults>>

\* close(): without the lock, and with handlers at work.
close ==
    /\ m_state' = "INACTIVE"
    /\ caller' = "close"
    /\ UNCHANGED <<netVars, threadVars, bufVars, wire, crashed, overtaken, faults>>

CloseSocket ==
    /\ caller = "close"
    /\ sock' = "closed"
    /\ armed' = [op \in Op |-> 0]
    /\ \E q \in [1..(armed["connect"] + armed["read"] + armed["write"]) -> Op] :
        /\ \A op \in Op : Cardinality({i \in DOMAIN q : q[i] = op}) = armed[op]
        /\ done' = done \o [i \in DOMAIN q |-> Completed(q[i], "aborted", 0)]
    /\ caller' = "clear"
    /\ UNCHANGED <<threadVars, bufVars, m_state, wire, notices, crashed, overtaken, faults>>

ClearQueue ==
    /\ caller = "clear"
    /\ m_queue' = 0
    /\ caller' = "reset"
    /\ UNCHANGED <<netVars, threadVars, m_send_buf, m_state, wire, notices, crashed, overtaken, faults>>

ResetBuffers ==
    /\ caller = "reset"
    /\ m_send_buf' = 0
    /\ Returns
    /\ UNCHANGED <<netVars, threadVars, m_queue, m_state, wire, notices, crashed, overtaken, faults>>

Caller == WriteFirst \/ StartWrite \/ CloseSocket \/ ClearQueue \/ ResetBuffers

\* connect(): only a closed socket can be connected, and is opened for it.
connect ==
    /\ sock' = IF sock = "closed" THEN "connecting" ELSE sock
    /\ Start("connect", sock = "closed")
    /\ UNCHANGED <<threadVars, bufVars, m_state, wire, crashed, overtaken, faults>>
=============================================================================
