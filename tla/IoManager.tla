------------------------------ MODULE IoManager ------------------------------
(***************************************************************************)
(* class io_manager of src/service/common/io_module/io_manager.cpp: the    *)
(* module that keeps the connection to the cloud.  It is told by notices   *)
(* what became of its connection, connects again every 30 seconds while    *)
(* the channel is among m_reconnectors, and sends heartbeats and messages. *)
(* One cloud address, so one connector.                                    *)
(***************************************************************************)
EXTENDS TcpChannel

CONSTANTS MaxWaiting    \* bound on what waits for either thread when it is written to

VARIABLES m_reconnectors    \* the channel is in it

vars == <<channelVars, m_reconnectors>>

Init == ChannelInit /\ m_reconnectors = FALSE

\* The module's thread runs one handler at a time.
Notice(status) ==
    /\ caller = "idle" /\ notices # <<>> /\ Head(notices) = status
    /\ notices' = Tail(notices)

\* on_msg_client_connect_notification(): logs in, or registers.
OnSuccess ==
    /\ Notice("SUCCESS")
    /\ m_reconnectors' = FALSE
    /\ write

OnFailed ==
    /\ Notice("FAILED")
    /\ m_reconnectors' = TRUE
    /\ UNCHANGED <<netVars, threadVars, bufVars, m_state, wire, caller, crashed, overtaken, faults>>

\* on_msg_channel_notification(): close() first, then m_reconnectors.
OnBroken ==
    /\ Notice("BROKEN")
    /\ close
    /\ UNCHANGED m_reconnectors

NotMany == Len(notices) + Len(done) < MaxWaiting

\* on_timer_reconnect()
OnReconnectTimer ==
    /\ caller = "idle" /\ m_reconnectors /\ NotMany
    /\ connect
    /\ UNCHANGED <<caller, notices, m_reconnectors>>

\* on_timer_heartbeat() and send_msg().
Send ==
    /\ caller = "idle" /\ m_state = "ACTIVE" /\ NotMany
    /\ write
    /\ UNCHANGED <<notices, m_reconnectors>>

Module ==
    \/ OnSuccess \/ OnFailed \/ OnBroken \/ OnReconnectTimer \/ Send
    \/ Caller /\ m_reconnectors' = (m_reconnectors \/ caller = "reset")

Next ==
    /\ ~crashed
    /\ \/ (Network \/ AsioThread) /\ UNCHANGED m_reconnectors
       \/ Module

\* Threads that can run do; a socket that is not broken takes what it is given
\* after a while, and the server is there after MaxFaults; the timer fires.
Fairness ==
    /\ WF_vars(Next /\ AsioThread)
    /\ WF_vars(Next /\ Caller)
    /\ WF_vars(Next /\ (OnSuccess \/ OnFailed \/ OnBroken))
    /\ SF_vars(Next /\ OnReconnectTimer)
    /\ SF_vars(Next /\ ConnectSucceeds)
    /\ SF_vars(Next /\ \E n \in 1..m_send_buf : Sends(n))
    /\ WF_vars(Next /\ \E op \in Op : OperationFails(op))

Spec == Init /\ [][Next]_vars
FairSpec == Spec /\ Fairness

----------------------------------------------------------------------------
(***************************************************************************)
(* Properties.                                                             *)
(***************************************************************************)

\* Everything is of its type, and the queue is not overrun.
TypeOK ==
    /\ ChannelTypeOK
    /\ m_reconnectors \in BOOLEAN

Waiting(op) == Cardinality({i \in DOMAIN done : done[i].op = op})
BrokenComing == caller \in {"close", "clear", "reset"} \/ \E i \in DOMAIN notices : notices[i] = "BROKEN"

\* Who is at work on the head of the queue, or on a read, of the connection.
Writers == armed["write"] + Waiting("write")
           + (IF handler \in {"on_write", "do_write", "async_write"} THEN 1 ELSE 0)
           + (IF caller \in {"write", "async_write"} THEN 1 ELSE 0)
ReadHandler == handler \in {"on_read", "async_read"} \cup Reading
Readers == armed["read"] + Waiting("read") + (IF ReadHandler THEN 1 ELSE 0)

\* The queue of an active channel is served by one: the thread that found it
\* empty, the handler of the write before, or nobody when BROKEN is on its way,
\* which clears it.  Not of a connection that overtook another: the write of
\* the one before may still be served then, or close() clear the queue.
QueueHasOneWriter ==
    m_state = "ACTIVE" /\ ~overtaken =>
        /\ Writers <= 1
        /\ m_queue > 0 => Writers = 1 \/ BrokenComing

\* An active channel is read from, or would never notice that it is broken:
\* a read is under way, completed or about to start, or BROKEN has been said
\* and not yet heard.  It holds also of a connection that overtook another.
\* The exception is the code's: on_connect() may have swallowed what its
\* read() threw.  Only one read is under way, as they use one buffer, unless a
\* connection overtook another.
ActiveIsRead ==
    m_state = "ACTIVE" =>
        /\ \/ armed["read"] > 0
           \/ \E i \in DOMAIN done : done[i].op = "read"
           \/ ReadHandler
           \/ \E i \in DOMAIN notices : notices[i] = "BROKEN"
           \/ silenced
           \/ crashed
        /\ ~overtaken => Readers <= 1

\* Through partial writes, errors and reconnections, a message leaves the queue
\* when the peer has all its parts, and the peer gets none of them twice; until
\* a connection overtakes another.
PeerGetsWholeMessages ==
    [][~overtaken =>
       /\ wire' <= MsgParts
       /\ m_queue' = m_queue - 1 /\ caller # "clear" => wire = MsgParts]_vars

\* The messages of a channel that stays active go out, however little the
\* socket takes at a time; if no connection overtook another, which may leave
\* a queue that is not empty with nobody to serve it.
QueueMoves ==
    <>[](m_state = "ACTIVE" /\ m_queue > 0 /\ ~overtaken /\ ~crashed)
        => []<><<m_queue' = m_queue - 1>>_vars

\* "//reconnect" (io_manager.cpp:310): a channel whose connection failed is
\* connected again, when the server can be reached; unless the process crashes
\* or a connection overtakes another.
FailedIsReconnected ==
    m_reconnectors ~> m_state = "ACTIVE" \/ ~m_reconnectors \/ crashed \/ overtaken
=============================================================================
