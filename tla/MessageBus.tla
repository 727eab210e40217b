------------------------------ MODULE MessageBus ------------------------------
(***************************************************************************)
(* class message_bus of src/3rd/micro_core/bus/message_bus.hpp over its    *)
(* rw_mutex (RWMutex): threads publish while modules that start subscribe. *)
(* A subscription is one entry of the table; publish() walks the entries   *)
(* of its topic and calls each, which is send() of a module.               *)
(***************************************************************************)
EXTENDS RWMutex     \* its variables are m_mutex

CONSTANTS
    Topic,
    Subscription        \* entries that are made

ASSUME TopicAssumption == Topic # {}

VARIABLES
    m_msg_invokers,     \* the subscriptions of each topic
    it,                 \* each publisher's topic, and the entries still to call
    called              \* the entries it has called (history)

Bus == <<m_msg_invokers, it, called>>
busVars == <<vars, Bus>>

\* Everything is of its type, the lock included.
BusTypeOK ==
    /\ TypeOK
    /\ m_msg_invokers \in [Topic -> SUBSET Subscription]
    /\ it \in [Thread -> [topic : Topic, left : SUBSET Subscription]]
    /\ called \in [Thread -> SUBSET Subscription]

BusInit ==
    /\ Init
    /\ m_msg_invokers = [topic \in Topic |-> {}]
    /\ it = [t \in Thread |-> [topic |-> CHOOSE topic \in Topic : TRUE, left |-> {}]]
    /\ called = [t \in Thread |-> {}]

----------------------------------------------------------------------------
\* Waiting for the lock, either way, and waking up in it.
Wait(t) ==
    /\ \/ ReadWait(t)
       \/ SpuriousWake(t)
       \/ WriteCall(t)
       \/ WriteResume(t)
    /\ UNCHANGED Bus

\* publish(): the range of the topic, one call after the other, the end.
Publish(t) ==
    /\ ReadEnter(t)
    /\ \E topic \in Topic :
        it' = [it EXCEPT ![t] = [topic |-> topic, left |-> m_msg_invokers[topic]]]
    /\ called' = [called EXCEPT ![t] = {}]
    /\ UNCHANGED m_msg_invokers

Call(t) ==
    /\ state[t] = "reading"
    /\ \E s \in it[t].left :
        /\ called' = [called EXCEPT ![t] = @ \union {s}]
        /\ it' = [it EXCEPT ![t].left = @ \ {s}]
    /\ UNCHANGED <<vars, m_msg_invokers>>

\* Bug to be caught: a topic without subscriptions is left by an unlock of its
\* own, before the guard's.
PublishedUnlockedTwice(t) ==
    /\ it[t].left = {} /\ state[t] = "reading"
    /\ m_r_count' = m_r_count - (IF called[t] = {} THEN 2 ELSE 1)
    /\ state' = [state EXCEPT ![t] = "out"]
    /\ UNCHANGED <<m_w_count, m_w_status, writes, Bus>>
Published(t) ==
    /\ it[t].left = {}
    /\ ReadExit(t)
    /\ UNCHANGED Bus

\* subscribe() and unsubscribe(), which takes all of a topic, to the end.
\* Bug to be caught: subscribe() without the lock.
SubscribeUnlocked(t) ==
    /\ state[t] = "out"
    /\ \E topic \in Topic, s \in Subscription :
        /\ \A other \in Topic : s \notin m_msg_invokers[other]
        /\ m_msg_invokers' = [m_msg_invokers EXCEPT ![topic] = @ \union {s}]
    /\ UNCHANGED <<vars, it, called>>
Subscribe(t) ==
    /\ WriteExit(t)
    /\ \E topic \in Topic, s \in Subscription :
        /\ \A other \in Topic : s \notin m_msg_invokers[other]
        /\ m_msg_invokers' = [m_msg_invokers EXCEPT ![topic] = @ \union {s}]
    /\ UNCHANGED <<it, called>>

Unsubscribe(t) ==
    /\ WriteExit(t)
    /\ \E topic \in Topic : m_msg_invokers' = [m_msg_invokers EXCEPT ![topic] = {}]
    /\ UNCHANGED <<it, called>>

BusNext ==
    \E t \in Thread : Wait(t) \/ Publish(t) \/ Call(t) \/ Published(t)
                      \/ Subscribe(t) \/ Unsubscribe(t)

BusSpec == BusInit /\ [][BusNext]_busVars

----------------------------------------------------------------------------
(***************************************************************************)
(* Properties.                                                             *)
(***************************************************************************)

\* A publication calls every subscription of its topic once: the table does
\* not change under the iterators of any publisher, so that none is skipped,
\* called twice, or called after it has been erased.
EverySubscriberOnce ==
    \A t \in Thread :
        state[t] = "reading" =>
            /\ called[t] \union it[t].left = m_msg_invokers[it[t].topic]
            /\ called[t] \intersect it[t].left = {}
===============================================================================
