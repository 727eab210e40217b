------------------------------ MODULE Mailbox ------------------------------
(***************************************************************************)
(* What a module of the actor framework promises about its messages,       *)
(* without queues, locks or threads.  It is the abstract specification     *)
(* that MicroModule (module.hpp) implements.                               *)
(*                                                                         *)
(* Messages are taken in generations.  A message accepted while generation *)
(* gen is open belongs to it; Seal closes the generation, and may happen   *)
(* only when every message of the earlier ones has been handled.  Inside a *)
(* sealed generation a more urgent message is handled first, and messages  *)
(* of one priority in the order they were accepted.                        *)
(***************************************************************************)
EXTENDS Integers, Sequences

CONSTANT Capacity              \* MAX_MSG_COUNT

Priority == 0..2

VARIABLES
    gen,        \* the open generation
    open,       \* how many messages it holds
    accepted,   \* messages accepted so far; the last one's id
    pending,    \* accepted and not handled yet
    handled     \* the messages handled, in order

vars == <<gen, open, accepted, pending, handled>>

Message == [id : Nat \ {0}, pri : Priority, gen : Nat]

\* Everything is of its type.
TypeOK ==
    /\ gen \in Nat
    /\ open \in Nat
    /\ accepted \in Nat
    /\ pending \subseteq Message
    /\ handled \in Seq(Message)

\* The order in which messages are owed to the handler.
Before(a, b) ==
    \/ a.gen < b.gen
    \/ a.gen = b.gen /\ a.pri < b.pri
    \/ a.gen = b.gen /\ a.pri = b.pri /\ a.id < b.id

Init ==
    /\ gen = 0
    /\ open = 0
    /\ accepted = 0
    /\ pending = {}
    /\ handled = <<>>

Accept(p) ==
    /\ open < Capacity
    /\ open' = open + 1
    /\ accepted' = accepted + 1
    /\ pending' = pending \cup {[id |-> accepted + 1, pri |-> p, gen |-> gen]}
    /\ UNCHANGED <<gen, handled>>

Seal ==
    /\ open > 0
    /\ \A m \in pending : m.gen = gen
    /\ gen' = gen + 1
    /\ open' = 0
    /\ UNCHANGED <<accepted, pending, handled>>

Handle(m) ==
    /\ m.gen < gen
    /\ \A x \in pending \ {m} : Before(m, x)
    /\ pending' = pending \ {m}
    /\ handled' = Append(handled, m)
    /\ UNCHANGED <<gen, open, accepted>>

Next ==
    \/ \E p \in Priority : Accept(p)
    \/ Seal
    \/ \E m \in pending : Handle(m)

Spec == Init /\ [][Next]_vars

----------------------------------------------------------------------------
(***************************************************************************)
(* The consequences a caller relies on.                                    *)
(***************************************************************************)

\* Messages are handled in the owed order: oldest generation first, most
\* urgent first inside it, first come first served inside a priority; so no
\* message is handled twice either (module.hpp, run()).
HandledInOrder ==
    \A i, j \in DOMAIN handled : i < j => Before(handled[i], handled[j])

\* Every message send() accepted is either waiting or has been handled, and
\* never both: none is lost or duplicated between the two queues.
EveryMessageAccountedFor ==
    \A k \in 1..accepted :
        (\E m \in pending : m.id = k) <=> ~ \E i \in DOMAIN handled : handled[i].id = k
============================================================================
