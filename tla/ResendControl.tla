----------------------------- MODULE ResendControl -----------------------------
(***************************************************************************)
(* default_resend_control of resend_control.cpp: the blocks each transfer  *)
(* has to send again, handed out lowest first.  A block is its number; the *)
(* module's thread calls the operations one at a time.                     *)
(***************************************************************************)
EXTENDS Naturals, FiniteSets

CONSTANTS
    Key,        \* what a transfer's losses are filed under
    MaxBlock    \* blocks are 1..MaxBlock

VARIABLES
    m_resend_blocks,    \* losses of the keys that are known
    last,               \* the last call, its key and blocks (history)
    undefined           \* remove() has gone through end() of the map

vars == <<m_resend_blocks, last, undefined>>

Block == 1..MaxBlock
Known == DOMAIN m_resend_blocks
Call(op, key, blocks) == last' = [op |-> op, key |-> key, blocks |-> blocks]

Init ==
    /\ m_resend_blocks = [key \in {} |-> {}]
    /\ last = [op |-> "none", key |-> CHOOSE key \in Key : TRUE, blocks |-> {}]
    /\ undefined = FALSE

add(key, blocks) ==
    /\ m_resend_blocks' = [k \in Known \union {key} |->
                             (IF k \in Known THEN m_resend_blocks[k] ELSE {})
                             \union (IF k = key THEN blocks ELSE {})]
    /\ Call("add", key, blocks)
    /\ UNCHANGED undefined

\* get_resend_blocks(): the test is of the count before it is raised, so that
\* one more than resend_count is handed out, and forgotten.
HandedOut(losses, resend_count) ==
    {b \in losses : Cardinality({c \in losses : c < b}) <= resend_count}
get_resend_blocks(key, resend_count) ==
    /\ key \in Known
    /\ LET handed == HandedOut(m_resend_blocks[key], resend_count) IN
        /\ m_resend_blocks' = [m_resend_blocks EXCEPT ![key] = @ \ handed]
        /\ Call("get_resend_blocks", key, handed)
    /\ UNCHANGED undefined

\* remove(): a key that is known is taken for one that is not, and the other
\* way round.
remove(key, file_blocks) ==
    /\ undefined' = (key \notin Known)
    /\ Call("remove", key, file_blocks)
    /\ UNCHANGED m_resend_blocks

clear(key) ==
    /\ m_resend_blocks' = IF key \in Known THEN [m_resend_blocks EXCEPT ![key] = {}]
                          ELSE m_resend_blocks
    /\ Call("clear", key, {})
    /\ UNCHANGED undefined

Next ==
    /\ ~undefined
    /\ \E key \in Key :
        \/ \E blocks \in SUBSET Block : add(key, blocks) \/ remove(key, blocks)
        \/ \E resend_count \in 0..MaxBlock : get_resend_blocks(key, resend_count)
        \/ clear(key)

Spec == Init /\ [][Next]_vars

----------------------------------------------------------------------------
(***************************************************************************)
(* Properties.                                                             *)
(***************************************************************************)

\* "resend control NOT find file path" (resend_control.cpp:154): remove() gives
\* up for a path it does not know; of one it knows, the blocks are gone.
RemovedIsGone ==
    last.op = "remove" /\ last.key \in Known =>
        last.blocks \intersect m_resend_blocks[last.key] = {}
===============================================================================
