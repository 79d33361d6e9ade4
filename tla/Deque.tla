------------------------------- MODULE Deque -------------------------------
(***************************************************************************)
(* What the linked collections promise: a sequence that grows at its back  *)
(* and is taken from at its front (Fifo) or at its back (Lifo).  The last  *)
(* answer given to a caller is part of the state, so that an               *)
(* implementation has to answer as the sequence would.                     *)
(***************************************************************************)
EXTENDS Naturals, Sequences

CONSTANTS None    \* the answer of an empty collection

VARIABLES items, answer

vars == <<items, answer>>

First == IF items = <<>> THEN None ELSE items[1]
Last  == IF items = <<>> THEN None ELSE items[Len(items)]

Init == items = <<>> /\ answer = None

PutBack ==
    /\ Len(items') > Len(items)
    /\ SubSeq(items', 1, Len(items)) = items
    /\ UNCHANGED answer

TakeFirst ==
    /\ answer' = First
    /\ items' = IF items = <<>> THEN items ELSE Tail(items)

TakeLast ==
    /\ answer' = Last
    /\ items' = IF items = <<>> THEN items ELSE SubSeq(items, 1, Len(items) - 1)

Empty == items' = <<>> /\ UNCHANGED answer

Look ==
    /\ answer' = [first |-> First, last |-> Last, len |-> Len(items), all |-> items]
    /\ UNCHANGED items

\* A clone has as many items, all of them items of the original.
Copy ==
    /\ answer' \in {[clone |-> s] : s \in [1..Len(items) -> {items[i] : i \in DOMAIN items}]}
    /\ UNCHANGED items

NoAnswer == answer' = None /\ UNCHANGED items

Fifo == Init /\ [][PutBack \/ TakeFirst \/ Empty \/ Look \/ Copy]_vars
Lifo == Init /\ [][PutBack \/ TakeLast \/ Empty \/ Look \/ NoAnswer]_vars
=============================================================================
