------------------------------ MODULE KeyQueue ------------------------------
(***************************************************************************)
(* What the key ring promises its reader: the characters typed, in order,  *)
(* each once, except that a character typed while the queue is full is     *)
(* lost - that one, and no other.                                          *)
(***************************************************************************)
EXTENDS Integers, Sequences

CONSTANTS Chars, Capacity, Nul

VARIABLES
  queue,
  got,     \* what the reader got last
  typed    \* flips with every character typed

queueVars == <<queue, got, typed>>

QueueInit == queue = <<>> /\ got = Nul /\ typed = FALSE

Type(c) == /\ typed' = ~typed
           /\ queue' = IF Len(queue) < Capacity THEN Append(queue, c) ELSE queue
           /\ UNCHANGED got

\* The reader gets the oldest character, or Nul if there is none.
Get == /\ IF queue = <<>> THEN got' = Nul /\ UNCHANGED queue
                          ELSE got' = Head(queue) /\ queue' = Tail(queue)
       /\ UNCHANGED typed

QueueNext == Get \/ \E c \in Chars : Type(c)
QueueSpec == QueueInit /\ [][QueueNext]_queueVars

=============================================================================
