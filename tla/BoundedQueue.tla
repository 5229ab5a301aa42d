---------------------------- MODULE BoundedQueue ----------------------------
(***************************************************************************)
(* What a serial buffer promises: the bytes of its producer, numbered in a *)
(* circle, leave in the order in which they came and no byte comes twice.  *)
(* What a full buffer may lose is said by Losses.                          *)
(***************************************************************************)
EXTENDS Naturals, Sequences

CONSTANTS
  Cap, Circle,
  Losses,  \* newest: the last byte to come; ring: all but the first bytes, and the one
           \* that is put; last: one that is left alone when others come
  Ring     \* how many are lost as a ring

VARIABLES
  next, \* the byte to come
  q,    \* bytes on their way
  out   \* those that left last, together

queue == <<next, q, out>>

Comes(n) == [k \in 1 .. n |-> (next + k - 1) % Circle]

Init == q = <<>> /\ next = 0

Put ==
  \E n \in 1 .. Cap - Len(q) :
    q' = q \o Comes(n) /\ next' = (next + n) % Circle /\ UNCHANGED out

Get ==
  \E n \in 1 .. Len(q) :
    out' = SubSeq(q, 1, n) /\ q' = SubSeq(q, n + 1, Len(q)) /\ UNCHANGED next

LoseNewest ==
  /\ "newest" \in Losses /\ Len(q) = Cap
  /\ q' = SubSeq(q, 1, Cap - 1) /\ UNCHANGED <<next, out>>

LoseRing ==
  /\ "ring" \in Losses /\ Len(q) >= Ring - 1
  /\ q' = SubSeq(q, 1, Len(q) - (Ring - 1)) /\ next' = (next + 1) % Circle
  /\ UNCHANGED out

LoseLast ==
  /\ "last" \in Losses /\ Len(q) = 1
  /\ \E n \in 1 .. Cap : q' = Comes(n) /\ next' = (next + n) % Circle
  /\ UNCHANGED out

Next == Put \/ Get \/ LoseNewest \/ LoseRing \/ LoseLast

Spec == Init /\ [][Next]_queue
=============================================================================
