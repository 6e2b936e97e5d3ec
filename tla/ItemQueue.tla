----------------------------- MODULE ItemQueue -----------------------------
(***************************************************************************)
(* What the batching cache promises the dispatch loop, stated per item     *)
(* (spec 4.2): a first-in first-out queue of the descs clients hand in.    *)
(* Producers append at the back; the consumer takes from the front; the    *)
(* only items that may leave from elsewhere are items of discarded         *)
(* requests, swept out of the part of the queue the consumer reaches.      *)
(* How items are grouped into packages, batched or rebatched is invisible  *)
(* here.                                                                   *)
(***************************************************************************)
EXTENDS Sequences, SequencesExt

CONSTANTS Req      \* requests; an item is <<request, index>>

VARIABLES
  q,          \* the items in the queue, oldest first
  discarded   \* discarded[t]: request t has been discarded

Live(s) == SelectSeq(s, LAMBDA it : ~discarded[it[1]])

Init == q = <<>> /\ discarded = [t \in Req |-> FALSE]

(* A producer appends items at the back.                                   *)
Put == IsStrictPrefix(q, q') /\ UNCHANGED discarded

(* The consumer removes the front j items of the queue, after sweeping the *)
(* discarded items out of its first k items.                               *)
Get ==
  /\ \E k \in 0..Len(q) :
       LET swept == Live(SubSeq(q, 1, k)) IN
       \E j \in 0..Len(swept) :
         q' = SubSeq(swept, j + 1, Len(swept)) \o SubSeq(q, k + 1, Len(q))
  /\ q' # q /\ UNCHANGED discarded

Discard(t) ==
  /\ ~discarded[t] /\ discarded' = [discarded EXCEPT ![t] = TRUE]
  /\ UNCHANGED q

Next == Put \/ Get \/ \E t \in Req : Discard(t)

Spec == Init /\ [][Next]_<<q, discarded>>
=============================================================================
