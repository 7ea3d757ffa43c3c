-------------------------------- MODULE Fifo --------------------------------
(***************************************************************************)
(* What a queue file promises (CR_CASQueueFile.h, lines 15 to 23): a FIFO  *)
(* whose operations happen completely or not at all, also when the process *)
(* ends in the middle of one.  One weakness is part of the promise: the    *)
(* code discards the whole queue when it finds an unfinished commit        *)
(* (CR_CASQueueFile.m, line 76).                                           *)
(***************************************************************************)
EXTENDS Integers, Sequences

CONSTANTS Data,     \* the elements, as bytes
          MaxAdd,   \* elements added by one call
          MaxPop    \* elements removed by one call

VARIABLES items,    \* the elements of the queue, oldest first
          doing     \* the operation under way

vars == <<items, doing>>

Idle == [op |-> "none", elements |-> << >>, amount |-> 0]

IsOperation(o) ==
  \/ /\ o.elements \in Seq(Data) /\ Len(o.elements) \in 1..MaxAdd
     /\ o = [op |-> "add", elements |-> o.elements, amount |-> 0]
  \/ /\ o.amount \in 1..MaxPop
     /\ o = [op |-> "pop", elements |-> << >>, amount |-> o.amount]

\* The queue once the operation is done; a pop of too many is a clear.
After(o, q) ==
  CASE o.op = "add"   -> q \o o.elements
    [] o.op = "pop"   -> SubSeq(q, o.amount + 1, Len(q))
    [] OTHER          -> q

Init == items = << >> /\ doing = Idle

Begin ==
  /\ doing = Idle
  /\ IsOperation(doing')
  /\ UNCHANGED items

Finish ==
  /\ doing # Idle
  /\ doing' = Idle
  /\ items' = After(doing, items)

\* A write fails: the operation has happened or it has not.
GiveUp ==
  /\ doing # Idle
  /\ doing' = Idle
  /\ items' \in {items, After(doing, items)}

\* The process ends.
End ==
  /\ doing' = Idle
  /\ items' \in {items, After(doing, items), << >>}

Next == Begin \/ Finish \/ GiveUp \/ End

Spec == Init /\ [][Next]_vars
=============================================================================
