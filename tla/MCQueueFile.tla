----------------------------- MODULE MCQueueFile -----------------------------
(***************************************************************************)
(* Instances of QueueFile for TLC: the lengths keep the proportions of the *)
(* code, 16 : 4 : 4096 shrunk so that two or three elements fill the ring. *)
(***************************************************************************)
EXTENDS QueueFile, TLC

CONSTANTS a, b

\* Two elements of different sizes, so that they wrap at every offset.
MCSizeOf == a :> 1 @@ b :> 2
==============================================================================
