------------------------------- MODULE Growth -------------------------------
(***************************************************************************)
(* How a file of Cassette grows (expandIfNecessary of CR_CASQueueFile.m):  *)
(* its length is doubled until what is added fits.  Shared by QueueFile,   *)
(* which models the file, and RemoteLogs, which counts what is in it.      *)
(***************************************************************************)
EXTENDS Integers

\* By what the length is multiplied after k doublings.
Doubling[k \in Nat] == IF k = 0 THEN 1 ELSE 2 * Doubling[k - 1]
=============================================================================
