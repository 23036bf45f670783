---------------------------- MODULE MCWorkerLoops ----------------------------
(* Channels of capacity 1, so that they are full in reach, and heads up to   *)
(* number 2: a sealed block can extend the head, tie with it or be behind.   *)
(* Many is 1: a piece of work is sealed once or more often.                  *)
EXTENDS WorkerLoops
=============================================================================
