---------------------------- MODULE MCStopwatch ----------------------------
(* A four-bit tick counter with the longest gap timeout_update can bear.    *)
EXTENDS Stopwatch
=============================================================================
