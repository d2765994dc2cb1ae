----------------------------- MODULE MCSamplingRun ----------------------------
(***************************************************************************)
(* Instances of SamplingRun for TLC.  A request of the first slot can      *)
(* overrun into the next slot and past it; three ticks per slot leave room *)
(* for two backoffs of one tick.  The window ends at 6 and the clock at 9, *)
(* so that the last request and the last wait can overrun the window.      *)
(***************************************************************************)
EXTENDS SamplingRun
=============================================================================
