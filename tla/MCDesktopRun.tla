----------------------------- MODULE MCDesktopRun -----------------------------
(***************************************************************************)
(* Instances of DesktopRun for TLC.  Two runs of two ammeters meet what     *)
(* passes from one window to the next and from one run to the next; one     *)
(* slot of two attempts is a sample, a retried sample or a missed slot.     *)
(***************************************************************************)
EXTENDS DesktopRun
=============================================================================
