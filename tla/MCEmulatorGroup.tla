-------------------------- MODULE MCEmulatorGroup ---------------------------
(***************************************************************************)
(* Instance of EmulatorGroup for TLC.  Two ammeters make a group with a     *)
(* first and a last emulator, one on a port that refuses a second listener  *)
(* and one on a port that two listeners share; the second session meets     *)
(* what the first one left; three mishaps combine a leak with two failures. *)
(***************************************************************************)
EXTENDS EmulatorGroup
=============================================================================
