-------------------------- MODULE MCEmulatorProtocol --------------------------
(***************************************************************************)
(* Instances of EmulatorProtocol for TLC: a command of two bytes, 21 22,   *)
(* and other programs that say nothing, the command as older callers send  *)
(* it, with CR LF or with more behind it, a part of it, another command,   *)
(* and a message longer than the server reads.                             *)
(***************************************************************************)
EXTENDS EmulatorProtocol

TwoBytes == <<21, 22>>

Spoken ==
  {<<>>, <<21, 22>>, <<21, 22, CR, LF>>, <<21, 22, 23, LF>>, <<21>>, <<23, 23, 23, 23, LF>>}
=============================================================================
