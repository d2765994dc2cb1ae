-------------------------- MODULE SamplingContract --------------------------
(***************************************************************************)
(* What a sampling window promises, without the waits, retries, clock      *)
(* reads and clean-up that SamplingRun needs to keep the promise: slots    *)
(* are decided one at a time, in order and once; a slot is answered no     *)
(* earlier than its scheduled start and given up no earlier than its end;  *)
(* a window is complete only when every slot is decided and its whole      *)
(* duration has passed; only a complete or a rejected window is reported.  *)
(***************************************************************************)
EXTENDS Integers, Sequences

CONSTANTS Count, Period

Outcome == {"answered", "unanswered", "missed"}

Phase == {"idle", "open", "complete", "rejected", "aborted", "reported",
          "raised"}

VARIABLES clock, phase, openedAt, outcomes

cvars == <<clock, phase, openedAt, outcomes>>

SlotTime(i) == openedAt + i * Period

CInit ==
  /\ clock = 0
  /\ phase = "idle"
  /\ openedAt = -1
  /\ outcomes = <<>>

Advance ==
  /\ clock' = clock + 1
  /\ UNCHANGED <<phase, openedAt, outcomes>>

Open ==
  /\ phase = "idle"
  /\ phase' = "open"
  /\ openedAt' = clock
  /\ UNCHANGED <<clock, outcomes>>

Reject ==
  /\ phase = "idle"
  /\ phase' = "rejected"
  /\ UNCHANGED <<clock, openedAt, outcomes>>

Decide(outcome) ==
  /\ phase = "open"
  /\ Len(outcomes) < Count
  /\ clock >= SlotTime(Len(outcomes))
  /\ outcome = "missed" => clock >= SlotTime(Len(outcomes) + 1)
  /\ outcomes' = Append(outcomes, outcome)
  /\ UNCHANGED <<clock, phase, openedAt>>

Complete ==
  /\ phase = "open"
  /\ Len(outcomes) = Count
  /\ clock >= SlotTime(Count)
  /\ phase' = "complete"
  /\ UNCHANGED <<clock, openedAt, outcomes>>

Abort ==
  /\ phase \in {"idle", "open"}
  /\ phase' = "aborted"
  /\ UNCHANGED <<clock, openedAt, outcomes>>

Deliver ==
  /\ \/ phase \in {"complete", "rejected"} /\ phase' = "reported"
     \/ phase = "aborted" /\ phase' = "raised"
  /\ UNCHANGED <<clock, openedAt, outcomes>>

CNext ==
  \/ Advance \/ Open \/ Reject \/ Complete \/ Abort \/ Deliver
  \/ \E outcome \in Outcome : Decide(outcome)

CSpec == CInit /\ [][CNext]_cvars
=============================================================================
