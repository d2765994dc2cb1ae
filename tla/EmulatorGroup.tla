--------------------------- MODULE EmulatorGroup ----------------------------
(***************************************************************************)
(* The lifecycle of the emulator threads: start_emulators, serve_emulator   *)
(* with the accept loop of AmmeterEmulatorBase.start_server, stop_emulators *)
(* and join_emulator_threads, driven by the two use cases that own a group  *)
(* for one reading: run_ammeter_smoke_test (every ammeter) and              *)
(* run_single_ammeter_test (one).  Sessions follow each other on the same   *)
(* ports, so a thread that outlives its session meets the next one.         *)
(*                                                                         *)
(* An ammeter is its place in the configuration.  Timeouts, interrupts,     *)
(* socket errors and constructors that raise are mishaps; MaxMishaps bounds *)
(* them all together.                                                       *)
(***************************************************************************)
EXTENDS Integers, SampleModels

CONSTANTS
  Count,        \* configured ammeters
  Exclusive,    \* ammeters whose port a listener keeps others off (POSIX with
                \* SO_REUSEADDR); listeners share the others (Windows)
  MaxSessions, MaxMishaps

ASSUME GroupAssumption ==
  /\ Count \in Nat \ {0}
  /\ Exclusive \subseteq 1..Count
  /\ MaxSessions \in Nat \ {0}
  /\ MaxMishaps \in Nat

Ammeters == 1..Count
Sessions == 1..MaxSessions

VARIABLES
  \* the emulators of every session
  thread,   \* thread[s][a]: where the server thread of a in session s is
  ready,    \* ready[s]: ammeters whose ready_event is set
  failed,   \* failed[s]: ammeters whose startup_error is set
  stop,     \* sessions whose stop_event is set
  \* the coordinator, which runs one session after the other
  session,  \* the last session begun
  kind,     \* of use case: "smoke" reads every ammeter, "single" one
  first,    \* the ammeters of the session are first..last ...
  last,
  listed,   \* ... and running_emulators holds first..listed
  next,     \* the loop variable of the phase it is in
  pc,
  deadline, \* the one all joins share: "ahead" or "passed"
  cause,    \* the exception on its way out of the session, or "none"
  errors,   \* the MeasurementErrors of a single run
  measured, \* ammeters read in this session
  \* the one request under way
  conn,     \* its connection, as the client sees it
  peer,     \* the session whose thread it reached
  mishaps

server == <<thread, ready, failed>>
choice == <<session, kind, first, last>>
verdict == <<cause, errors, measured>>
request == <<conn, peer>>
vars == <<server, stop, choice, listed, next, pc, deadline, verdict, request, mishaps>>

Bound == {"listening", "open", "accepting", "serving"}
Alive == Bound \cup {"starting", "failing", "dying"}
ThreadStates == Alive \cup {"none", "refused", "dead"}
Pcs == {"idle", "construct", "await", "cleanup", "startJoin", "measure",
        "waiting", "stop", "stopJoin", "ended"}
Causes == {"none", "value", "start", "request", "stop", "interrupt"}

TypeOK ==
  /\ thread \in [Sessions -> [Ammeters -> ThreadStates]]
  /\ ready \in [Sessions -> SUBSET Ammeters]
  /\ failed \in [Sessions -> SUBSET Ammeters]
  /\ stop \subseteq Sessions
  /\ session \in 0..MaxSessions
  /\ kind \in {"smoke", "single"}
  /\ first \in Ammeters
  /\ last \in Ammeters
  /\ listed \in 0..Count
  /\ next \in 1..Count + 1
  /\ pc \in Pcs
  /\ deadline \in {"ahead", "passed"}
  /\ cause \in Causes
  /\ errors \subseteq ErrorCode
  /\ measured \subseteq Ammeters
  /\ conn \in {"none", "queued", "accepted", "answered", "closed"}
  /\ peer \in 0..MaxSessions
  /\ mishaps \in 0..MaxMishaps

Init ==
  /\ thread = [s \in Sessions |-> [a \in Ammeters |-> "none"]]
  /\ ready = [s \in Sessions |-> {}]
  /\ failed = [s \in Sessions |-> {}]
  /\ stop = {}
  /\ session = 0
  /\ kind = "single"
  /\ first = 1
  /\ last = 1
  /\ listed = 0
  /\ next = 1
  /\ pc = "idle"
  /\ deadline = "ahead"
  /\ cause = "none"
  /\ errors = {}
  /\ measured = {}
  /\ conn = "none"
  /\ peer = 0
  /\ mishaps = 0

Mishap == mishaps < MaxMishaps /\ mishaps' = mishaps + 1

-----------------------------------------------------------------------------
(* The server threads *)

Become(s, a, state) == thread' = [thread EXCEPT ![s][a] = state]

Listeners(a) == {s \in Sessions : thread[s][a] \in Bound}

PortTaken(a) == a \in Exclusive /\ Listeners(a) # {}

\* The request under way is with this thread.
Serves(s, a) == pc = "waiting" /\ next = a /\ peer = s

BindAndListen(s, a) ==
  /\ thread[s][a] = "starting"
  /\ ~PortTaken(a)
  /\ Become(s, a, "listening")
  /\ UNCHANGED <<ready, failed, conn, mishaps>>

\* Mutated form of BindFails: the event first, the exception never.
BindFailsUnrecorded(s, a) ==
  /\ thread[s][a] = "starting"
  /\ IF PortTaken(a) THEN UNCHANGED mishaps ELSE Mishap
  /\ Become(s, a, "failing")
  /\ ready' = [ready EXCEPT ![s] = @ \cup {a}]
  /\ UNCHANGED <<failed, conn>>

(* bind raises: another emulator has the port, or (a mishap) another        *)
(* program does.  serve_emulator stores the exception first ...             *)
BindFails(s, a) ==
  /\ thread[s][a] = "starting"
  /\ IF PortTaken(a) THEN UNCHANGED mishaps ELSE Mishap
  /\ Become(s, a, "failing")
  /\ failed' = [failed EXCEPT ![s] = @ \cup {a}]
  /\ UNCHANGED <<ready, conn>>

\* Mutated form of ThreadEnds: nobody is woken.
ThreadEndsSilently(s, a) ==
  /\ thread[s][a] \in {"failing", "dying"}
  /\ Become(s, a, IF thread[s][a] = "failing" THEN "refused" ELSE "dead")
  /\ UNCHANGED <<ready, failed, conn, mishaps>>

\* ... and then sets the ready event, so that the coordinator wakes.
ThreadEnds(s, a) ==
  /\ thread[s][a] \in {"failing", "dying"}
  /\ Become(s, a, IF thread[s][a] = "failing" THEN "refused" ELSE "dead")
  /\ ready' = [ready EXCEPT ![s] = @ \cup {a}]
  /\ UNCHANGED <<failed, conn, mishaps>>

SetReady(s, a) ==
  /\ thread[s][a] = "listening"
  /\ Become(s, a, "open")
  /\ ready' = [ready EXCEPT ![s] = @ \cup {a}]
  /\ UNCHANGED <<failed, conn, mishaps>>

(* Closing the listener resets a connection nobody accepted or answered.    *)
HangUp(s, a) ==
  conn' = IF Serves(s, a) /\ conn \in {"queued", "accepted"}
            THEN "closed" ELSE conn

\* The head of the accept loop.
CheckStop(s, a) ==
  /\ thread[s][a] = "open"
  /\ IF s \in stop
       THEN Become(s, a, "dead") /\ HangUp(s, a)
       ELSE Become(s, a, "accepting") /\ UNCHANGED conn
  /\ UNCHANGED <<ready, failed, mishaps>>

\* Mutated form of AcceptOrPoll: no socket timeout.
AcceptBlocks(s, a) ==
  /\ thread[s][a] = "accepting"
  /\ Serves(s, a) /\ conn = "queued"
  /\ Become(s, a, "serving")
  /\ conn' = "accepted"
  /\ UNCHANGED <<ready, failed, mishaps>>

(* accept returns a waiting connection or times out after 0.1 s.            *)
AcceptOrPoll(s, a) ==
  /\ thread[s][a] = "accepting"
  /\ IF Serves(s, a) /\ conn = "queued"
       THEN Become(s, a, "serving") /\ conn' = "accepted"
       ELSE Become(s, a, "open") /\ UNCHANGED conn
  /\ UNCHANGED <<ready, failed, mishaps>>

\* Mutated form of Serve: the stop event is not looked at again.
ServeAnyway(s, a) ==
  /\ thread[s][a] = "serving"
  /\ IF Serves(s, a) /\ conn = "accepted"
       THEN conn' = "answered" ELSE UNCHANGED conn
  /\ Become(s, a, "open")
  /\ UNCHANGED <<ready, failed, mishaps>>

(* Read the command and, unless a stop was signalled or the client is gone, *)
(* measure and answer; then hang up.                                        *)
Serve(s, a) ==
  /\ thread[s][a] = "serving"
  /\ IF Serves(s, a) /\ conn = "accepted"
       THEN conn' = IF s \in stop THEN "closed" ELSE "answered"
       ELSE UNCHANGED conn
  /\ Become(s, a, "open")
  /\ UNCHANGED <<ready, failed, mishaps>>

(* Only socket.timeout is caught around accept and recv: any other OSError  *)
(* ends the thread, with a startup_error that nobody may read any more.     *)
ServerDies(s, a) ==
  /\ thread[s][a] \in {"accepting", "serving"}
  /\ Mishap
  /\ Become(s, a, "dying")
  /\ failed' = [failed EXCEPT ![s] = @ \cup {a}]
  /\ HangUp(s, a)
  /\ UNCHANGED ready

ThreadStep(s, a) ==
  /\ \/ BindAndListen(s, a) \/ BindFails(s, a) \/ ThreadEnds(s, a)
     \/ SetReady(s, a) \/ CheckStop(s, a) \/ AcceptOrPoll(s, a)
     \/ Serve(s, a) \/ ServerDies(s, a)
  /\ UNCHANGED <<stop, choice, listed, next, pc, deadline, verdict, peer>>

-----------------------------------------------------------------------------
(* Starting *)

Begin ==
  /\ pc \in {"idle", "ended"}
  /\ session < MaxSessions
  /\ session' = session + 1
  /\ \/ kind' = "smoke" /\ first' = 1 /\ last' = Count
     \/ kind' = "single" /\ first' \in Ammeters /\ last' = first'
  /\ listed' = first' - 1
  /\ next' = first'
  /\ pc' = "construct"
  /\ deadline' = "ahead"
  /\ cause' = "none"
  /\ errors' = {}
  /\ measured' = {}
  /\ UNCHANGED <<server, stop, request, mishaps>>

\* Leave the phase for the next one, whose loop starts over.
Enter(phase) == pc' = phase /\ next' = first

Fail(exception, phase) == cause' = exception /\ Enter(phase)

StartThread == Become(session, next, "starting")

Construct ==
  /\ pc = "construct"
  /\ IF next <= last
       THEN /\ StartThread
            /\ listed' = next
            /\ next' = next + 1
            /\ UNCHANGED pc
       ELSE Enter("await") /\ UNCHANGED <<thread, listed>>
  /\ UNCHANGED <<ready, failed, stop, choice, deadline, verdict, request, mishaps>>

(* No emulator is registered for the name (ValueError), or the constructor  *)
(* or the thread raises (wrapped as EmulatorStartError after the cleanup).  *)
ConstructFails ==
  /\ pc = "construct"
  /\ next <= last
  /\ Mishap
  /\ \E exception \in {"value", "start"} : Fail(exception, "cleanup")
  /\ UNCHANGED <<server, stop, choice, listed, deadline, errors, measured, request>>

(* Thread.start blocks: an interrupt there leaves a thread that runs and is *)
(* in no list.                                                              *)
ConstructInterrupted ==
  /\ pc = "construct"
  /\ next <= last
  /\ Mishap
  /\ StartThread
  /\ Fail("interrupt", "cleanup")
  /\ UNCHANGED <<ready, failed, stop, choice, listed, deadline, errors, measured, request>>

(* The ready event, then startup_error.                                     *)
Await ==
  /\ pc = "await"
  /\ IF next > listed THEN Enter("measure") /\ UNCHANGED cause
     ELSE /\ next \in ready[session]
          /\ IF next \in failed[session]
               THEN Fail("start", "cleanup")
               ELSE next' = next + 1 /\ UNCHANGED <<pc, cause>>
  /\ UNCHANGED <<server, stop, choice, listed, deadline, errors, measured, request, mishaps>>

(* The deadline shared by the group passes, whether or not the emulator     *)
(* that is next is ready; or the wait is interrupted.                       *)
AwaitFails ==
  /\ pc = "await"
  /\ next <= listed
  /\ Mishap
  /\ \E exception \in {"start", "interrupt"} : Fail(exception, "cleanup")
  /\ UNCHANGED <<server, stop, choice, listed, deadline, errors, measured, request>>

\* Mutated form of SignalStop: an empty list needs no stop.
SignalStopIfListed ==
  /\ pc \in {"cleanup", "stop"}
  /\ stop' = IF first > listed THEN stop ELSE stop \cup {session}
  /\ Enter(IF pc = "cleanup" THEN "startJoin" ELSE "stopJoin")
  /\ UNCHANGED <<server, choice, listed, deadline, verdict, request, mishaps>>

SignalStop ==
  /\ pc \in {"cleanup", "stop"}
  /\ stop' = stop \cup {session}
  /\ Enter(IF pc = "cleanup" THEN "startJoin" ELSE "stopJoin")
  /\ UNCHANGED <<server, choice, listed, deadline, verdict, request, mishaps>>

-----------------------------------------------------------------------------
(* Joining *)

Joining == pc \in {"startJoin", "stopJoin"}

\* Mutated form of JoinNext: the threads are polled, not joined.
JoinPolls ==
  /\ Joining
  /\ next <= listed
  /\ next' = next + 1
  /\ UNCHANGED <<server, stop, choice, listed, pc, deadline, verdict, request, mishaps>>

JoinNext ==
  /\ Joining
  /\ next <= listed
  /\ thread[session][next] \notin Alive \/ deadline = "passed"
  /\ next' = next + 1
  /\ UNCHANGED <<server, stop, choice, listed, pc, deadline, verdict, request, mishaps>>

(* The deadline is shared: once it has passed, no later join waits.         *)
JoinDeadline ==
  /\ Joining
  /\ next <= listed
  /\ deadline = "ahead"
  /\ Mishap
  /\ deadline' = "passed"
  /\ UNCHANGED <<server, stop, choice, listed, next, pc, verdict, request>>

Leaks == {a \in first..listed : thread[session][a] \in Alive}

(* start_emulators raises the leak in place of whatever went wrong, an      *)
(* interrupt included.  The smoke test then stops an empty list, the single *)
(* run stops nothing: both end here.                                        *)
StartRaises ==
  /\ pc = "startJoin"
  /\ next > listed
  /\ pc' = "ended"
  /\ LET raised == IF Leaks # {} THEN "start" ELSE cause
     IN  IF kind = "single" /\ raised = "start"
           THEN errors' = {"EMULATOR_START_FAILED"} /\ cause' = "none"
           ELSE cause' = raised /\ UNCHANGED errors
  /\ UNCHANGED <<server, stop, choice, listed, next, deadline, measured, request, mishaps>>

\* Mutated form of StopReturns: the result of the joins is dropped.
StopForgetsLeaks ==
  /\ pc = "stopJoin"
  /\ next > listed
  /\ pc' = "ended"
  /\ UNCHANGED <<server, stop, choice, listed, next, deadline, verdict, request, mishaps>>

\* Mutated form of StopReturns: the shutdown error replaces a request error.
StopErrorWins ==
  /\ pc = "stopJoin"
  /\ next > listed
  /\ pc' = "ended"
  /\ IF Leaks = {} THEN UNCHANGED <<cause, errors>>
     ELSE IF kind = "smoke"
       THEN cause' = "stop" /\ UNCHANGED errors
       ELSE errors' = errors \cup {"EMULATOR_STOP_FAILED"} /\ UNCHANGED cause
  /\ UNCHANGED <<server, stop, choice, listed, next, deadline, measured, request, mishaps>>

(* stop_emulators rejects leaks: the smoke test raises them unless a        *)
(* request failed first, the single run adds them to its errors.            *)
StopReturns ==
  /\ pc = "stopJoin"
  /\ next > listed
  /\ pc' = "ended"
  /\ IF Leaks = {} THEN UNCHANGED <<cause, errors>>
     ELSE IF kind = "smoke"
       THEN /\ cause' = IF cause = "none" THEN "stop" ELSE cause
            /\ UNCHANGED errors
       ELSE errors' = errors \cup {"EMULATOR_STOP_FAILED"} /\ UNCHANGED cause
  /\ UNCHANGED <<server, stop, choice, listed, next, deadline, measured, request, mishaps>>

(* An interrupt ends the join and the session; the smoke test still puts an *)
(* earlier error first.                                                     *)
JoinInterrupted ==
  /\ Joining
  /\ next <= listed
  /\ Mishap
  /\ pc' = "ended"
  /\ cause' = IF kind = "smoke" /\ pc = "stopJoin" /\ cause # "none"
                THEN cause ELSE "interrupt"
  /\ UNCHANGED <<server, stop, choice, listed, next, deadline, errors, measured, request>>

-----------------------------------------------------------------------------
(* Measuring *)

\* Mutated form of RequestFails: the single run drops the exception.
RequestFailsSilently ==
  /\ IF kind = "smoke" THEN cause' = "request" ELSE UNCHANGED cause
  /\ UNCHANGED errors
  /\ Enter("stop")

RequestFails ==
  /\ IF kind = "smoke"
       THEN cause' = "request" /\ UNCHANGED errors
       ELSE /\ errors' = errors \cup {"MEASUREMENT_REQUEST_FAILED"}
            /\ UNCHANGED cause
  /\ Enter("stop")

(* connect: whoever listens on the port gets the connection.                *)
Request ==
  /\ pc = "measure"
  /\ next <= listed
  /\ IF Listeners(next) # {}
       THEN /\ peer' \in Listeners(next)
            /\ conn' = "queued"
            /\ pc' = "waiting"
            /\ UNCHANGED <<next, cause, errors>>
       ELSE RequestFails /\ UNCHANGED request
  /\ UNCHANGED <<server, stop, choice, listed, deadline, measured, mishaps>>

Receive ==
  /\ pc = "waiting"
  /\ \/ /\ conn = "answered"
        /\ measured' = measured \cup {next}
        /\ pc' = "measure"
        /\ next' = next + 1
        /\ UNCHANGED <<cause, errors>>
     \/ /\ conn = "closed"
        /\ RequestFails
        /\ UNCHANGED measured
  /\ conn' = "none"
  /\ UNCHANGED <<server, stop, choice, listed, deadline, peer, mishaps>>

(* The request times out, is interrupted, or (single run) is answered with  *)
(* a number that validate_current refuses.                                  *)
RequestMishap ==
  /\ pc = "waiting"
  /\ Mishap
  /\ conn' = "none"
  /\ \/ RequestFails
     \/ Fail("interrupt", "stop") /\ UNCHANGED errors
     \/ /\ kind = "single" /\ conn = "answered"
        /\ errors' = errors \cup {"INVALID_MEASUREMENT"}
        /\ Enter("stop")
        /\ UNCHANGED cause
  /\ UNCHANGED <<server, stop, choice, listed, deadline, measured, peer>>

AllMeasured ==
  /\ pc = "measure"
  /\ next > listed
  /\ Enter("stop")
  /\ UNCHANGED <<server, stop, choice, listed, deadline, verdict, request, mishaps>>

-----------------------------------------------------------------------------
SessionStep ==
  \/ Construct \/ ConstructFails \/ ConstructInterrupted
  \/ Await \/ AwaitFails \/ SignalStop
  \/ JoinNext \/ JoinDeadline \/ JoinInterrupted \/ StartRaises \/ StopReturns
  \/ Request \/ Receive \/ RequestMishap \/ AllMeasured

Next == Begin \/ SessionStep \/ \E s \in Sessions, a \in Ammeters : ThreadStep(s, a)

Spec == Init /\ [][Next]_vars

(* The operating system runs every thread; every wait in a server thread is *)
(* a poll of a tenth of a second, and every wait of the coordinator has a   *)
(* timeout, which the mishaps stand for.                                    *)
FairSpec ==
  /\ Spec
  /\ WF_vars(SessionStep)
  /\ \A s \in Sessions, a \in Ammeters : WF_vars(ThreadStep(s, a))

-----------------------------------------------------------------------------
(* A group of one session that is over is stopped, or whoever asked for it  *)
(* is told: an emulator thread alive at the end of the session is named in  *)
(* an error, hidden at most behind a request error or an interrupt.         *)
LeaksAreTold ==
  pc = "ended" /\ (\E a \in Ammeters : thread[session][a] \in Alive) =>
    \/ cause # "none"
    \/ errors \cap {"EMULATOR_START_FAILED", "EMULATOR_STOP_FAILED"} # {}

(* start_emulators returns the whole group and only emulators that did      *)
(* listen: a server that failed to start never passes for one that is ready *)
(* because it, too, sets the ready event.                                   *)
StartedMeansListening ==
  pc \in {"measure", "waiting"} =>
    /\ listed = last
    /\ \A a \in first..last :
         thread[session][a] \in {"open", "accepting", "serving", "dying", "dead"}

(* No thread runs on without its stop event: what is not signalled belongs  *)
(* to the session under way, a thread that was never listed included.       *)
NothingRunsUnstopped ==
  \A s \in Sessions, a \in Ammeters :
    thread[s][a] \in Alive /\ s \notin stop => s = session /\ pc # "ended"

(* As long as nothing goes wrong every session reads every ammeter: what    *)
(* one session leaves behind never makes the next one fail.                 *)
CleanSessionsRepeat ==
  mishaps = 0 /\ pc = "ended" =>
    cause = "none" /\ errors = {} /\ measured = first..last

(* A reading comes from the emulator the session started, even while one of *)
(* an earlier session still has the port.                                   *)
OwnReadings == conn = "answered" => peer = session

(* What run_single_ammeter_test makes of a measurement and its errors.      *)
SingleResult ==
  [status |-> IF measured = {} THEN "FAILED"
              ELSE IF errors = {} THEN "SUCCESS" ELSE "PARTIAL",
   measured |-> measured # {},
   errors |-> errors]

(* Whatever combination of start, request and stop errors a single run met, *)
(* the MeasurementResult it builds passes its own validation, so that the   *)
(* run never dies of a ValueError about its result.                         *)
SingleResultAccepted ==
  pc = "ended" /\ kind = "single" /\ cause = "none" =>
    MeasurementResultAccepts(SingleResult)

(* The smoke test reports a leak, or returns, only if every request had     *)
(* succeeded: a failed request is never hidden behind the failed shutdown   *)
(* it led to.                                                               *)
RequestErrorIsPrimary ==
  pc = "ended" /\ kind = "smoke" /\ cause \in {"none", "stop"} =>
    measured = Ammeters

(* What a session reports of itself is true, for both use cases.            *)
VerdictsAreTrue == SingleResultAccepted /\ RequestErrorIsPrimary

(* Every session ends: no join, ready event or request is waited for        *)
(* without end.                                                             *)
SessionsEnd == pc = "construct" ~> pc = "ended"

(* Every emulator that was told to stop does, leaked ones included, so the  *)
(* interpreter, which waits for these non-daemon threads, can exit.         *)
StopEndsThreads ==
  \A s \in Sessions : s \in stop ~> \A a \in Ammeters : thread[s][a] \notin Alive
=============================================================================
