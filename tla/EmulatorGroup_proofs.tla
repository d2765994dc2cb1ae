------------------------ MODULE EmulatorGroup_proofs ------------------------
(***************************************************************************)
(* Proofs about EmulatorGroup, for any number of ammeters, sessions and     *)
(* mishaps and for exclusive and shared ports.  The inductive invariant     *)
(* IInv says where the loop variable of each phase may be (PlaceInv), which *)
(* threads may be alive and which of them are told to stop (ThreadInv),     *)
(* what the ready event vouches for (ReadyInv), which exceptions and errors *)
(* a phase can have met (VerdictInv) and whose answer a client can hold     *)
(* (RequestInv).  CleanInv says what holds besides while nothing goes wrong.*)
(***************************************************************************)
EXTENDS EmulatorGroup, TLAPS

Served == {"open", "accepting", "serving", "dying", "dead"}

PlaceInv ==
  /\ first <= last
  /\ kind = "smoke" => first = 1 /\ last = Count
  /\ kind = "single" => first = last
  /\ first - 1 <= listed /\ listed <= last
  /\ first <= next /\ next <= last + 1
  /\ pc = "idle" <=> session = 0
  /\ pc = "construct" => next = listed + 1
  /\ pc = "await" => listed = last
  /\ pc \in {"measure", "waiting"} => listed = last
  /\ pc = "waiting" => next <= listed

ThreadInv ==
  /\ \A s \in Sessions, a \in Ammeters : s > session => thread[s][a] = "none"
  /\ \A s \in Sessions : s > session => ready[s] = {} /\ failed[s] = {} /\ s \notin stop
  /\ \A s \in Sessions, a \in Ammeters :
       s < session /\ thread[s][a] \in Alive => s \in stop
  /\ pc \in {"startJoin", "stopJoin", "ended"} => session \in stop
  /\ pc \in {"construct", "await", "measure", "waiting", "stop", "stopJoin"} =>
       \A a \in Ammeters : thread[session][a] # "none" => a \in first..listed
  /\ pc \in {"cleanup", "startJoin"} =>
       \A a \in Ammeters :
         thread[session][a] # "none" => a \in first..listed \/ cause = "interrupt"

ReadyInv ==
  /\ \A s \in Sessions, a \in Ammeters :
       thread[s][a] \in {"failing", "refused", "dying"} => a \in failed[s]
  /\ \A s \in Sessions, a \in Ammeters :
       a \in ready[s] => a \in failed[s] \/ thread[s][a] \in Served
  /\ pc = "await" => \A a \in first..(next - 1) : thread[session][a] \in Served
  /\ pc \in {"measure", "waiting"} => \A a \in first..last : thread[session][a] \in Served

VerdictInv ==
  /\ pc \in {"construct", "await", "measure", "waiting"} => cause = "none" /\ errors = {}
  /\ pc \in {"construct", "await", "cleanup", "startJoin"} => errors = {} /\ measured = {}
  /\ pc \in {"cleanup", "startJoin"} => cause \in {"value", "start", "interrupt"}
  /\ pc \in {"measure", "waiting"} => measured = first..(next - 1)
  /\ kind = "single" /\ pc \in {"stop", "stopJoin", "ended"} /\ cause = "none" =>
       measured # {} \/ errors # {}
  /\ kind = "smoke" /\ pc \in {"stop", "stopJoin", "ended"} /\ cause \in {"none", "stop"} =>
       measured = Ammeters
  /\ pc \in {"stop", "stopJoin"} => cause # "stop"

RequestInv ==
  /\ pc # "waiting" => conn = "none"
  /\ conn = "answered" => peer = session
  /\ pc = "waiting" => peer \in Sessions

IInv ==
  /\ TypeOK
  /\ PlaceInv
  /\ ThreadInv
  /\ ReadyInv
  /\ VerdictInv
  /\ RequestInv
  /\ LeaksAreTold

-----------------------------------------------------------------------------
(* Initially nothing has run: no thread, no session, no request.           *)
LEMMA InitIInv == Init => IInv
<1> SUFFICES ASSUME Init PROVE IInv
  OBVIOUS
<1> USE GroupAssumption DEF Init, Ammeters, Sessions
<1>1. TypeOK
  BY DEF TypeOK, ThreadStates, Pcs, Causes
<1>2. PlaceInv /\ VerdictInv /\ RequestInv
  BY DEF PlaceInv, VerdictInv, RequestInv
<1>3. ThreadInv /\ ReadyInv /\ LeaksAreTold
  BY DEF ThreadInv, ReadyInv, LeaksAreTold, Alive, Bound
<1> QED
  BY <1>1, <1>2, <1>3 DEF IInv

(* Become changes the state of one thread and of no other.                  *)
LEMMA BecomeEffect ==
  ASSUME TypeOK, NEW s \in Sessions, NEW a \in Ammeters,
         NEW state \in ThreadStates, Become(s, a, state)
  PROVE  /\ thread' \in [Sessions -> [Ammeters -> ThreadStates]]
         /\ thread'[s][a] = state
         /\ \A t \in Sessions, b \in Ammeters :
              t # s \/ b # a => thread'[t][b] = thread[t][b]
BY DEF TypeOK, Become

(* A server thread moves by itself from a state in which it is alive, keeps *)
(* its flags once they are set, and touches nothing of the coordinator but  *)
(* the connection it serves.                                                *)
LEMMA ThreadStepEffect ==
  ASSUME TypeOK, NEW s \in Sessions, NEW a \in Ammeters, ThreadStep(s, a)
  PROVE  /\ thread' \in [Sessions -> [Ammeters -> ThreadStates]]
         /\ thread[s][a] \in Alive
         /\ thread'[s][a] # "none"
         /\ \A t \in Sessions, b \in Ammeters :
              t # s \/ b # a => thread'[t][b] = thread[t][b]
         /\ ready' \in [Sessions -> SUBSET Ammeters]
         /\ failed' \in [Sessions -> SUBSET Ammeters]
         /\ \A t \in Sessions : t # s => ready'[t] = ready[t] /\ failed'[t] = failed[t]
         /\ UNCHANGED <<stop, choice, listed, next, pc, deadline, verdict, peer>>
         /\ mishaps' \in 0..MaxMishaps
         /\ conn' = conn \/ (pc = "waiting" /\ conn' \in {"closed", "accepted", "answered"})
         /\ conn' = "answered" =>
              conn = "answered" \/ (peer = s /\ thread[s][a] = "serving" /\ s \notin stop)
<1> USE GroupAssumption DEF TypeOK, ThreadStep
<1>1. /\ UNCHANGED <<stop, choice, listed, next, pc, deadline, verdict, peer>>
      /\ \E state \in ThreadStates \ {"none"} : Become(s, a, state)
  BY DEF BindAndListen, BindFails, ThreadEnds, SetReady, CheckStop,
     AcceptOrPoll, Serve, ServerDies, ThreadStates, Alive, Bound
<1>2. /\ thread' \in [Sessions -> [Ammeters -> ThreadStates]]
      /\ thread'[s][a] # "none"
      /\ \A t \in Sessions, b \in Ammeters :
           t # s \/ b # a => thread'[t][b] = thread[t][b]
  BY <1>1, BecomeEffect
<1>3. thread[s][a] \in Alive
  BY DEF BindAndListen, BindFails, ThreadEnds, SetReady, CheckStop,
     AcceptOrPoll, Serve, ServerDies, Alive, Bound
<1>4. /\ ready' \in [Sessions -> SUBSET Ammeters]
      /\ failed' \in [Sessions -> SUBSET Ammeters]
      /\ \A t \in Sessions : t # s => ready'[t] = ready[t] /\ failed'[t] = failed[t]
  BY DEF BindAndListen, BindFails, ThreadEnds, SetReady, CheckStop,
     AcceptOrPoll, Serve, ServerDies
<1>5. mishaps' \in 0..MaxMishaps
  BY DEF BindAndListen, BindFails, ThreadEnds, SetReady, CheckStop,
     AcceptOrPoll, Serve, ServerDies, Mishap
<1>6. /\ conn' = conn \/ (pc = "waiting" /\ conn' \in {"closed", "accepted", "answered"})
      /\ conn' = "answered" =>
           conn = "answered" \/ (peer = s /\ thread[s][a] = "serving" /\ s \notin stop)
  BY DEF BindAndListen, BindFails, ThreadEnds, SetReady, CheckStop,
     AcceptOrPoll, Serve, ServerDies, HangUp, Serves
<1> QED
  BY <1>1, <1>2, <1>3, <1>4, <1>5, <1>6

(* Every step keeps the types; what keeps the loop variable and the list in *)
(* range is PlaceInv.                                                       *)
LEMMA TypeStep == IInv /\ [Next]_vars => TypeOK'
<1> SUFFICES ASSUME IInv, [Next]_vars PROVE TypeOK'
  OBVIOUS
<1> USE GroupAssumption DEF IInv, TypeOK, PlaceInv, vars, server, choice, verdict,
                request, Ammeters, Sessions, ThreadStates, Alive, Bound, Pcs,
                Causes, Enter, Fail, Mishap, StartThread, Become,
                RequestFails, ErrorCode, Listeners
<1>1. CASE Begin
  <2>1. CASE kind' = "smoke"
    BY <1>1, <2>1 DEF Begin
  <2>2. CASE kind' = "single"
    BY <1>1, <2>2 DEF Begin
  <2> QED
    BY <1>1, <2>1, <2>2 DEF Begin
<1>2. CASE Construct
  <2>1. CASE next <= last
    <3>1. session \in Sessions /\ next \in Ammeters /\ "starting" \in ThreadStates
      BY <1>2, <2>1 DEF Construct
    <3>2. thread' \in [Sessions -> [Ammeters -> ThreadStates]]
      BY <1>2, <2>1, <3>1, BecomeEffect DEF Construct
    <3> QED
      BY <1>2, <2>1, <3>2 DEF Construct
  <2>2. CASE ~(next <= last)
    BY <1>2, <2>2 DEF Construct
  <2> QED
    BY <2>1, <2>2
<1>3. CASE ConstructFails
  BY <1>3 DEF ConstructFails
<1>4. CASE ConstructInterrupted
  BY <1>4 DEF ConstructInterrupted
<1>5. CASE Await
  BY <1>5 DEF Await
<1>6. CASE AwaitFails
  BY <1>6 DEF AwaitFails
<1>7. CASE SignalStop
  BY <1>7 DEF SignalStop
<1>8. CASE JoinNext
  BY <1>8 DEF JoinNext
<1>9. CASE JoinDeadline
  BY <1>9 DEF JoinDeadline
<1>10. CASE JoinInterrupted
  BY <1>10 DEF JoinInterrupted
<1>11. CASE StartRaises
  BY <1>11 DEF StartRaises
<1>12. CASE StopReturns
  BY <1>12 DEF StopReturns
<1>13. CASE Request
  <2> HIDE DEF Alive, Bound, ThreadStates
  <2>1. /\ UNCHANGED <<thread, ready, failed, stop, session, kind, first, last>>
        /\ UNCHANGED <<listed, deadline, measured, mishaps>>
    BY <1>13 DEF Request
  <2>2. errors' \subseteq ErrorCode /\ cause' \in Causes
    BY <1>13 DEF Request
  <2>3. next' \in 1..Count + 1 /\ pc' \in Pcs
    BY <1>13 DEF Request
  <2>4. /\ peer' \in 0..MaxSessions
        /\ conn' \in {"none", "queued", "accepted", "answered", "closed"}
    BY <1>13 DEF Request
  <2> QED
    BY <2>1, <2>2, <2>3, <2>4
<1>14. CASE Receive
  <2> HIDE DEF Alive, Bound, ThreadStates
  <2>1. /\ UNCHANGED <<thread, ready, failed, stop, session, kind, first, last>>
        /\ UNCHANGED <<listed, deadline, peer, mishaps>>
        /\ conn' = "none"
    BY <1>14 DEF Receive
  <2>2. errors' \subseteq ErrorCode /\ cause' \in Causes
    BY <1>14 DEF Receive
  <2>3. next' \in 1..Count + 1 /\ pc' \in Pcs
    BY <1>14 DEF Receive
  <2>4. next \in Ammeters /\ measured' \in {measured, measured \cup {next}}
    BY <1>14 DEF Receive
  <2>5. measured' \subseteq Ammeters
    BY <2>4
  <2> QED
    BY <2>1, <2>2, <2>3, <2>5
<1>15. CASE RequestMishap
  <2> HIDE DEF Alive, Bound, ThreadStates
  <2>1. /\ UNCHANGED <<thread, ready, failed, stop, session, kind, first, last>>
        /\ UNCHANGED <<listed, deadline, measured, peer>>
        /\ conn' = "none"
    BY <1>15 DEF RequestMishap
  <2>2. errors' \subseteq ErrorCode /\ cause' \in Causes
    BY <1>15 DEF RequestMishap
  <2>3. next' \in 1..Count + 1 /\ pc' \in Pcs /\ mishaps' \in 0..MaxMishaps
    BY <1>15 DEF RequestMishap
  <2> QED
    BY <2>1, <2>2, <2>3
<1>16. CASE AllMeasured
  BY <1>16 DEF AllMeasured
<1>17. ASSUME NEW s \in Sessions, NEW a \in Ammeters, ThreadStep(s, a)
      PROVE  TypeOK'
  <2> HIDE DEF Alive, Bound, ThreadStates
  <2>1. /\ UNCHANGED <<stop, session, kind, first, last, listed, next, pc, deadline>>
        /\ UNCHANGED <<cause, errors, measured, peer>>
        /\ conn' = conn \/ conn' \in {"closed", "accepted", "answered"}
    BY <1>17, ThreadStepEffect
  <2>2. /\ thread' \in [Sessions -> [Ammeters -> ThreadStates]]
        /\ ready' \in [Sessions -> SUBSET Ammeters]
        /\ failed' \in [Sessions -> SUBSET Ammeters]
        /\ mishaps' \in 0..MaxMishaps
    BY <1>17, ThreadStepEffect
  <2> QED
    BY <2>1, <2>2
<1>18. CASE UNCHANGED vars
  BY <1>18
<1> QED
  BY <1>1, <1>2, <1>3, <1>4, <1>5, <1>6, <1>7, <1>8, <1>9, <1>10, <1>11,
     <1>12, <1>13, <1>14, <1>15, <1>16, <1>17, <1>18 DEF Next, SessionStep

(* Every loop of the coordinator stays within first..last, and a group is   *)
(* measured only when all of it was constructed.                            *)
LEMMA PlaceStep == IInv /\ [Next]_vars => PlaceInv'
<1> SUFFICES ASSUME IInv, [Next]_vars PROVE PlaceInv'
  OBVIOUS
<1> USE GroupAssumption DEF IInv, TypeOK, PlaceInv, vars, server, choice, verdict,
                request, Ammeters, Sessions, Enter, Fail, RequestFails,
                Joining
<1>1. CASE Begin
  BY <1>1 DEF Begin
<1>2. CASE Construct
  BY <1>2 DEF Construct
<1>3. CASE ConstructFails
  BY <1>3 DEF ConstructFails
<1>4. CASE ConstructInterrupted
  BY <1>4 DEF ConstructInterrupted
<1>5. CASE Await
  BY <1>5 DEF Await
<1>6. CASE AwaitFails
  BY <1>6 DEF AwaitFails
<1>7. CASE SignalStop
  BY <1>7 DEF SignalStop
<1>8. CASE JoinNext
  BY <1>8 DEF JoinNext
<1>9. CASE JoinDeadline
  BY <1>9 DEF JoinDeadline
<1>10. CASE JoinInterrupted
  BY <1>10 DEF JoinInterrupted
<1>11. CASE StartRaises
  BY <1>11 DEF StartRaises
<1>12. CASE StopReturns
  BY <1>12 DEF StopReturns
<1>13. CASE Request
  BY <1>13 DEF Request
<1>14. CASE Receive
  BY <1>14 DEF Receive
<1>15. CASE RequestMishap
  BY <1>15 DEF RequestMishap
<1>16. CASE AllMeasured
  BY <1>16 DEF AllMeasured
<1>17. ASSUME NEW s \in Sessions, NEW a \in Ammeters, ThreadStep(s, a)
      PROVE  PlaceInv'
  BY <1>17 DEF ThreadStep, BindAndListen, BindFails, ThreadEnds, SetReady, CheckStop,
     AcceptOrPoll, Serve, ServerDies, HangUp, Serves
<1>18. CASE UNCHANGED vars
  BY <1>18
<1> QED
  BY <1>1, <1>2, <1>3, <1>4, <1>5, <1>6, <1>7, <1>8, <1>9, <1>10, <1>11,
     <1>12, <1>13, <1>14, <1>15, <1>16, <1>17, <1>18 DEF Next, SessionStep

(* Threads come into being only while a session constructs them, inside its *)
(* list but for an interrupted construction, and a session is left only     *)
(* with its stop event set.                                                 *)
LEMMA ThreadInvStep == IInv /\ [Next]_vars => ThreadInv'
<1> SUFFICES ASSUME IInv, [Next]_vars PROVE ThreadInv'
  OBVIOUS
<1> USE GroupAssumption DEF IInv, TypeOK, PlaceInv, ThreadInv, VerdictInv, vars, server,
                choice, verdict, request, Ammeters, Sessions, Alive, Bound,
                Enter, Fail, StartThread, Become, RequestFails, Joining,
                ThreadStates
<1>1. CASE Begin
  BY <1>1 DEF Begin
<1>2. CASE Construct
  <2>1. CASE next <= last
    <3>1. session \in Sessions /\ next \in Ammeters /\ "starting" \in ThreadStates
      BY <1>2, <2>1 DEF Construct
    <3>2. \A t \in Sessions, b \in Ammeters :
            t # session \/ b # next => thread'[t][b] = thread[t][b]
      BY <1>2, <2>1, <3>1, BecomeEffect DEF Construct
    <3>3. /\ UNCHANGED <<ready, failed, stop, session, first, last, pc, cause>>
          /\ listed' = next
      BY <1>2, <2>1 DEF Construct
    <3> QED
      BY <1>2, <2>1, <3>1, <3>2, <3>3 DEF Construct
  <2>2. CASE ~(next <= last)
    BY <1>2, <2>2 DEF Construct
  <2> QED
    BY <2>1, <2>2
<1>3. CASE ConstructFails
  BY <1>3 DEF ConstructFails
<1>4. CASE ConstructInterrupted
  BY <1>4 DEF ConstructInterrupted
<1>5. CASE Await
  BY <1>5 DEF Await
<1>6. CASE AwaitFails
  BY <1>6 DEF AwaitFails
<1>7. CASE SignalStop
  BY <1>7 DEF SignalStop
<1>8. CASE JoinNext
  BY <1>8 DEF JoinNext
<1>9. CASE JoinDeadline
  BY <1>9 DEF JoinDeadline
<1>10. CASE JoinInterrupted
  BY <1>10 DEF JoinInterrupted
<1>11. CASE StartRaises
  BY <1>11 DEF StartRaises
<1>12. CASE StopReturns
  BY <1>12 DEF StopReturns
<1>13. CASE Request
  BY <1>13 DEF Request
<1>14. CASE Receive
  BY <1>14 DEF Receive
<1>15. CASE RequestMishap
  BY <1>15 DEF RequestMishap
<1>16. CASE AllMeasured
  BY <1>16 DEF AllMeasured
<1>17. ASSUME NEW s \in Sessions, NEW a \in Ammeters, ThreadStep(s, a)
      PROVE  ThreadInv'
  <2> HIDE DEF ThreadStates, Bound, Alive, VerdictInv
  <2>1. /\ UNCHANGED <<stop, session, first, last, listed, pc, cause>>
        /\ \A t \in Sessions : t # s => ready'[t] = ready[t] /\ failed'[t] = failed[t]
    BY <1>17, ThreadStepEffect
  <2>2. /\ thread[s][a] \in Alive
        /\ \A t \in Sessions, b \in Ammeters :
             t # s \/ b # a => thread'[t][b] = thread[t][b]
    BY <1>17, ThreadStepEffect
  <2>3. thread[s][a] # "none"
    BY <2>2 DEF Alive, Bound
  <2>4. ~(s > session)
    BY <2>3
  <2>5. \A t \in Sessions, b \in Ammeters : t > session' => thread'[t][b] = "none"
    <3> SUFFICES ASSUME NEW t \in Sessions, NEW b \in Ammeters, t > session
                 PROVE  thread'[t][b] = "none"
      BY <2>1
    <3>1. t # s
      BY <2>4
    <3> QED
      BY <2>2, <3>1
  <2>6. \A t \in Sessions : t > session' =>
          ready'[t] = {} /\ failed'[t] = {} /\ t \notin stop'
    BY <2>1, <2>4
  <2>7. \A t \in Sessions, b \in Ammeters :
          t < session' /\ thread'[t][b] \in Alive => t \in stop'
    BY <2>1, <2>2, ZenonT(60)
  <2>8. \A b \in Ammeters : thread'[session][b] # "none" => thread[session][b] # "none"
    BY <2>2, <2>3, <2>4
  <2> QED
    BY <2>1, <2>5, <2>6, <2>7, <2>8
<1>18. CASE UNCHANGED vars
  BY <1>18
<1> QED
  BY <1>1, <1>2, <1>3, <1>4, <1>5, <1>6, <1>7, <1>8, <1>9, <1>10, <1>11,
     <1>12, <1>13, <1>14, <1>15, <1>16, <1>17, <1>18 DEF Next, SessionStep

(* A ready event whose emulator has no startup error vouches for a thread   *)
(* that did listen: serve_emulator stores the error before it sets the      *)
(* event, and neither is ever taken back.                                   *)
LEMMA ReadyStep == IInv /\ [Next]_vars => ReadyInv'
<1> SUFFICES ASSUME IInv, [Next]_vars PROVE ReadyInv'
  OBVIOUS
<1> USE GroupAssumption DEF IInv, TypeOK, PlaceInv, ThreadInv, ReadyInv, vars, server,
                choice, verdict, request, Ammeters, Sessions, Served, Enter,
                Fail, StartThread, Become, RequestFails, Joining
<1>1. CASE Begin
  BY <1>1 DEF Begin
<1>2. CASE Construct
  <2>1. CASE next <= last
    <3>1. session \in Sessions /\ next \in Ammeters /\ "starting" \in ThreadStates
      BY <1>2, <2>1 DEF Construct, ThreadStates, Alive
    <3>2. /\ thread'[session][next] = "starting"
          /\ \A t \in Sessions, b \in Ammeters :
               t # session \/ b # next => thread'[t][b] = thread[t][b]
      BY <1>2, <2>1, <3>1, BecomeEffect DEF Construct
    <3>3. UNCHANGED <<ready, failed, session, pc>> /\ pc = "construct"
      BY <1>2, <2>1 DEF Construct
    <3>4. thread[session][next] = "none"
      BY <1>2, <3>1 DEF Construct
    <3>5. next \notin ready[session] \/ next \in failed[session]
      BY <3>1, <3>4
    <3>6. ASSUME NEW t \in Sessions, NEW b \in Ammeters
          PROVE  /\ thread'[t][b] \in {"failing", "refused", "dying"} => b \in failed'[t]
                 /\ b \in ready'[t] => b \in failed'[t] \/ thread'[t][b] \in Served
      <4>1. CASE t = session /\ b = next
        BY <3>2, <3>3, <3>5, <4>1
      <4>2. CASE t # session \/ b # next
        BY <3>2, <3>3, <4>2
      <4> QED
        BY <4>1, <4>2
    <3> QED
      BY <3>3, <3>6
  <2>2. CASE ~(next <= last)
    BY <1>2, <2>2 DEF Construct
  <2> QED
    BY <2>1, <2>2
<1>3. CASE ConstructFails
  BY <1>3 DEF ConstructFails
<1>4. CASE ConstructInterrupted
  BY <1>4 DEF ConstructInterrupted
<1>5. CASE Await
  BY <1>5 DEF Await
<1>6. CASE AwaitFails
  BY <1>6 DEF AwaitFails
<1>7. CASE SignalStop
  BY <1>7 DEF SignalStop
<1>8. CASE JoinNext
  BY <1>8 DEF JoinNext
<1>9. CASE JoinDeadline
  BY <1>9 DEF JoinDeadline
<1>10. CASE JoinInterrupted
  BY <1>10 DEF JoinInterrupted
<1>11. CASE StartRaises
  BY <1>11 DEF StartRaises
<1>12. CASE StopReturns
  BY <1>12 DEF StopReturns
<1>13. CASE Request
  BY <1>13 DEF Request
<1>14. CASE Receive
  BY <1>14 DEF Receive
<1>15. CASE RequestMishap
  BY <1>15 DEF RequestMishap
<1>16. CASE AllMeasured
  BY <1>16 DEF AllMeasured
<1>17. ASSUME NEW s \in Sessions, NEW a \in Ammeters, ThreadStep(s, a)
      PROVE  ReadyInv'
  <2>1. UNCHANGED <<session, first, last, next, pc>>
    BY <1>17, ThreadStepEffect
  <2>2. \A t \in Sessions, b \in Ammeters :
          t # s \/ b # a => thread'[t][b] = thread[t][b]
    BY <1>17, ThreadStepEffect, SMTT(60)
  <2>3. \A t \in Sessions : t # s => ready'[t] = ready[t] /\ failed'[t] = failed[t]
    BY <1>17, ThreadStepEffect
  <2>4. /\ \A b \in Ammeters : b # a => (b \in ready'[s] <=> b \in ready[s])
        /\ failed[s] \subseteq failed'[s]
    BY <1>17 DEF ThreadStep, BindAndListen, BindFails, ThreadEnds, SetReady, CheckStop,
       AcceptOrPoll, Serve, ServerDies
  <2>5. thread'[s][a] \in {"failing", "refused", "dying"} => a \in failed'[s]
    BY <1>17 DEF ThreadStep, BindAndListen, BindFails, ThreadEnds, SetReady, CheckStop,
       AcceptOrPoll, Serve, ServerDies
  <2>6. a \in ready'[s] => a \in failed'[s] \/ thread'[s][a] \in Served
    BY <1>17 DEF ThreadStep, BindAndListen, BindFails, ThreadEnds, SetReady, CheckStop,
       AcceptOrPoll, Serve, ServerDies
  <2>7. thread[s][a] \in Served => thread'[s][a] \in Served
    BY <1>17 DEF ThreadStep, BindAndListen, BindFails, ThreadEnds, SetReady, CheckStop,
       AcceptOrPoll, Serve, ServerDies
  <2> HIDE DEF Served
  <2>8. ASSUME NEW t \in Sessions, NEW b \in Ammeters
        PROVE  /\ thread'[t][b] \in {"failing", "refused", "dying"} => b \in failed'[t]
               /\ b \in ready'[t] => b \in failed'[t] \/ thread'[t][b] \in Served
               /\ thread[t][b] \in Served => thread'[t][b] \in Served
    <3>1. CASE t = s /\ b = a
      BY <2>5, <2>6, <2>7, <3>1
    <3>2. CASE t = s /\ b # a
      BY <2>2, <2>4, <3>2
    <3>3. CASE t # s
      BY <2>2, <2>3, <3>3
    <3> QED
      BY <3>1, <3>2, <3>3
  <2> QED
    BY <2>1, <2>8
<1>18. CASE UNCHANGED vars
  BY <1>18
<1> QED
  BY <1>1, <1>2, <1>3, <1>4, <1>5, <1>6, <1>7, <1>8, <1>9, <1>10, <1>11,
     <1>12, <1>13, <1>14, <1>15, <1>16, <1>17, <1>18 DEF Next, SessionStep

(* What a phase may already have met: no exception before the first failure, *)
(* no error before the requests, and a single run that stops in the normal  *)
(* way has its reading or the reason why it has none.                       *)
LEMMA VerdictStep == IInv /\ [Next]_vars => VerdictInv'
<1> SUFFICES ASSUME IInv, [Next]_vars PROVE VerdictInv'
  OBVIOUS
<1> USE GroupAssumption DEF IInv, TypeOK, PlaceInv, VerdictInv, vars, server, choice,
                verdict, request, Ammeters, Sessions, Enter, Fail,
                RequestFails, Joining
<1>1. CASE Begin
  BY <1>1 DEF Begin
<1>2. CASE Construct
  BY <1>2 DEF Construct
<1>3. CASE ConstructFails
  BY <1>3 DEF ConstructFails
<1>4. CASE ConstructInterrupted
  BY <1>4 DEF ConstructInterrupted
<1>5. CASE Await
  <2>1. CASE next > listed
    <3>1. first..(first - 1) = {}
      OBVIOUS
    <3> QED
      BY <1>5, <2>1, <3>1 DEF Await
  <2>2. CASE ~(next > listed)
    BY <1>5, <2>2 DEF Await
  <2> QED
    BY <2>1, <2>2
<1>6. CASE AwaitFails
  BY <1>6 DEF AwaitFails
<1>7. CASE SignalStop
  BY <1>7 DEF SignalStop
<1>8. CASE JoinNext
  BY <1>8 DEF JoinNext
<1>9. CASE JoinDeadline
  BY <1>9 DEF JoinDeadline
<1>10. CASE JoinInterrupted
  BY <1>10 DEF JoinInterrupted
<1>11. CASE StartRaises
  BY <1>11 DEF StartRaises
<1>12. CASE StopReturns
  BY <1>12 DEF StopReturns
<1>13. CASE Request
  BY <1>13 DEF Request
<1>14. CASE Receive
  <2>1. CASE conn = "answered"
    <3>1. first..((next + 1) - 1) = first..(next - 1) \cup {next}
      OBVIOUS
    <3>2. measured' = first..(next' - 1)
      BY <1>14, <2>1, <3>1 DEF Receive
    <3> QED
      BY <1>14, <2>1, <3>2 DEF Receive
  <2>2. CASE conn = "closed"
    BY <1>14, <2>2 DEF Receive
  <2> QED
    BY <1>14, <2>1, <2>2 DEF Receive
<1>15. CASE RequestMishap
  BY <1>15 DEF RequestMishap
<1>16. CASE AllMeasured
  <2>1. first \in first..(next - 1)
    BY <1>16 DEF AllMeasured
  <2>2. measured # {}
    BY <1>16, <2>1 DEF AllMeasured
  <2>3. kind = "smoke" => measured = Ammeters
    <3> SUFFICES ASSUME kind = "smoke" PROVE measured = 1..Count
      OBVIOUS
    <3>1. first = 1 /\ next - 1 = Count
      BY <1>16 DEF AllMeasured
    <3> QED
      BY <1>16, <3>1 DEF AllMeasured
  <2> QED
    BY <1>16, <2>2, <2>3 DEF AllMeasured
<1>17. ASSUME NEW s \in Sessions, NEW a \in Ammeters, ThreadStep(s, a)
      PROVE  VerdictInv'
  BY <1>17 DEF ThreadStep, BindAndListen, BindFails, ThreadEnds, SetReady, CheckStop,
     AcceptOrPoll, Serve, ServerDies, HangUp, Serves
<1>18. CASE UNCHANGED vars
  BY <1>18
<1> QED
  BY <1>1, <1>2, <1>3, <1>4, <1>5, <1>6, <1>7, <1>8, <1>9, <1>10, <1>11,
     <1>12, <1>13, <1>14, <1>15, <1>16, <1>17, <1>18 DEF Next, SessionStep

(* Only a thread that is not told to stop answers, and of those that are    *)
(* not, all belong to the session under way.                                *)
LEMMA RequestStep == IInv /\ [Next]_vars => RequestInv'
<1> SUFFICES ASSUME IInv, [Next]_vars PROVE RequestInv'
  OBVIOUS
<1> USE GroupAssumption DEF IInv, TypeOK, PlaceInv, ThreadInv, RequestInv, vars, server,
                choice, verdict, request, Ammeters, Sessions, Alive, Bound,
                Enter, Fail, RequestFails, Joining, Listeners
<1>1. CASE Begin
  BY <1>1 DEF Begin
<1>2. CASE Construct
  BY <1>2 DEF Construct
<1>3. CASE ConstructFails
  BY <1>3 DEF ConstructFails
<1>4. CASE ConstructInterrupted
  BY <1>4 DEF ConstructInterrupted
<1>5. CASE Await
  BY <1>5 DEF Await
<1>6. CASE AwaitFails
  BY <1>6 DEF AwaitFails
<1>7. CASE SignalStop
  BY <1>7 DEF SignalStop
<1>8. CASE JoinNext
  BY <1>8 DEF JoinNext
<1>9. CASE JoinDeadline
  BY <1>9 DEF JoinDeadline
<1>10. CASE JoinInterrupted
  BY <1>10 DEF JoinInterrupted
<1>11. CASE StartRaises
  BY <1>11 DEF StartRaises
<1>12. CASE StopReturns
  BY <1>12 DEF StopReturns
<1>13. CASE Request
  BY <1>13 DEF Request
<1>14. CASE Receive
  BY <1>14 DEF Receive
<1>15. CASE RequestMishap
  BY <1>15 DEF RequestMishap
<1>16. CASE AllMeasured
  BY <1>16 DEF AllMeasured
<1>17. ASSUME NEW s \in Sessions, NEW a \in Ammeters, ThreadStep(s, a)
      PROVE  RequestInv'
  BY <1>17 DEF ThreadStep, BindAndListen, BindFails, ThreadEnds, SetReady, CheckStop,
     AcceptOrPoll, Serve, ServerDies, HangUp, Serves
<1>18. CASE UNCHANGED vars
  BY <1>18
<1> QED
  BY <1>1, <1>2, <1>3, <1>4, <1>5, <1>6, <1>7, <1>8, <1>9, <1>10, <1>11,
     <1>12, <1>13, <1>14, <1>15, <1>16, <1>17, <1>18 DEF Next, SessionStep

(* The joins see every listed thread, and an unlisted one exists only after *)
(* an interrupt, which is raised.                                           *)
LEMMA LeaksStep == IInv /\ [Next]_vars => LeaksAreTold'
<1> SUFFICES ASSUME IInv, [Next]_vars PROVE LeaksAreTold'
  OBVIOUS
<1> USE GroupAssumption DEF IInv, TypeOK, PlaceInv, ThreadInv, VerdictInv, LeaksAreTold,
                Leaks, vars, server, choice, verdict, request, Ammeters,
                Sessions, Alive, Bound, Enter, Fail, Become, RequestFails,
                Joining
<1>1. CASE Begin
  BY <1>1 DEF Begin
<1>2. CASE Construct
  BY <1>2 DEF Construct
<1>3. CASE ConstructFails
  BY <1>3 DEF ConstructFails
<1>4. CASE ConstructInterrupted
  BY <1>4 DEF ConstructInterrupted
<1>5. CASE Await
  BY <1>5 DEF Await
<1>6. CASE AwaitFails
  BY <1>6 DEF AwaitFails
<1>7. CASE SignalStop
  BY <1>7 DEF SignalStop
<1>8. CASE JoinNext
  BY <1>8 DEF JoinNext
<1>9. CASE JoinDeadline
  BY <1>9 DEF JoinDeadline
<1>10. CASE JoinInterrupted
  BY <1>10 DEF JoinInterrupted
<1>11. CASE StartRaises
  BY <1>11 DEF StartRaises
<1>12. CASE StopReturns
  BY <1>12 DEF StopReturns
<1>13. CASE Request
  BY <1>13 DEF Request
<1>14. CASE Receive
  BY <1>14 DEF Receive
<1>15. CASE RequestMishap
  BY <1>15 DEF RequestMishap
<1>16. CASE AllMeasured
  BY <1>16 DEF AllMeasured
<1>17. ASSUME NEW s \in Sessions, NEW a \in Ammeters, ThreadStep(s, a)
      PROVE  LeaksAreTold'
  BY <1>17 DEF ThreadStep, BindAndListen, BindFails, ThreadEnds, SetReady, CheckStop,
     AcceptOrPoll, Serve, ServerDies, HangUp, Serves
<1>18. CASE UNCHANGED vars
  BY <1>18
<1> QED
  BY <1>1, <1>2, <1>3, <1>4, <1>5, <1>6, <1>7, <1>8, <1>9, <1>10, <1>11,
     <1>12, <1>13, <1>14, <1>15, <1>16, <1>17, <1>18 DEF Next, SessionStep

-----------------------------------------------------------------------------
(* The inductive invariant holds in every reachable state.                  *)
THEOREM GroupInvariant == Spec => []IInv
<1>1. IInv /\ [Next]_vars => IInv'
  BY TypeStep, PlaceStep, ThreadInvStep, ReadyStep, VerdictStep, RequestStep, LeaksStep
     DEF IInv
<1> QED
  BY InitIInv, <1>1, PTL DEF Spec

(* Every state of the emulators and of their coordinator is well typed.     *)
THEOREM TypeCorrect == Spec => []TypeOK
<1>1. IInv => TypeOK
  BY DEF IInv
<1> QED
  BY GroupInvariant, <1>1, PTL

(* However start, requests, joins and interrupts go, an emulator thread     *)
(* that is alive when its session ends has been reported.                   *)
THEOREM NoSilentLeak == Spec => []LeaksAreTold
<1>1. IInv => LeaksAreTold
  BY DEF IInv
<1> QED
  BY GroupInvariant, <1>1, PTL

(* start_emulators returns only groups all of whose emulators did listen.   *)
THEOREM StartIsHonest == Spec => []StartedMeansListening
<1>1. IInv => StartedMeansListening
  BY GroupAssumption DEF IInv, TypeOK, PlaceInv, ReadyInv, StartedMeansListening, Served,
     Ammeters
<1> QED
  BY GroupInvariant, <1>1, PTL

(* A thread outside the session under way has its stop event set.           *)
THEOREM StopReachesAll == Spec => []NothingRunsUnstopped
<1>1. IInv => NothingRunsUnstopped
  <2> SUFFICES ASSUME IInv, NEW s \in Sessions, NEW a \in Ammeters,
                      thread[s][a] \in Alive, s \notin stop
               PROVE  s = session /\ pc # "ended"
    BY DEF NothingRunsUnstopped
  <2>1. ~(s > session)
    BY DEF IInv, ThreadInv, Alive, Bound
  <2>2. ~(s < session)
    BY DEF IInv, ThreadInv
  <2>3. s = session
    BY <2>1, <2>2, GroupAssumption DEF IInv, TypeOK, Sessions
  <2> QED
    BY <2>3 DEF IInv, ThreadInv
<1> QED
  BY GroupInvariant, <1>1, PTL

(* On exclusive and on shared ports alike, an answer comes from the         *)
(* session's own emulator.                                                  *)
THEOREM AnswersAreOwn == Spec => []OwnReadings
<1>1. IInv => OwnReadings
  BY DEF IInv, RequestInv, OwnReadings
<1> QED
  BY GroupInvariant, <1>1, PTL

(* The envelope a single run builds is one that its constructor accepts,    *)
(* and a smoke test never hides a failed request behind a leak.             *)
THEOREM SessionsTellTheTruth == Spec => []VerdictsAreTrue
<1>1. IInv => SingleResultAccepted
  <2> SUFFICES ASSUME IInv, pc = "ended", kind = "single", cause = "none"
               PROVE  MeasurementResultAccepts(SingleResult)
    BY DEF SingleResultAccepted
  <2>1. measured # {} \/ errors # {}
    BY DEF IInv, VerdictInv
  <2> QED
    BY <2>1 DEF MeasurementResultAccepts, SingleResult
<1>2. IInv => RequestErrorIsPrimary
  BY DEF IInv, VerdictInv, RequestErrorIsPrimary
<1>3. IInv => VerdictsAreTrue
  BY <1>1, <1>2 DEF VerdictsAreTrue
<1> QED
  BY GroupInvariant, <1>3, PTL
-----------------------------------------------------------------------------
(* As long as there was no mishap nothing has failed, only threads that     *)
(* were told to stop are dead, all of an earlier session are, and the peer  *)
(* of a request is the session's own thread.                                *)
CleanInv ==
  mishaps = 0 =>
    /\ \A s \in Sessions : failed[s] = {}
    /\ deadline = "ahead" /\ cause = "none" /\ errors = {}
    /\ pc \notin {"cleanup", "startJoin"}
    /\ session \in stop => pc \in {"stopJoin", "ended"}
    /\ \A s \in Sessions, a \in Ammeters : thread[s][a] = "dead" => s \in stop
    /\ \A s \in Sessions, a \in Ammeters : s < session => thread[s][a] \notin Alive
    /\ pc = "stopJoin" => \A a \in first..(next - 1) : thread[session][a] \notin Alive
    /\ pc = "ended" => \A a \in Ammeters : thread[session][a] \notin Alive
    /\ pc \in {"stop", "stopJoin", "ended"} => measured = first..last
    /\ pc = "waiting" => peer = session /\ conn # "closed"

(* A step of a server thread after which there was still no mishap: it      *)
(* belongs to the session under way, found its port free, and hung up on    *)
(* nobody.                                                                  *)
LEMMA CleanThreadStep ==
  ASSUME IInv, CleanInv, mishaps' = 0,
         NEW s \in Sessions, NEW a \in Ammeters, ThreadStep(s, a)
  PROVE  CleanInv'
<1>1. mishaps = 0
  BY GroupAssumption DEF IInv, TypeOK, ThreadStep, BindAndListen, BindFails, ThreadEnds, SetReady,
     CheckStop, AcceptOrPoll, Serve, ServerDies, Mishap
<1>2. /\ UNCHANGED <<stop, session, first, last, next, pc, deadline, cause, errors, measured, peer>>
      /\ thread[s][a] \in Alive
      /\ \A t \in Sessions, b \in Ammeters :
           t # s \/ b # a => thread'[t][b] = thread[t][b]
  BY ThreadStepEffect DEF IInv, choice, verdict
<1>3. s = session
  <2>1. ~(s > session)
    BY <1>2 DEF IInv, ThreadInv, Alive, Bound
  <2>2. ~(s < session)
    BY <1>1, <1>2 DEF CleanInv
  <2> QED
    BY <2>1, <2>2, GroupAssumption DEF IInv, TypeOK, Sessions
<1>4. ~(thread[s][a] = "starting" /\ PortTaken(a))
  <2> SUFFICES ASSUME NEW t \in Sessions, thread[t][a] \in Bound
               PROVE  thread[s][a] # "starting"
    BY DEF PortTaken, Listeners
  <2>1. ~(t > session)
    BY DEF IInv, ThreadInv, Bound
  <2>2. ~(t < session)
    BY <1>1 DEF CleanInv, Alive
  <2> QED
    BY <2>1, <2>2, <1>3, GroupAssumption DEF IInv, TypeOK, Sessions, Bound
<1>5. ~BindFails(s, a) /\ ~ServerDies(s, a)
  BY <1>1, <1>4, GroupAssumption DEF BindFails, ServerDies, Mishap
<1>6. thread[s][a] \notin {"failing", "dying"}
  BY <1>1 DEF CleanInv, IInv, ReadyInv
<1>7. pc \notin {"ended"}
  BY <1>1, <1>2, <1>3 DEF CleanInv
<1>8. /\ failed' = failed
      /\ thread'[s][a] = "dead" => s \in stop
      /\ pc = "waiting" => conn' # "closed"
  <2>1. pc = "waiting" => s \notin stop
    BY <1>1, <1>3 DEF CleanInv
  <2>2. thread'[s][a] = "dead" => CheckStop(s, a)
    BY <1>5, <1>6, BecomeEffect DEF IInv, ThreadStep, BindAndListen, ThreadEnds, SetReady,
       AcceptOrPoll, Serve, TypeOK, ThreadStates, Alive, Bound
  <2>3. CheckStop(s, a) /\ s \notin stop => thread'[s][a] = "accepting"
    BY DEF IInv, TypeOK, CheckStop, Become
  <2>4. failed' = failed
    BY <1>5, <1>6 DEF ThreadStep, BindAndListen, ThreadEnds, SetReady, CheckStop,
       AcceptOrPoll, Serve
  <2>5. pc = "waiting" => conn' # "closed"
    BY <1>1, <1>5, <1>6, <2>1 DEF CleanInv, ThreadStep, BindAndListen, ThreadEnds, SetReady,
       CheckStop, AcceptOrPoll, Serve, HangUp, Serves
  <2> QED
    BY <2>2, <2>3, <2>4, <2>5
<1>9. ASSUME NEW b \in Ammeters, thread[session][b] \notin Alive
      PROVE  thread'[session][b] \notin Alive
  BY <1>2, <1>3, <1>9
<1>10. \A t \in Sessions, b \in Ammeters : thread'[t][b] = "dead" => t \in stop
  BY <1>1, <1>2, <1>8 DEF CleanInv
<1>11. \A t \in Sessions, b \in Ammeters : t < session => thread'[t][b] \notin Alive
  <2> SUFFICES ASSUME NEW t \in Sessions, NEW b \in Ammeters, t < session
               PROVE  thread'[t][b] \notin Alive
    OBVIOUS
  <2>1. t # s
    BY <1>3, GroupAssumption DEF Sessions
  <2> QED
    BY <1>1, <1>2, <2>1 DEF CleanInv
<1>12. pc = "stopJoin" => \A b \in first..(next - 1) : thread'[session][b] \notin Alive
  <2> SUFFICES ASSUME pc = "stopJoin", NEW b \in first..(next - 1)
               PROVE  thread'[session][b] \notin Alive
    OBVIOUS
  <2>1. b \in Ammeters
    BY GroupAssumption DEF IInv, TypeOK, PlaceInv, Ammeters
  <2>2. thread[session][b] \notin Alive
    BY <1>1 DEF CleanInv
  <2> QED
    BY <1>9, <2>1, <2>2
<1> QED
  BY <1>1, <1>2, <1>7, <1>8, <1>10, <1>11, <1>12 DEF CleanInv

(* Without a mishap every join waits for its thread, and every request is   *)
(* answered.                                                                *)
LEMMA CleanStep == IInv /\ CleanInv /\ [Next]_vars => CleanInv'
<1> SUFFICES ASSUME IInv, CleanInv, [Next]_vars, mishaps' = 0 PROVE CleanInv'
  BY DEF CleanInv
<1>0. mishaps \in Nat /\ session \in Nat /\ next \in Nat /\ first \in Ammeters /\ last \in Ammeters
  BY GroupAssumption DEF IInv, TypeOK, Ammeters
<1> USE DEF vars, server, choice, verdict, request, Enter
<1>1. CASE Begin
  <2>1. /\ UNCHANGED <<thread, ready, failed, stop, conn, peer, mishaps>>
        /\ session' = session + 1 /\ pc' = "construct" /\ deadline' = "ahead"
        /\ cause' = "none" /\ errors' = {} /\ pc \in {"idle", "ended"}
        /\ session + 1 \in Sessions
    BY <1>0, <1>1, GroupAssumption DEF Begin, Sessions
  <2>2. session + 1 \notin stop
    BY <1>0, <2>1 DEF IInv, ThreadInv
  <2>3. \A s \in Sessions, a \in Ammeters : s < session + 1 => thread[s][a] \notin Alive
    <3> SUFFICES ASSUME NEW s \in Sessions, NEW a \in Ammeters, s < session + 1
                 PROVE  thread[s][a] \notin Alive
      OBVIOUS
    <3>1. s = session => pc = "ended"
      BY <2>1, <1>0 DEF Sessions, IInv, PlaceInv
    <3> QED
      BY <3>1, <2>1, <1>0 DEF CleanInv, Sessions
  <2> QED
    BY <2>1, <2>2, <2>3 DEF CleanInv
<1>2. CASE Construct
  <2>1. /\ UNCHANGED <<ready, failed, stop, session, deadline, cause, errors, mishaps>>
        /\ pc = "construct" /\ pc' \in {"construct", "await"}
    BY <1>2 DEF Construct
  <2>2. session \in Sessions
    BY <2>1, <1>0 DEF IInv, PlaceInv, TypeOK, Sessions
  <2>3. \A t \in Sessions, b \in Ammeters :
          thread'[t][b] = thread[t][b] \/ (t = session /\ thread'[t][b] = "starting")
    <3>1. CASE next <= last
      <4>1. next \in Ammeters
        BY <1>0, <3>1, GroupAssumption DEF IInv, PlaceInv, Ammeters
      <4>2. Become(session, next, "starting")
        BY <1>2, <3>1 DEF Construct, StartThread
      <4> QED
        BY <2>2, <4>1, <4>2, BecomeEffect DEF IInv, ThreadStates, Alive
    <3>2. CASE ~(next <= last)
      BY <1>2, <3>2 DEF Construct
    <3> QED
      BY <3>1, <3>2
  <2> QED
    BY <2>1, <2>2, <2>3, <1>0 DEF CleanInv, Sessions
<1>3. CASE ConstructFails \/ ConstructInterrupted \/ AwaitFails \/ JoinDeadline \/ JoinInterrupted
           \/ RequestMishap
  BY <1>0, <1>3 DEF ConstructFails, ConstructInterrupted, AwaitFails, JoinDeadline,
     JoinInterrupted, RequestMishap, Mishap
<1>4. CASE Await
  <2>1. pc = "await" /\ session \in Sessions
    BY <1>4, <1>0 DEF Await, IInv, PlaceInv, TypeOK, Sessions
  <2>2. mishaps = 0 /\ failed[session] = {}
    BY <1>4, <2>1 DEF Await, CleanInv
  <2>3. /\ UNCHANGED <<thread, ready, failed, stop, session, deadline, cause, errors, mishaps>>
        /\ pc' \in {"await", "measure"}
    BY <1>4, <2>1, <2>2 DEF Await
  <2> QED
    BY <2>1, <2>2, <2>3 DEF CleanInv
<1>5. CASE SignalStop
  <2>1. mishaps = 0 /\ pc = "stop"
    BY <1>5 DEF SignalStop, CleanInv
  <2>2. /\ UNCHANGED <<thread, failed, session, first, last, deadline, cause, errors, measured>>
        /\ stop' = stop \cup {session} /\ pc' = "stopJoin" /\ next' = first
    BY <1>5, <2>1 DEF SignalStop
  <2>3. first..(first - 1) = {}
    BY <1>0 DEF Ammeters
  <2> QED
    BY <2>1, <2>2, <2>3 DEF CleanInv
<1>6. CASE JoinNext
  <2>1. mishaps = 0 /\ pc = "stopJoin"
    BY <1>6 DEF JoinNext, Joining, CleanInv
  <2>2. /\ UNCHANGED <<thread, failed, stop, session, first, last, pc, deadline, cause, errors, measured>>
        /\ next' = next + 1 /\ thread[session][next] \notin Alive
    BY <1>6, <2>1 DEF JoinNext, CleanInv
  <2>3. \A b \in first..((next + 1) - 1) : b \in first..(next - 1) \/ b = next
    BY <1>0 DEF Ammeters
  <2> QED
    BY <2>1, <2>2, <2>3 DEF CleanInv
<1>7. CASE StartRaises
  BY <1>7 DEF StartRaises, CleanInv
<1>8. CASE StopReturns
  <2>1. mishaps = 0 /\ pc = "stopJoin" /\ next > listed
    BY <1>8 DEF StopReturns, CleanInv
  <2>2. \A b \in first..listed : b \in first..(next - 1)
    BY <1>0, <2>1 DEF IInv, TypeOK, Ammeters
  <2>3. \A b \in first..listed : thread[session][b] \notin Alive
    BY <2>1, <2>2 DEF CleanInv
  <2>4. \A b \in Ammeters : thread[session][b] \notin Alive
    BY <2>1, <2>3 DEF IInv, ThreadInv, Alive, Bound
  <2>5. Leaks = {}
    BY <2>3 DEF Leaks
  <2>6. /\ UNCHANGED <<thread, failed, stop, session, first, last, deadline, cause, errors, measured>>
        /\ pc' = "ended"
    BY <1>8, <2>5 DEF StopReturns
  <2> QED
    BY <2>1, <2>4, <2>6 DEF CleanInv
<1>9. CASE Request
  <2>1. mishaps = 0 /\ pc = "measure" /\ next \in first..last /\ session \in Sessions
    BY <1>9, <1>0 DEF Request, CleanInv, IInv, PlaceInv, TypeOK, Sessions, Ammeters
  <2>2. next \in Ammeters
    BY <2>1, <1>0, GroupAssumption DEF Ammeters
  <2>3. session \in Listeners(next)
    <3>1. thread[session][next] \in Served
      BY <2>1 DEF IInv, ReadyInv
    <3>2. thread[session][next] # "dying"
      BY <2>1, <2>2 DEF IInv, ReadyInv, CleanInv
    <3>3. thread[session][next] # "dead"
      BY <2>1, <2>2 DEF CleanInv
    <3> QED
      BY <2>1, <3>1, <3>2, <3>3 DEF Listeners, Served, Bound
  <2>4. \A t \in Listeners(next) : t = session
    <3> SUFFICES ASSUME NEW t \in Sessions, thread[t][next] \in Bound PROVE t = session
      BY DEF Listeners
    <3>1. ~(t < session)
      BY <2>1, <2>2 DEF CleanInv, Alive
    <3>2. ~(t > session)
      BY <2>2 DEF IInv, ThreadInv, Bound
    <3> QED
      BY <3>1, <3>2, <1>0 DEF Sessions
  <2>5. /\ UNCHANGED <<thread, failed, stop, session, deadline, cause, errors, mishaps>>
        /\ pc' = "waiting" /\ peer' = session /\ conn' = "queued"
    BY <1>9, <2>3, <2>4 DEF Request
  <2> QED
    BY <2>1, <2>5 DEF CleanInv
<1>10. CASE Receive
  <2>1. mishaps = 0 /\ pc = "waiting" /\ conn = "answered"
    BY <1>10 DEF Receive, CleanInv
  <2>2. /\ UNCHANGED <<thread, failed, stop, session, deadline, cause, errors, mishaps>>
        /\ pc' = "measure"
    BY <1>10, <2>1 DEF Receive
  <2> QED
    BY <2>1, <2>2 DEF CleanInv
<1>11. CASE AllMeasured
  <2>1. mishaps = 0 /\ pc = "measure" /\ next = last + 1
    BY <1>11, <1>0 DEF AllMeasured, CleanInv, IInv, PlaceInv, TypeOK, Ammeters
  <2>2. measured = first..(next - 1) /\ next - 1 = last
    BY <2>1, <1>0 DEF IInv, VerdictInv, Ammeters
  <2>3. /\ UNCHANGED <<thread, failed, stop, session, first, last, deadline, cause, errors, measured>>
        /\ pc' = "stop"
    BY <1>11 DEF AllMeasured
  <2> QED
    BY <2>1, <2>2, <2>3 DEF CleanInv
<1>12. ASSUME NEW s \in Sessions, NEW a \in Ammeters, ThreadStep(s, a)
       PROVE  CleanInv'
  BY <1>12, CleanThreadStep
<1>13. CASE UNCHANGED vars
  BY <1>13 DEF CleanInv
<1> QED
  BY <1>1, <1>2, <1>3, <1>4, <1>5, <1>6, <1>7, <1>8, <1>9, <1>10, <1>11, <1>12, <1>13
     DEF Next, SessionStep

(* What one session leaves behind never makes the next one fail: without a  *)
(* mishap every session, however many there are, reads all its ammeters.    *)
THEOREM CleanSessionsSucceed == Spec => []CleanSessionsRepeat
<1>1. Init => CleanInv
  BY GroupAssumption DEF Init, CleanInv, Sessions, Ammeters
<1>2. IInv /\ CleanInv => CleanSessionsRepeat
  BY DEF CleanInv, CleanSessionsRepeat
<1> QED
  BY GroupInvariant, CleanStep, <1>1, <1>2, PTL DEF Spec
=============================================================================
