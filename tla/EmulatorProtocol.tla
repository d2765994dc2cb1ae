--------------------------- MODULE EmulatorProtocol ---------------------------
(***************************************************************************)
(* The wire between one emulator (AmmeterEmulatorBase.start_server and     *)
(* _receive_command) and those who ask it for a measurement: the program's *)
(* own client (request_current_from_ammeter), one request after the other, *)
(* each possibly the retry of one that was given up, and other programs    *)
(* that send what they like.                                               *)
(*                                                                         *)
(* The server is one thread: connections wait in the backlog until it is   *)
(* their turn.  TCP delivers the bytes of a connection in order, in pieces *)
(* nobody chose.  Time is counted in the server's polls of 0.1 s; all else *)
(* takes none, except that a client may lose patience at any moment.       *)
(***************************************************************************)
EXTENDS Integers, SequencesExt

CONSTANTS
  Command,            \* the bytes of current_command
  Messages,           \* what other programs send
  MAX_MESSAGE_BYTES,
  MaxPolls,           \* polls until request_timeout_seconds are over
  MaxConnections,     \* bound on the connections of a behaviour ...
  MaxOthers           \* ... and on those of other programs among them

LF == 10
CR == 13

ASSUME ProtocolAssumption ==
  /\ Command \in Seq(Nat \ {LF, CR}) /\ Command # <<>>
  /\ Messages \subseteq Seq(Nat)
  /\ MAX_MESSAGE_BYTES \in Nat /\ MAX_MESSAGE_BYTES > Len(Command)
  /\ MaxPolls \in Nat \ {0}

(* The two answers of the server: a measurement, and that it does not know *)
(* the command.                                                            *)
Measurement == <<1, LF>>
Unsupported == <<2, LF>>

VARIABLES
  conns,    \* the connections, in the order of the backlog
  turn,     \* the last one that was accepted
  pc,       \* where the server is; "closed" when it returned, "dead" when it raised
  data,     \* the command it has read
  stop      \* its stop event

vars == <<conns, turn, pc, data, stop>>

(* A connection: who opened it and what there is to send; how much of it   *)
(* has arrived, whether it is over, and whether a reset ended it; how much *)
(* the server took and how often it polled in vain; what the server wrote  *)
(* and how it hung up; how much of that the client has read and what the   *)
(* client made of it.  Where nobody listens any more it is refused.        *)
Opened(who, message) ==
  [who |-> who, message |-> message, sent |-> 0, shut |-> FALSE, aborted |-> FALSE,
   waiting |-> FALSE, taken |-> 0, polls |-> 0, answer |-> <<>>,
   line |-> IF pc \in {"closed", "dead"} THEN "reset" ELSE "open",
   got |-> 0, result |-> "none"]

Init ==
  /\ conns = <<>>
  /\ turn = 0
  /\ pc = "loop"
  /\ data = <<>>
  /\ stop = FALSE

Update(c, conn) == conns' = [conns EXCEPT ![c] = conn]

Delimiters(bytes) == {i \in DOMAIN bytes : bytes[i] = LF}

-----------------------------------------------------------------------------
(* The clients and the network.                                            *)

Program == {c \in DOMAIN conns : conns[c].who = "program"}

(* The program asks again only when it has done with its last request.     *)
Connect ==
  /\ Len(conns) < MaxConnections
  /\ \/ /\ \A c \in Program : conns[c].result # "none"
        /\ conns' = Append(conns, Opened("program", Command \o <<LF>>))
     \/ /\ Cardinality(DOMAIN conns \ Program) < MaxOthers
        /\ \E message \in Messages : conns' = Append(conns, Opened("other", message))
  /\ UNCHANGED <<turn, pc, data, stop>>

Awaits(c) == c \in Program /\ conns[c].result = "none"

(* Somebody sees what arrives: not the server before the connection is the *)
(* next in the backlog, and nobody when both sides have done with it.      *)
Matters(c) == c <= turn + 1 /\ (conns[c].line = "open" \/ Awaits(c))

(* Some more bytes arrive.  A connection the server has closed answers     *)
(* them with a reset.                                                      *)
Deliver(c) ==
  LET conn == conns[c] IN
  /\ Matters(c) /\ ~conn.shut /\ conn.sent < Len(conn.message)
  /\ \E n \in conn.sent + 1 .. Len(conn.message) :
       Update(c, [conn EXCEPT !.sent = n,
                              !.line = IF @ = "open" THEN @ ELSE "reset"])
  /\ UNCHANGED <<turn, pc, data, stop>>

(* The end of the stream arrives: the program sends all it has, also if it *)
(* no longer waits for the answer; others may leave in mid-command.        *)
DeliverEnd(c) ==
  LET conn == conns[c] IN
  /\ Matters(c) /\ ~conn.shut
  /\ conn.who = "program" => conn.sent = Len(conn.message)
  /\ Update(c, [conn EXCEPT !.shut = TRUE])
  /\ UNCHANGED <<turn, pc, data, stop>>

(* Another program resets its connection, also in mid-command: it is       *)
(* killed, or closes its socket with something unread.  The program itself *)
(* never does before the server has its whole line.                        *)
Abort(c) ==
  LET conn == conns[c] IN
  /\ Matters(c) /\ conn.who = "other" /\ ~conn.shut
  /\ Update(c, [conn EXCEPT !.shut = TRUE, !.aborted = TRUE])
  /\ UNCHANGED <<turn, pc, data, stop>>

\* Mutated form of Parsed: whatever came in one piece is the answer.
ParsedPiece(answer, got) ==
  IF SubSeq(answer, 1, got) = Measurement THEN "reading" ELSE "refused"

(* The client reads until a line is complete.                              *)
Parsed(answer, got) ==
  IF Delimiters(SubSeq(answer, 1, got)) = {} THEN "none"
  ELSE IF answer = Measurement THEN "reading" ELSE "refused"

ReadAnswer(c) ==
  LET conn == conns[c] IN
  /\ Awaits(c)
  /\ \E n \in conn.got + 1 .. Len(conn.answer) :
       Update(c, [conn EXCEPT !.got = n, !.result = Parsed(conn.answer, n)])
  /\ UNCHANGED <<turn, pc, data, stop>>

(* The connection ends without an answer; one that is reset may take an    *)
(* answer with it that was not read yet.                                   *)
ReadEnd(c) ==
  LET conn == conns[c] IN
  /\ Awaits(c)
  /\ \/ conn.line = "closed" /\ conn.answer = <<>>
     \/ conn.line = "reset"
  /\ Update(c, [conn EXCEPT !.result = conn.line])
  /\ UNCHANGED <<turn, pc, data, stop>>

(* The deadline of the request passes; what was sent stays sent.           *)
GiveUp(c) ==
  /\ Awaits(c)
  /\ Update(c, [conns[c] EXCEPT !.result = "timeout"])
  /\ UNCHANGED <<turn, pc, data, stop>>

-----------------------------------------------------------------------------
(* The server.                                                             *)

\* Closing the listener resets those still in the backlog.
CloseListener ==
  conns' = [c \in DOMAIN conns |->
              IF c > turn THEN [conns[c] EXCEPT !.line = "reset"] ELSE conns[c]]

CheckStop ==
  /\ pc = "loop"
  /\ IF stop
       THEN pc' = "closed" /\ CloseListener
       ELSE pc' = "accept" /\ UNCHANGED conns
  /\ UNCHANGED <<turn, data, stop>>

\* accept returns the connection that has waited longest, or times out.
AcceptOrPoll ==
  /\ pc = "accept"
  /\ IF turn < Len(conns)
       THEN /\ pc' = "receive"
            /\ turn' = turn + 1
            /\ Update(turn + 1, [conns[turn + 1] EXCEPT !.waiting = ~conns[turn + 1].shut])
       ELSE pc' = "loop" /\ UNCHANGED <<turn, conns>>
  /\ UNCHANGED <<data, stop>>

Current  == conns[turn]
Received == SubSeq(Current.message, 1, Current.taken)

\* _receive_command returns.
Take(bytes) == pc' = "answer" /\ data' = bytes

\* Mutated form of CheckDeadline: only the stop event ends the loop.
CheckStopOnly ==
  /\ pc = "receive"
  /\ IF stop THEN Take(Received) ELSE pc' = "recv" /\ UNCHANGED data
  /\ UNCHANGED <<conns, turn, stop>>

CheckDeadline ==
  /\ pc = "receive"
  /\ IF stop \/ Current.polls = MaxPolls
       THEN Take(Received)
       ELSE pc' = "recv" /\ UNCHANGED data
  /\ UNCHANGED <<conns, turn, stop>>

\* The bytes of a frame: up to the first LF, without the CRs before it.
Frame(bytes) ==
  IF Delimiters(bytes) = {} THEN bytes
  ELSE LET line == SubSeq(bytes, 1, Min(Delimiters(bytes)) - 1)
       IN  SubSeq(line, 1, Max({0} \cup {i \in DOMAIN line : line[i] # CR}))

(* A whole frame; the command without its delimiter, as older callers send *)
(* it; or what can no longer become the command.                           *)
Examine(all) ==
  IF Delimiters(all) # {} THEN Take(Frame(all))
  ELSE IF \/ all = Command
          \/ Len(all) >= MAX_MESSAGE_BYTES
          \/ ~IsPrefix(all, Command)
    THEN Take(all)
    ELSE pc' = "receive" /\ UNCHANGED data

\* Mutated form of RecvBytes: the pieces are looked at one by one.
RecvPiece ==
  LET upto == Min({Current.sent, MAX_MESSAGE_BYTES}) IN
  /\ pc = "recv" /\ Current.taken < Current.sent
  /\ Update(turn, [Current EXCEPT !.taken = upto])
  /\ Examine(SubSeq(Current.message, Current.taken + 1, upto))
  /\ UNCHANGED <<turn, stop>>

RecvBytes ==
  LET upto == Min({Current.sent, MAX_MESSAGE_BYTES}) IN
  /\ pc = "recv" /\ Current.taken < Current.sent
  /\ Update(turn, [Current EXCEPT !.taken = upto])
  /\ Examine(SubSeq(Current.message, 1, upto))
  /\ UNCHANGED <<turn, stop>>

\* Mutated form of RecvEnd: the end of the stream is silence.
RecvEndAsSilence ==
  /\ pc = "recv" /\ Current.taken = Current.sent /\ Current.shut /\ ~Current.aborted
  /\ pc' = "receive"
  /\ Update(turn, [Current EXCEPT !.polls = @ + 1])
  /\ UNCHANGED <<turn, data, stop>>

RecvEnd ==
  /\ pc = "recv" /\ Current.taken = Current.sent /\ Current.shut /\ ~Current.aborted
  /\ Take(Received)
  /\ UNCHANGED <<conns, turn, stop>>

RecvTimesOut ==
  /\ pc = "recv" /\ Current.taken = Current.sent /\ ~Current.shut
  /\ pc' = "receive"
  /\ Update(turn, [Current EXCEPT !.polls = Min({@ + 1, MaxPolls})])
  /\ UNCHANGED <<turn, data, stop>>

(* A reset makes recv raise, at once or after what came before it.  Only a *)
(* timeout is caught, so the error leaves start_server, and takes the      *)
(* listener with it.                                                       *)
RecvReset ==
  /\ pc = "recv" /\ Current.aborted
  /\ pc' = "dead"
  /\ CloseListener
  /\ UNCHANGED <<turn, data, stop>>

(* Answer and hang up.  An answer that cannot be sent is forgotten.  To    *)
(* hang up with bytes unread is to reset.                                  *)
Answer ==
  /\ pc = "answer"
  /\ pc' = "loop"
  /\ data' = <<>>
  /\ Update(turn,
       [Current EXCEPT
          !.answer = IF data = <<>> \/ stop THEN <<>>
                     ELSE IF data = Command THEN Measurement ELSE Unsupported,
          !.line = IF Current.taken < Current.sent THEN "reset" ELSE "closed"])
  /\ UNCHANGED <<turn, stop>>

\* The session ends: stop_emulators.
Stop ==
  /\ ~stop
  /\ stop' = TRUE
  /\ UNCHANGED <<conns, turn, pc, data>>

ServerStep ==
  \/ CheckStop \/ AcceptOrPoll \/ CheckDeadline
  \/ RecvBytes \/ RecvEnd \/ RecvTimesOut \/ RecvReset \/ Answer

Next ==
  \/ Connect \/ Stop \/ ServerStep
  \/ \E c \in DOMAIN conns :
       \/ Deliver(c) \/ DeliverEnd(c) \/ Abort(c)
       \/ ReadAnswer(c) \/ ReadEnd(c) \/ GiveUp(c)

Spec == Init /\ [][Next]_vars

(* The server thread runs, the network delivers what the program sent, and *)
(* the client reads what has come.  Nobody has to lose patience, to leave, *)
(* or to send anything.                                                    *)
FairSpec ==
  /\ Spec
  /\ WF_vars(ServerStep)
  /\ \A c \in 1 .. MaxConnections :
       /\ WF_vars(c \in Program /\ (Deliver(c) \/ DeliverEnd(c)))
       /\ WF_vars(c \in DOMAIN conns /\ (ReadAnswer(c) \/ ReadEnd(c)))

-----------------------------------------------------------------------------
(* What the client of a connection meant to say, as far as it has not left *)
(* before the end.                                                         *)
Meant(conn) == IF conn.shut THEN SubSeq(conn.message, 1, conn.sent) ELSE conn.message

\* The client goes on after the command, and not with LF.
GoesOn(conn) ==
  /\ IsPrefix(Command, conn.message) /\ Len(conn.message) > Len(Command)
  /\ conn.message[Len(Command) + 1] # LF

AnsweredByFrame(conn) ==
  conn.answer # <<>> /\ conn.polls < MaxPolls =>
    (conn.answer = Measurement <=> Frame(Meant(conn)) = Command)

(* However TCP cuts a message, it is answered by what its whole frame      *)
(* says, with a measurement if and only if the frame is the command; the   *)
(* exceptions are the messages that go on after the command, and a client  *)
(* that is silent in mid-frame until the deadline.                         *)
FramesAreExact ==
  \A c \in DOMAIN conns : GoesOn(conns[c]) \/ AnsweredByFrame(conns[c])

(* "Added complete-frame reads so fragmented TCP commands or values cannot *)
(* be mistaken for complete messages.": a client is sent a measurement     *)
(* only if all it says before a delimiter is the command.                  *)
FragmentsAreNotCommands ==
  \A c \in DOMAIN conns :
    conns[c].answer = Measurement => Frame(Meant(conns[c])) = Command

(* The server died of the connection before that of c: its client reset it *)
(* in mid-command.                                                         *)
KilledBefore(c) ==
  /\ pc = "dead" /\ turn < c
  /\ Current.who = "other" /\ Current.aborted /\ Current.answer = <<>>

(* What the program's client may be told instead of a measurement, other   *)
(* than that its time is up: the emulator was told to stop, or killed, the *)
(* bytes took longer than the server waits for them, or the delimiter came *)
(* apart from the command and the reset took the early answer with it.     *)
Excused(c) ==
  LET conn == conns[c] IN
  \/ stop
  \/ KilledBefore(c)
  \/ conn.polls = MaxPolls
  \/ conn.result = "reset" /\ conn.answer = Measurement /\ conn.taken = Len(Command)

(* A connection that was complete when its turn came, one that was given   *)
(* up for instance, costs the server no waiting.                           *)
AbandonedAreCheap == \A c \in 1 .. turn : ~conns[c].waiting => conns[c].polls = 0

(* A request of the program gets a whole measurement, or it has an excuse. *)
(* Of what earlier clients can do only a reset in mid-command is one, and  *)
(* requests that were given up do not even delay the retry.                *)
RequestsSucceed ==
  /\ \A c \in Program :
       \/ conns[c].result \in {"none", "timeout"}
       \/ conns[c].result = "reading" /\ conns[c].got = Len(Measurement)
       \/ conns[c].result # "reading" /\ Excused(c)
  /\ AbandonedAreCheap

(* Every request of the program ends without its client losing patience:   *)
(* those before it in the backlog, silent or gone, hold the server for a   *)
(* bounded time only.                                                      *)
RequestsEnd ==
  \A c \in 1 .. MaxConnections : c \in Program ~> (c \in Program /\ conns[c].result # "none")
=============================================================================
