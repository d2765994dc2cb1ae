----------------------- MODULE EmulatorProtocol_proofs ------------------------
(***************************************************************************)
(* Proofs about EmulatorProtocol, for any command, any messages of other   *)
(* programs, any fragmentation and any number of connections: a request of *)
(* the program gets a whole measurement or has an excuse, and requests     *)
(* that were given up do not delay their retry (RequestsSucceed), and a    *)
(* message is answered by what its whole frame says (FramesAreExact).      *)
(*                                                                         *)
(* The inductive invariant IInv says how far the two ends of a connection  *)
(* are (WireInv), what connections in the backlog and the one being served *)
(* look like (QueueInv), what the server can have made of the program's    *)
(* bytes (AnswerInv), and what the client of that (ResultInv).             *)
(*                                                                         *)
(* While a message is still arriving nobody knows what all of it will be:  *)
(* its client may leave after any byte that has not arrived.  So the       *)
(* second invariant, FrameInv, speaks of every length the message may yet  *)
(* have, and the lemmas show that the server decides as soon as, and only  *)
(* when, all of these have the same frame.                                 *)
(***************************************************************************)
EXTENDS EmulatorProtocol, SequenceTheorems, FiniteSetTheorems, WellFoundedInduction, TLAPS

Connection ==
  [who : {"program", "other"}, message : Seq(Nat), sent : Nat, shut : BOOLEAN,
   aborted : BOOLEAN, waiting : BOOLEAN, taken : Nat, polls : Nat,
   answer : {<<>>, Measurement, Unsupported}, line : {"open", "closed", "reset"},
   got : Nat, result : {"none", "reading", "refused", "closed", "reset", "timeout"}]

Busy == {"receive", "recv", "answer"}

Line == Command \o <<LF>>

TypeInv ==
  /\ conns \in Seq(Connection)
  /\ turn \in 0 .. Len(conns)
  /\ pc \in Busy \cup {"loop", "accept", "closed", "dead"}
  /\ stop \in BOOLEAN
  /\ pc \in Busy \cup {"dead"} => turn \in DOMAIN conns
  /\ pc = "closed" => stop

WireInv(c) ==
  /\ conns[c].sent <= Len(conns[c].message)
  /\ conns[c].taken <= conns[c].sent
  /\ conns[c].polls <= MaxPolls
  /\ conns[c].who = "program" =>
       /\ conns[c].message = Line /\ ~conns[c].aborted
       /\ conns[c].shut => conns[c].sent = Len(Line)

QueueInv(c) ==
  /\ c > turn => /\ conns[c].taken = 0 /\ conns[c].polls = 0 /\ conns[c].answer = <<>>
                 /\ conns[c].line = "open" \/ (conns[c].line = "reset" /\ (stop \/ pc = "dead"))
  /\ c > turn /\ pc \notin {"closed", "dead"} => conns[c].line = "open"
  /\ c = turn /\ pc \in Busy => conns[c].line = "open" /\ conns[c].answer = <<>>
  /\ c = turn /\ pc = "dead" =>
       conns[c].who = "other" /\ conns[c].aborted /\ conns[c].answer = <<>>
  /\ c <= turn /\ ~conns[c].waiting => conns[c].shut /\ conns[c].polls = 0

\* Why no answer need come: the last is that the server died before its turn.
Late(c) == stop \/ conns[c].polls = MaxPolls \/ (pc = "dead" /\ turn < c)

AnswerInv(c) ==
  conns[c].who = "program" =>
    /\ c = turn /\ pc \in {"receive", "recv"} => conns[c].taken < Len(Command)
    /\ c = turn /\ pc = "answer" =>
         Late(c) \/ (data = Command /\ conns[c].taken >= Len(Command))
    /\ conns[c].answer = Unsupported => Late(c)
    /\ conns[c].line = "closed" =>
         Late(c) \/ (conns[c].answer = Measurement /\ conns[c].taken >= Len(Command))
    /\ conns[c].line = "reset" =>
         Late(c) \/ (conns[c].answer = Measurement /\ conns[c].taken = Len(Command))

ResultInv(c) ==
  conns[c].who = "program" =>
    /\ conns[c].result = "reading" =>
         conns[c].answer = Measurement /\ conns[c].got = Len(Measurement)
    /\ conns[c].result = "refused" => conns[c].answer = Unsupported
    /\ conns[c].result = "closed" => conns[c].line # "open" /\ conns[c].answer = <<>>
    /\ conns[c].result = "reset" => conns[c].line = "reset"

ConnInv(c) == WireInv(c) /\ QueueInv(c) /\ AnswerInv(c) /\ ResultInv(c)

IInv == TypeInv /\ \A c \in DOMAIN conns : ConnInv(c)

-----------------------------------------------------------------------------
(* What the operators make of the program's line.                          *)

(* The smaller of two numbers is one of them, and not above the other.     *)
LEMMA MinOfTwo ==
  ASSUME NEW a \in Nat, NEW b \in Nat
  PROVE  Min({a, b}) \in {a, b} /\ Min({a, b}) <= a /\ Min({a, b}) <= b
<1>1. \E x \in {a, b} : \A y \in {a, b} : x <= y
  OBVIOUS
<1> QED BY <1>1 DEF Min

(* The line of the program: the command, then its only delimiter.          *)
LEMMA LineOfCommand ==
  /\ Command \in Seq(Nat) /\ Len(Command) \in Nat \ {0}
  /\ Line \in Seq(Nat) /\ Len(Line) = Len(Command) + 1
  /\ \A i \in 1 .. Len(Command) : Line[i] = Command[i] /\ Line[i] \notin {LF, CR}
  /\ Line[Len(Line)] = LF
<1>1. Command \in Seq(Nat) /\ <<LF>> \in Seq(Nat)
  BY ProtocolAssumption DEF LF
<1>2. Len(Command) \in Nat \ {0}
  BY <1>1, ProtocolAssumption, EmptySeq
<1>3. \A i \in 1 .. Len(Command) : Command[i] \in Nat \ {LF, CR}
  BY ProtocolAssumption, ElementOfSeq
<1> QED BY <1>1, <1>2, <1>3, ConcatProperties DEF Line

(* A piece of the line that stops before its delimiter has none, and is a  *)
(* prefix of the command.                                                  *)
LEMMA PieceOfLine ==
  ASSUME NEW n \in 0 .. Len(Command)
  PROVE  /\ SubSeq(Line, 1, n) = SubSeq(Command, 1, n)
         /\ Len(SubSeq(Line, 1, n)) = n
         /\ Delimiters(SubSeq(Line, 1, n)) = {}
         /\ IsPrefix(SubSeq(Line, 1, n), Command)
         /\ n = Len(Command) => SubSeq(Line, 1, n) = Command
         /\ n < Len(Command) => SubSeq(Line, 1, n) # Command
<1>1. /\ SubSeq(Line, 1, n) \in Seq(Nat) /\ Len(SubSeq(Line, 1, n)) = n
      /\ \A i \in 1 .. n : SubSeq(Line, 1, n)[i] = Line[i]
  BY LineOfCommand, SMTT(60)
<1>2. /\ SubSeq(Command, 1, n) \in Seq(Nat) /\ Len(SubSeq(Command, 1, n)) = n
      /\ \A i \in 1 .. n : SubSeq(Command, 1, n)[i] = Command[i]
  BY LineOfCommand
<1>3. SubSeq(Line, 1, n) = SubSeq(Command, 1, n)
  BY <1>1, <1>2, LineOfCommand, SeqEqual
<1>4. Delimiters(SubSeq(Line, 1, n)) = {}
  BY <1>1, LineOfCommand, SMTT(60) DEF Delimiters
<1>5. IsPrefix(SubSeq(Line, 1, n), Command)
  <2>1. SubSeq(SubSeq(Command, 1, n), 1, n) = SubSeq(Command, 1, n)
    BY <1>2, SubSeqFull
  <2> QED BY <1>1, <1>3, <2>1, LineOfCommand DEF IsPrefix
<1>6. n = Len(Command) => SubSeq(Line, 1, n) = Command
  BY <1>3, LineOfCommand, SubSeqFull
<1> QED BY <1>1, <1>3, <1>4, <1>5, <1>6, LineOfCommand

(* The frame of the whole line is the command.                             *)
LEMMA FrameOfLine == Delimiters(Line) # {} /\ Frame(Line) = Command
<1>1. Delimiters(Line) = {Len(Line)}
  BY LineOfCommand DEF Delimiters
<1>2. Min(Delimiters(Line)) = Len(Line)
  BY <1>1, LineOfCommand DEF Min
<1>3. SubSeq(Line, 1, Min(Delimiters(Line)) - 1) = Command
  BY <1>2, LineOfCommand, PieceOfLine
<1>4. {0} \cup {i \in DOMAIN Command : Command[i] # CR} = 0 .. Len(Command)
  BY LineOfCommand
<1>5. Max(0 .. Len(Command)) = Len(Command)
  BY LineOfCommand DEF Max
<1> QED BY <1>1, <1>3, <1>4, <1>5, LineOfCommand, SubSeqFull DEF Frame

(* So the server goes on reading a line until the command is complete, and *)
(* then takes the command, with or without its delimiter.                  *)
LEMMA ExamineLine ==
  ASSUME NEW n \in 1 .. Len(Line), Examine(SubSeq(Line, 1, n))
  PROVE  \/ pc' = "receive" /\ n < Len(Command)
         \/ pc' = "answer" /\ data' = Command /\ n >= Len(Command)
<1>1. CASE n = Len(Line)
  <2>1. SubSeq(Line, 1, n) = Line
    BY <1>1, LineOfCommand, SubSeqFull
  <2>2. Take(Frame(Line))
    BY <2>1, FrameOfLine DEF Examine
  <2> QED BY <1>1, <2>2, FrameOfLine, LineOfCommand DEF Take
<1>2. CASE n = Len(Command)
  BY <1>2, PieceOfLine DEF Examine, Take
<1>3. CASE n < Len(Command)
  <2>1. n \in 0 .. Len(Command) /\ n < MAX_MESSAGE_BYTES
    BY <1>3, LineOfCommand, ProtocolAssumption
  <2> DEFINE piece == SubSeq(Line, 1, n)
  <2>2. /\ Delimiters(piece) = {} /\ piece # Command /\ Len(piece) = n
        /\ IsPrefix(piece, Command)
    BY <1>3, <2>1, PieceOfLine
  <2>3. ~(Len(piece) >= MAX_MESSAGE_BYTES)
    BY <2>1, <2>2, ProtocolAssumption
  <2>4. Examine(piece)
    OBVIOUS
  <2> HIDE DEF piece
  <2>5. pc' = "receive"
    BY <2>2, <2>3, <2>4 DEF Examine
  <2> QED BY <1>3, <2>5
<1> QED BY <1>1, <1>2, <1>3, LineOfCommand

(* The client takes a measurement for one only when all of it has come.    *)
LEMMA ParseAnswer ==
  ASSUME NEW answer \in {<<>>, Measurement, Unsupported}, NEW n \in 1 .. Len(answer)
  PROVE  /\ Parsed(answer, n) \in {"none", "reading", "refused"}
         /\ Parsed(answer, n) = "reading" => answer = Measurement /\ n = Len(Measurement)
         /\ Parsed(answer, n) = "refused" => answer = Unsupported
<1>1. Len(Measurement) = 2 /\ Measurement # Unsupported /\ Measurement[1] # LF
  BY DEF Measurement, Unsupported, LF
<1>2. CASE answer = Measurement /\ n = 1
  <2>1. /\ Len(SubSeq(Measurement, 1, 1)) = 1
        /\ SubSeq(Measurement, 1, 1)[1] = Measurement[1]
    BY DEF Measurement, LF
  <2>2. Delimiters(SubSeq(Measurement, 1, 1)) = {}
    <3>1. DOMAIN SubSeq(Measurement, 1, 1) = {1}
      BY DEF Measurement, LF
    <3> QED BY <1>1, <2>1, <3>1 DEF Delimiters
  <2> QED BY <1>2, <2>2 DEF Parsed
<1>3. CASE answer = Measurement /\ n = 2
  BY <1>1, <1>3 DEF Parsed
<1>4. CASE answer = Unsupported
  BY <1>1, <1>4 DEF Parsed
<1>5. answer # <<>>
  BY EmptySeq
<1>6. answer = Measurement => n \in {1, 2}
  BY <1>1
<1> QED BY <1>2, <1>3, <1>4, <1>5, <1>6
-----------------------------------------------------------------------------
(* Initially there are no connections.                                     *)
LEMMA InitEstablishes == Init => IInv
<1> SUFFICES ASSUME Init PROVE IInv
  OBVIOUS
<1>1. conns \in Seq(Connection) /\ Len(conns) = 0 /\ DOMAIN conns = {}
  BY DEF Init
<1>2. turn \in 0 .. Len(conns)
  BY <1>1 DEF Init
<1> QED BY <1>1, <1>2 DEF Init, IInv, TypeInv, Busy

(* What one action does to one connection c.                               *)
LEMMA UpdateOne ==
  ASSUME TypeInv, NEW c \in DOMAIN conns, NEW conn \in Connection, Update(c, conn)
  PROVE  /\ conns' \in Seq(Connection) /\ DOMAIN conns' = DOMAIN conns /\ Len(conns') = Len(conns)
         /\ conns'[c] = conn
         /\ \A d \in DOMAIN conns : d # c => conns'[d] = conns[d]
BY DEF TypeInv, Update

(* A connection has its fields.                                            *)
LEMMA Fields ==
  ASSUME TypeInv, NEW c \in DOMAIN conns
  PROVE  conns[c] \in Connection
BY DEF TypeInv

(* Connections nothing happens to keep their invariant while the server    *)
(* stays where it is.                                                      *)
LEMMA Untouched ==
  ASSUME IInv, NEW d \in DOMAIN conns, conns'[d] = conns[d],
         UNCHANGED <<turn, pc, data, stop>>
  PROVE  ConnInv(d)'
BY DEF IInv, ConnInv, WireInv, QueueInv, AnswerInv, ResultInv, Late

(* So a step of a client or of the network has only to show what it does   *)
(* to its connection.                                                      *)
LEMMA ClientSide ==
  ASSUME IInv, NEW c \in DOMAIN conns, NEW conn \in Connection, Update(c, conn),
         UNCHANGED <<turn, pc, data, stop>>, ConnInv(c)'
  PROVE  IInv'
<1>1. TypeInv
  BY DEF IInv
<1>2. TypeInv'
  BY <1>1, UpdateOne DEF TypeInv
<1>3. \A d \in DOMAIN conns' : ConnInv(d)'
  BY <1>1, UpdateOne, Untouched
<1> QED BY <1>2, <1>3 DEF IInv

(* A step of the server takes the connection whose turn it is.             *)
LEMMA Elsewhere ==
  ASSUME IInv, NEW d \in DOMAIN conns, d # turn, conns'[d] = conns[d],
         UNCHANGED <<turn, stop>>, pc \in Busy, pc' \notin {"closed", "dead"}
  PROVE  ConnInv(d)'
BY DEF IInv, ConnInv, WireInv, QueueInv, AnswerInv, ResultInv, Late, Busy

LEMMA ServerSide ==
  ASSUME IInv, pc \in Busy, NEW conn \in Connection, Update(turn, conn),
         UNCHANGED <<turn, stop>>, pc' \in Busy \cup {"loop"}, ConnInv(turn)'
  PROVE  IInv'
<1>1. TypeInv /\ turn \in DOMAIN conns /\ pc' \notin {"closed", "dead"}
  BY DEF IInv, TypeInv, Busy
<1>2. TypeInv'
  BY <1>1, UpdateOne DEF TypeInv
<1>3. \A d \in DOMAIN conns' : ConnInv(d)'
  BY <1>1, UpdateOne, Elsewhere
<1> QED BY <1>2, <1>3 DEF IInv

-----------------------------------------------------------------------------
(* The steps of the clients and of the network.                            *)

LEMMA StepConnect ==
  ASSUME IInv, Connect
  PROVE  IInv'
<1>1. TypeInv
  BY DEF IInv
<1> PICK n \in Nat : n = Len(conns) + 1
  BY <1>1 DEF TypeInv
<1>2. PICK who \in {"program", "other"}, message \in Seq(Nat) :
        /\ conns' = Append(conns, Opened(who, message))
        /\ who = "program" => message = Line
  BY LineOfCommand, ProtocolAssumption DEF Connect, Line
<1>3. Opened(who, message) \in Connection
  <2>1. (IF pc \in {"closed", "dead"} THEN "reset" ELSE "open") \in {"open", "closed", "reset"}
    OBVIOUS
  <2> QED BY <2>1 DEF Opened, Connection
<1>4. /\ conns' \in Seq(Connection) /\ Len(conns') = n /\ conns'[n] = Opened(who, message)
      /\ DOMAIN conns' = DOMAIN conns \cup {n}
      /\ \A d \in DOMAIN conns : conns'[d] = conns[d]
  BY <1>1, <1>2, <1>3 DEF TypeInv
<1>5. TypeInv'
  BY <1>1, <1>4 DEF TypeInv, Connect
<1>6. ConnInv(n)'
  <2>1. turn' < n /\ turn \in Nat /\ UNCHANGED <<turn, pc, data, stop>>
    BY <1>1 DEF TypeInv, Connect
  <2>2. WireInv(n)'
    BY <1>2, <1>4, ProtocolAssumption, LineOfCommand DEF WireInv, Opened
  <2>3. /\ conns'[n].taken = 0 /\ conns'[n].polls = 0 /\ conns'[n].answer = <<>>
        /\ conns'[n].result = "none"
        /\ \/ conns'[n].line = "open"
           \/ conns'[n].line = "reset" /\ pc = "closed" /\ stop
           \/ conns'[n].line = "reset" /\ pc = "dead"
        /\ pc \notin {"closed", "dead"} => conns'[n].line = "open"
    BY <1>1, <1>4 DEF Opened, TypeInv
  <2>4. QueueInv(n)'
    <3>1. ~(n <= turn') /\ n # turn'
      BY <2>1
    <3> QED BY <2>1, <2>3, <3>1 DEF QueueInv
  <2>5. AnswerInv(n)' /\ ResultInv(n)'
    <3>1. <<>> # Unsupported
      BY DEF Unsupported
    <3> QED BY <2>1, <2>3, <3>1 DEF AnswerInv, ResultInv, Late
  <2> QED BY <2>2, <2>4, <2>5 DEF ConnInv
<1>7. \A d \in DOMAIN conns : ConnInv(d)'
  BY <1>4, Untouched DEF Connect
<1> QED BY <1>4, <1>5, <1>6, <1>7 DEF IInv

LEMMA StepDeliver ==
  ASSUME IInv, NEW c \in DOMAIN conns, Deliver(c)
  PROVE  IInv'
<1>1. TypeInv /\ ConnInv(c) /\ conns[c] \in Connection
  BY Fields DEF IInv
<1>2. PICK n \in conns[c].sent + 1 .. Len(conns[c].message) :
        Update(c, [conns[c] EXCEPT !.sent = n,
                                   !.line = IF @ = "open" THEN @ ELSE "reset"])
  BY DEF Deliver
<1> DEFINE conn == [conns[c] EXCEPT !.sent = n,
                                    !.line = IF @ = "open" THEN @ ELSE "reset"]
<1>3. conn \in Connection /\ conns'[c] = conn
  <2>1. n \in Nat /\ conn.line \in {"open", "reset"}
    BY <1>1 DEF Connection
  <2>2. conn \in Connection
    BY <1>1, <2>1 DEF Connection
  <2> QED BY <1>1, <1>2, <2>2, UpdateOne
<1>4. ConnInv(c)'
  <2>1. /\ conn.sent = n /\ conn.line = IF conns[c].line = "open" THEN "open" ELSE "reset"
        /\ \A f \in {"who", "message", "shut", "aborted", "waiting", "taken", "polls", "answer", "got", "result"} :
             conn[f] = conns[c][f]
        /\ conns[c].sent < n /\ n <= Len(conns[c].message) /\ n \in Nat
        /\ conns[c].shut = FALSE
    BY <1>1 DEF Connection, Deliver
  <2>2. UNCHANGED <<turn, pc, data, stop>>
    BY DEF Deliver
  <2> HIDE DEF conn
  <2>3. WireInv(c)'
    <3>1. conns[c].taken \in Nat /\ conns[c].taken <= conns[c].sent /\ conns[c].sent \in Nat
      BY <1>1 DEF ConnInv, WireInv, Connection
    <3>2. conn.taken <= conn.sent /\ conn.sent <= Len(conn.message) /\ ~conn.shut
      BY <2>1, <3>1
    <3>3. conn.polls <= MaxPolls /\ (conn.who = "program" => conn.message = Line /\ ~conn.aborted)
      BY <1>1, <2>1 DEF ConnInv, WireInv
    <3> QED BY <1>3, <3>2, <3>3 DEF WireInv
  <2>4. QueueInv(c)'
    BY <1>1, <1>3, <2>1, <2>2 DEF ConnInv, QueueInv
  <2>5. AnswerInv(c)'
    BY <1>1, <1>3, <2>1, <2>2, LineOfCommand DEF ConnInv, WireInv, AnswerInv, Late, Connection
  <2>6. ResultInv(c)'
    BY <1>1, <1>3, <2>1, <2>2 DEF ConnInv, ResultInv
  <2> QED BY <2>3, <2>4, <2>5, <2>6 DEF ConnInv
<1> QED BY <1>2, <1>3, <1>4, ClientSide DEF Deliver

LEMMA StepDeliverEnd ==
  ASSUME IInv, NEW c \in DOMAIN conns, DeliverEnd(c)
  PROVE  IInv'
<1>1. TypeInv /\ ConnInv(c) /\ conns[c] \in Connection
  BY Fields DEF IInv
<1> DEFINE conn == [conns[c] EXCEPT !.shut = TRUE]
<1>2. conn \in Connection /\ Update(c, conn) /\ conns'[c] = conn
  BY <1>1, UpdateOne DEF Connection, DeliverEnd
<1>3. ConnInv(c)'
  BY <1>1, <1>2 DEF DeliverEnd, Connection, ConnInv, WireInv, QueueInv, AnswerInv, ResultInv, Late
<1> QED BY <1>2, <1>3, ClientSide DEF DeliverEnd

LEMMA StepAbort ==
  ASSUME IInv, NEW c \in DOMAIN conns, Abort(c)
  PROVE  IInv'
<1>1. TypeInv /\ ConnInv(c) /\ conns[c] \in Connection
  BY Fields DEF IInv
<1> DEFINE conn == [conns[c] EXCEPT !.shut = TRUE, !.aborted = TRUE]
<1>2. conn \in Connection /\ Update(c, conn) /\ conns'[c] = conn
  BY <1>1, UpdateOne DEF Connection, Abort
<1>3. ConnInv(c)'
  BY <1>1, <1>2 DEF Abort, Connection, ConnInv, WireInv, QueueInv, AnswerInv, ResultInv, Late
<1> QED BY <1>2, <1>3, ClientSide DEF Abort

LEMMA StepReadAnswer ==
  ASSUME IInv, NEW c \in DOMAIN conns, ReadAnswer(c)
  PROVE  IInv'
<1>1. TypeInv /\ ConnInv(c) /\ conns[c] \in Connection
  BY Fields DEF IInv
<1>2. PICK n \in conns[c].got + 1 .. Len(conns[c].answer) :
        Update(c, [conns[c] EXCEPT !.got = n, !.result = Parsed(conns[c].answer, n)])
  BY DEF ReadAnswer
<1> DEFINE conn == [conns[c] EXCEPT !.got = n, !.result = Parsed(conns[c].answer, n)]
<1>3. /\ n \in 1 .. Len(conns[c].answer)
      /\ conns[c].answer \in {<<>>, Measurement, Unsupported}
  BY <1>1 DEF Connection, Measurement, Unsupported
<1>4. /\ Parsed(conns[c].answer, n) \in {"none", "reading", "refused"}
      /\ Parsed(conns[c].answer, n) = "reading" =>
           conns[c].answer = Measurement /\ n = Len(Measurement)
      /\ Parsed(conns[c].answer, n) = "refused" => conns[c].answer = Unsupported
  BY <1>3, ParseAnswer
<1>5. conn \in Connection /\ conns'[c] = conn
  <2>1. conn \in Connection
    <3>1. n \in Nat
      BY <1>3
    <3> QED BY <1>1, <1>4, <3>1 DEF Connection
  <2> QED BY <1>1, <1>2, <2>1, UpdateOne
<1>6. ConnInv(c)'
  BY <1>1, <1>4, <1>5, SMTT(60)
     DEF ReadAnswer, Connection, ConnInv, WireInv, QueueInv, AnswerInv, ResultInv, Late
<1> QED BY <1>2, <1>5, <1>6, ClientSide DEF ReadAnswer

LEMMA StepReadEnd ==
  ASSUME IInv, NEW c \in DOMAIN conns, ReadEnd(c)
  PROVE  IInv'
<1>1. TypeInv /\ ConnInv(c) /\ conns[c] \in Connection
  BY Fields DEF IInv
<1> DEFINE conn == [conns[c] EXCEPT !.result = conns[c].line]
<1>2. conns[c].line \in {"closed", "reset"}
  BY DEF ReadEnd
<1>3. conn \in Connection /\ Update(c, conn) /\ conns'[c] = conn
  BY <1>1, <1>2, UpdateOne, ZenonT(60) DEF Connection, ReadEnd
<1>4. ConnInv(c)'
  BY <1>1, <1>2, <1>3
     DEF ReadEnd, Connection, ConnInv, WireInv, QueueInv, AnswerInv, ResultInv, Late
<1> QED BY <1>3, <1>4, ClientSide DEF ReadEnd

LEMMA StepGiveUp ==
  ASSUME IInv, NEW c \in DOMAIN conns, GiveUp(c)
  PROVE  IInv'
<1>1. TypeInv /\ ConnInv(c) /\ conns[c] \in Connection
  BY Fields DEF IInv
<1> DEFINE conn == [conns[c] EXCEPT !.result = "timeout"]
<1>2. conn \in Connection /\ Update(c, conn) /\ conns'[c] = conn
  BY <1>1, UpdateOne DEF Connection, GiveUp
<1>3. ConnInv(c)'
  BY <1>1, <1>2 DEF GiveUp, Connection, ConnInv, WireInv, QueueInv, AnswerInv, ResultInv, Late
<1> QED BY <1>2, <1>3, ClientSide DEF GiveUp

-----------------------------------------------------------------------------
(* The steps of the server, and the end of the session.                    *)

LEMMA StepStop ==
  ASSUME IInv, Stop
  PROVE  IInv'
<1>1. TypeInv'
  BY DEF IInv, TypeInv, Stop
<1>2. ASSUME NEW d \in DOMAIN conns PROVE ConnInv(d)'
  BY DEF IInv, Stop, ConnInv, WireInv, QueueInv, AnswerInv, ResultInv, Late
<1> QED BY <1>1, <1>2 DEF IInv, Stop

(* Closing the listener resets the connections whose turn has not come.    *)
LEMMA ListenerClosed ==
  ASSUME TypeInv, CloseListener
  PROVE  /\ conns' \in Seq(Connection) /\ Len(conns') = Len(conns)
         /\ DOMAIN conns' = DOMAIN conns
         /\ \A c \in DOMAIN conns :
              /\ c > turn => /\ conns'[c].line = "reset"
                             /\ \A f \in DOMAIN conns[c] \ {"line"} :
                                  conns'[c][f] = conns[c][f]
              /\ ~(c > turn) => conns'[c] = conns[c]
<1> DEFINE After(c) == IF c > turn THEN [conns[c] EXCEPT !.line = "reset"] ELSE conns[c]
<1>1. conns' = [c \in DOMAIN conns |-> After(c)]
  BY DEF CloseListener
<1>2. \A c \in DOMAIN conns : After(c) \in Connection
  BY Fields, ZenonT(60) DEF Connection
<1>3. /\ conns' \in Seq(Connection) /\ Len(conns') = Len(conns)
      /\ DOMAIN conns' = DOMAIN conns
      /\ \A c \in DOMAIN conns : conns'[c] = After(c)
  <2>1. Len(conns) \in Nat /\ DOMAIN conns = 1 .. Len(conns)
    BY DEF TypeInv
  <2> HIDE DEF After
  <2> QED BY <1>1, <1>2, <2>1
<1>4. ASSUME NEW c \in DOMAIN conns, c > turn
      PROVE  /\ conns'[c].line = "reset"
             /\ \A f \in DOMAIN conns[c] \ {"line"} : conns'[c][f] = conns[c][f]
  <2>1. conns'[c] = [conns[c] EXCEPT !.line = "reset"] /\ conns[c] \in Connection
    BY <1>3, <1>4, Fields
  <2> QED BY <2>1 DEF Connection
<1> QED BY <1>3, <1>4

(* A server that leaves its loop because it was stopped, or because it     *)
(* died of the connection it was reading.                                  *)
LEMMA ListenerStep ==
  ASSUME IInv, CloseListener, UNCHANGED <<turn, data, stop>>,
         \/ pc = "loop" /\ pc' = "closed" /\ stop
         \/ /\ pc \in Busy /\ pc' = "dead"
            /\ conns[turn].who = "other" /\ conns[turn].aborted /\ conns[turn].answer = <<>>
  PROVE  IInv'
<1>1. TypeInv
  BY DEF IInv
<1>2. TypeInv'
  BY <1>1, ListenerClosed DEF TypeInv, Busy
<1>3. ASSUME NEW c \in DOMAIN conns PROVE ConnInv(c)'
  <2>1. ConnInv(c) /\ conns[c] \in Connection /\ turn \in Nat /\ c \in Nat
    BY <1>1, Fields DEF IInv, TypeInv
  <2>2. CASE c > turn
    <3>1. /\ conns'[c].line = "reset"
          /\ \A f \in {"who", "message", "sent", "shut", "aborted", "waiting", "taken",
                       "polls", "answer", "got", "result"} : conns'[c][f] = conns[c][f]
      <4>1. \A f \in {"who", "message", "sent", "shut", "aborted", "waiting", "taken",
                     "polls", "answer", "got", "result"} : f \in DOMAIN conns[c] \ {"line"}
        BY <2>1 DEF Connection
      <4> QED BY <1>1, <2>2, <4>1, ListenerClosed
    <3>2. c # turn /\ ~(c <= turn) /\ turn' = turn /\ turn < c
      BY <2>1, <2>2
    <3>3. WireInv(c)'
      BY <2>1, <3>1 DEF ConnInv, WireInv
    <3>4. QueueInv(c)'
      BY <2>1, <2>2, <3>1, <3>2 DEF ConnInv, QueueInv
    <3>5. AnswerInv(c)'
      BY <2>1, <2>2, <3>1, <3>2 DEF ConnInv, QueueInv, AnswerInv, Late
    <3>6. ResultInv(c)'
      BY <2>1, <3>1 DEF ConnInv, ResultInv
    <3> QED BY <3>3, <3>4, <3>5, <3>6 DEF ConnInv
  <2>3. CASE ~(c > turn)
    <3>1. conns'[c] = conns[c]
      BY <1>1, <2>3, ListenerClosed
    <3> QED BY <2>1, <2>3, <3>1
            DEF ConnInv, WireInv, QueueInv, AnswerInv, ResultInv, Late, Busy
  <2> QED BY <2>2, <2>3
<1> QED BY <1>1, <1>2, <1>3, ListenerClosed DEF IInv

LEMMA StepCheckStop ==
  ASSUME IInv, CheckStop
  PROVE  IInv'
<1>1. CASE stop
  BY <1>1, ListenerStep DEF CheckStop
<1>2. CASE ~stop
  <2>1. conns' = conns /\ pc' = "accept" /\ pc = "loop"
    BY <1>2 DEF CheckStop
  <2> QED BY <2>1 DEF CheckStop, IInv, TypeInv, Busy,
                      ConnInv, WireInv, QueueInv, AnswerInv, ResultInv, Late
<1> QED BY <1>1, <1>2

LEMMA StepAcceptOrPoll ==
  ASSUME IInv, AcceptOrPoll
  PROVE  IInv'
<1>1. TypeInv /\ pc = "accept"
  BY DEF IInv, AcceptOrPoll
<1>2. CASE turn < Len(conns)
  <2>1. PICK n \in Nat : n = turn + 1
    BY <1>1 DEF TypeInv
  <2> DEFINE conn == [conns[n] EXCEPT !.waiting = ~conns[n].shut]
  <2>2. /\ pc' = "receive" /\ turn' = n /\ UNCHANGED <<data, stop>>
        /\ Update(n, conn) /\ n \in DOMAIN conns
    BY <1>1, <1>2, <2>1 DEF AcceptOrPoll, TypeInv
  <2>3. conns[n] \in Connection /\ conn \in Connection
    BY <1>1, <2>2, Fields DEF Connection
  <2>4. /\ conns' \in Seq(Connection) /\ Len(conns') = Len(conns)
        /\ DOMAIN conns' = DOMAIN conns
        /\ conns'[n] = conn
        /\ \A d \in DOMAIN conns : d # n => conns'[d] = conns[d]
    BY <1>1, <2>2, <2>3, UpdateOne
  <2>5. TypeInv'
    BY <1>1, <1>2, <2>1, <2>2, <2>4 DEF TypeInv, Busy
  <2>6. ASSUME NEW d \in DOMAIN conns, d # n PROVE ConnInv(d)'
    BY <1>1, <2>1, <2>2, <2>4, <2>6
       DEF IInv, TypeInv, ConnInv, WireInv, QueueInv, AnswerInv, ResultInv, Late, Busy
  <2>7. ConnInv(n)'
    <3>1. ConnInv(n)
      BY <2>2 DEF IInv
    <3>2. conns[n].taken = 0 /\ conns[n].polls = 0 /\ conns[n].answer = <<>> /\ conns[n].line = "open"
      <4>1. n > turn /\ pc \notin {"closed", "dead"}
        BY <1>1, <2>1 DEF TypeInv
      <4> QED BY <3>1, <4>1 DEF ConnInv, QueueInv
    <3>3. /\ conns'[n].taken = 0 /\ conns'[n].polls = 0 /\ conns'[n].answer = <<>>
          /\ conns'[n].line = "open" /\ conns'[n].waiting = ~conns[n].shut
          /\ \A f \in {"who", "message", "sent", "shut", "aborted", "got", "result"} :
               conns'[n][f] = conns[n][f]
      BY <2>3, <2>4, <3>2 DEF Connection
    <3>4. WireInv(n)'
      BY <3>1, <3>2, <3>3 DEF ConnInv, WireInv
    <3>5. QueueInv(n)'
      <4>1. ~(n > turn') /\ pc' \notin {"closed", "dead"}
        BY <2>1, <2>2
      <4>2. conns[n].shut \in BOOLEAN
        BY <2>3 DEF Connection
      <4> QED BY <3>3, <4>1, <4>2 DEF QueueInv
    <3>6. AnswerInv(n)'
      <4>1. 0 < Len(Command) /\ <<>> # Unsupported
        BY LineOfCommand DEF Unsupported
      <4> QED BY <2>2, <3>3, <4>1 DEF AnswerInv
    <3>7. ResultInv(n)'
      BY <3>1, <3>2, <3>3 DEF ConnInv, ResultInv
    <3> QED BY <3>4, <3>5, <3>6, <3>7 DEF ConnInv
  <2> QED BY <2>4, <2>5, <2>6, <2>7 DEF IInv
<1>3. CASE ~(turn < Len(conns))
  <2>1. conns' = conns /\ turn' = turn /\ pc' = "loop" /\ UNCHANGED <<data, stop>>
    BY <1>3 DEF AcceptOrPoll
  <2> QED BY <1>1, <2>1 DEF IInv, TypeInv, Busy,
                            ConnInv, WireInv, QueueInv, AnswerInv, ResultInv, Late
<1> QED BY <1>2, <1>3

(* What is known of the connection being served.                           *)
LEMMA Serving ==
  ASSUME IInv, pc \in Busy
  PROVE  /\ TypeInv /\ turn \in DOMAIN conns /\ turn \in Nat
         /\ conns[turn] \in Connection /\ ConnInv(turn)
         /\ conns[turn].line = "open" /\ conns[turn].answer = <<>>
<1>1. TypeInv /\ turn \in DOMAIN conns /\ ConnInv(turn) /\ turn \in Nat
  BY DEF IInv, TypeInv
<1>2. conns[turn] \in Connection
  BY <1>1, Fields
<1> QED BY <1>1, <1>2 DEF ConnInv, QueueInv

LEMMA StepCheckDeadline ==
  ASSUME IInv, CheckDeadline
  PROVE  IInv'
<1>1. /\ pc = "receive" /\ pc' \in {"recv", "answer"} /\ UNCHANGED <<conns, turn, stop>>
      /\ pc' = "answer" => stop \/ conns[turn].polls = MaxPolls
  BY DEF CheckDeadline, Take, Current
<1>2. TypeInv'
  BY <1>1 DEF IInv, TypeInv, Busy
<1>3. ASSUME NEW c \in DOMAIN conns PROVE ConnInv(c)'
  <2>1. ConnInv(c)
    BY DEF IInv
  <2> QED BY <1>1, <2>1 DEF ConnInv, WireInv, QueueInv, AnswerInv, ResultInv, Late, Busy
<1> QED BY <1>1, <1>2, <1>3 DEF IInv

LEMMA StepRecvBytes ==
  ASSUME IInv, RecvBytes
  PROVE  IInv'
<1>1. pc = "recv" /\ pc \in Busy /\ UNCHANGED <<turn, stop>>
  BY DEF RecvBytes, Busy
<1>2. PICK n \in Nat : n = Min({conns[turn].sent, MAX_MESSAGE_BYTES})
  BY <1>1, Serving, MinOfTwo, ProtocolAssumption DEF Connection
<1>3. /\ n <= conns[turn].sent /\ conns[turn].taken < conns[turn].sent
      /\ n = conns[turn].sent \/ n = MAX_MESSAGE_BYTES
  BY <1>1, <1>2, Serving, MinOfTwo, ProtocolAssumption DEF Connection, RecvBytes, Current
<1> DEFINE conn == [conns[turn] EXCEPT !.taken = n]
<1>4. Update(turn, conn) /\ Examine(SubSeq(conns[turn].message, 1, n))
  BY <1>2 DEF RecvBytes, Current
<1>5. pc' \in {"receive", "answer"}
  BY <1>4 DEF Examine, Take
<1>6. conn \in Connection /\ conns'[turn] = conn
  BY <1>1, <1>4, Serving, UpdateOne DEF Connection
<1>7. /\ conns'[turn].taken = n
      /\ \A f \in {"who", "message", "sent", "shut", "aborted", "waiting", "polls", "answer", "line", "got", "result"} :
           conns'[turn][f] = conns[turn][f]
  BY <1>1, <1>6, Serving DEF Connection
<1>8. conns[turn].who = "program" =>
        \/ pc' = "receive" /\ n < Len(Command)
        \/ pc' = "answer" /\ data' = Command /\ n >= Len(Command)
  <2> SUFFICES ASSUME conns[turn].who = "program"
               PROVE  \/ pc' = "receive" /\ n < Len(Command)
                      \/ pc' = "answer" /\ data' = Command /\ n >= Len(Command)
    OBVIOUS
  <2>1. conns[turn].message = Line /\ conns[turn].sent <= Len(Line)
    BY <1>1, Serving DEF ConnInv, WireInv
  <2>2. conns[turn].taken \in Nat /\ conns[turn].sent \in Nat
    BY <1>1, Serving DEF Connection
  <2>3. n \in 1 .. Len(Line)
    BY <1>3, <2>1, <2>2, LineOfCommand, ProtocolAssumption, SMTT(60)
  <2> QED BY <1>4, <2>1, <2>3, ExamineLine
<1>9. ConnInv(turn)'
  <2>1. ConnInv(turn) /\ conns[turn].line = "open" /\ conns[turn].answer = <<>>
    BY <1>1, Serving
  <2>2. WireInv(turn)'
    BY <1>1, <1>3, <1>7, <2>1 DEF ConnInv, WireInv
  <2>3. QueueInv(turn)'
    BY <1>1, <1>5, <1>7, <2>1, Serving DEF ConnInv, QueueInv
  <2>4. AnswerInv(turn)'
    <3>1. /\ conns'[turn'].who = conns[turn].who /\ conns'[turn'].taken = n
          /\ conns'[turn'].answer = <<>> /\ conns'[turn'].line = "open" /\ turn' = turn
      BY <1>1, <1>7, <2>1
    <3>2. <<>> # Unsupported
      BY DEF Unsupported
    <3> QED BY <1>5, <1>8, <3>1, <3>2 DEF AnswerInv
  <2>5. ResultInv(turn)'
    BY <1>1, <1>7, <2>1 DEF ConnInv, ResultInv
  <2> QED BY <2>2, <2>3, <2>4, <2>5 DEF ConnInv
<1> QED BY <1>1, <1>4, <1>5, <1>6, <1>9, ServerSide DEF Busy

LEMMA StepRecvEnd ==
  ASSUME IInv, RecvEnd
  PROVE  IInv'
<1>1. /\ pc = "recv" /\ pc \in Busy /\ pc' = "answer" /\ UNCHANGED <<conns, turn, stop>>
      /\ conns[turn].taken = conns[turn].sent /\ conns[turn].shut
  BY DEF RecvEnd, Take, Current, Busy
<1>2. conns[turn].who # "program"
  <2>1. conns[turn].who = "program" =>
          conns[turn].taken < Len(Command) /\ conns[turn].sent = Len(Line)
    BY <1>1, Serving DEF ConnInv, WireInv, AnswerInv
  <2> QED BY <1>1, <2>1, LineOfCommand
<1>3. TypeInv'
  BY <1>1 DEF IInv, TypeInv, Busy
<1>4. ASSUME NEW c \in DOMAIN conns PROVE ConnInv(c)'
  <2>1. ConnInv(c)
    BY DEF IInv
  <2> QED BY <1>1, <1>2, <2>1 DEF ConnInv, WireInv, QueueInv, AnswerInv, ResultInv, Late, Busy
<1> QED BY <1>1, <1>3, <1>4 DEF IInv

LEMMA StepRecvTimesOut ==
  ASSUME IInv, RecvTimesOut
  PROVE  IInv'
<1>1. /\ pc = "recv" /\ pc \in Busy /\ pc' = "receive" /\ UNCHANGED <<turn, data, stop>>
      /\ ~conns[turn].shut
  BY DEF RecvTimesOut, Current, Busy
<1>2. /\ conns[turn].polls + 1 \in Nat /\ MaxPolls \in Nat
      /\ Min({conns[turn].polls + 1, MaxPolls}) \in {conns[turn].polls + 1, MaxPolls}
      /\ Min({conns[turn].polls + 1, MaxPolls}) <= MaxPolls
  <2>1. conns[turn].polls + 1 \in Nat /\ MaxPolls \in Nat
    BY <1>1, Serving, ProtocolAssumption DEF Connection
  <2> QED BY <2>1, MinOfTwo
<1>3. PICK n \in Nat : n = Min({conns[turn].polls + 1, MaxPolls}) /\ n <= MaxPolls
  BY <1>2
<1> DEFINE conn == [conns[turn] EXCEPT !.polls = n]
<1>4. Update(turn, conn)
  <2>1. [conns[turn] EXCEPT !.polls = Min({@ + 1, MaxPolls})] = conn
    BY <1>3
  <2> QED BY <2>1 DEF RecvTimesOut, Current
<1>5. conn \in Connection /\ conns'[turn] = conn
  BY <1>1, <1>4, Serving, UpdateOne DEF Connection
<1>6. /\ conns'[turn].polls = n
      /\ \A f \in {"who", "message", "sent", "shut", "aborted", "waiting", "taken", "answer", "line", "got", "result"} :
           conns'[turn][f] = conns[turn][f]
  BY <1>1, <1>5, Serving DEF Connection
<1>7. ConnInv(turn)'
  <2>1. ConnInv(turn) /\ conns[turn].line = "open" /\ conns[turn].answer = <<>>
    BY <1>1, Serving
  <2>2. WireInv(turn)'
    BY <1>1, <1>3, <1>6, <2>1 DEF ConnInv, WireInv
  <2>3. QueueInv(turn)'
    BY <1>1, <1>6, <2>1, Serving DEF ConnInv, QueueInv
  <2>4. AnswerInv(turn)'
    <3>1. <<>> # Unsupported
      BY DEF Unsupported
    <3> QED BY <1>1, <1>6, <2>1, <3>1 DEF ConnInv, AnswerInv
  <2>5. ResultInv(turn)'
    BY <1>1, <1>6, <2>1 DEF ConnInv, ResultInv
  <2> QED BY <2>2, <2>3, <2>4, <2>5 DEF ConnInv
<1> QED BY <1>1, <1>4, <1>5, <1>7, ServerSide DEF Busy

(* Only the connection of another program is ever reset by its client.     *)
LEMMA StepRecvReset ==
  ASSUME IInv, RecvReset
  PROVE  IInv'
<1>1. /\ pc \in Busy /\ pc' = "dead" /\ CloseListener /\ UNCHANGED <<turn, data, stop>>
      /\ conns[turn].aborted
  BY DEF RecvReset, Current, Busy
<1>2. conns[turn].who = "other" /\ conns[turn].answer = <<>>
  BY <1>1, Serving DEF ConnInv, WireInv, Connection
<1> QED BY <1>1, <1>2, ListenerStep

LEMMA StepAnswer ==
  ASSUME IInv, Answer
  PROVE  IInv'
<1> DEFINE answer == IF data = <<>> \/ stop THEN <<>>
                     ELSE IF data = Command THEN Measurement ELSE Unsupported
           line == IF conns[turn].taken < conns[turn].sent THEN "reset" ELSE "closed"
           conn == [conns[turn] EXCEPT !.answer = answer, !.line = line]
<1>1. /\ pc = "answer" /\ pc \in Busy /\ pc' = "loop" /\ UNCHANGED <<turn, stop>>
      /\ Update(turn, conn)
  BY DEF Answer, Current, Busy
<1>2. /\ answer \in {<<>>, Measurement, Unsupported} /\ line \in {"closed", "reset"}
      /\ line = "reset" => conns[turn].taken < conns[turn].sent
  OBVIOUS
<1>3. ~stop /\ data = Command => answer = Measurement
  BY ProtocolAssumption
<1>4. answer = Unsupported => data # Command
  <2>1. <<>> # Unsupported /\ Measurement # Unsupported
    BY DEF Measurement, Unsupported
  <2> QED BY <2>1
<1> HIDE DEF answer, line
<1>5. conn \in Connection /\ conns'[turn] = conn
  BY <1>1, <1>2, Serving, UpdateOne, ZenonT(60) DEF Connection
<1>6. /\ conns'[turn].answer = answer /\ conns'[turn].line = line
      /\ \A f \in {"who", "message", "sent", "shut", "aborted", "waiting", "taken", "polls", "got", "result"} :
           conns'[turn][f] = conns[turn][f]
  BY <1>1, <1>5, Serving DEF Connection
<1>7. ConnInv(turn)'
  <2>1. /\ ConnInv(turn) /\ conns[turn].line = "open" /\ conns[turn].answer = <<>>
        /\ <<>> # Unsupported /\ <<>> # Measurement
    BY <1>1, Serving DEF Measurement, Unsupported
  <2>2. WireInv(turn)'
    BY <1>1, <1>6, <2>1 DEF ConnInv, WireInv
  <2>3. QueueInv(turn)'
    BY <1>1, <1>6, <2>1, Serving DEF ConnInv, QueueInv, Busy
  <2>4. AnswerInv(turn)'
    <3>1. CASE conns[turn].who = "program"
      <4>1. stop \/ conns[turn].polls = MaxPolls \/ (data = Command /\ conns[turn].taken >= Len(Command))
        BY <1>1, <2>1, <3>1 DEF ConnInv, AnswerInv, Late
      <4>2. line = "reset" /\ conns[turn].taken >= Len(Command) => conns[turn].taken = Len(Command)
        BY <1>1, <1>2, <2>1, <3>1, Serving, LineOfCommand DEF ConnInv, WireInv, Connection
      <4> QED BY <1>1, <1>2, <1>3, <1>4, <1>6, <4>1, <4>2 DEF AnswerInv, Late
    <3>2. CASE conns[turn].who # "program"
      BY <1>1, <1>6, <3>2 DEF AnswerInv
    <3> QED BY <3>1, <3>2
  <2>5. ResultInv(turn)'
    BY <1>1, <1>6, <2>1 DEF ConnInv, ResultInv
  <2> QED BY <2>2, <2>3, <2>4, <2>5 DEF ConnInv
<1> QED BY <1>1, <1>5, <1>7, ServerSide

-----------------------------------------------------------------------------
(* IInv is inductive, and implies the property.                            *)

LEMMA NextPreserves == IInv /\ [Next]_vars => IInv'
<1> SUFFICES ASSUME IInv, [Next]_vars PROVE IInv'
  OBVIOUS
<1>1. CASE Connect
  BY <1>1, StepConnect
<1>2. CASE Stop
  BY <1>2, StepStop
<1>3. CASE ServerStep
  BY <1>3, StepCheckStop, StepAcceptOrPoll, StepCheckDeadline, StepRecvBytes,
     StepRecvEnd, StepRecvTimesOut, StepRecvReset, StepAnswer DEF ServerStep
<1>4. ASSUME NEW c \in DOMAIN conns,
             \/ Deliver(c) \/ DeliverEnd(c) \/ Abort(c)
             \/ ReadAnswer(c) \/ ReadEnd(c) \/ GiveUp(c)
      PROVE  IInv'
  BY <1>4, StepDeliver, StepDeliverEnd, StepAbort, StepReadAnswer, StepReadEnd, StepGiveUp
<1>5. CASE UNCHANGED vars
  BY <1>5 DEF vars, IInv, TypeInv, ConnInv, WireInv, QueueInv, AnswerInv, ResultInv, Late
<1> QED BY <1>1, <1>2, <1>3, <1>4, <1>5 DEF Next

LEMMA InvariantSuffices == IInv => RequestsSucceed
<1> SUFFICES ASSUME IInv PROVE RequestsSucceed
  OBVIOUS
<1>1. ASSUME NEW c \in Program
      PROVE  \/ conns[c].result \in {"none", "timeout"}
             \/ conns[c].result = "reading" /\ conns[c].got = Len(Measurement)
             \/ conns[c].result # "reading" /\ Excused(c)
  <2>1. c \in DOMAIN conns /\ conns[c].who = "program"
    BY DEF Program
  <2>2. ConnInv(c) /\ conns[c] \in Connection
    BY <2>1, Fields DEF IInv
  <2>3. <<>> # Measurement
    BY DEF Measurement
  <2>4. conns[c].line \in {"open", "closed", "reset"}
        /\ conns[c].result \in {"none", "reading", "refused", "closed", "reset", "timeout"}
    BY <2>2 DEF Connection
  <2>5. pc = "dead" /\ turn < c => KilledBefore(c)
    <3>1. pc = "dead" => ConnInv(turn)
      BY DEF IInv, TypeInv
    <3> QED BY <3>1 DEF ConnInv, QueueInv, KilledBefore, Current
  <2> QED BY <2>1, <2>2, <2>3, <2>4, <2>5
          DEF ConnInv, AnswerInv, ResultInv, Late, Excused
<1>2. AbandonedAreCheap
  <2>1. ASSUME NEW c \in 1 .. turn, ~conns[c].waiting PROVE conns[c].polls = 0
    <3>1. c \in DOMAIN conns /\ c <= turn
      BY DEF IInv, TypeInv
    <3> QED BY <2>1, <3>1 DEF IInv, ConnInv, QueueInv
  <2> QED BY <2>1 DEF AbandonedAreCheap
<1> QED BY <1>1, <1>2 DEF RequestsSucceed

(* In every behaviour, for any command, any messages of other programs and *)
(* any fragmentation: a request of the program that ends before its client *)
(* loses patience has read a whole measurement, or the emulator was told   *)
(* to stop or was killed by another client's reset in mid-command, or the  *)
(* bytes took as long as the server waits, or the delimiter came apart from*)
(* the command and its reset took the answer; and a connection that was    *)
(* complete at its turn costs the server no waiting.                       *)
THEOREM RequestsGetMeasurements == Spec => []RequestsSucceed
<1>1. Init => IInv
  BY InitEstablishes
<1>2. IInv /\ [Next]_vars => IInv'
  BY NextPreserves
<1>3. IInv => RequestsSucceed
  BY InvariantSuffices
<1> QED BY <1>1, <1>2, <1>3, PTL DEF Spec

-----------------------------------------------------------------------------
(* The frames of the messages.                                             *)

(* What all of a message may turn out to be: its first n bytes.            *)
Lengths(conn) == IF conn.shut THEN {conn.sent} ELSE conn.sent .. Len(conn.message)

Piece(message, n) == SubSeq(message, 1, n)

(* The server's verdict is that of every frame the message may have.       *)
SaysOf(conn, yes) ==
  \A n \in Lengths(conn) : yes <=> Frame(Piece(conn.message, n)) = Command

\* The messages FramesAreExact speaks of.
Plain(conn) == ~GoesOn(conn) /\ conn.polls < MaxPolls

FrameInv(c) ==
  Plain(conns[c]) =>
    /\ conns[c].answer # <<>> => SaysOf(conns[c], conns[c].answer = Measurement)
    /\ c = turn /\ pc = "answer" /\ ~stop /\ data # <<>> => SaysOf(conns[c], data = Command)
    /\ c = turn /\ pc \in {"receive", "recv"} =>
         Delimiters(Piece(conns[c].message, conns[c].taken)) = {}

FrameIInv == IInv /\ \A c \in DOMAIN conns : FrameInv(c)

-----------------------------------------------------------------------------
(* Least and greatest elements.                                            *)

(* A set of numbers that is not empty has a least element.                 *)
LEMMA MinOfSet ==
  ASSUME NEW S, S \subseteq Nat, S # {}
  PROVE  Min(S) \in S /\ \A x \in S : Min(S) <= x
<1> DEFINE T == {0 .. x : x \in S}
           R == StrictSubsetOrdering(Nat)
<1>1. T \subseteq FiniteSubsetsOf(Nat) /\ T # {}
  <2>1. ASSUME NEW x \in S PROVE 0 .. x \in FiniteSubsetsOf(Nat)
    <3>1. IsFiniteSet(0 .. x) /\ 0 .. x \subseteq Nat
      BY FS_Interval
    <3> QED BY <3>1 DEF FiniteSubsetsOf
  <2> QED BY <2>1
<1>2. PICK I \in T : \A J \in T : ~(<<J, I>> \in R)
  <2>1. IsWellFoundedOn(R, FiniteSubsetsOf(Nat))
    BY FS_StrictSubsetOrderingWellFounded
  <2> HIDE DEF T, R
  <2> QED BY <1>1, <2>1, WFMin
<1>3. PICK x \in S : I = 0 .. x
  BY <1>2
<1>4. ASSUME NEW y \in S PROVE x <= y
  <2>1. ~(<<0 .. y, 0 .. x>> \in R)
    BY <1>2, <1>3
  <2>2. ~(0 .. y \subseteq 0 .. x /\ 0 .. y # 0 .. x)
    BY <2>1 DEF StrictSubsetOrdering
  <2>3. CASE y < x
    <3>1. 0 .. y \subseteq 0 .. x /\ x \in 0 .. x /\ x \notin 0 .. y
      BY <2>3
    <3> QED BY <2>2, <3>1
  <2> QED BY <2>3
<1> QED BY <1>4 DEF Min

(* A set of numbers up to a bound that is not empty has a greatest element.*)
LEMMA MaxOfSet ==
  ASSUME NEW N \in Nat, NEW S, S \subseteq 0 .. N, S # {}
  PROVE  Max(S) \in S /\ \A x \in S : Max(S) >= x
<1> DEFINE T == {N - x : x \in S}
<1>1. T \subseteq Nat /\ T # {}
  <2>1. \A x \in S : x \in Nat /\ N - x \in Nat
    OBVIOUS
  <2> QED BY <2>1
<1>2. Min(T) \in T /\ \A y \in T : Min(T) <= y
  BY <1>1, MinOfSet
<1>3. PICK x \in S : Min(T) = N - x
  BY <1>2
<1>4. \A y \in S : N - x <= N - y
  BY <1>2, <1>3
<1>5. \A y \in S : x >= y
  BY <1>4
<1> QED BY <1>5 DEF Max

-----------------------------------------------------------------------------
(* Frames.                                                                 *)

(* The first bytes of a message.                                           *)
LEMMA PieceOf ==
  ASSUME NEW m \in Seq(Nat), NEW n \in 0 .. Len(m)
  PROVE  /\ Piece(m, n) \in Seq(Nat) /\ Len(Piece(m, n)) = n
         /\ DOMAIN Piece(m, n) = 1 .. n
         /\ \A i \in 1 .. n : Piece(m, n)[i] = m[i]
BY DEF Piece

(* The first delimiter of a sequence of bytes.                             *)
LEMMA FirstDelimiter ==
  ASSUME NEW b \in Seq(Nat), Delimiters(b) # {}
  PROVE  /\ Min(Delimiters(b)) \in 1 .. Len(b) /\ b[Min(Delimiters(b))] = LF
         /\ \A i \in 1 .. Len(b) : b[i] = LF => Min(Delimiters(b)) <= i
<1>1. Delimiters(b) = {i \in 1 .. Len(b) : b[i] = LF}
  BY DEF Delimiters
<1>2. Delimiters(b) \subseteq Nat
  BY <1>1
<1> QED BY <1>1, <1>2, MinOfSet

(* What is trimmed off a line are CRs at its end.                          *)
Trimmed(line) == SubSeq(line, 1, Max({0} \cup {i \in DOMAIN line : line[i] # CR}))

LEMMA TrimmedLine ==
  ASSUME NEW line \in Seq(Nat)
  PROVE  \E k \in 0 .. Len(line) : Trimmed(line) = Piece(line, k)
<1> DEFINE S == {0} \cup {i \in DOMAIN line : line[i] # CR}
<1>1. S \subseteq 0 .. Len(line) /\ S # {} /\ Len(line) \in Nat
  OBVIOUS
<1>2. Max(S) \in 0 .. Len(line)
  BY <1>1, MaxOfSet
<1> QED BY <1>2 DEF Trimmed, Piece

LEMMA FrameCases ==
  ASSUME NEW b
  PROVE  /\ Delimiters(b) = {} => Frame(b) = b
         /\ Delimiters(b) # {} => Frame(b) = Trimmed(Piece(b, Min(Delimiters(b)) - 1))
BY DEF Frame, Trimmed, Piece

(* Bytes that come after a delimiter do not change the frame.              *)
LEMMA FrameIsLocal ==
  ASSUME NEW m \in Seq(Nat), NEW p \in 0 .. Len(m), NEW n \in p .. Len(m),
         Delimiters(Piece(m, p)) # {}
  PROVE  Frame(Piece(m, n)) = Frame(Piece(m, p))
<1> DEFINE a == Piece(m, n)
           b == Piece(m, p)
           k == Min(Delimiters(b))
           l == Min(Delimiters(a))
<1>1. n \in 0 .. Len(m) /\ p <= n /\ p \in Nat
  OBVIOUS
<1>2. /\ b \in Seq(Nat) /\ Len(b) = p /\ \A i \in 1 .. p : b[i] = m[i]
      /\ a \in Seq(Nat) /\ Len(a) = n /\ DOMAIN a = 1 .. n /\ \A i \in 1 .. n : a[i] = m[i]
  BY <1>1, PieceOf
<1> HIDE DEF a, b
<1>3. /\ k \in 1 .. p /\ m[k] = LF
      /\ \A i \in 1 .. p : m[i] = LF => k <= i
  BY <1>2, FirstDelimiter DEF b
<1>4. Delimiters(a) # {}
  <2>1. k \in DOMAIN a /\ a[k] = LF
    BY <1>1, <1>2, <1>3, SMTT(60)
  <2> QED BY <2>1 DEF Delimiters
<1>5. /\ l \in 1 .. n /\ m[l] = LF
      /\ \A i \in 1 .. n : m[i] = LF => l <= i
  BY <1>2, <1>4, FirstDelimiter
<1>6. k = l
  BY <1>1, <1>3, <1>5
<1>7. Piece(a, k - 1) = Piece(b, k - 1)
  <2>1. k - 1 \in 0 .. Len(a) /\ k - 1 \in 0 .. Len(b)
    BY <1>1, <1>2, <1>3, SMTT(60)
  <2>2. /\ Piece(a, k - 1) \in Seq(Nat) /\ Len(Piece(a, k - 1)) = k - 1
        /\ \A i \in 1 .. k - 1 : Piece(a, k - 1)[i] = a[i]
        /\ Piece(b, k - 1) \in Seq(Nat) /\ Len(Piece(b, k - 1)) = k - 1
        /\ \A i \in 1 .. k - 1 : Piece(b, k - 1)[i] = b[i]
    BY <1>2, <2>1, PieceOf
  <2> HIDE DEF k, l
  <2>3. ASSUME NEW i \in 1 .. k - 1 PROVE a[i] = b[i]
    <3>1. i \in 1 .. p /\ i \in 1 .. n
      BY <1>1, <1>3
    <3> QED BY <1>2, <3>1
  <2> QED BY <2>2, <2>3, SeqEqual
<1>8. Delimiters(b) # {}
  BY DEF b
<1>9. Frame(a) = Frame(b)
  <2> HIDE DEF k, l
  <2> QED BY <1>4, <1>6, <1>7, <1>8, FrameCases DEF k, l
<1> QED BY <1>9 DEF a, b

(* Only what begins with the command has the command as its frame.         *)
LEMMA FrameBeginsMessage ==
  ASSUME NEW m \in Seq(Nat), NEW n \in 0 .. Len(m), Frame(Piece(m, n)) = Command
  PROVE  Len(Command) <= n /\ \A i \in 1 .. Len(Command) : m[i] = Command[i]
<1> DEFINE b == Piece(m, n)
<1>0. b \in Seq(Nat) /\ Len(b) = n /\ \A i \in 1 .. n : b[i] = m[i]
  BY PieceOf
<1> SUFFICES \E j \in 0 .. n : Len(Command) = j /\ \A i \in 1 .. j : Command[i] = b[i]
  BY <1>0
<1>1. CASE Delimiters(b) = {}
  <2>1. Command = b
    BY <1>1, FrameCases
  <2> QED BY <1>0, <2>1
<1>2. CASE Delimiters(b) # {}
  <2> DEFINE k == Min(Delimiters(b)) - 1
             line == Piece(b, k)
  <2>1. k \in 0 .. n
    BY <1>0, <1>2, FirstDelimiter
  <2>2. line \in Seq(Nat) /\ Len(line) = k /\ \A i \in 1 .. k : line[i] = b[i]
    BY <1>0, <2>1, PieceOf
  <2>3. Command = Trimmed(line)
    BY <1>2, FrameCases
  <2> HIDE DEF b, k, line
  <2>4. PICK j \in 0 .. k : Command = Piece(line, j)
    BY <2>2, <2>3, TrimmedLine
  <2>5. Len(Command) = j /\ \A i \in 1 .. j : Command[i] = line[i]
    BY <2>1, <2>2, <2>4, PieceOf
  <2> QED BY <2>1, <2>2, <2>5
<1> QED BY <1>1, <1>2

(* The command, alone or before a delimiter, is what such a message says.  *)
LEMMA FrameOfCommand ==
  ASSUME NEW m \in Seq(Nat), NEW n \in Len(Command) .. Len(m),
         \A i \in 1 .. Len(Command) : m[i] = Command[i],
         n = Len(Command) \/ m[Len(Command) + 1] = LF
  PROVE  Frame(Piece(m, n)) = Command
<1>1. Len(Command) \in Nat \ {0} /\ Command \in Seq(Nat) /\ n \in 0 .. Len(m)
  BY LineOfCommand
<1>2. CASE n = Len(Command)
  <2>1. Piece(m, n) = Command
    <3>1. /\ Piece(m, n) \in Seq(Nat) /\ Len(Piece(m, n)) = Len(Command)
          /\ \A i \in 1 .. Len(Command) : Piece(m, n)[i] = m[i]
      BY <1>1, <1>2, PieceOf
    <3> QED BY <1>1, <3>1, SeqEqual
  <2>2. Delimiters(Command) = {}
    BY ProtocolAssumption, ElementOfSeq DEF Delimiters
  <2> QED BY <2>1, <2>2, FrameCases
<1>3. CASE n > Len(Command) /\ m[Len(Command) + 1] = LF
  <2> DEFINE l == Len(Command) + 1
  <2>1. l \in 0 .. Len(m) /\ n \in l .. Len(m)
    BY <1>1, <1>3
  <2>2. Piece(m, l) = Line
    <3>1. /\ Piece(m, l) \in Seq(Nat) /\ Len(Piece(m, l)) = l
          /\ \A i \in 1 .. l : Piece(m, l)[i] = m[i]
      BY <2>1, PieceOf
    <3>2. Line \in Seq(Nat) /\ Len(Line) = l /\ Line[l] = LF
      BY LineOfCommand
    <3>3. ASSUME NEW i \in 1 .. l PROVE m[i] = Line[i]
      <4>1. CASE i = l
        BY <1>3, <3>2, <4>1
      <4>2. CASE i # l
        <5>1. i \in 1 .. Len(Command)
          BY <1>1, <4>2
        <5> QED BY <5>1, LineOfCommand
      <4> QED BY <4>1, <4>2
    <3> HIDE DEF l
    <3> QED BY <3>1, <3>2, <3>3, SeqEqual
  <2>3. Delimiters(Piece(m, l)) # {} /\ Frame(Piece(m, l)) = Command
    BY <2>2, FrameOfLine
  <2> QED BY <2>1, <2>3, FrameIsLocal
<1> QED BY <1>1, <1>2, <1>3

-----------------------------------------------------------------------------
(* When the server decides.                                                *)

(* A message that begins with the command and does not go on after it is   *)
(* the command alone or has the delimiter next.                            *)
LEMMA CommandEnds ==
  ASSUME NEW conn \in Connection, ~GoesOn(conn), Len(Command) < Len(conn.message),
         \A i \in 1 .. Len(Command) : conn.message[i] = Command[i]
  PROVE  conn.message[Len(Command) + 1] = LF
<1> DEFINE m == conn.message
<1>1. m \in Seq(Nat) /\ Len(m) \in Nat
  BY DEF Connection
<1>2. Len(Command) \in 0 .. Len(m)
  BY <1>1, LineOfCommand
<1>3. /\ SubSeq(m, 1, Len(Command)) \in Seq(Nat)
      /\ Len(SubSeq(m, 1, Len(Command))) = Len(Command)
      /\ \A i \in 1 .. Len(Command) : SubSeq(m, 1, Len(Command))[i] = m[i]
  BY <1>1, <1>2, PieceOf DEF Piece
<1>4. SubSeq(m, 1, Len(Command)) = Command
  BY <1>3, LineOfCommand, SeqEqual
<1>5. SubSeq(Command, 1, Len(Command)) = Command
  BY LineOfCommand, SubSeqFull
<1>6. IsPrefix(Command, m)
  BY <1>2, <1>4, <1>5 DEF IsPrefix
<1> QED BY <1>6 DEF GoesOn

(* Bytes without a delimiter that may become a message with the command as *)
(* its frame are a beginning of the command.                               *)
LEMMA BeginningOfCommand ==
  ASSUME NEW conn \in Connection, ~GoesOn(conn),
         NEW p \in 0 .. Len(conn.message), NEW n \in p .. Len(conn.message),
         Delimiters(Piece(conn.message, p)) = {},
         Frame(Piece(conn.message, n)) = Command
  PROVE  p <= Len(Command) /\ Piece(conn.message, p) = Piece(Command, p)
<1> DEFINE m == conn.message
<1>1. m \in Seq(Nat) /\ Len(m) \in Nat /\ n \in 0 .. Len(m) /\ p \in Nat
  BY DEF Connection
<1>2. /\ Len(Command) <= n /\ Len(Command) \in Nat
      /\ \A i \in 1 .. Len(Command) : m[i] = Command[i]
  BY <1>1, FrameBeginsMessage, LineOfCommand
<1>3. /\ Piece(m, p) \in Seq(Nat) /\ Len(Piece(m, p)) = p /\ DOMAIN Piece(m, p) = 1 .. p
      /\ \A i \in 1 .. p : Piece(m, p)[i] = m[i]
  BY <1>1, PieceOf
<1>4. p <= Len(Command)
  <2> SUFFICES ASSUME p > Len(Command) PROVE FALSE
    BY <1>1, <1>2
  <2>1. Len(Command) < Len(m) /\ Len(Command) + 1 \in 1 .. p
    BY <1>1, <1>2
  <2>2. m[Len(Command) + 1] = LF
    BY <1>2, <2>1, CommandEnds
  <2>3. Len(Command) + 1 \in Delimiters(Piece(m, p))
    BY <1>3, <2>1, <2>2 DEF Delimiters
  <2> QED BY <2>3
<1>5. p \in 0 .. Len(Command)
  BY <1>1, <1>2, <1>4
<1>6. /\ Piece(Command, p) \in Seq(Nat) /\ Len(Piece(Command, p)) = p
      /\ \A i \in 1 .. p : Piece(Command, p)[i] = Command[i]
  BY <1>5, PieceOf, LineOfCommand
<1>7. \A i \in 1 .. p : m[i] = Command[i]
  BY <1>2, <1>5
<1> HIDE DEF m
<1>8. Piece(m, p) = Piece(Command, p)
  BY <1>3, <1>6, <1>7, SeqEqual
<1> QED BY <1>4, <1>8 DEF m

(* The server takes what it has read for the command if and only if that   *)
(* is the frame of the message, however it will go on.                     *)
LEMMA ExamineDecides ==
  ASSUME NEW conn \in Connection, ~GoesOn(conn),
         NEW p \in 1 .. Len(conn.message), NEW n \in p .. Len(conn.message),
         Examine(Piece(conn.message, p)), pc' = "answer"
  PROVE  data' = Command <=> Frame(Piece(conn.message, n)) = Command
<1> DEFINE m == conn.message
           all == Piece(m, p)
<1>1. m \in Seq(Nat) /\ Len(m) \in Nat /\ n \in 0 .. Len(m) /\ p \in 0 .. Len(m)
  BY DEF Connection
<1>2. /\ all \in Seq(Nat) /\ Len(all) = p
      /\ \A i \in 1 .. p : all[i] = m[i]
  BY <1>1, PieceOf
<1>3. CASE Delimiters(all) # {}
  <2>1. data' = Frame(all)
    BY <1>3 DEF Examine, Take
  <2>2. Frame(Piece(m, n)) = Frame(all)
    BY <1>1, <1>3, FrameIsLocal
  <2> QED BY <2>1, <2>2
<1>4. CASE Delimiters(all) = {}
  <2>1. data' = all
    <3> HIDE DEF all
    <3> QED BY <1>4 DEF Examine, Take, all
  <2>2. all = Command \/ Len(all) >= MAX_MESSAGE_BYTES \/ ~IsPrefix(all, Command)
    <3> HIDE DEF all
    <3> QED BY <1>4 DEF Examine, Take, all
  <2>3. ASSUME all = Command PROVE Frame(Piece(m, n)) = Command
    <3>1. p = Len(Command) /\ \A i \in 1 .. Len(Command) : m[i] = Command[i]
      BY <1>2, <2>3
    <3>2. n = Len(Command) \/ Len(Command) < Len(m)
      BY <1>1, <3>1
    <3>3. n = Len(Command) \/ m[Len(Command) + 1] = LF
      BY <3>1, <3>2, CommandEnds
    <3>4. n \in Len(Command) .. Len(m)
      BY <3>1
    <3> QED BY <1>1, <3>1, <3>3, <3>4, FrameOfCommand
  <2>4. ASSUME Frame(Piece(m, n)) = Command PROVE all = Command
    <3>1. p <= Len(Command) /\ all = Piece(Command, p)
      BY <1>1, <1>4, <2>4, BeginningOfCommand
    <3>2. ~(Len(all) >= MAX_MESSAGE_BYTES)
      BY <1>1, <1>2, <3>1, LineOfCommand, ProtocolAssumption
    <3>3. SubSeq(all, 1, p) = all
      BY <1>2, SubSeqFull
    <3>4. IsPrefix(all, Command)
      BY <1>2, <3>1, <3>3 DEF IsPrefix, Piece
    <3> QED BY <2>2, <3>2, <3>4
  <2> QED BY <2>1, <2>3, <2>4
<1> QED BY <1>3, <1>4

-----------------------------------------------------------------------------
(* The steps.                                                              *)

(* A connection whose turn it is not, and that stays as it is, keeps its   *)
(* invariant.                                                              *)
LEMMA FrameElsewhere ==
  ASSUME NEW d \in DOMAIN conns, FrameInv(d), d # turn', conns'[d] = conns[d]
  PROVE  FrameInv(d)'
BY DEF FrameInv, Plain

(* So does one that is where it was, while the server is where it was.     *)
LEMMA FrameUntouched ==
  ASSUME NEW d \in DOMAIN conns, FrameInv(d), conns'[d] = conns[d],
         UNCHANGED <<turn, pc, data>>, stop => stop'
  PROVE  FrameInv(d)'
BY DEF FrameInv, Plain

(* What arrives, or is read by the client, leaves fewer ways for the       *)
(* message to go on.                                                       *)
LEMMA FrameArrives ==
  ASSUME NEW d \in DOMAIN conns, FrameInv(d), UNCHANGED <<turn, pc, data, stop>>,
         Lengths(conns'[d]) \subseteq Lengths(conns[d]),
         \A f \in {"message", "taken", "polls", "answer"} : conns'[d][f] = conns[d][f]
  PROVE  FrameInv(d)'
<1>1. Plain(conns'[d]) => Plain(conns[d])
  BY DEF Plain, GoesOn
<1>2. \A yes \in BOOLEAN : SaysOf(conns[d], yes) => SaysOf(conns'[d], yes)
  BY DEF SaysOf
<1>3. /\ (conns[d].answer = Measurement) \in BOOLEAN /\ (data = Command) \in BOOLEAN
      /\ conns'[d].answer = conns[d].answer /\ conns'[d].message = conns[d].message
      /\ conns'[d].taken = conns[d].taken
  OBVIOUS
<1> QED BY <1>1, <1>2, <1>3 DEF FrameInv

(* A step of a client or of the network touches one connection.            *)
LEMMA FrameClientSide ==
  ASSUME FrameIInv, IInv', NEW c \in DOMAIN conns, NEW conn, Update(c, conn),
         UNCHANGED <<turn, pc, data, stop>>, Lengths(conn) \subseteq Lengths(conns[c]),
         \A f \in {"message", "taken", "polls", "answer"} : conn[f] = conns[c][f]
  PROVE  FrameIInv'
<1>1. /\ DOMAIN conns' = DOMAIN conns /\ conns'[c] = conn
      /\ \A d \in DOMAIN conns : d # c => conns'[d] = conns[d]
  BY DEF FrameIInv, IInv, TypeInv, Update
<1>2. FrameInv(c)'
  BY <1>1, FrameArrives DEF FrameIInv
<1>3. ASSUME NEW d \in DOMAIN conns, d # c PROVE FrameInv(d)'
  BY <1>1, <1>3, FrameUntouched DEF FrameIInv
<1> QED BY <1>1, <1>2, <1>3 DEF FrameIInv

(* A step of the server touches the connection whose turn it is.           *)
LEMMA FrameServerSide ==
  ASSUME FrameIInv, IInv', pc \in Busy, DOMAIN conns' = DOMAIN conns, turn' = turn,
         \A d \in DOMAIN conns : d # turn => conns'[d] = conns[d], FrameInv(turn)'
  PROVE  FrameIInv'
<1>1. ASSUME NEW d \in DOMAIN conns, d # turn PROVE FrameInv(d)'
  BY <1>1, FrameElsewhere DEF FrameIInv
<1> QED BY <1>1 DEF FrameIInv

LEMMA FrameConnect ==
  ASSUME FrameIInv, IInv', Connect
  PROVE  FrameIInv'
<1> PICK n \in Nat : n = Len(conns) + 1
  BY DEF FrameIInv, IInv, TypeInv
<1>1. PICK who, message : conns' = Append(conns, Opened(who, message))
  BY DEF Connect
<1>2. /\ DOMAIN conns' = DOMAIN conns \cup {n} /\ conns'[n] = Opened(who, message)
      /\ \A d \in DOMAIN conns : conns'[d] = conns[d]
  BY <1>1 DEF FrameIInv, IInv, TypeInv
<1>3. n # turn' /\ UNCHANGED <<turn, pc, data, stop>>
  BY DEF FrameIInv, IInv, TypeInv, Connect
<1>4. FrameInv(n)'
  BY <1>2, <1>3 DEF FrameInv, Opened
<1>5. \A d \in DOMAIN conns : FrameInv(d)'
  BY <1>2, <1>3, FrameUntouched DEF FrameIInv
<1> QED BY <1>2, <1>4, <1>5 DEF FrameIInv

LEMMA FrameDeliver ==
  ASSUME FrameIInv, IInv', NEW c \in DOMAIN conns, Deliver(c)
  PROVE  FrameIInv'
<1>1. conns[c] \in Connection
  BY Fields DEF FrameIInv, IInv
<1>2. PICK n \in conns[c].sent + 1 .. Len(conns[c].message) :
        Update(c, [conns[c] EXCEPT !.sent = n,
                                   !.line = IF @ = "open" THEN @ ELSE "reset"])
  BY DEF Deliver
<1> DEFINE conn == [conns[c] EXCEPT !.sent = n,
                                    !.line = IF @ = "open" THEN @ ELSE "reset"]
<1>3. /\ \A f \in {"message", "taken", "polls", "answer", "shut"} : conn[f] = conns[c][f]
      /\ conn.sent = n /\ ~conn.shut /\ ~conns[c].shut
  BY <1>1 DEF Connection, Deliver
<1>4. Lengths(conn) \subseteq Lengths(conns[c])
  <2>1. Lengths(conn) = n .. Len(conns[c].message)
    BY <1>3 DEF Lengths
  <2>2. Lengths(conns[c]) = conns[c].sent .. Len(conns[c].message)
    BY <1>3 DEF Lengths
  <2>3. conns[c].sent \in Nat /\ Len(conns[c].message) \in Nat
    BY <1>1 DEF Connection
  <2> QED BY <2>1, <2>2, <2>3
<1> HIDE DEF conn
<1> QED BY <1>2, <1>3, <1>4, FrameClientSide DEF Deliver, conn

(* A client that has left, in whatever way, said what has arrived.         *)
LEMMA LeftEarly ==
  ASSUME NEW c \in DOMAIN conns, conns[c] \in Connection, WireInv(c), ~conns[c].shut,
         NEW conn, conn.shut, conn.sent = conns[c].sent
  PROVE  Lengths(conn) \subseteq Lengths(conns[c])
<1>1. Lengths(conn) = {conns[c].sent}
  BY DEF Lengths
<1>2. Lengths(conns[c]) = conns[c].sent .. Len(conns[c].message)
  BY DEF Lengths
<1>3. /\ conns[c].sent \in Nat /\ Len(conns[c].message) \in Nat
      /\ conns[c].sent <= Len(conns[c].message)
  BY DEF Connection, WireInv
<1>4. conns[c].sent \in conns[c].sent .. Len(conns[c].message)
  BY <1>3
<1> QED BY <1>1, <1>2, <1>4

LEMMA FrameDeliverEnd ==
  ASSUME FrameIInv, IInv', NEW c \in DOMAIN conns, DeliverEnd(c)
  PROVE  FrameIInv'
<1>1. conns[c] \in Connection /\ WireInv(c)
  BY Fields DEF FrameIInv, IInv, ConnInv
<1> DEFINE conn == [conns[c] EXCEPT !.shut = TRUE]
<1>2. /\ \A f \in {"message", "taken", "polls", "answer", "sent"} : conn[f] = conns[c][f]
      /\ conn.shut /\ ~conns[c].shut
  BY <1>1 DEF Connection, DeliverEnd
<1> HIDE DEF conn
<1>3. Lengths(conn) \subseteq Lengths(conns[c])
  BY <1>1, <1>2, LeftEarly
<1> QED BY <1>2, <1>3, FrameClientSide DEF DeliverEnd, conn

LEMMA FrameAbort ==
  ASSUME FrameIInv, IInv', NEW c \in DOMAIN conns, Abort(c)
  PROVE  FrameIInv'
<1>1. conns[c] \in Connection /\ WireInv(c)
  BY Fields DEF FrameIInv, IInv, ConnInv
<1> DEFINE conn == [conns[c] EXCEPT !.shut = TRUE, !.aborted = TRUE]
<1>2. /\ \A f \in {"message", "taken", "polls", "answer", "sent"} : conn[f] = conns[c][f]
      /\ conn.shut /\ ~conns[c].shut
  BY <1>1 DEF Connection, Abort
<1> HIDE DEF conn
<1>3. Lengths(conn) \subseteq Lengths(conns[c])
  BY <1>1, <1>2, LeftEarly
<1> QED BY <1>2, <1>3, FrameClientSide DEF Abort, conn

(* What the client makes of the answer is no matter of the server's.       *)
LEMMA FrameClientReads ==
  ASSUME FrameIInv, IInv', NEW c \in DOMAIN conns, ReadAnswer(c) \/ ReadEnd(c) \/ GiveUp(c)
  PROVE  FrameIInv'
<1>1. conns[c] \in Connection
  BY Fields DEF FrameIInv, IInv
<1>2. PICK conn : /\ Update(c, conn)
                  /\ \A f \in {"message", "taken", "polls", "answer", "sent", "shut"} :
                       conn[f] = conns[c][f]
  <2>1. CASE ReadAnswer(c)
    <3>1. PICK n \in conns[c].got + 1 .. Len(conns[c].answer) :
            Update(c, [conns[c] EXCEPT !.got = n, !.result = Parsed(conns[c].answer, n)])
      BY <2>1 DEF ReadAnswer
    <3>2. \A f \in {"message", "taken", "polls", "answer", "sent", "shut"} :
            [conns[c] EXCEPT !.got = n, !.result = Parsed(conns[c].answer, n)][f] = conns[c][f]
      BY <1>1 DEF Connection
    <3> QED BY <3>1, <3>2
  <2>2. CASE ReadEnd(c)
    <3>1. Update(c, [conns[c] EXCEPT !.result = conns[c].line])
      BY <2>2 DEF ReadEnd
    <3> QED BY <1>1, <3>1 DEF Connection
  <2>3. CASE GiveUp(c)
    <3>1. Update(c, [conns[c] EXCEPT !.result = "timeout"])
      BY <2>3 DEF GiveUp
    <3> QED BY <1>1, <3>1 DEF Connection
  <2> QED BY <2>1, <2>2, <2>3
<1>3. Lengths(conn) = Lengths(conns[c])
  BY <1>2 DEF Lengths
<1>4. UNCHANGED <<turn, pc, data, stop>>
  BY DEF ReadAnswer, ReadEnd, GiveUp
<1> QED BY <1>2, <1>3, <1>4, FrameClientSide

LEMMA FrameStop ==
  ASSUME FrameIInv, IInv', Stop
  PROVE  FrameIInv'
<1>1. UNCHANGED <<conns, turn, pc, data>> /\ stop'
  BY DEF Stop
<1>2. \A d \in DOMAIN conns : FrameInv(d)'
  BY <1>1, FrameUntouched DEF FrameIInv
<1> QED BY <1>1, <1>2 DEF FrameIInv

(* To be reset in the backlog changes nothing of what a message says.      *)
LEMMA FrameListener ==
  ASSUME FrameIInv, IInv', CloseListener, UNCHANGED <<turn, data, stop>>,
         pc' \notin Busy
  PROVE  FrameIInv'
<1>1. TypeInv /\ \A c \in DOMAIN conns : conns[c] \in Connection
  BY Fields DEF FrameIInv, IInv
<1>2. DOMAIN conns' = DOMAIN conns
  BY <1>1, ListenerClosed
<1>3. ASSUME NEW c \in DOMAIN conns PROVE FrameInv(c)'
  <2>0. \A f \in {"message", "taken", "polls", "answer", "sent", "shut"} :
          conns'[c][f] = conns[c][f]
    <3>1. \A f \in {"message", "taken", "polls", "answer", "sent", "shut"} :
            f \in DOMAIN conns[c] \ {"line"}
      BY <1>1 DEF Connection
    <3>2. CASE c > turn
      BY <1>1, <3>1, <3>2, ListenerClosed
    <3>3. CASE ~(c > turn)
      BY <1>1, <3>3, ListenerClosed
    <3> QED BY <3>2, <3>3
  <2>1. \A yes \in BOOLEAN : SaysOf(conns'[c], yes) <=> SaysOf(conns[c], yes)
    BY <2>0 DEF SaysOf, Lengths
  <2>2. Plain(conns'[c]) <=> Plain(conns[c])
    BY <2>0 DEF Plain, GoesOn
  <2>3. FrameInv(c) /\ (conns[c].answer = Measurement) \in BOOLEAN
    BY DEF FrameIInv
  <2> QED BY <2>0, <2>1, <2>2, <2>3 DEF FrameInv, Busy
<1> QED BY <1>2, <1>3 DEF FrameIInv

LEMMA FrameCheckStop ==
  ASSUME FrameIInv, IInv', CheckStop
  PROVE  FrameIInv'
<1>1. CASE stop
  BY <1>1, FrameListener DEF CheckStop, Busy
<1>2. CASE ~stop
  <2>1. conns' = conns /\ pc' = "accept" /\ UNCHANGED <<turn, data, stop>>
    BY <1>2 DEF CheckStop
  <2>2. \A c \in DOMAIN conns : FrameInv(c)'
    BY <2>1 DEF FrameIInv, FrameInv
  <2> QED BY <2>1, <2>2 DEF FrameIInv
<1> QED BY <1>1, <1>2

LEMMA FrameRecvReset ==
  ASSUME FrameIInv, IInv', RecvReset
  PROVE  FrameIInv'
BY FrameListener DEF RecvReset, Busy

LEMMA FrameAccept ==
  ASSUME FrameIInv, IInv', AcceptOrPoll
  PROVE  FrameIInv'
<1>1. TypeInv /\ turn \in Nat
  BY DEF FrameIInv, IInv, TypeInv
<1>2. CASE turn < Len(conns)
  <2> PICK n \in Nat : n = turn + 1
    BY <1>1
  <2>1. n \in DOMAIN conns /\ n > turn /\ n # turn
    BY <1>1, <1>2 DEF TypeInv
  <2>2. /\ conns' = [conns EXCEPT ![n] = [conns[n] EXCEPT !.waiting = ~conns[n].shut]]
        /\ turn' = n /\ pc' = "receive" /\ UNCHANGED <<data, stop>>
    BY <1>2 DEF AcceptOrPoll, Update
  <2>3. conns[n] \in Connection /\ conns[n].taken = 0 /\ conns[n].answer = <<>>
    BY <1>1, <2>1, Fields DEF FrameIInv, IInv, ConnInv, QueueInv
  <2>4. /\ DOMAIN conns' = DOMAIN conns
        /\ conns'[n].taken = 0 /\ conns'[n].answer = <<>>
        /\ conns'[n].message \in Seq(Nat)
        /\ \A d \in DOMAIN conns : d # n => conns'[d] = conns[d]
    BY <2>1, <2>2, <2>3 DEF Connection
  <2>5. FrameInv(n)'
    <3>1. Delimiters(Piece(conns'[n].message, 0)) = {}
      <4>1. DOMAIN Piece(conns'[n].message, 0) = {}
        BY <2>4, PieceOf
      <4> QED BY <4>1 DEF Delimiters
    <3> QED BY <2>2, <2>4, <3>1 DEF FrameInv
  <2>6. ASSUME NEW d \in DOMAIN conns, d # n PROVE FrameInv(d)'
    BY <2>2, <2>4, <2>6, FrameElsewhere DEF FrameIInv
  <2> QED BY <2>4, <2>5, <2>6 DEF FrameIInv
<1>3. CASE ~(turn < Len(conns))
  <2>1. conns' = conns /\ turn' = turn /\ pc' = "loop" /\ UNCHANGED <<data, stop>>
    BY <1>3 DEF AcceptOrPoll
  <2>2. \A d \in DOMAIN conns : FrameInv(d)'
    BY <2>1 DEF FrameIInv, FrameInv
  <2> QED BY <2>1, <2>2 DEF FrameIInv
<1> QED BY <1>2, <1>3

(* The server that runs out of time answers no plain message: it has       *)
(* polled as often as it may, or is told to stop.                          *)
LEMMA FrameCheckDeadline ==
  ASSUME FrameIInv, IInv', CheckDeadline
  PROVE  FrameIInv'
<1>1. /\ pc = "receive" /\ pc \in Busy /\ UNCHANGED <<conns, turn, stop>>
      /\ \/ pc' = "recv"
         \/ pc' = "answer" /\ (stop \/ conns[turn].polls = MaxPolls)
  BY DEF CheckDeadline, Take, Current, Busy
<1>2. turn \in DOMAIN conns
  BY <1>1, Serving DEF FrameIInv
<1>3. FrameInv(turn)'
  <2>1. FrameInv(turn)
    BY <1>2 DEF FrameIInv
  <2>2. conns[turn].polls = MaxPolls => ~Plain(conns[turn])
    BY ProtocolAssumption DEF Plain
  <2> QED BY <1>1, <2>1, <2>2 DEF FrameInv
<1> QED BY <1>1, <1>3, FrameServerSide

LEMMA FrameRecvBytes ==
  ASSUME FrameIInv, IInv', RecvBytes
  PROVE  FrameIInv'
<1>1. pc = "recv" /\ pc \in Busy /\ UNCHANGED <<turn, stop>>
  BY DEF RecvBytes, Busy
<1>2. /\ turn \in DOMAIN conns /\ conns[turn] \in Connection /\ WireInv(turn)
      /\ conns[turn].answer = <<>> /\ FrameInv(turn)
  BY <1>1, Serving DEF FrameIInv, ConnInv
<1>3. /\ conns[turn].message \in Seq(Nat) /\ Len(conns[turn].message) \in Nat
      /\ conns[turn].sent \in Nat /\ conns[turn].taken \in Nat
      /\ conns[turn].sent <= Len(conns[turn].message)
  BY <1>2 DEF Connection, WireInv
<1>4. PICK p \in 1 .. conns[turn].sent :
        /\ Update(turn, [conns[turn] EXCEPT !.taken = p])
        /\ Examine(Piece(conns[turn].message, p))
  <2>1. PICK p \in Nat : p = Min({conns[turn].sent, MAX_MESSAGE_BYTES})
    BY <1>3, MinOfTwo, ProtocolAssumption
  <2>2. p <= conns[turn].sent /\ (p = conns[turn].sent \/ p = MAX_MESSAGE_BYTES)
    BY <1>3, <2>1, MinOfTwo, ProtocolAssumption
  <2>3. conns[turn].taken < conns[turn].sent /\ MAX_MESSAGE_BYTES > 0
    BY LineOfCommand, ProtocolAssumption DEF RecvBytes, Current
  <2>4. p \in 1 .. conns[turn].sent
    BY <1>3, <2>2, <2>3, ProtocolAssumption
  <2> QED BY <2>1, <2>4 DEF RecvBytes, Current, Piece
<1>5. /\ conns'[turn].taken = p
      /\ \A f \in {"message", "polls", "answer", "sent", "shut"} :
           conns'[turn][f] = conns[turn][f]
      /\ DOMAIN conns' = DOMAIN conns
      /\ \A d \in DOMAIN conns : d # turn => conns'[d] = conns[d]
  BY <1>2, <1>4 DEF Update, Connection
<1>6. FrameInv(turn)'
  <2> SUFFICES ASSUME Plain(conns[turn]) PROVE FrameInv(turn)'
    BY <1>1, <1>5 DEF FrameInv, Plain, GoesOn
  <2>1. CASE pc' = "receive"
    <3>1. Delimiters(Piece(conns[turn].message, p)) = {}
      BY <1>4, <2>1 DEF Examine, Take
    <3> QED BY <1>1, <1>2, <1>5, <2>1, <3>1 DEF FrameInv
  <2>2. CASE pc' = "answer"
    <3>1. ASSUME NEW n \in Lengths(conns[turn])
          PROVE  data' = Command <=> Frame(Piece(conns[turn].message, n)) = Command
      <4>1. n \in p .. Len(conns[turn].message) /\ p \in 1 .. Len(conns[turn].message)
        BY <1>3 DEF Lengths
      <4> QED BY <1>2, <1>4, <2>2, <4>1, ExamineDecides DEF Plain
    <3>2. SaysOf(conns'[turn], data' = Command)
      BY <1>5, <3>1 DEF SaysOf, Lengths
    <3> QED BY <1>1, <1>2, <1>5, <2>2, <3>2 DEF FrameInv
  <2>3. pc' \in {"receive", "answer"}
    BY <1>4 DEF Examine, Take
  <2> QED BY <2>1, <2>2, <2>3
<1> QED BY <1>1, <1>5, <1>6, FrameServerSide

LEMMA FrameRecvEnd ==
  ASSUME FrameIInv, IInv', RecvEnd
  PROVE  FrameIInv'
<1>1. /\ pc = "recv" /\ pc \in Busy /\ pc' = "answer" /\ UNCHANGED <<conns, turn, stop>>
      /\ conns[turn].taken = conns[turn].sent /\ conns[turn].shut
      /\ data' = Piece(conns[turn].message, conns[turn].taken)
  BY DEF RecvEnd, Take, Current, Received, Piece, Busy
<1>2. /\ turn \in DOMAIN conns /\ conns[turn].answer = <<>> /\ FrameInv(turn)
  BY <1>1, Serving DEF FrameIInv
<1>3. FrameInv(turn)'
  <2> SUFFICES ASSUME Plain(conns[turn]) PROVE FrameInv(turn)'
    BY <1>1 DEF FrameInv
  <2>1. Delimiters(data') = {}
    BY <1>1, <1>2 DEF FrameInv
  <2>2. Frame(data') = data'
    BY <2>1, FrameCases
  <2>3. SaysOf(conns[turn], data' = Command)
    BY <1>1, <2>2 DEF SaysOf, Lengths
  <2> QED BY <1>1, <1>2, <2>3 DEF FrameInv
<1> QED BY <1>1, <1>3, FrameServerSide

LEMMA FrameRecvTimesOut ==
  ASSUME FrameIInv, IInv', RecvTimesOut
  PROVE  FrameIInv'
<1>1. /\ pc = "recv" /\ pc \in Busy /\ pc' = "receive" /\ UNCHANGED <<turn, data, stop>>
  BY DEF RecvTimesOut, Busy
<1>2. /\ turn \in DOMAIN conns /\ conns[turn] \in Connection
      /\ conns[turn].answer = <<>> /\ FrameInv(turn)
  BY <1>1, Serving DEF FrameIInv
<1>3. conns[turn].polls \in Nat /\ MaxPolls \in Nat
  BY <1>2, ProtocolAssumption DEF Connection
<1>4. PICK n \in Nat : /\ n < MaxPolls => conns[turn].polls < MaxPolls
                       /\ Update(turn, [conns[turn] EXCEPT !.polls = n])
  <2>1. /\ Min({conns[turn].polls + 1, MaxPolls}) \in {conns[turn].polls + 1, MaxPolls}
        /\ conns[turn].polls + 1 \in Nat
    BY <1>3, MinOfTwo
  <2>2. Update(turn, [conns[turn] EXCEPT !.polls = Min({conns[turn].polls + 1, MaxPolls})])
    BY DEF RecvTimesOut, Current
  <2>3. PICK n \in Nat : n = Min({conns[turn].polls + 1, MaxPolls})
    BY <1>3, <2>1
  <2>4. n < MaxPolls => conns[turn].polls < MaxPolls
    BY <1>3, <2>1, <2>3
  <2>5. Update(turn, [conns[turn] EXCEPT !.polls = n])
    BY <2>2, <2>3
  <2> QED BY <2>3, <2>4, <2>5
<1>5. /\ conns'[turn].polls = n
      /\ \A f \in {"message", "taken", "answer", "sent", "shut"} :
           conns'[turn][f] = conns[turn][f]
      /\ DOMAIN conns' = DOMAIN conns
      /\ \A d \in DOMAIN conns : d # turn => conns'[d] = conns[d]
  BY <1>2, <1>4 DEF Update, Connection
<1>6. FrameInv(turn)'
  <2>1. Plain(conns'[turn]) => Plain(conns[turn])
    BY <1>4, <1>5 DEF Plain, GoesOn
  <2> QED BY <1>1, <1>2, <1>5, <2>1 DEF FrameInv
<1> QED BY <1>1, <1>5, <1>6, FrameServerSide

LEMMA FrameAnswer ==
  ASSUME FrameIInv, IInv', Answer
  PROVE  FrameIInv'
<1> DEFINE answer == IF data = <<>> \/ stop THEN <<>>
                     ELSE IF data = Command THEN Measurement ELSE Unsupported
<1>1. pc = "answer" /\ pc \in Busy /\ pc' = "loop" /\ UNCHANGED <<turn, stop>>
  BY DEF Answer, Busy
<1>2. turn \in DOMAIN conns /\ conns[turn] \in Connection /\ FrameInv(turn)
  BY <1>1, Serving DEF FrameIInv
<1>3. PICK line :
        Update(turn, [conns[turn] EXCEPT !.answer = answer, !.line = line])
  BY DEF Answer, Current
<1>4. answer # <<>> => ~stop /\ data # <<>> /\ (answer = Measurement <=> data = Command)
  <2>1. Measurement # Unsupported
    BY DEF Measurement, Unsupported
  <2> QED BY <2>1
<1> HIDE DEF answer
<1>5. /\ conns'[turn].answer = answer
      /\ \A f \in {"message", "taken", "polls", "sent", "shut"} :
           conns'[turn][f] = conns[turn][f]
      /\ DOMAIN conns' = DOMAIN conns
      /\ \A d \in DOMAIN conns : d # turn => conns'[d] = conns[d]
  BY <1>2, <1>3 DEF Update, Connection
<1>6. FrameInv(turn)'
  <2>1. Plain(conns'[turn]) => Plain(conns[turn])
    BY <1>5 DEF Plain, GoesOn
  <2>2. \A yes \in BOOLEAN : SaysOf(conns[turn], yes) => SaysOf(conns'[turn], yes)
    BY <1>5 DEF SaysOf, Lengths
  <2>3. Plain(conns[turn]) /\ answer # <<>> => SaysOf(conns[turn], answer = Measurement)
    BY <1>1, <1>2, <1>4 DEF FrameInv, SaysOf
  <2>4. (answer = Measurement) \in BOOLEAN
    OBVIOUS
  <2> QED BY <1>1, <1>5, <2>1, <2>2, <2>3, <2>4 DEF FrameInv
<1> QED BY <1>1, <1>5, <1>6, FrameServerSide

-----------------------------------------------------------------------------
(* FrameIInv is inductive, and implies the property.                       *)

LEMMA FrameNextPreserves == FrameIInv /\ [Next]_vars => FrameIInv'
<1> SUFFICES ASSUME FrameIInv, [Next]_vars PROVE FrameIInv'
  OBVIOUS
<1>1. IInv'
  BY NextPreserves DEF FrameIInv
<1>2. CASE Connect
  BY <1>1, <1>2, FrameConnect
<1>3. CASE Stop
  BY <1>1, <1>3, FrameStop
<1>4. CASE ServerStep
  BY <1>1, <1>4, FrameCheckStop, FrameAccept, FrameCheckDeadline, FrameRecvBytes,
     FrameRecvEnd, FrameRecvTimesOut, FrameRecvReset, FrameAnswer DEF ServerStep
<1>5. ASSUME NEW c \in DOMAIN conns,
             \/ Deliver(c) \/ DeliverEnd(c) \/ Abort(c)
             \/ ReadAnswer(c) \/ ReadEnd(c) \/ GiveUp(c)
      PROVE  FrameIInv'
  BY <1>1, <1>5, FrameDeliver, FrameDeliverEnd, FrameAbort, FrameClientReads
<1>6. CASE UNCHANGED vars
  <2>1. \A d \in DOMAIN conns : FrameInv(d)'
    BY <1>6, FrameUntouched DEF FrameIInv, vars
  <2> QED BY <1>1, <1>6, <2>1 DEF FrameIInv, vars
<1> QED BY <1>2, <1>3, <1>4, <1>5, <1>6 DEF Next

LEMMA FrameInvariantSuffices == FrameIInv => FramesAreExact
<1> SUFFICES ASSUME FrameIInv, NEW c \in DOMAIN conns, ~GoesOn(conns[c]),
                    conns[c].answer # <<>>, conns[c].polls < MaxPolls
             PROVE  conns[c].answer = Measurement <=> Frame(Meant(conns[c])) = Command
  BY DEF FramesAreExact, AnsweredByFrame
<1>1. conns[c] \in Connection /\ conns[c].sent <= Len(conns[c].message)
  BY Fields DEF FrameIInv, IInv, ConnInv, WireInv
<1>2. SaysOf(conns[c], conns[c].answer = Measurement)
  BY DEF FrameIInv, FrameInv, Plain
<1>3. \E n \in Lengths(conns[c]) : Meant(conns[c]) = Piece(conns[c].message, n)
  <2>1. CASE conns[c].shut
    BY <2>1 DEF Lengths, Meant, Piece
  <2>2. CASE ~conns[c].shut
    <3> DEFINE n == Len(conns[c].message)
    <3>1. n \in Lengths(conns[c])
      BY <1>1, <2>2 DEF Lengths, Connection
    <3>2. Meant(conns[c]) = Piece(conns[c].message, n)
      BY <1>1, <2>2, SubSeqFull DEF Meant, Piece, Connection
    <3> QED BY <3>1, <3>2
  <2> QED BY <2>1, <2>2
<1> QED BY <1>2, <1>3 DEF SaysOf

(* In every behaviour, for any command, any messages and any fragmentation:*)
(* a message that is answered before the server's patience ends, and does  *)
(* not go on after the command, gets a measurement if and only if its whole*)
(* frame is the command.                                                   *)
THEOREM AnswersFollowFrames == Spec => []FramesAreExact
<1>1. Init => FrameIInv
  BY InitEstablishes DEF Init, FrameIInv
<1>2. FrameIInv /\ [Next]_vars => FrameIInv'
  BY FrameNextPreserves
<1>3. FrameIInv => FramesAreExact
  BY FrameInvariantSuffices
<1> QED BY <1>1, <1>2, <1>3, PTL DEF Spec
=============================================================================
