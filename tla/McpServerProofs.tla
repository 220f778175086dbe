--------------------------- MODULE McpServerProofs ---------------------------
(***************************************************************************)
(* The server loop for every set of messages, every limit and every client.*)
(*                                                                         *)
(* A promise about an answer or a tool call relates it to a line that was  *)
(* read several steps earlier, while the client went on writing.  ServerInv*)
(* carries the line through these steps: what the last ReadMessage has     *)
(* returned and where it has left the reader (HandledInv), where the loop  *)
(* and the reader can be at the same time (ControlInv), and what follows   *)
(* for the answers (AnswerInv), the calls (CallInv) and both together      *)
(* (ReportInv).  PublishInv adds for which arguments a call is made, and   *)
(* the lemmas on decoders and schemas that these are the published ones.   *)
(***************************************************************************)
EXTENDS McpServer, TransportProofs, SequenceTheorems

\* An iteration of the loop between the return of ReadMessage and its end.
Handling == {"handle", "dispatch", "respond"}

ResponseType == [line : Nat \ {0}, id : {m.id : m \in Messages} \cup {NullId}, body : Bodies]

ControlInv ==
    /\ pc \in {"loop"} \cup Handling => reader = "idle"
    /\ pc = "reading" => reader # "idle"
    /\ pc = "stopped" <=> exit # "running"
    /\ exit \in {"nil", "canceled", "write_error"} => reader = "idle"
    /\ exit = "read_error" => reader = "read"
    /\ exit = "nil" => closed
    /\ reader = "discard" => line > 0

\* Run never reads on behind EOF.
EOFInv ==
    \A i \in 1..Len(reads) :
       reads[i].kind = "eof" => /\ i = Len(reads)
                                /\ pc = "handle" \/ pc = "stopped"

\* What a call has returned, and where the reader is afterwards.
MessageRead == /\ cur = first + 1 /\ off = 0
               /\ first <= Len(sent) /\ ~Oversized(sent[first])
TooLargeRead ==
    /\ MaxReadBytes > 0 /\ line > 0
    /\ \/ /\ cur = first + 1 /\ off = 0
          /\ first <= Len(sent) /\ sent[first].bytes > MaxReadBytes
       \/ /\ cur = first + 2 /\ off = 0
          /\ first + 1 <= Len(sent) /\ sent[first].bytes = MaxReadBytes
       \/ /\ cur = first + 1 /\ Exhausted
          /\ first = Len(sent) /\ sent[first].bytes = MaxReadBytes
       \/ cur = first /\ Exhausted /\ off > MaxReadBytes
EOFRead == /\ cur = first /\ Exhausted
           /\ MaxReadBytes > 0 => line <= MaxReadBytes
           /\ line = off \/ line = 0

HandledInv ==
    /\ pc \in Handling =>
         /\ Len(reads) > 0 /\ lastRead.line = first
         /\ lastRead.kind = "message" => MessageRead
         /\ lastRead.kind = "toolarge" => TooLargeRead
         /\ lastRead.kind = "eof" => EOFRead
    /\ pc \in {"dispatch", "respond"} =>
         /\ lastRead.kind = "message"
         /\ validateRequestMessage(sent[first]).verdict = "request"

\* An answer that fits its line, or the refusal of an unterminated line.
ProperAnswer(m, r) ==
    IF Oversized(m) THEN r.id = NullId /\ r.body = "InvalidRequest"
    ELSE /\ r.id = Contract!EchoedId(m)
         /\ ~Contract!Notification(m)
         /\ r.body \in Contract!Codes(m)
         /\ r.body = "MethodNotFound" => m.method \notin {"initialize", "tools/list", "tools/call"}
Proper(r) ==
    \/ r.line \in 1..Len(sent) /\ ProperAnswer(sent[r.line], r)
    \/ closed /\ r.line > Len(sent) /\ r.id = NullId /\ r.body = "InvalidRequest"

AnswerInv ==
    /\ \A n \in 1..Len(out) : Proper(out[n])
    /\ pc = "respond" => /\ response \in ResponseType
                         /\ response.line = first
                         /\ ProperAnswer(sent[first], response)

\* A line that may have called a tool.
MayRun(m) == /\ ~Oversized(m) /\ m.json = "object" /\ m.version /\ m.id # "absent"
             /\ ReadOnly => m.tool \notin WriteTools
Ran(n) == \E j \in 1..Len(executed) : executed[j] = n

CallInv ==
    /\ \A j \in 1..Len(executed) :
         /\ executed[j] \in 1..Len(sent) /\ MayRun(sent[executed[j]])
         /\ executed[j] < cur
         /\ pc \in {"reading", "handle", "dispatch"} => executed[j] < first
         /\ pc = "respond" => executed[j] <= first
    /\ \A i, j \in 1..Len(executed) : i < j => executed[i] < executed[j]

\* No call is forgotten and none is invented.
ReportInv ==
    /\ \A j \in 1..Len(executed) :
         \/ \E n \in 1..Len(out) : out[n].line = executed[j]
         \/ pc = "respond" /\ executed[j] = first
         \/ exit = "write_error"
    /\ \A n \in 1..Len(out) :
         out[n].body = "result" /\ sent[out[n].line].method = "tools/call" => Ran(out[n].line)
    /\ pc = "respond" /\ response.body = "result" /\ sent[first].method = "tools/call" => Ran(first)

LoopInv == TypeOK /\ Aligned /\ ControlInv /\ EOFInv /\ HandledInv
ServerInv == LoopInv /\ AnswerInv /\ CallInv /\ ReportInv

-----------------------------------------------------------------------------
(* Helpers *)

\* A sequence that grows by one element.
LEMMA Grows ==
    ASSUME NEW S, NEW s \in Seq(S), NEW e \in S, NEW t, t = Append(s, e)
    PROVE  /\ t \in Seq(S)
           /\ Len(s) \in Nat /\ Len(t) = Len(s) + 1
           /\ DOMAIN s = 1..Len(s) /\ DOMAIN t = 1..(Len(s) + 1)
           /\ t[Len(s) + 1] = e
           /\ \A n \in 1..Len(s) : t[n] = s[n]
BY AppendProperties, LenProperties

\* The verdicts of validateRequestMessage, whatever the order of its checks:
\* what is wrong decides the code, what is readable the id.
LEMMA ValidationMeaning ==
    ASSUME NEW m \in Messages
    PROVE  LET v == validateRequestMessage(m)
           IN  /\ v.verdict \in {"error", "notification", "request"}
               /\ v.verdict = "error" =>
                    /\ v.id = Contract!EchoedId(m)
                    /\ \/ v.code = "ParseError" /\ m.json = "malformed"
                       \/ v.code = "InvalidRequest" /\ m.json # "malformed" /\ ~Envelope(m)
                       \/ v.code = "InvalidParams" /\ Envelope(m) /\ m.id # "absent"
               /\ v.verdict = "notification" => Envelope(m) /\ m.id = "absent"
               /\ v.verdict = "request" => Envelope(m) /\ m.id # "absent"
<1> USE ServerAssumption DEF validateRequestMessage, Rejected, Notification, Request, Envelope,
                             HasID, IsValidID, requestIDOrNull, Contract!EchoedId
<1> QED  OBVIOUS

-----------------------------------------------------------------------------
(* The loop uses the transport as its specification says *)

\* Every step of the server is a step of the transport, or none.
LEMMA UsesTransport ==
    ASSUME TypeOK, ControlInv, EOFInv, [Next]_vars
    PROVE  [TransportNext]_transportVars
<1>1. CASE Client
  BY <1>1 DEF Client, TransportNext
<1>2. CASE CheckContext
  <2>1. pc = "loop" => ~AfterEOF
    BY DEF EOFInv, AfterEOF
  <2> QED  BY <1>2, <2>1 DEF CheckContext, TransportNext
<1>3. CASE Reading
  BY <1>3 DEF Reading, TransportNext
<1>4. CASE UNCHANGED transportVars
  BY <1>4
<1>5. \/ Client \/ CheckContext \/ Reading \/ UNCHANGED transportVars
  BY DEF Next, Server, vars, ClientStopsReading, Cancel, ReadFails, HandleEOF, HandleTooLarge,
         HandleMessage, Dispatch, Respond
<1> QED  BY <1>1, <1>2, <1>3, <1>4, <1>5

\* When ReadMessage returns, its result tells where the reader is.
LEMMA ReadReturns ==
    ASSUME TypeOK, ControlInv, Aligned, Reading, reader' = "idle"
    PROVE  /\ Len(reads') = Len(reads) + 1 /\ lastRead' = reads'[Len(reads) + 1]
           /\ \A i \in 1..Len(reads) : reads'[i] = reads[i]
           /\ lastRead'.line = first'
           /\ \/ lastRead'.kind = "message" /\ MessageRead'
              \/ lastRead'.kind = "toolarge" /\ TooLargeRead'
              \/ lastRead'.kind = "eof" /\ EOFRead'
<1> DEFINE R == [kind : ReadKinds, line : Nat \ {0}]
<1>0. reads \in Seq(R) /\ first \in Nat \ {0}
  BY DEF TypeOK, TransportTypeOK
<1>1. ASSUME NEW kind \in ReadKinds, reads' = Append(reads, [kind |-> kind, line |-> first])
      PROVE  /\ Len(reads') = Len(reads) + 1 /\ lastRead' = reads'[Len(reads) + 1]
             /\ \A i \in 1..Len(reads) : reads'[i] = reads[i]
             /\ lastRead'.line = first /\ lastRead'.kind = kind
  <2>1. [kind |-> kind, line |-> first] \in R
    BY <1>0
  <2> HIDE DEF R
  <2>2. Len(reads') = Len(reads) + 1 /\ reads'[Len(reads) + 1] = [kind |-> kind, line |-> first]
        /\ \A i \in 1..Len(reads) : reads'[i] = reads[i]
    BY <1>0, <1>1, <2>1, Grows
  <2> QED  BY <2>2 DEF lastRead
<1> USE TransportAssumption DEF ReadKinds, TypeOK, TransportTypeOK, Aligned, InLine, Exhausted
<1>2. CASE ReadByte
  <2>1. Newline /\ ~Overflows(line + 1) /\ Return("message", first)
    BY <1>2 DEF ReadByte
  <2>2. sent[cur].bytes \in Nat
    BY <2>1 DEF Newline
  <2>3. MessageRead'
    BY <1>2, <2>1, <2>2, SMTT(30) DEF ReadByte, Advance, Newline, Overflows, MessageRead, Oversized
  <2>4. first' = first
    BY <1>2 DEF ReadByte
  <2> QED  BY <1>1, <2>1, <2>3, <2>4 DEF Return
<1>3. CASE ReadEOF
  <2>1. Return("eof", first) /\ first' = first
    BY <1>3 DEF ReadEOF
  <2>2. UNCHANGED <<sent, closed, tail, cur, off, line>> /\ reader = "read"
    BY <1>3 DEF ReadEOF
  <2>3. closed /\ cur = Len(sent) + 1 /\ off = tail
    <3>1. closed /\ ~(cur <= Len(sent)) /\ ~(off < tail)
      BY <1>3 DEF ReadEOF, AtEOF, HasByte
    <3>2. Len(sent) \in Nat /\ cur <= Len(sent) + 1 /\ off <= tail
      BY <3>1
    <3> QED  BY <3>1, <3>2
  <2>4. /\ first = cur /\ (MaxReadBytes > 0 => line <= MaxReadBytes)
        /\ line = off \/ line = 0
    BY <2>2
  <2>5. EOFRead'
    BY <2>1, <2>2, <2>3, <2>4 DEF EOFRead
  <2> QED  BY <1>1, <2>1, <2>5 DEF Return
<1>4. CASE DiscardByte
  <2>1. Newline /\ Return("toolarge", first) /\ first' = first
    BY <1>4 DEF DiscardByte
  <2>2. TooLargeRead'
    BY <1>4, <2>1 DEF DiscardByte, Advance, Newline, TooLargeRead, ControlInv
  <2> QED  BY <1>1, <2>1, <2>2 DEF Return
<1>5. CASE DiscardEOF
  <2>1. Return("toolarge", first) /\ first' = first
    BY <1>5 DEF DiscardEOF
  <2>2. TooLargeRead'
    BY <1>5 DEF DiscardEOF, AtEOF, HasByte, TooLargeRead, ControlInv
  <2> QED  BY <1>1, <2>1, <2>2 DEF Return
<1> QED  BY <1>2, <1>3, <1>4, <1>5 DEF Reading, ReadMessage

\* TransportNext keeps its own invariants, and the loop keeps to TransportNext.
LEMMA TransportPart ==
    ASSUME TypeOK, Aligned, ControlInv, EOFInv, [Next]_vars
    PROVE  TransportTypeOK' /\ Aligned'
BY UsesTransport, TransportTypeStep, AlignedStep DEF TypeOK

\* The reader and the loop move together.
LEMMA ControlStep ==
    ASSUME LoopInv, [Next]_vars
    PROVE  ControlInv'
<1> USE TransportAssumption DEF LoopInv, ControlInv, Handling
<1>1. CASE Client
  BY <1>1 DEF Client, ClientSend, ClientClose, serverVars
<1>2. CASE ClientStopsReading \/ Cancel
  BY <1>2 DEF ClientStopsReading, Cancel, transportVars
<1>3. CASE ReadFails
  BY <1>3 DEF ReadFails, Stop, transportVars
<1>4. CASE CheckContext
  BY <1>4 DEF CheckContext, Stop, StartRead, transportVars
<1>5. CASE Reading
  <2>1. reader' = "discard" => line' > 0
    BY <1>5 DEF Reading, ReadMessage, ReadByte, ReadEOF, DiscardByte, DiscardEOF, Return, TypeOK, TransportTypeOK
  <2>2. reader' \in {"idle", "read", "discard"} /\ closed' = closed
    BY <1>5 DEF Reading, ReadMessage, ReadByte, ReadEOF, DiscardByte, DiscardEOF, Return, TypeOK, TransportTypeOK
  <2> QED  BY <1>5, <2>1, <2>2 DEF Reading
<1>6. CASE HandleEOF
  BY <1>6 DEF HandleEOF, Stop, transportVars, HandledInv, EOFRead, Exhausted
<1>7. CASE HandleTooLarge
  BY <1>7 DEF HandleTooLarge, Write, Stop, transportVars
<1>8. CASE HandleMessage
  BY <1>8 DEF HandleMessage, Write, Stop, transportVars
<1>9. CASE Dispatch
  BY <1>9 DEF Dispatch, transportVars
<1>10. CASE Respond
  BY <1>10 DEF Respond, Write, Stop, transportVars
<1>11. CASE UNCHANGED vars
  BY <1>11 DEF vars, transportVars, serverVars
<1> QED
  BY <1>1, <1>2, <1>3, <1>4, <1>5, <1>6, <1>7, <1>8, <1>9, <1>10, <1>11 DEF Next, Server

\* EOF is the last thing that is read.
LEMMA EOFStep ==
    ASSUME LoopInv, [Next]_vars
    PROVE  EOFInv'
<1> USE DEF LoopInv, EOFInv
<1>0. Len(reads) \in Nat
  BY DEF TypeOK, TransportTypeOK
<1>1. CASE Reading
  <2>1. CASE reader' = "idle"
    BY <1>0, <1>1, <2>1, ReadReturns DEF Reading
  <2>2. CASE reader' # "idle"
    BY <1>1, <2>2 DEF Reading, ReadMessage, ReadByte, ReadEOF, DiscardByte, DiscardEOF, Return
  <2> QED  BY <2>1, <2>2
<1>2. CASE ~Reading
  <2>1. reads' = reads
    BY <1>2 DEF Next, Server, vars, transportVars, Client, ClientSend, ClientClose,
       ClientStopsReading, Cancel, ReadFails, CheckContext, StartRead, HandleEOF, HandleTooLarge,
       HandleMessage, Dispatch, Respond
  <2>2. \/ pc' = pc \/ pc' = "stopped"
        \/ pc \notin {"handle", "stopped"}
        \/ pc = "handle" /\ lastRead.kind # "eof"
    BY <1>2 DEF Next, Server, vars, serverVars, Client,
       ClientStopsReading, Cancel, ReadFails, CheckContext, HandleEOF, HandleTooLarge,
       HandleMessage, Dispatch, Respond, Stop, Write
  <2> QED  BY <2>1, <2>2 DEF lastRead
<1> QED  BY <1>1, <1>2

\* The client writes at the end: the lines that are there stay as they are.
LEMMA LinesStay ==
    ASSUME TypeOK, [Next]_vars
    PROVE  /\ Len(sent) \in Nat /\ Len(sent') \in Nat /\ Len(sent) <= Len(sent')
           /\ \A n \in 1..Len(sent) : sent'[n] = sent[n] /\ sent[n] \in Messages
           /\ closed => closed' /\ sent' = sent /\ tail' = tail
<1>0. sent \in Seq(Messages) /\ Len(sent) \in Nat /\ \A n \in 1..Len(sent) : sent[n] \in Messages
  BY DEF TypeOK, TransportTypeOK
<1>1. CASE UNCHANGED <<sent, closed, tail>>
  BY <1>0, <1>1
<1>2. CASE \E m \in Messages : ClientSend(m)
  <2>1. PICK m \in Messages : ClientSend(m)
    BY <1>2
  <2>2. sent' = Append(sent, m) /\ ~closed
    BY <2>1 DEF ClientSend
  <2> QED  BY <1>0, <2>2, Grows
<1>3. CASE \E n \in TailBytes : ClientClose(n)
  BY <1>0, <1>3 DEF ClientClose
<1>4. \/ UNCHANGED <<sent, closed, tail>>
      \/ \E m \in Messages : ClientSend(m)
      \/ \E n \in TailBytes : ClientClose(n)
  BY DEF Next, Server, vars, transportVars, Client, ClientStopsReading, Cancel, ReadFails,
     CheckContext, StartRead, Reading, ReadMessage, ReadByte, ReadEOF, DiscardByte, DiscardEOF,
     HandleEOF, HandleTooLarge, HandleMessage, Dispatch, Respond
<1> QED  BY <1>1, <1>2, <1>3, <1>4

\* What was read stays true of the lines until it is handled.
LEMMA HandledStep ==
    ASSUME LoopInv, [Next]_vars
    PROVE  HandledInv'
<1> USE DEF LoopInv, Handling
<1>1. CASE Client
  <2>1. /\ UNCHANGED <<pc, reads, first, cur, off, line>> /\ lastRead' = lastRead
        /\ first \in Nat \ {0}
    BY <1>1 DEF Client, ClientSend, ClientClose, serverVars, lastRead, TypeOK, TransportTypeOK
  <2>2. MessageRead => MessageRead' /\ sent'[first] = sent[first]
    BY <2>1, LinesStay DEF MessageRead, Oversized
  <2>3. TooLargeRead => TooLargeRead'
    BY <2>1, LinesStay DEF TooLargeRead, Exhausted
  <2>4. EOFRead => EOFRead'
    BY <2>1, LinesStay DEF EOFRead, Exhausted
  <2> QED  BY <2>1, <2>2, <2>3, <2>4 DEF HandledInv
<1>2. CASE ClientStopsReading \/ Cancel \/ UNCHANGED vars
  BY <1>2 DEF ClientStopsReading, Cancel, vars, serverVars, transportVars, HandledInv, lastRead,
              MessageRead, TooLargeRead, EOFRead, Exhausted
<1>3. CASE ReadFails \/ CheckContext \/ HandleEOF \/ HandleTooLarge \/ Respond
  BY <1>3 DEF ReadFails, CheckContext, HandleEOF, HandleTooLarge, Respond, Write, Stop, HandledInv
<1>4. CASE Reading
  <2>1. CASE reader' = "idle"
    <3>1. Len(reads) \in Nat /\ pc' = "handle"
      BY <1>4, <2>1 DEF TypeOK, TransportTypeOK, Reading
    <3> QED  BY <1>4, <2>1, <3>1, ReadReturns DEF HandledInv
  <2>2. CASE reader' # "idle"
    BY <1>4, <2>2 DEF Reading, HandledInv
  <2> QED  BY <2>1, <2>2
<1>5. CASE HandleMessage \/ Dispatch
  <2>1. /\ UNCHANGED transportVars /\ lastRead' = lastRead
        /\ pc' \in {"dispatch", "respond"} =>
             pc \in Handling /\ lastRead.kind = "message"
             /\ (pc = "handle" => validateRequestMessage(sent[first]).verdict = "request")
    BY <1>5 DEF HandleMessage, Dispatch, Write, Stop, HandledInv, lastRead, transportVars
  <2>2. (MessageRead => MessageRead') /\ (pc' \in Handling => pc \in Handling)
    BY <1>5, <2>1 DEF HandleMessage, Dispatch, transportVars, MessageRead
  <2>3. pc' # "handle"
    BY <1>5 DEF HandleMessage, Dispatch, Write, Stop
  <2> QED  BY <2>1, <2>2, <2>3 DEF HandledInv, transportVars
<1> QED
  BY <1>1, <1>2, <1>3, <1>4, <1>5 DEF Next, Server

-----------------------------------------------------------------------------
(* Types of the loop's own variables *)

\* What handleRequest may answer is a response.
LEMMA OutcomesAreBodies ==
    ASSUME NEW m
    PROVE  /\ Outcomes(m) \subseteq Bodies
           /\ Outcomes(m) \subseteq {"result", "MethodNotFound", "InvalidParams", "InternalError"}
           /\ "MethodNotFound" \in Outcomes(m) => m.method \notin {"initialize", "tools/list", "tools/call"}
           /\ "result" \in Outcomes(m) /\ m.method = "tools/call" => Executes(m)
BY DEF Outcomes, InitializeOutcomes, Bodies, JSONRPCErrors

\* Writing a response keeps the type of the output.
LEMMA WriteType ==
    ASSUME out \in Seq(ResponseType), NEW r \in ResponseType, Write(r)
    PROVE  /\ out' \in Seq(ResponseType) /\ Len(out) \in Nat
           /\ \/ Len(out') = Len(out) + 1 /\ out'[Len(out) + 1] = r
                 /\ pc' = "loop" /\ exit' = exit
                 /\ \A n \in 1..Len(out) : out'[n] = out[n]
              \/ out' = out /\ pc' = "stopped" /\ exit' = "write_error"
BY Grows DEF Write, Stop

\* The refusal of a line is a response, and so is the answer to a message.
LEMMA HandledTypes ==
    ASSUME LoopInv
    PROVE  /\ pc = "handle" => Response(first, NullId, "InvalidRequest") \in ResponseType
           /\ pc \in Handling /\ lastRead.kind = "message" =>
                /\ sent[first] \in Messages
                /\ first \in 1..Len(sent)
           /\ pc = "handle" /\ lastRead.kind = "message"
              /\ validateRequestMessage(sent[first]).verdict = "error" =>
                Response(first, validateRequestMessage(sent[first]).id,
                         validateRequestMessage(sent[first]).code) \in ResponseType
           /\ pc = "dispatch" => \A body \in Bodies : Response(first, sent[first].id, body) \in ResponseType
<1> USE DEF LoopInv, Handling
<1>1. first \in Nat \ {0} /\ "InvalidRequest" \in Bodies
  BY DEF TypeOK, TransportTypeOK, Bodies, JSONRPCErrors
<1>2. pc \in Handling /\ lastRead.kind = "message" => first \in 1..Len(sent) /\ sent[first] \in Messages
  BY <1>1 DEF HandledInv, MessageRead, TypeOK, TransportTypeOK
<1>3. ASSUME pc = "handle", lastRead.kind = "message", validateRequestMessage(sent[first]).verdict = "error"
      PROVE  Response(first, validateRequestMessage(sent[first]).id,
                      validateRequestMessage(sent[first]).code) \in ResponseType
  <2>1. sent[first] \in Messages
    BY <1>2, <1>3
  <2>2. validateRequestMessage(sent[first]).id \in {m.id : m \in Messages} \cup {NullId}
    BY <1>3, <2>1, ValidationMeaning DEF Contract!EchoedId
  <2>3. validateRequestMessage(sent[first]).code \in Bodies
    BY <1>3, <2>1, ValidationMeaning DEF Bodies, JSONRPCErrors
  <2> QED  BY <1>1, <2>2, <2>3 DEF Response, ResponseType
<1>4. pc = "dispatch" => \A body \in Bodies : Response(first, sent[first].id, body) \in ResponseType
  BY <1>1, <1>2 DEF Response, ResponseType, HandledInv
<1> QED  BY <1>1, <1>2, <1>3, <1>4 DEF Response, ResponseType

-----------------------------------------------------------------------------
(* The answers *)

\* The answer to a line that is refused or fails validation.
LEMMA RefusalProper ==
    ASSUME LoopInv, pc = "handle"
    PROVE  /\ lastRead.kind = "toolarge" => Proper(Response(first, NullId, "InvalidRequest"))
           /\ lastRead.kind = "message" /\ validateRequestMessage(sent[first]).verdict = "error" =>
                LET v == validateRequestMessage(sent[first])
                IN  Proper(Response(first, v.id, v.code)) /\ v.code # "result"
<1> USE DEF LoopInv, Handling
<1>1. first \in Nat \ {0} /\ Len(sent) \in Nat /\ \A n \in 1..Len(sent) : sent[n].bytes \in Nat
  BY TransportAssumption DEF TypeOK, TransportTypeOK
<1>2. ASSUME lastRead.kind = "toolarge"
      PROVE  Proper(Response(first, NullId, "InvalidRequest"))
  <2>1. TooLargeRead
    BY <1>2 DEF HandledInv
  <2>2. \/ first \in 1..Len(sent) /\ Oversized(sent[first])
        \/ closed /\ first > Len(sent)
    BY <1>1, <2>1, TransportAssumption DEF TooLargeRead, Exhausted, Oversized
  <2> QED  BY <2>2 DEF Proper, ProperAnswer, Response
<1>3. ASSUME lastRead.kind = "message", validateRequestMessage(sent[first]).verdict = "error"
      PROVE  LET v == validateRequestMessage(sent[first])
             IN  Proper(Response(first, v.id, v.code)) /\ v.code # "result"
  <2> DEFINE v == validateRequestMessage(sent[first])
             m == sent[first]
  <2>1. first \in 1..Len(sent) /\ m \in Messages /\ ~Oversized(m)
    BY <1>3, HandledTypes DEF HandledInv, MessageRead
  <2>2. /\ v.id = Contract!EchoedId(m)
        /\ \/ v.code = "ParseError" /\ m.json = "malformed"
           \/ v.code = "InvalidRequest" /\ m.json # "malformed" /\ ~Envelope(m)
           \/ v.code = "InvalidParams" /\ Envelope(m) /\ m.id # "absent"
    BY <1>3, <2>1, ValidationMeaning
  <2> HIDE DEF v
  <2>3. v.code \in Contract!Codes(m) /\ ~Contract!Notification(m)
    BY <2>2 DEF Contract!Codes, Contract!Notification, Contract!Envelope, Envelope
  <2>4. v.code # "MethodNotFound" /\ v.code # "result"
    BY <2>2
  <2> QED  BY <2>1, <2>2, <2>3, <2>4 DEF Proper, ProperAnswer, Response, v
<1> QED  BY <1>2, <1>3

\* An answer that was proper stays so, whatever the client writes later.
LEMMA ProperStays ==
    ASSUME TypeOK, [Next]_vars, NEW r, Proper(r)
    PROVE  Proper(r)'
BY LinesStay DEF Proper

\* A step writes nothing, or one proper answer at the end of an iteration.
LEMMA OutStep ==
    ASSUME ServerInv, [Next]_vars
    PROVE  \/ out' = out
           \/ \E r \in ResponseType :
                /\ out' = Append(out, r)
                /\ pc \in {"handle", "respond"} /\ pc' = "loop" /\ exit' = exit
                /\ UNCHANGED <<transportVars, executed>>
                /\ r.line = first /\ Proper(r)
                /\ r.body = "result" => pc = "respond" /\ response.body = "result"
<1> USE DEF ServerInv
<1>0. /\ pc = "handle" => lastRead.line = first
      /\ first \in Nat \ {0}
  BY DEF LoopInv, HandledInv, Handling, TypeOK, TransportTypeOK
<1>1. CASE HandleTooLarge
  <2> DEFINE r == Response(first, NullId, "InvalidRequest")
  <2>1. pc = "handle" /\ Write(r) /\ Proper(r) /\ r \in ResponseType
        /\ UNCHANGED <<transportVars, executed>>
    BY <1>0, <1>1, RefusalProper, HandledTypes DEF HandleTooLarge
  <2>2. r.line = first /\ r.body # "result"
    BY DEF Response
  <2> HIDE DEF r
  <2> QED  BY <2>1, <2>2 DEF Write
<1>2. CASE HandleMessage
  <2> DEFINE v == validateRequestMessage(sent[first])
             r == Response(first, v.id, v.code)
  <2>1. CASE v.verdict = "error" /\ Write(r)
    <3>1. pc = "handle" /\ Proper(r) /\ v.code # "result" /\ r \in ResponseType
          /\ UNCHANGED <<transportVars, executed>>
      BY <1>0, <1>2, <2>1, RefusalProper, HandledTypes DEF HandleMessage
    <3>2. r.line = first /\ r.body = v.code
      BY DEF Response
    <3> HIDE DEF r, v
    <3> QED  BY <2>1, <3>1, <3>2 DEF Write
  <2>2. CASE ~(v.verdict = "error" /\ Write(r))
    BY <1>0, <1>2, <2>2 DEF HandleMessage
  <2> QED  BY <2>1, <2>2
<1>3. CASE Respond
  <2>1. /\ response \in ResponseType /\ response.line = first
        /\ ProperAnswer(sent[first], response)
        /\ first \in 1..Len(sent) /\ ~Oversized(sent[first])
    BY <1>3, HandledTypes DEF Respond, AnswerInv, LoopInv, HandledInv, MessageRead, Handling
  <2>2. ASSUME NEW r \in ResponseType, Write(r), r.line = first, ProperAnswer(sent[first], r),
               r.body = "result" => response.body = "result"
        PROVE  \/ out' = out
               \/ /\ out' = Append(out, r)
                  /\ pc \in {"handle", "respond"} /\ pc' = "loop" /\ exit' = exit
                  /\ UNCHANGED <<transportVars, executed>>
                  /\ r.line = first /\ Proper(r)
                  /\ r.body = "result" => pc = "respond" /\ response.body = "result"
    BY <1>3, <2>1, <2>2 DEF Respond, Write, Proper
  <2>3. CASE Write(response)
    BY <2>1, <2>2, <2>3
  <2>4. CASE Write([response EXCEPT !.body = "InternalError"])
    <3> DEFINE r == [response EXCEPT !.body = "InternalError"]
    <3>1. r \in ResponseType /\ r.line = first /\ r.id = response.id /\ r.body = "InternalError"
      BY <2>1 DEF ResponseType, Bodies, JSONRPCErrors
    <3>2. Envelope(sent[first])
      <4>1. sent[first] \in Messages /\ validateRequestMessage(sent[first]).verdict = "request"
        BY <1>3, HandledTypes DEF Respond, LoopInv, HandledInv, Handling
      <4> QED  BY <4>1, ValidationMeaning
    <3>3. "InternalError" \in Contract!Codes(sent[first])
      BY <3>2 DEF Envelope, Contract!Codes, Contract!Envelope
    <3>4. ProperAnswer(sent[first], r)
      BY <2>1, <3>1, <3>3 DEF ProperAnswer
    <3> HIDE DEF r
    <3> QED  BY <2>2, <2>4, <3>1, <3>4 DEF r
  <2> QED  BY <1>3, <2>3, <2>4 DEF Respond
<1>4. CASE ~(HandleTooLarge \/ HandleMessage \/ Respond)
  BY <1>4 DEF Next, Server, vars, serverVars, Client, ClientStopsReading, Cancel, ReadFails,
     CheckContext, Reading, HandleEOF, Dispatch
<1> QED  BY <1>1, <1>2, <1>3, <1>4

\* Dispatch prepares a proper answer, and records the call it has made.
LEMMA Dispatched ==
    ASSUME LoopInv, Dispatch
    PROVE  /\ response' \in ResponseType /\ response'.line = first
           /\ ProperAnswer(sent[first], response')
           /\ response'.body = "result" /\ sent[first].method = "tools/call" => Executes(sent[first])
           /\ executed' = IF Executes(sent[first]) THEN Append(executed, first) ELSE executed
           /\ first \in 1..Len(sent) /\ MessageRead
           /\ Envelope(sent[first]) /\ sent[first].id # "absent"
<1> DEFINE m == sent[first]
<1>1. /\ first \in 1..Len(sent) /\ m \in Messages /\ MessageRead /\ lastRead.line = first
      /\ validateRequestMessage(m).verdict = "request"
  BY HandledTypes DEF Dispatch, LoopInv, HandledInv, Handling
<1>2. Envelope(m) /\ m.id # "absent"
  BY <1>1, ValidationMeaning
<1>3. PICK body \in Outcomes(m) : response' = Response(first, m.id, body)
  BY <1>1 DEF Dispatch
<1>4. response' \in ResponseType /\ response'.line = first /\ response'.id = m.id /\ response'.body = body
  BY <1>3, OutcomesAreBodies, HandledTypes DEF Dispatch, Response
<1>5. ProperAnswer(m, response')
  <2>1. ~Oversized(m)
    BY <1>1 DEF MessageRead
  <2>2. m.id = Contract!EchoedId(m) /\ ~Contract!Notification(m)
    BY <1>2 DEF Envelope, Contract!EchoedId, Contract!Notification
  <2>3. Contract!Codes(m) = {"result", "MethodNotFound", "InvalidParams", "InternalError"}
    BY <1>2 DEF Envelope, Contract!Codes, Contract!Envelope
  <2> QED  BY <1>4, <2>1, <2>2, <2>3, OutcomesAreBodies DEF ProperAnswer
<1>6. response'.body = "result" /\ m.method = "tools/call" => Executes(m)
  BY <1>4, OutcomesAreBodies
<1> QED  BY <1>1, <1>2, <1>4, <1>5, <1>6 DEF Dispatch

\* Types.
LEMMA TypeStep ==
    ASSUME ServerInv, [Next]_vars
    PROVE  TypeOK'
<1>1. TransportTypeOK'
  BY TransportPart DEF ServerInv, LoopInv
<1>2. out' \in Seq(ResponseType)
  <2>1. out \in Seq(ResponseType)
    BY DEF ServerInv, LoopInv, TypeOK, ResponseType
  <2>2. CASE out' = out
    BY <2>1, <2>2
  <2>3. CASE \E r \in ResponseType : out' = Append(out, r)
    BY <2>1, <2>3, Grows
  <2>4. out' = out \/ \E r \in ResponseType : out' = Append(out, r)
    BY OutStep
  <2> QED  BY <2>2, <2>3, <2>4
<1>3. executed' \in Seq(Nat \ {0})
  <2>1. executed \in Seq(Nat \ {0})
    BY DEF ServerInv, LoopInv, TypeOK
  <2>2. CASE Dispatch
    <3>1. first \in Nat \ {0}
      BY DEF ServerInv, LoopInv, TypeOK, TransportTypeOK
    <3>2. executed' = Append(executed, first) \/ executed' = executed
      BY <2>2, Dispatched DEF ServerInv
    <3> QED  BY <2>1, <3>1, <3>2, Grows
  <2>3. CASE ~Dispatch
    BY <2>1, <2>3 DEF Next, Server, vars, serverVars, Client, ClientStopsReading, Cancel, ReadFails,
     CheckContext, Reading, HandleEOF, HandleTooLarge, HandleMessage, Respond
  <2> QED  BY <2>2, <2>3
<1>4. /\ pc' \in {"loop", "reading", "handle", "dispatch", "respond", "stopped"}
      /\ exit' \in {"running", "nil", "canceled", "read_error", "write_error"}
  BY DEF ServerInv, LoopInv, TypeOK, Next, Server, vars, serverVars, Client, ClientStopsReading, Cancel,
     ReadFails, CheckContext, Reading, HandleEOF, HandleTooLarge, HandleMessage, Dispatch, Respond, Write, Stop
<1>5. ctxDone' \in BOOLEAN /\ outOpen' \in BOOLEAN
  BY DEF ServerInv, LoopInv, TypeOK, Next, Server, vars, serverVars, Client, ClientStopsReading, Cancel,
     ReadFails, CheckContext, Reading, HandleEOF, HandleTooLarge, HandleMessage, Dispatch, Respond
<1> QED  BY <1>1, <1>2, <1>3, <1>4, <1>5 DEF TypeOK, ResponseType

\* Steps that keep the iteration of the loop where it is.
LEMMA SameIteration ==
    ASSUME [Next]_vars
    PROVE  pc' = "respond" => Dispatch \/ (pc = "respond" /\ UNCHANGED <<first, cur, response, executed, out, exit>>)
BY DEF Next, Server, vars, transportVars, serverVars, Client, ClientSend, ClientClose,
     ClientStopsReading, Cancel, ReadFails, CheckContext, Reading, HandleEOF, HandleTooLarge,
     HandleMessage, Dispatch, Respond, Write, Stop

\* Every step keeps what is known of the answers.
LEMMA AnswerStep ==
    ASSUME ServerInv, [Next]_vars
    PROVE  AnswerInv'
<1>0. TypeOK /\ LoopInv /\ out \in Seq(ResponseType) /\ Len(out) \in Nat
  BY DEF ServerInv, LoopInv, TypeOK, ResponseType
<1>1. (\A n \in 1..Len(out) : Proper(out[n]))'
  <2>1. \A n \in 1..Len(out) : Proper(out[n])
    BY DEF ServerInv, AnswerInv
  <2>2. CASE out' = out
    BY <1>0, <2>1, <2>2, ProperStays DEF Proper
  <2>3. CASE \E r \in ResponseType : out' = Append(out, r) /\ Proper(r)
    <3>1. PICK r \in ResponseType : out' = Append(out, r) /\ Proper(r)
      BY <2>3
    <3>2. Len(out') = Len(out) + 1 /\ out'[Len(out) + 1] = r /\ \A n \in 1..Len(out) : out'[n] = out[n]
      BY <1>0, <3>1, Grows
    <3>3. \A n \in 1..Len(out') : Proper(out'[n])
      BY <1>0, <2>1, <3>1, <3>2
    <3> QED  BY <1>0, <3>3, ProperStays DEF Proper
  <2> QED  BY <2>2, <2>3, OutStep
<1>2. ASSUME pc' = "respond"
      PROVE  response' \in ResponseType /\ response'.line = first' /\ ProperAnswer(sent[first], response)'
  <2>1. CASE Dispatch
    <3>1. first' = first /\ sent' = sent
      BY <2>1 DEF Dispatch, transportVars
    <3> QED  BY <1>0, <2>1, <3>1, Dispatched DEF ProperAnswer
  <2>2. CASE pc = "respond" /\ UNCHANGED <<first, response>>
    <3>1. first \in 1..Len(sent)
      BY <1>0, <2>2, HandledTypes DEF LoopInv, HandledInv, Handling
    <3>2. sent'[first] = sent[first]
      BY <1>0, <3>1, LinesStay
    <3> QED  BY <2>2, <3>2 DEF ServerInv, AnswerInv, ProperAnswer
  <2> QED  BY <1>2, <2>1, <2>2, SameIteration
<1> QED  BY <1>1, <1>2 DEF AnswerInv

-----------------------------------------------------------------------------
(* The calls *)

\* What a registered tool may do in a read-only server.
LEMMA ExecutesMayRun ==
    ASSUME NEW m, Executes(m), Envelope(m), m.id # "absent", ~Oversized(m)
    PROVE  MayRun(m)
BY ServerAssumption DEF Executes, Envelope, MayRun, Registry, ReadTools, WriteTools

\* The position of the loop never falls behind the lines it has handled.
LEMMA LoopPosition ==
    ASSUME LoopInv, [Next]_vars
    PROVE  /\ cur \in Nat /\ first \in Nat /\ cur' \in Nat /\ first' \in Nat
           /\ cur <= cur'
           /\ pc' = "reading" /\ pc # "reading" => first' = cur
           /\ pc \in {"reading", "handle", "dispatch", "respond"} => first' = first
           /\ pc' \in {"handle", "dispatch", "respond"} => pc \in {"reading", "handle", "dispatch", "respond"}
           /\ pc' \in {"handle", "dispatch"} => pc \in {"reading", "handle", "dispatch"}
           /\ pc = "respond" => first < cur
<1>1. cur \in Nat /\ first \in Nat /\ cur' \in Nat /\ first' \in Nat
  BY TransportPart DEF LoopInv, TypeOK, TransportTypeOK
<1>2. cur <= cur'
  BY <1>1 DEF Next, Server, vars, transportVars, serverVars, Client, ClientSend, ClientClose,
     ClientStopsReading, Cancel, ReadFails, CheckContext, StartRead, Reading, ReadMessage, ReadByte, ReadEOF,
     DiscardByte, DiscardEOF, Advance, HandleEOF, HandleTooLarge, HandleMessage, Dispatch, Respond
<1>3. /\ pc' = "reading" /\ pc # "reading" => first' = cur
      /\ pc \in {"reading", "handle", "dispatch", "respond"} => first' = first
  BY DEF Next, Server, vars, transportVars, serverVars, Client, ClientSend, ClientClose,
     ClientStopsReading, Cancel, ReadFails, CheckContext, StartRead, Reading, ReadMessage, ReadByte, ReadEOF,
     DiscardByte, DiscardEOF, HandleEOF, HandleTooLarge, HandleMessage, Dispatch, Respond, Write, Stop
<1>4. /\ pc' \in {"handle", "dispatch", "respond"} => pc \in {"reading", "handle", "dispatch", "respond"}
      /\ pc' \in {"handle", "dispatch"} => pc \in {"reading", "handle", "dispatch"}
  BY DEF Next, Server, vars, transportVars, serverVars, Client,
     ClientStopsReading, Cancel, ReadFails, CheckContext, Reading,
     HandleEOF, HandleTooLarge, HandleMessage, Dispatch, Respond, Write, Stop
<1>5. pc = "respond" => first < cur
  BY <1>1 DEF LoopInv, HandledInv, Handling, MessageRead
<1> QED  BY <1>1, <1>2, <1>3, <1>4, <1>5

\* Every step keeps what is known of the tool calls.
LEMMA CallStep ==
    ASSUME ServerInv, [Next]_vars
    PROVE  CallInv'
<1>0. /\ TypeOK /\ LoopInv /\ CallInv
      /\ executed \in Seq(Nat \ {0}) /\ Len(executed) \in Nat
      /\ \A j \in 1..Len(executed) : executed[j] \in Nat
  BY DEF ServerInv, LoopInv, TypeOK
<1>1. CASE UNCHANGED executed
  <2>1. ASSUME NEW j \in 1..Len(executed)
        PROVE  /\ executed[j] \in 1..Len(sent') /\ MayRun(sent'[executed[j]])
               /\ executed[j] < cur'
               /\ pc' \in {"reading", "handle", "dispatch"} => executed[j] < first'
               /\ pc' = "respond" => executed[j] <= first'
    <3>1. /\ executed[j] \in 1..Len(sent) /\ MayRun(sent[executed[j]])
          /\ executed[j] < cur
          /\ pc \in {"reading", "handle", "dispatch"} => executed[j] < first
          /\ pc = "respond" => executed[j] <= first
      BY <1>0 DEF CallInv
    <3>2. executed[j] \in 1..Len(sent') /\ MayRun(sent'[executed[j]])
      BY <1>0, <3>1, LinesStay
    <3>3. executed[j] < cur'
      BY <1>0, <3>1, LoopPosition
    <3>4. pc' \in {"reading", "handle", "dispatch"} => executed[j] < first'
      BY <1>0, <3>1, LoopPosition
    <3>5. pc' = "respond" => executed[j] <= first'
      BY <1>0, <3>1, LoopPosition
    <3> QED  BY <3>2, <3>3, <3>4, <3>5
  <2>2. \A i, j \in 1..Len(executed) : i < j => executed[i] < executed[j]
    BY <1>0 DEF CallInv
  <2> QED  BY <1>1, <2>1, <2>2 DEF CallInv, MayRun
<1>2. CASE Dispatch /\ Executes(sent[first])
  <2>1. /\ executed' = Append(executed, first) /\ first \in 1..Len(sent) /\ MayRun(sent[first])
        /\ first \in Nat \ {0} /\ cur = first + 1
    BY <1>0, <1>2, Dispatched, ExecutesMayRun DEF MessageRead, TypeOK, TransportTypeOK
  <2>2. UNCHANGED <<sent, cur, first>> /\ pc = "dispatch" /\ pc' = "respond"
    BY <1>2 DEF Dispatch, transportVars
  <2>3. Len(executed') = Len(executed) + 1 /\ executed'[Len(executed) + 1] = first
        /\ \A j \in 1..Len(executed) : executed'[j] = executed[j]
    BY <1>0, <2>1, Grows
  <2>4. \A j \in 1..Len(executed) : executed[j] \in 1..Len(sent) /\ MayRun(sent[executed[j]])
          /\ executed[j] < first
    BY <1>0, <2>2 DEF CallInv
  <2>5. \A j \in 1..Len(executed') :
          executed'[j] \in 1..Len(sent) /\ MayRun(sent[executed'[j]]) /\ executed'[j] <= first
    BY <1>0, <2>1, <2>3, <2>4
  <2>6. \A i, j \in 1..Len(executed') : i < j => executed'[i] < executed'[j]
    <3>1. \A i, j \in 1..Len(executed) : i < j => executed[i] < executed[j]
      BY <1>0 DEF CallInv
    <3>2. SUFFICES ASSUME NEW i \in 1..Len(executed'), NEW j \in 1..Len(executed'), i < j
                   PROVE  executed'[i] < executed'[j]
      OBVIOUS
    <3>3. i \in 1..Len(executed) /\ executed'[i] = executed[i]
      BY <1>0, <2>3, <3>2
    <3>4. CASE j \in 1..Len(executed)
      BY <2>3, <3>1, <3>2, <3>3, <3>4
    <3>5. CASE j = Len(executed) + 1
      BY <2>3, <2>4, <3>3, <3>5
    <3> QED  BY <1>0, <2>3, <3>4, <3>5
  <2>7. \A j \in 1..Len(executed') :
          /\ executed'[j] \in 1..Len(sent') /\ MayRun(sent'[executed'[j]]) /\ executed'[j] < cur'
          /\ pc' \notin {"reading", "handle", "dispatch"} /\ executed'[j] <= first'
    BY <2>1, <2>2, <2>5
  <2> QED  BY <2>6, <2>7 DEF CallInv, MayRun
<1>3. UNCHANGED executed \/ (Dispatch /\ Executes(sent[first]))
  <2>1. CASE Dispatch
    BY <1>0, <2>1, Dispatched
  <2>2. CASE ~Dispatch
    BY <2>2 DEF Next, Server, vars, serverVars, Client, ClientStopsReading, Cancel, ReadFails,
     CheckContext, Reading, HandleEOF, HandleTooLarge, HandleMessage, Respond
  <2> QED  BY <2>1, <2>2
<1> QED  BY <1>1, <1>2, <1>3

\* Every step keeps what is known of the reports of an execution.
LEMMA ReportStep ==
    ASSUME ServerInv, [Next]_vars
    PROVE  ReportInv'
<1>0. /\ TypeOK /\ LoopInv /\ AnswerInv /\ ReportInv
      /\ executed \in Seq(Nat \ {0}) /\ Len(executed) \in Nat
      /\ out \in Seq(ResponseType) /\ Len(out) \in Nat
  BY DEF ServerInv, LoopInv, TypeOK, ResponseType
<1>1. CASE Dispatch
  <2>1. /\ response'.body = "result" /\ sent[first].method = "tools/call" => Executes(sent[first])
        /\ executed' = IF Executes(sent[first]) THEN Append(executed, first) ELSE executed
        /\ first \in Nat \ {0}
    BY <1>0, <1>1, Dispatched DEF TypeOK, TransportTypeOK
  <2>2. pc = "dispatch" /\ pc' = "respond" /\ UNCHANGED <<sent, first, out, exit>>
    BY <1>1 DEF Dispatch, transportVars
  <2>3. Executes(sent[first]) =>
           /\ Len(executed') = Len(executed) + 1 /\ executed'[Len(executed) + 1] = first
           /\ \A j \in 1..Len(executed) : executed'[j] = executed[j]
    BY <1>0, <2>1, Grows
  <2>4. \A j \in 1..Len(executed) :
          (\E n \in 1..Len(out) : out[n].line = executed[j]) \/ exit = "write_error"
    BY <1>0, <2>2 DEF ReportInv
  <2>5. \A j \in 1..Len(executed') :
          \/ \E n \in 1..Len(out) : out[n].line = executed'[j]
          \/ executed'[j] = first
          \/ exit = "write_error"
    BY <1>0, <2>1, <2>3, <2>4
  <2>6. \A n : Ran(n) => Ran(n)'
    BY <1>0, <2>1, <2>3 DEF Ran
  <2>7. \A n \in 1..Len(out) :
          out[n].body = "result" /\ sent[out[n].line].method = "tools/call" => Ran(out[n].line)'
    BY <1>0, <2>2, <2>6 DEF ReportInv, Ran
  <2>8. response'.body = "result" /\ sent[first].method = "tools/call" => Ran(first)'
    BY <1>0, <2>1, <2>2, <2>3 DEF Ran
  <2> QED  BY <2>2, <2>5, <2>7, <2>8 DEF ReportInv, Ran
<1>2. CASE ~Dispatch
  <2>1. executed' = executed
    BY <1>2 DEF Next, Server, vars, serverVars, Client, ClientStopsReading, Cancel, ReadFails,
     CheckContext, Reading, HandleEOF, HandleTooLarge, HandleMessage, Respond
  <2>2. exit = "write_error" => exit' = "write_error"
    BY <1>0, <1>2 DEF LoopInv, ControlInv, Next, Server, vars, serverVars, Client, ClientStopsReading, Cancel,
     ReadFails, CheckContext, Reading, HandleEOF, HandleTooLarge, HandleMessage, Respond
  <2>3. \A n \in 1..Len(out) : n \in 1..Len(out') /\ out'[n] = out[n]
    <3>1. CASE out' = out
      BY <3>1
    <3>2. CASE \E r \in ResponseType : out' = Append(out, r)
      BY <1>0, <3>2, Grows
    <3> QED  BY <3>1, <3>2, OutStep
  <2>4. pc = "respond" => \/ pc' = "respond" /\ first' = first
                          \/ exit' = "write_error"
                          \/ \E n \in 1..Len(out') : out'[n].line = first
    <3>1. CASE Respond
      <4>1. response \in ResponseType /\ response.line = first
        BY <1>0, <3>1 DEF Respond, AnswerInv
      <4>2. PICK r \in ResponseType : r.line = first /\ Write(r)
        BY <3>1, <4>1 DEF Respond, ResponseType, Bodies, JSONRPCErrors
      <4> QED  BY <1>0, <4>2, Grows DEF Write, Stop
    <3>2. CASE ~Respond
      BY <1>2, <3>2 DEF Next, Server, vars, transportVars, serverVars, Client, ClientSend, ClientClose,
        ClientStopsReading, Cancel, ReadFails, CheckContext, Reading, HandleEOF, HandleTooLarge, HandleMessage
    <3> QED  BY <3>1, <3>2
  <2>5. \A j \in 1..Len(executed) :
         \/ \E n \in 1..Len(out') : out'[n].line = executed[j]
         \/ pc' = "respond" /\ executed[j] = first'
         \/ exit' = "write_error"
    BY <1>0, <2>2, <2>3, <2>4 DEF ReportInv
  <2>6. ASSUME NEW n \in 1..Len(out), out[n].body = "result", sent'[out[n].line].method = "tools/call"
        PROVE  Ran(out[n].line)
    <3>1. out[n].line \in 1..Len(sent)
      BY <1>0, <2>6 DEF AnswerInv, Proper
    <3>2. sent'[out[n].line] = sent[out[n].line]
      BY <1>0, <3>1, LinesStay
    <3> QED  BY <1>0, <2>6, <3>2 DEF ReportInv
  <2>7. ASSUME NEW n \in 1..Len(out'), out'[n].body = "result", sent'[out'[n].line].method = "tools/call"
        PROVE  Ran(out'[n].line)
    <3>1. CASE n \in 1..Len(out)
      BY <2>3, <2>6, <2>7, <3>1
    <3>2. CASE n \notin 1..Len(out)
      <4>1. PICK r \in ResponseType :
               /\ out' = Append(out, r) /\ UNCHANGED transportVars /\ r.line = first
               /\ r.body = "result" => pc = "respond" /\ response.body = "result"
        BY <2>7, <3>2, OutStep
      <4>2. out'[n] = r
        BY <1>0, <2>7, <3>2, <4>1, Grows
      <4> QED  BY <1>0, <2>7, <4>1, <4>2 DEF ReportInv, transportVars
    <3> QED  BY <3>1, <3>2
  <2>8. ASSUME pc' = "respond", response'.body = "result", sent'[first'].method = "tools/call"
        PROVE  Ran(first')
    <3>1. pc = "respond" /\ UNCHANGED <<first, response>>
      BY <1>2, <2>8, SameIteration
    <3>2. first \in 1..Len(sent)
      BY <1>0, <3>1, HandledTypes DEF LoopInv, HandledInv, Handling
    <3>3. sent'[first] = sent[first]
      BY <1>0, <3>2, LinesStay
    <3> QED  BY <1>0, <2>8, <3>1, <3>3 DEF ReportInv
  <2> QED  BY <2>1, <2>5, <2>7, <2>8 DEF ReportInv, Ran
<1> QED  BY <1>1, <1>2

-----------------------------------------------------------------------------
(* The invariant *)

\* The invariant holds at the start.
LEMMA ServerInit == Init => ServerInv
<1> SUFFICES ASSUME Init PROVE ServerInv
  OBVIOUS
<1>0. TransportInit /\ pc = "loop" /\ out = <<>> /\ executed = <<>> /\ exit = "running"
  BY DEF Init
<1>1. TransportTypeOK /\ Aligned
  BY <1>0, TransportStarts
<1>2. Len(out) = 0 /\ Len(executed) = 0 /\ Len(reads) = 0
  BY <1>0 DEF TransportInit
<1>3. TypeOK
  <2>1. out \in Seq(ResponseType)
    BY <1>0
  <2>2. executed \in Seq(Nat \ {0})
    BY <1>0
  <2>3. ctxDone \in BOOLEAN /\ outOpen \in BOOLEAN
    BY DEF Init
  <2> QED  BY <1>0, <1>1, <2>1, <2>2, <2>3 DEF TypeOK, ResponseType
<1>4. ControlInv /\ HandledInv
  BY <1>0 DEF ControlInv, HandledInv, Handling, TransportInit
<1>5. EOFInv /\ AnswerInv /\ CallInv /\ ReportInv
  BY <1>0, <1>2 DEF EOFInv, AnswerInv, CallInv, ReportInv
<1> QED  BY <1>1, <1>3, <1>4, <1>5 DEF ServerInv, LoopInv

\* Every step keeps it.
LEMMA ServerStep == ServerInv /\ [Next]_vars => ServerInv'
<1> SUFFICES ASSUME ServerInv, [Next]_vars PROVE ServerInv'
  OBVIOUS
<1>1. LoopInv
  BY DEF ServerInv
<1>2. LoopInv'
  BY <1>1, TypeStep, TransportPart, ControlStep, EOFStep, HandledStep DEF LoopInv
<1> QED  BY <1>2, AnswerStep, CallStep, ReportStep DEF ServerInv

\* It holds in every state.
LEMMA ServerInvariant == Spec => []ServerInv
BY ServerInit, ServerStep, PTL DEF Spec

-----------------------------------------------------------------------------
(* The promises *)

\* The variables of the server always have their types.
THEOREM ServerTypeCorrect == Spec => []TypeOK
BY ServerInvariant, PTL DEF ServerInv, LoopInv

\* Server.Run drives the transport only as TransportSpec allows: what is
\* proved of the reader alone holds in the server.
THEOREM ServerDrivesTransport == Spec => TransportSpec
<1>1. Init => TransportInit
  BY DEF Init
<1>2. ServerInv /\ [Next]_vars => [TransportNext]_transportVars
  BY UsesTransport DEF ServerInv, LoopInv
<1> QED  BY <1>1, <1>2, ServerInvariant, PTL DEF Spec, TransportSpec

\* In the running server too, the line buffer is bounded and belongs to one
\* line (transport.go:44 ReadMessage).
THEOREM ServerAligned == Spec => []Aligned
BY ServerDrivesTransport, AlwaysAligned, PTL

\* In the running server too, every ReadMessage consumes whole lines in order.
THEOREM ServerReadsWholeLines == Spec => ReadsWholeLines
BY ServerDrivesTransport, TransportImplementsLineReader, PTL

\* Only a complete request with an id, within the limit, reaches a tool; each
\* at most once and in order; and a read-only server runs no tool that writes
\* (server.go:48 Run, request_validation.go, tools_boot.go).
THEOREM OnlyValidExecute == Spec => []OnlyValidRequestsExecute
<1>1. ServerInv => OnlyValidRequestsExecute
  <2> SUFFICES ASSUME ServerInv PROVE OnlyValidRequestsExecute
    OBVIOUS
  <2>1. DOMAIN executed = 1..Len(executed)
    BY LenProperties DEF ServerInv, LoopInv, TypeOK
  <2> QED  BY <2>1 DEF ServerInv, CallInv, MayRun, OnlyValidRequestsExecute
<1> QED  BY <1>1, ServerInvariant, PTL

\* No result is invented, and no call goes unreported unless writing failed.
THEOREM ExecutionAlwaysReported == Spec => []ExecutionReported
<1>1. ServerInv => ExecutionReported
  <2> SUFFICES ASSUME ServerInv PROVE ExecutionReported
    OBVIOUS
  <2>1. DOMAIN executed = 1..Len(executed) /\ DOMAIN out = 1..Len(out)
    BY LenProperties DEF ServerInv, LoopInv, TypeOK
  <2>2. exit # "running" => pc = "stopped"
    BY DEF ServerInv, LoopInv, ControlInv
  <2>3. \A k \in DOMAIN out : out[k].body = "result" /\ sent[out[k].line].method = "tools/call"
             => \E j \in DOMAIN executed : executed[j] = out[k].line
    BY <2>1 DEF ServerInv, ReportInv, Ran
  <2>4. ASSUME exit \in {"nil", "canceled", "read_error"}, NEW j \in DOMAIN executed
        PROVE  Answers(executed[j]) # {}
    BY <2>1, <2>2, <2>4 DEF ServerInv, ReportInv, Answers
  <2> QED  BY <2>3, <2>4 DEF ExecutionReported
<1> QED  BY <1>1, ServerInvariant, PTL

\* What the invariant says about one answer.
LEMMA WrittenAnswer ==
    ASSUME ServerInv, NEW k \in DOMAIN out
    PROVE  Proper(out[k]) /\ Len(sent) \in Nat /\ out[k].line \in Nat
<1>1. out \in Seq(ResponseType)
  BY DEF ServerInv, LoopInv, TypeOK, ResponseType
<1>2. k \in 1..Len(out)
  BY <1>1, LenProperties
<1>3. out[k] \in ResponseType
  BY <1>1, <1>2, ElementOfSeq
<1>4. out[k].line \in Nat
  BY <1>3 DEF ResponseType
<1>5. sent \in Seq(Messages)
  BY DEF ServerInv, LoopInv, TypeOK, TransportTypeOK
<1> QED  BY <1>2, <1>4, <1>5, LenProperties DEF ServerInv, AnswerInv

\* Every answer carries the id of the line it answers, or null when the line
\* has none that can be trusted (request_validation.go requestIDOrNull).
THEOREM AnswersIdentified == Spec => []AnswerIdentity
<1>1. ServerInv => AnswerIdentity
  <2> SUFFICES ASSUME ServerInv, NEW k \in DOMAIN out
               PROVE  LET n == out[k].line
                          m == sent[n]
                          identifiable == n <= Len(sent) /\ ~Oversized(m) /\ m.json = "object"
                      IN out[k].id = IF identifiable /\ m.id \notin {"absent", "bad"} THEN m.id ELSE NullId
    BY DEF AnswerIdentity
  <2>1. Proper(out[k]) /\ Len(sent) \in Nat /\ out[k].line \in Nat
    BY WrittenAnswer
  <2> QED  BY <2>1 DEF Proper, ProperAnswer, Contract!EchoedId
<1> QED  BY <1>1, ServerInvariant, PTL

\* The code of an answer follows from its line alone.
THEOREM AnswerCodesFollow == Spec => []AnswerCodes
<1>1. ServerInv => AnswerCodes
  <2> SUFFICES ASSUME ServerInv, NEW k \in DOMAIN out
               PROVE  LET n == out[k].line
                          m == sent[n]
                          cut == n > Len(sent) \/ Oversized(m)
                      IN /\ out[k].body = "ParseError" <=> ~cut /\ m.json = "malformed"
                         /\ out[k].body = "InvalidRequest" <=>
                               cut \/ (m.json # "malformed" /\ ~Envelope(m))
                         /\ out[k].body = "MethodNotFound" =>
                               m.method \notin {"initialize", "tools/list", "tools/call"}
                         /\ out[k].body = "result" => Envelope(m) /\ m.id # "absent"
    BY DEF AnswerCodes
  <2>1. Proper(out[k]) /\ Len(sent) \in Nat /\ out[k].line \in Nat
    BY WrittenAnswer
  <2> QED  BY <2>1 DEF Proper, ProperAnswer, Contract!Codes, Contract!Envelope, Contract!Notification, Envelope
<1> QED  BY <1>1, ServerInvariant, PTL
-----------------------------------------------------------------------------
(* The loop implements ServerContract *)

\* A record is what its fields are.
LEMMA ResponseFields ==
    ASSUME NEW r \in ResponseType
    PROVE  r = [line |-> r.line, id |-> r.id, body |-> r.body]
BY DEF ResponseType

\* Steps a client cannot see.
LEMMA Unseen ==
    ASSUME ServerInv,
           \/ ClientStopsReading \/ Cancel \/ Reading \/ Dispatch \/ UNCHANGED vars
           \/ CheckContext /\ pc' = "reading"
           \/ HandleMessage /\ pc' = "dispatch"
    PROVE  UNCHANGED Contract!vars
<1> USE DEF Contract!vars, linesServed, tailLeft, ending, Settled
<1>1. CASE ClientStopsReading \/ Cancel \/ UNCHANGED vars
  BY <1>1 DEF ClientStopsReading, Cancel, vars, serverVars, transportVars
<1>2. CASE Dispatch
  BY <1>2 DEF Dispatch, transportVars
<1>3. CASE HandleMessage /\ pc' = "dispatch"
  BY <1>3 DEF HandleMessage, Write, Stop, transportVars
<1>4. CASE CheckContext /\ pc' = "reading"
  <2>1. exit = "running"
    BY <1>4 DEF ServerInv, LoopInv, ControlInv, CheckContext
  <2> QED  BY <1>4, <2>1 DEF CheckContext, Stop, StartRead
<1>5. CASE Reading
  <2>1. pc = "reading" /\ pc' \in {"reading", "handle"} /\ UNCHANGED <<out, exit, sent, closed, tail, first>>
    BY <1>5 DEF Reading, ReadMessage, ReadByte, ReadEOF, DiscardByte, DiscardEOF
  <2>2. exit = "running"
    BY <2>1 DEF ServerInv, LoopInv, ControlInv
  <2>3. off > 0 /\ line = 0 <=> off' > 0 /\ line' = 0
    <3> USE DEF ServerInv, LoopInv, TypeOK, TransportTypeOK
    <3>1. CASE ReadByte
      <4>1. reader = "read" /\ ~Exhausted /\ line' = line + 1
        BY <3>1 DEF ReadByte, HasByte, InLine, Exhausted
      <4>2. line = off
        BY <4>1 DEF Aligned
      <4> QED  BY <4>1, <4>2
    <3>2. CASE ReadEOF \/ DiscardEOF
      BY <3>2 DEF ReadEOF, DiscardEOF
    <3>3. CASE DiscardByte
      BY <3>3 DEF DiscardByte, ControlInv
    <3> QED  BY <1>5, <3>1, <3>2, <3>3 DEF Reading, ReadMessage
  <2> QED  BY <2>1, <2>2, <2>3
<1> QED  BY <1>1, <1>2, <1>3, <1>4, <1>5

\* The client's own steps: what is left of stdin is untouched when it closes.
LEMMA ClientSeen ==
    ASSUME ServerInv, Client
    PROVE  \/ \E m \in Messages : Contract!Send(m)
           \/ \E n \in TailBytes : Contract!Close(n)
<1> USE DEF linesServed, tailLeft, ending, Settled
<1>1. CASE \E m \in Messages : ClientSend(m)
  BY <1>1 DEF Client, ClientSend, serverVars, Contract!Send
<1>2. CASE \E n \in TailBytes : ClientClose(n)
  <2>1. PICK n \in TailBytes : ClientClose(n)
    BY <1>2
  <2>2. UNCHANGED <<sent, cur, off, line, first, out, exit, pc>> /\ ~closed /\ closed' = TRUE /\ tail' = n
    BY <2>1 DEF Client, ClientClose, serverVars
  <2>3. exit # "nil" /\ (Settled => reader = "idle")
    BY <2>2 DEF ServerInv, LoopInv, ControlInv
  <2>4. ~Exhausted
    BY <2>2 DEF Exhausted
  <2>5. ~(off > 0 /\ (Settled \/ line = 0))
    BY <2>3, <2>4 DEF ServerInv, LoopInv, ControlInv, TypeOK, TransportTypeOK, Aligned
  <2>6. tailLeft' = n /\ linesServed' = linesServed /\ ending' = ending
    BY <2>2, <2>3, <2>5
  <2>7. Contract!Close(n)
    <3> HIDE DEF linesServed, tailLeft, ending
    <3> QED  BY <2>2, <2>6 DEF Contract!Close
  <2> QED  BY <2>7
<1> QED  BY <1>1, <1>2 DEF Client
\* Cancellation, a failed read and a failed write end the service where it is.
LEMMA Aborts ==
    ASSUME ServerInv,
           ReadFails \/ ((CheckContext \/ HandleTooLarge \/ HandleMessage \/ Respond) /\ pc' = "stopped")
    PROVE  Contract!Abort
<1>1. /\ exit' \in {"canceled", "read_error", "write_error"}
      /\ exit' = "canceled" <=> pc = "loop"
      /\ pc \in {"loop", "reading", "handle", "respond"} /\ pc' = "stopped"
      /\ UNCHANGED transportVars /\ out' = out
  BY DEF ReadFails, CheckContext, HandleTooLarge, HandleMessage, Respond, Write, Stop
<1>2. exit = "running"
  BY <1>1 DEF ServerInv, LoopInv, ControlInv
<1> QED
  BY <1>1, <1>2 DEF Contract!Abort, linesServed, tailLeft, ending, Settled, transportVars

\* The end of the input is the end of the service, with every line served.
LEMMA Ends ==
    ASSUME ServerInv, HandleEOF
    PROVE  Contract!End
<1>1. /\ pc = "handle" /\ pc' = "stopped" /\ exit' = "nil"
      /\ UNCHANGED transportVars /\ out' = out
  BY DEF HandleEOF, Stop
<1>2. exit = "running" /\ EOFRead
  BY <1>1 DEF ServerInv, LoopInv, ControlInv, HandledInv, Handling, HandleEOF
<1>3. UNCHANGED <<sent, closed, tail, cur, off, line, first>>
  BY <1>1 DEF transportVars
<1>4. /\ cur = first /\ closed /\ cur = Len(sent) + 1 /\ off = tail
      /\ MaxReadBytes > 0 => line <= MaxReadBytes
      /\ line = off \/ line = 0
      /\ Len(sent) \in Nat /\ tail \in Nat
  BY <1>2 DEF EOFRead, Exhausted, ServerInv, LoopInv, TypeOK, TransportTypeOK
<1>5. /\ ending = "no" /\ ending' = "drained"
      /\ linesServed = Len(sent) /\ linesServed' = linesServed
      /\ tailLeft' = 0
  BY <1>1, <1>2, <1>3, <1>4 DEF linesServed, tailLeft, ending, Settled
<1>6. MaxReadBytes > 0 => tailLeft <= MaxReadBytes
  BY <1>1, <1>2, <1>4, TransportAssumption DEF tailLeft, Settled
<1> QED  BY <1>1, <1>3, <1>4, <1>5, <1>6 DEF Contract!End, Contract!Drained

\* The end of an iteration in the variables of the contract.
LEMMA IterationEnds ==
    ASSUME ServerInv, pc \in Handling, pc' = "loop", exit' = exit, UNCHANGED transportVars
    PROVE  /\ UNCHANGED <<sent, closed, tail, cur, off, first>>
           /\ ending = "no" /\ ending' = "no"
           /\ linesServed = first - 1 /\ linesServed' = cur - 1
           /\ tailLeft = (IF off > 0 /\ line = 0 THEN 0 ELSE tail)
           /\ tailLeft' = (IF off > 0 THEN 0 ELSE tail)
           /\ first \in Nat \ {0} /\ cur \in Nat \ {0} /\ off \in Nat /\ tail \in Nat /\ line \in Nat
           /\ sent \in Seq(Messages) /\ Len(sent) \in Nat
           /\ \A n \in 1..Len(sent) : sent[n].bytes \in Nat
<1>1. exit = "running"
  BY DEF ServerInv, LoopInv, ControlInv, Handling
<1>2. UNCHANGED <<sent, closed, tail, cur, off, line, first>>
  BY DEF transportVars
<1>3. /\ first \in Nat \ {0} /\ cur \in Nat \ {0} /\ off \in Nat /\ tail \in Nat /\ line \in Nat
      /\ sent \in Seq(Messages) /\ Len(sent) \in Nat
      /\ \A n \in 1..Len(sent) : sent[n].bytes \in Nat
  BY TransportAssumption DEF ServerInv, LoopInv, TypeOK, TransportTypeOK
<1> QED  BY <1>1, <1>2, <1>3 DEF linesServed, tailLeft, ending, Settled, Handling

\* A line above the limit, or the unterminated end of the input, is refused.
LEMMA ServesTooLarge ==
    ASSUME ServerInv, HandleTooLarge, pc' = "loop"
    PROVE  Contract!ServeOversized \/ Contract!ServeTail
<1>1. /\ pc = "handle" /\ exit' = exit /\ UNCHANGED transportVars
      /\ lastRead.kind = "toolarge"
      /\ out' = Append(out, Response(lastRead.line, NullId, "InvalidRequest"))
  BY DEF HandleTooLarge, Write, Stop
<1>2. TooLargeRead /\ lastRead.line = first
  BY <1>1 DEF ServerInv, LoopInv, HandledInv, Handling
<1>3. /\ UNCHANGED <<sent, closed, tail, cur, off, first>>
      /\ ending = "no" /\ ending' = "no"
      /\ linesServed = first - 1 /\ linesServed' = cur - 1
      /\ tailLeft = (IF off > 0 /\ line = 0 THEN 0 ELSE tail)
      /\ tailLeft' = (IF off > 0 THEN 0 ELSE tail)
      /\ first \in Nat \ {0} /\ cur \in Nat \ {0} /\ off \in Nat /\ tail \in Nat /\ line \in Nat
      /\ sent \in Seq(Messages) /\ Len(sent) \in Nat
      /\ \A n \in 1..Len(sent) : sent[n].bytes \in Nat
  BY <1>1, IterationEnds DEF Handling
<1>4. linesServed + 1 = first /\ MaxReadBytes \in Nat /\ tailLeft = tail
  BY <1>2, <1>3, TransportAssumption DEF TooLargeRead
<1>5. Contract!Refuse(linesServed + 1)
  BY <1>1, <1>2, <1>4 DEF Contract!Refuse, Contract!Answer, Response
<1>6. CASE cur = first + 1 /\ off = 0 /\ first <= Len(sent) /\ sent[first].bytes > MaxReadBytes
  BY <1>2, <1>3, <1>4, <1>5, <1>6, SMTT(30)
  DEF TooLargeRead, Contract!ServeOversized, Contract!Waiting, Contract!Fits, Contract!current
<1>7. CASE cur = first + 2 /\ off = 0 /\ first + 1 <= Len(sent) /\ sent[first].bytes = MaxReadBytes
  BY <1>2, <1>3, <1>4, <1>5, <1>7
  DEF TooLargeRead, Contract!ServeOversized, Contract!Waiting, Contract!Fits, Contract!current
<1>8. CASE cur = first + 1 /\ Exhausted /\ first = Len(sent) /\ sent[first].bytes = MaxReadBytes
  BY <1>2, <1>3, <1>4, <1>5, <1>8
  DEF TooLargeRead, Exhausted, Contract!ServeOversized, Contract!Waiting, Contract!Fits, Contract!current
<1>9. CASE cur = first /\ Exhausted /\ off > MaxReadBytes
  BY <1>2, <1>3, <1>4, <1>5, <1>9
  DEF TooLargeRead, Exhausted, Contract!ServeTail, Contract!Drained
<1> QED  BY <1>2, <1>6, <1>7, <1>8, <1>9 DEF TooLargeRead

\* A line within the limit gets its answer, and a notification none.
LEMMA ServesLine ==
    ASSUME ServerInv, [Next]_vars, HandleMessage \/ Respond, pc' = "loop"
    PROVE  Contract!Serve
<1> DEFINE m == sent[first]
<1>1. pc \in Handling /\ exit' = exit /\ UNCHANGED transportVars /\ lastRead.kind = "message"
  BY DEF HandleMessage, Respond, Write, Stop, Handling, ServerInv, LoopInv, HandledInv
<1>2. MessageRead /\ lastRead.line = first
  BY <1>1 DEF ServerInv, LoopInv, HandledInv, Handling
<1>3. /\ UNCHANGED <<sent, closed, tail, cur, off, first>>
      /\ ending = "no" /\ ending' = "no"
      /\ linesServed = first - 1 /\ linesServed' = cur - 1
      /\ tailLeft = (IF off > 0 /\ line = 0 THEN 0 ELSE tail)
      /\ tailLeft' = (IF off > 0 THEN 0 ELSE tail)
      /\ first \in Nat \ {0} /\ cur \in Nat \ {0} /\ off \in Nat /\ tail \in Nat /\ line \in Nat
      /\ sent \in Seq(Messages) /\ Len(sent) \in Nat
      /\ \A n \in 1..Len(sent) : sent[n].bytes \in Nat
  BY <1>1, IterationEnds
<1>4. /\ linesServed + 1 = first /\ linesServed < Len(sent)
      /\ linesServed' = linesServed + 1 /\ tailLeft' = tailLeft
      /\ first \in 1..Len(sent) /\ ~Oversized(m)
  BY <1>2, <1>3 DEF MessageRead
<1>5. Contract!Waiting /\ Contract!current = m /\ Contract!Fits(m.bytes)
  BY <1>3, <1>4, TransportAssumption DEF Contract!Waiting, Contract!current, Contract!Fits, Oversized
<1>6. \/ Contract!Notification(m) /\ out' = out
      \/ /\ ~Contract!Notification(m)
         /\ \E body \in Contract!Codes(m) : Contract!Answer(first, Contract!EchoedId(m), body)
  <2>1. CASE HandleMessage /\ validateRequestMessage(m).verdict = "notification"
    <3>1. out' = out
      BY <1>2, <2>1 DEF HandleMessage
    <3>2. m \in Messages
      BY <1>3, <1>4, ElementOfSeq
    <3>3. Envelope(m) /\ m.id = "absent"
      BY <2>1, <3>2, ValidationMeaning
    <3> QED  BY <3>1, <3>3 DEF Envelope, Contract!Notification, Contract!Envelope
  <2>2. CASE \E r \in ResponseType : out' = Append(out, r) /\ r.line = first /\ Proper(r)
    <3>1. PICK r \in ResponseType : out' = Append(out, r) /\ r.line = first /\ Proper(r)
      BY <2>2
    <3>2. ProperAnswer(m, r)
      BY <1>3, <1>4, <3>1 DEF Proper
    <3>3. r = [line |-> first, id |-> Contract!EchoedId(m), body |-> r.body]
          /\ ~Contract!Notification(m) /\ r.body \in Contract!Codes(m)
      BY <1>4, <3>1, <3>2, ResponseFields DEF ProperAnswer
    <3> QED  BY <3>1, <3>3 DEF Contract!Answer
  <2>3. CASE ~(HandleMessage /\ validateRequestMessage(m).verdict = "notification")
    <3>1. PICK r : out' = Append(out, r)
      BY <1>2, <2>3 DEF HandleMessage, Respond, Write, Stop
    <3>2. out \in Seq(ResponseType)
      BY DEF ServerInv, LoopInv, TypeOK, ResponseType
    <3>3. out' # out
      BY <3>1, <3>2
    <3>4. \E q \in ResponseType : out' = Append(out, q) /\ q.line = first /\ Proper(q)
      BY <3>3, OutStep
    <3> QED  BY <2>2, <3>4
  <2> QED  BY <2>1, <2>3
<1> QED  BY <1>3, <1>4, <1>5, <1>6 DEF Contract!Serve

\* Every step of the server is a step of the contract, or invisible in it.
LEMMA ContractStep ==
    ASSUME ServerInv, [Next]_vars
    PROVE  [Contract!Next]_(Contract!vars)
<1>1. CASE Client
  BY <1>1, ClientSeen DEF Contract!Next
<1>2. CASE \/ ClientStopsReading \/ Cancel \/ Reading \/ Dispatch \/ UNCHANGED vars
           \/ CheckContext /\ pc' = "reading"
           \/ HandleMessage /\ pc' = "dispatch"
  BY <1>2, Unseen
<1>3. CASE ReadFails \/ ((CheckContext \/ HandleTooLarge \/ HandleMessage \/ Respond) /\ pc' = "stopped")
  BY <1>3, Aborts DEF Contract!Next
<1>4. CASE HandleEOF
  BY <1>4, Ends DEF Contract!Next
<1>5. CASE HandleTooLarge /\ pc' = "loop"
  BY <1>5, ServesTooLarge DEF Contract!Next
<1>6. CASE (HandleMessage \/ Respond) /\ pc' = "loop"
  BY <1>6, ServesLine DEF Contract!Next
<1>7. /\ CheckContext => pc' \in {"reading", "stopped"}
      /\ HandleTooLarge \/ Respond => pc' \in {"loop", "stopped"}
      /\ HandleMessage => pc' \in {"loop", "dispatch", "stopped"}
  BY DEF CheckContext, HandleTooLarge, Respond, HandleMessage, Write, Stop
<1> QED  BY <1>1, <1>2, <1>3, <1>4, <1>5, <1>6, <1>7 DEF Next, Server

\* The refinement for every set of messages and every limit: whatever the
\* client pipelines and whenever it closes, stops reading or cancels, every
\* line is served in its turn with the one answer it is owed, and Run returns
\* nil only when every line is served (server.go Run).
THEOREM ServerKeepsContract == Spec => ImplementsContract
<1>1. Init => Contract!Init
  BY DEF Init, TransportInit, Contract!Init, linesServed, tailLeft, ending, Settled
<1>2. ServerInv /\ [Next]_vars => [Contract!Next]_(Contract!vars)
  BY ContractStep
<1> QED  BY <1>1, <1>2, ServerInvariant, PTL DEF Spec, ImplementsContract, Contract!Spec

-----------------------------------------------------------------------------
(* The schemas and the tools *)

Tools == ReadTools \cup WriteTools
SpelledOnce(a) == \A x, y \in DOMAIN a : Field(x) = Field(y) => x = y

\* The decoded object has the fields of the given one, with their values.
LEMMA RespelledValues ==
    ASSUME NEW a, SpelledOnce(a)
    PROVE  /\ DOMAIN Respelled(a) = {Field(name) : name \in DOMAIN a}
           /\ \A name \in DOMAIN a : Respelled(a)[Field(name)] = a[name]
           /\ \A f : Given(a, f) <=> f \in DOMAIN Respelled(a)
           /\ \A f : Value(a, f) = IF f \in DOMAIN Respelled(a) THEN Respelled(a)[f] ELSE "empty"
<1>1. DOMAIN Respelled(a) = {Field(name) : name \in DOMAIN a}
  BY DEF Respelled
<1>2. \A f : Given(a, f) <=> f \in DOMAIN Respelled(a)
  BY <1>1 DEF Given
<1>3. \A f \in DOMAIN Respelled(a) : Respelled(a)[f] = Value(a, f)
  BY <1>1 DEF Respelled
<1>4. ASSUME NEW name \in DOMAIN a PROVE Value(a, Field(name)) = a[name]
  <2>1. (CHOOSE x \in DOMAIN a : Field(x) = Field(name)) = name
    BY DEF SpelledOnce
  <2>2. Given(a, Field(name))
    BY DEF Given
  <2> QED  BY <2>1, <2>2 DEF Value
<1>5. \A f : ~Given(a, f) => Value(a, f) = "empty"
  BY DEF Value
<1> QED  BY <1>1, <1>2, <1>3, <1>4, <1>5

\* decodeStrictArguments and the checks of Execute, on the decoded object.
LEMMA DecodeRespelled ==
    ASSUME NEW a, SpelledOnce(a), NEW fields
    PROVE  decodeStrictArguments(a, fields) <=>
             \A f \in DOMAIN Respelled(a) : f \in fields /\ Respelled(a)[f] \in Type(f)
<1>1. DOMAIN Respelled(a) = {Field(name) : name \in DOMAIN a}
  BY RespelledValues
<1>2. \A name \in DOMAIN a : Respelled(a)[Field(name)] = a[name]
  BY RespelledValues
<1> QED  BY <1>1, <1>2 DEF decodeStrictArguments

\* A tool takes what its schema describes, except blank paths and integers
\* beyond int64: the two tables of every tool agree.
LEMMA SchemasAgree ==
    ASSUME NEW tool \in Tools, NEW a, SpelledOnce(a)
    PROVE  LET b == Respelled(a)
           IN  Accepts(tool, a) <=>
                 /\ Described(tool, b)
                 /\ \A f \in {"path", "source", "target"} \cap DOMAIN b : b[f] # "blank"
                 /\ \A f \in DOMAIN b : b[f] # "wide"
<1> DEFINE b == Respelled(a)
           Fits == /\ Described(tool, b)
                   /\ \A f \in {"path", "source", "target"} \cap DOMAIN b : b[f] # "blank"
                   /\ \A f \in DOMAIN b : b[f] # "wide"
<1>1. \A f : Given(a, f) <=> f \in DOMAIN b
  BY RespelledValues
<1>2. \A f : Value(a, f) = IF f \in DOMAIN b THEN b[f] ELSE "empty"
  BY RespelledValues
<1>3. \A fields : decodeStrictArguments(a, fields) <=> \A f \in DOMAIN b : f \in fields /\ b[f] \in Type(f)
  BY DecodeRespelled
<1> SUFFICES Accepts(tool, a) <=> Fits
  OBVIOUS
<1> HIDE DEF b
<1> USE <1>1, <1>2, <1>3 DEF Accepts, Described, InputSchema, Type, Strings, isNonBlank
<1>4. CASE tool = "list_directory"   BY <1>4 DEF ListDirectory, ListDirectorySchema
<1>5. CASE tool = "read_file"        BY <1>5 DEF ReadFileArgs, ReadFileSchema
<1>6. CASE tool = "get_path_info"    BY <1>6 DEF GetPathInfo, GetPathInfoSchema
<1>7. CASE tool = "write_file"       BY <1>7 DEF WriteFile, WriteFileSchema
<1>8. CASE tool = "create_directory" BY <1>8 DEF CreateDirectory, CreateDirectorySchema
<1>9. CASE tool = "delete_path"      BY <1>9 DEF DeletePath, DeletePathSchema
<1>10. CASE tool = "copy_path"       BY <1>10 DEF CopyPath, CopyPathSchema
<1>11. CASE tool = "move_path"       BY <1>11 DEF MovePath, MovePathSchema
<1> QED
  BY <1>4, <1>5, <1>6, <1>7, <1>8, <1>9, <1>10, <1>11 DEF Tools, ReadTools, WriteTools

\* A line the router hands to handleToolsCall, and an answer to it that tells
\* whether the tool has called the file system.
Asked(n, lines) == /\ n <= Len(lines) /\ ~Oversized(lines[n])
                   /\ validateRequestMessage(lines[n]).verdict = "request"
                   /\ lines[n].method = "tools/call"
Called(n, calls) == \E j \in 1..Len(calls) : calls[j] = n
Faithful(r, lines, calls) ==
    Asked(r.line, lines) =>
       /\ Executes(lines[r.line]) => Called(r.line, calls)
       /\ ~Executes(lines[r.line]) => r.body \in {"InvalidParams", "InternalError"}

\* A call is made exactly for the lines that execute, and the others are told.
PublishInv ==
    /\ \A j \in 1..Len(executed) : Executes(sent[executed[j]])
    /\ \A n \in 1..Len(out) : Faithful(out[n], sent, executed)
    /\ pc = "respond" => Faithful(response, sent, executed)

\* A line that was asked for is answered by Respond only, with what Dispatch
\* has prepared or the error that replaces an oversized response.
LEMMA AnswersAsked ==
    ASSUME ServerInv, [Next]_vars, out' # out, Asked(first, sent)
    PROVE  /\ pc = "respond"
           /\ \/ out' = Append(out, response)
              \/ out' = Append(out, [response EXCEPT !.body = "InternalError"])
<1>0. LoopInv
  BY DEF ServerInv
<1>1. ~HandleTooLarge
  <2> SUFFICES ASSUME HandleTooLarge PROVE FALSE
    OBVIOUS
  <2>1. TooLargeRead
    BY <1>0 DEF HandleTooLarge, LoopInv, HandledInv, Handling
  <2>2. first \in Nat \ {0} /\ Len(sent) \in Nat /\ \A n \in 1..Len(sent) : sent[n].bytes \in Nat
    BY <1>0, TransportAssumption DEF LoopInv, TypeOK, TransportTypeOK
  <2> QED  BY <2>1, <2>2, TransportAssumption DEF TooLargeRead, Exhausted, Oversized, Asked
<1>2. ~HandleMessage
  BY <1>0 DEF HandleMessage, LoopInv, HandledInv, Handling, Asked
<1>3. Respond
  BY <1>1, <1>2 DEF Next, Server, vars, serverVars, Client, ClientStopsReading, Cancel, ReadFails,
     CheckContext, Reading, HandleEOF, Dispatch
<1> QED  BY <1>3 DEF Respond, Write

\* An answer that was faithful stays so: lines stay and calls are only added.
LEMMA FaithfulStays ==
    ASSUME TypeOK, [Next]_vars, NEW r, r.line \in Nat \ {0}, Proper(r), Faithful(r, sent, executed),
           \A n : Called(n, executed) => Called(n, executed')
    PROVE  Faithful(r, sent', executed')
<1>1. CASE r.line \in 1..Len(sent)
  BY <1>1, LinesStay DEF Faithful, Asked
<1>2. CASE r.line \notin 1..Len(sent)
  <2>1. closed
    BY <1>2 DEF Proper
  <2>2. sent' = sent
    BY <2>1, LinesStay
  <2> QED  BY <2>2 DEF Faithful
<1> QED  BY <1>1, <1>2

\* Every step keeps the calls and the answers together.
LEMMA PublishStep ==
    ASSUME ServerInv, PublishInv, [Next]_vars
    PROVE  PublishInv'
<1>0. /\ TypeOK /\ LoopInv /\ AnswerInv /\ CallInv
      /\ executed \in Seq(Nat \ {0}) /\ Len(executed) \in Nat
      /\ out \in Seq(ResponseType) /\ Len(out) \in Nat
  BY DEF ServerInv, LoopInv, TypeOK, ResponseType
<1>1. \A j \in 1..Len(executed) : Executes(sent'[executed[j]])
  <2>1. \A j \in 1..Len(executed) : executed[j] \in 1..Len(sent) /\ Executes(sent[executed[j]])
    BY <1>0 DEF CallInv, PublishInv
  <2> QED  BY <1>0, <2>1, LinesStay
<1>2. ASSUME NEW n \in 1..Len(out), \A k : Called(k, executed) => Called(k, executed')
      PROVE  Faithful(out[n], sent', executed')
  <2>1. out[n].line \in Nat \ {0}
    <3>1. out[n] \in ResponseType
      BY <1>0, ElementOfSeq
    <3> QED  BY <3>1 DEF ResponseType
  <2>2. Proper(out[n]) /\ Faithful(out[n], sent, executed)
    BY <1>0 DEF AnswerInv, PublishInv
  <2> QED  BY <1>0, <1>2, <2>1, <2>2, FaithfulStays
<1>3. CASE Dispatch
  <2>1. /\ executed' = IF Executes(sent[first]) THEN Append(executed, first) ELSE executed
        /\ first \in Nat \ {0} /\ response'.line = first
    BY <1>0, <1>3, Dispatched DEF TypeOK, TransportTypeOK
  <2>2. pc' = "respond" /\ UNCHANGED <<sent, out>>
    BY <1>3 DEF Dispatch, transportVars
  <2>3. Executes(sent[first]) =>
           /\ Len(executed') = Len(executed) + 1 /\ executed'[Len(executed) + 1] = first
           /\ \A j \in 1..Len(executed) : executed'[j] = executed[j]
    BY <1>0, <2>1, Grows
  <2>4. \A j \in 1..Len(executed') : Executes(sent'[executed'[j]])
    BY <1>0, <1>1, <2>1, <2>2, <2>3
  <2>5. \A n : Called(n, executed) => Called(n, executed')
    BY <1>0, <2>1, <2>3 DEF Called
  <2>6. Executes(sent[first]) => Called(first, executed')
    BY <1>0, <2>3 DEF Called
  <2>7. sent[first].method = "tools/call" /\ ~Executes(sent[first]) => response'.body = "InvalidParams"
    <3>1. lastRead.line = first
      BY <1>0, <1>3 DEF Dispatch, LoopInv, HandledInv, Handling
    <3>2. PICK body \in Outcomes(sent[first]) : response' = Response(first, sent[first].id, body)
      BY <1>3, <3>1 DEF Dispatch
    <3>3. response'.body = body
      BY <3>2 DEF Response
    <3> QED  BY <3>2, <3>3 DEF Outcomes
  <2>8. Faithful(response', sent', executed')
    BY <2>1, <2>2, <2>6, <2>7 DEF Faithful, Asked
  <2> QED  BY <1>2, <2>2, <2>4, <2>5, <2>8 DEF PublishInv
<1>4. CASE ~Dispatch
  <2>1. executed' = executed
    BY <1>4 DEF Next, Server, vars, serverVars, Client, ClientStopsReading, Cancel, ReadFails,
     CheckContext, Reading, HandleEOF, HandleTooLarge, HandleMessage, Respond
  <2>2. \A n \in 1..Len(out) : Faithful(out[n], sent', executed')
    BY <1>2, <2>1
  <2>3. ASSUME out' # out
        PROVE  \E r : /\ Len(out') = Len(out) + 1 /\ out'[Len(out) + 1] = r
                      /\ \A n \in 1..Len(out) : out'[n] = out[n]
                      /\ Faithful(r, sent', executed')
    <3>1. PICK r \in ResponseType : out' = Append(out, r) /\ UNCHANGED transportVars /\ r.line = first
      BY <2>3, OutStep
    <3>2. Len(out') = Len(out) + 1 /\ out'[Len(out) + 1] = r /\ \A n \in 1..Len(out) : out'[n] = out[n]
      BY <1>0, <3>1, Grows
    <3>3. sent' = sent
      BY <3>1 DEF transportVars
    <3>4. CASE ~Asked(first, sent)
      BY <3>1, <3>2, <3>3, <3>4 DEF Faithful
    <3>5. CASE Asked(first, sent)
      <4>1. pc = "respond" /\ response \in ResponseType /\ response.line = first
            /\ Faithful(response, sent, executed)
        BY <1>0, <2>3, <3>5, AnswersAsked DEF AnswerInv, PublishInv
      <4> DEFINE e == [response EXCEPT !.body = "InternalError"]
      <4>2. e \in ResponseType
        BY <4>1 DEF ResponseType, Bodies, JSONRPCErrors
      <4> HIDE DEF e
      <4>3. r = response \/ r = e
        <5>1. out' = Append(out, response) \/ out' = Append(out, e)
          BY <2>3, <3>5, AnswersAsked DEF e
        <5>2. out' = Append(out, response) => r = response
          BY <1>0, <3>2, <4>1, Grows
        <5>3. out' = Append(out, e) => r = e
          BY <1>0, <3>2, <4>2, Grows
        <5> QED  BY <5>1, <5>2, <5>3
      <4>4. e.body = "InternalError"
        BY <4>1 DEF e, ResponseType
      <4>5. Faithful(r, sent, executed)
        BY <3>1, <3>5, <4>1, <4>3, <4>4 DEF Faithful
      <4> QED  BY <2>1, <3>2, <3>3, <4>5
    <3> QED  BY <3>4, <3>5
  <2>4. \A n \in 1..Len(out') : Faithful(out'[n], sent', executed')
    BY <1>0, <2>2, <2>3
  <2>5. ASSUME pc' = "respond" PROVE Faithful(response', sent', executed')
    <3>1. pc = "respond" /\ UNCHANGED <<first, response>>
      BY <1>4, <2>5, SameIteration
    <3>2. /\ first \in 1..Len(sent) /\ response.line = first
          /\ Faithful(response, sent, executed)
      BY <1>0, <3>1, HandledTypes DEF LoopInv, HandledInv, Handling, AnswerInv, PublishInv
    <3>3. sent'[first] = sent[first] /\ first <= Len(sent)
      BY <1>0, <3>2, LinesStay
    <3> QED  BY <2>1, <3>1, <3>2, <3>3 DEF Faithful, Asked
  <2> QED  BY <1>1, <2>1, <2>4, <2>5 DEF PublishInv
<1> QED  BY <1>3, <1>4

\* A client that goes by the schemas of tools/list predicts the server, for
\* every argument object: a registered tool calls the file system exactly when
\* its schema describes the arguments, up to the three known differences, and
\* a client whose call was not made is told so: InvalidParams, or InternalError
\* where even that answer is above MCP_MAX_RESPONSE_BYTES, and never a result
\* (params_validation.go:12 decodeStrictArguments, the tools' InputSchema).
THEOREM SchemasPredictCalls == Spec => []ArgumentsAsPublished
<1>1. Init => PublishInv
  BY DEF Init, PublishInv
<1>2. ServerInv /\ PublishInv => ArgumentsAsPublished
  <2> SUFFICES ASSUME ServerInv, PublishInv, NEW k \in DOMAIN out,
                      out[k].line <= Len(sent), ~Oversized(sent[out[k].line]),
                      validateRequestMessage(sent[out[k].line]).verdict = "request",
                      sent[out[k].line].method = "tools/call", sent[out[k].line].tool \in Registry
               PROVE  LET n == out[k].line
                          m == sent[n]
                          a == Respelled(Arguments(m))
                          called == \E j \in DOMAIN executed : executed[j] = n
                      IN /\ called <=> /\ Described(m.tool, a)
                                       /\ \A f \in {"path", "source", "target"} \cap DOMAIN a : a[f] # "blank"
                                       /\ \A f \in DOMAIN a : a[f] # "wide"
                         /\ ~called => out[k].body \in {"InvalidParams", "InternalError"}
    BY DEF ArgumentsAsPublished
  <2> DEFINE n == out[k].line
             m == sent[n]
             a == Arguments(m)
             called == \E j \in DOMAIN executed : executed[j] = n
  <2>1. DOMAIN executed = 1..Len(executed) /\ DOMAIN out = 1..Len(out)
    BY LenProperties DEF ServerInv, LoopInv, TypeOK
  <2>2. m \in Messages
    <3>1. Proper(out[k]) /\ Len(sent) \in Nat /\ n \in Nat
      BY WrittenAnswer
    <3>2. n \in 1..Len(sent)
      BY <3>1 DEF Proper
    <3>3. sent \in Seq(Messages)
      BY DEF ServerInv, LoopInv, TypeOK, TransportTypeOK
    <3> QED  BY <3>2, <3>3, ElementOfSeq
  <2>3. Faithful(out[k], sent, executed) /\ Asked(n, sent)
    BY <2>1 DEF PublishInv, Asked
  <2>4. called <=> Executes(m)
    BY <2>1, <2>3 DEF PublishInv, Faithful, Called
  <2>5. Executes(m) <=> Accepts(m.tool, a)
    BY DEF Executes
  <2>6. m.tool \in Tools
    BY DEF Registry, Tools
  <2>7. SpelledOnce(a)
    BY <2>2, ArgumentsAssumption DEF Arguments, NoArguments, SpelledOnce
  <2>8. ~called => out[k].body \in {"InvalidParams", "InternalError"}
    BY <2>3, <2>4 DEF Faithful
  <2> HIDE DEF a, n, called
  <2>9. LET b == Respelled(a)
        IN  Accepts(m.tool, a) <=>
              /\ Described(m.tool, b)
              /\ \A f \in {"path", "source", "target"} \cap DOMAIN b : b[f] # "blank"
              /\ \A f \in DOMAIN b : b[f] # "wide"
    BY <2>6, <2>7, SchemasAgree
  <2> QED  BY <2>4, <2>5, <2>8, <2>9 DEF a, n, called
<1> QED  BY <1>1, <1>2, ServerInvariant, PublishStep, PTL DEF Spec

=============================================================================
