----------------------------- MODULE McpServer ------------------------------
(***************************************************************************)
(* internal/mcp/server Server.Run over internal/mcp/transport: one process *)
(* that reads a line, validates it, dispatches it to a handler, writes at  *)
(* most one response and loops, until EOF, cancellation or an I/O error.   *)
(* The client writes lines, closes stdin or stops reading stdout whenever  *)
(* it likes; the context may be cancelled at any moment.                   *)
(*                                                                         *)
(* A handler is modelled by the outcomes Dispatch can return for the       *)
(* request; `executed` records the tools/call requests that reached the    *)
(* file system.  What they do there is LocalFileSystem.tla.                *)
(***************************************************************************)
EXTENDS Transport, RequestValidation, ToolArguments, FiniteSets

CONSTANTS ReadOnly  \* MCP_READ_ONLY

ASSUME ServerAssumption ==
    /\ ReadOnly \in BOOLEAN
    /\ \A m \in Messages : m.json \in {"malformed", "nonobject", "object"} /\ m.version \in BOOLEAN

\* No argument object spells the same field twice: which of the spellings
\* encoding/json keeps is not modelled.
ASSUME ArgumentsAssumption ==
    \A m \in Messages : \A x, y \in DOMAIN m.args : Field(x) = Field(y) => x = y

VARIABLES pc,        \* where Server.Run is
          ctxDone,   \* the context is cancelled
          outOpen,   \* the client still reads stdout
          response,  \* the response handleRequest returned, to be written
          out,       \* responses written; .line is the line they answer
          executed,  \* tools/call lines whose tool called the file system
          exit       \* what Run returned, or "running"

serverVars == <<pc, ctxDone, outOpen, response, out, executed, exit>>
vars == <<transportVars, serverVars>>

ReadTools  == {"list_directory", "read_file", "get_path_info"}
WriteTools == {"write_file", "create_directory", "delete_path", "copy_path", "move_path"}

\* createToolRegistry: the tools registered at start-up.
Registry == IF ReadOnly THEN ReadTools ELSE ReadTools \cup WriteTools

Bodies == JSONRPCErrors \cup {"result"}
NoResponse == [line |-> 0, id |-> NullId, body |-> "none"]
Response(n, id, body) == [line |-> n, id |-> id, body |-> body]

Init ==
    /\ TransportInit
    /\ pc = "loop"
    /\ ctxDone = FALSE
    /\ outOpen = TRUE
    /\ response = NoResponse
    /\ out = <<>>
    /\ executed = <<>>
    /\ exit = "running"

Stop(reason) == pc' = "stopped" /\ exit' = reason

lastRead == reads[Len(reads)]

-----------------------------------------------------------------------------
(* The environment. *)

Client ==
    /\ \/ Len(sent) < MaxLines /\ \E m \in Messages : ClientSend(m)
       \/ \E n \in TailBytes : ClientClose(n)
    /\ UNCHANGED serverVars

ClientStopsReading ==
    /\ outOpen
    /\ outOpen' = FALSE
    /\ UNCHANGED <<transportVars, pc, ctxDone, response, out, executed, exit>>

Cancel ==
    /\ ~ctxDone
    /\ ctxDone' = TRUE
    /\ UNCHANGED <<transportVars, pc, outOpen, response, out, executed, exit>>

-----------------------------------------------------------------------------
(* Server.Run *)

\* The select at the head of the loop; the read that follows does not look
\* at the context again.
CheckContext ==
    /\ pc = "loop"
    /\ \/ /\ ctxDone
          /\ Stop("canceled")
          /\ UNCHANGED transportVars
       \/ /\ ~ctxDone
          /\ StartRead
          /\ pc' = "reading"
          /\ exit' = exit
    /\ UNCHANGED <<ctxDone, outOpen, response, out, executed>>

Reading ==
    /\ pc = "reading"
    /\ ReadMessage
    /\ pc' = IF reader' = "idle" THEN "handle" ELSE pc
    /\ UNCHANGED <<ctxDone, outOpen, response, out, executed, exit>>

\* ReadByte fails with an error that is not EOF, and Run returns it.  (Inside
\* discardLine the error is dropped; stdin goes on failing, so the rejection
\* is the last answer.)
ReadFails ==
    /\ pc = "reading" /\ reader = "read"
    /\ Stop("read_error")
    /\ UNCHANGED <<transportVars, ctxDone, outOpen, response, out, executed>>

\* One response on stdout and back to the loop, or the end of Run when the
\* write fails.
Write(r) ==
    \/ /\ outOpen
       /\ out' = Append(out, r)
       /\ pc' = "loop"
       /\ exit' = exit
    \/ /\ ~outOpen
       /\ out' = out
       /\ Stop("write_error")

HandleEOF ==
    /\ pc = "handle"
    /\ lastRead.kind = "eof"
    /\ Stop("nil")
    /\ UNCHANGED <<transportVars, ctxDone, outOpen, response, out, executed>>

\* Mutant: a code of its own for oversized lines.
TooLargeOtherCode ==
    /\ pc = "handle"
    /\ lastRead.kind = "toolarge"
    /\ Write(Response(lastRead.line, NullId, "PayloadTooLarge"))
    /\ UNCHANGED <<transportVars, ctxDone, outOpen, response, executed>>

HandleTooLarge ==
    /\ pc = "handle"
    /\ lastRead.kind = "toolarge"
    /\ Write(Response(lastRead.line, NullId, "InvalidRequest"))
    /\ UNCHANGED <<transportVars, ctxDone, outOpen, response, executed>>

\* Mutant: a line that fails validation is skipped.
MessageErrorsUnanswered ==
    /\ pc = "handle"
    /\ lastRead.kind = "message"
    /\ LET v == validateRequestMessage(sent[lastRead.line])
       IN pc' = IF v.verdict = "request" THEN "dispatch" ELSE "loop"
    /\ UNCHANGED <<transportVars, ctxDone, outOpen, response, out, executed, exit>>

HandleMessage ==
    /\ pc = "handle"
    /\ lastRead.kind = "message"
    /\ LET n == lastRead.line
           v == validateRequestMessage(sent[n])
       IN \/ /\ v.verdict = "error"
             /\ Write(Response(n, v.id, v.code))
          \/ /\ v.verdict = "notification"
             /\ pc' = "loop"
             /\ UNCHANGED <<out, exit>>
          \/ /\ v.verdict = "request"
             /\ pc' = "dispatch"
             /\ UNCHANGED <<out, exit>>
    /\ UNCHANGED <<transportVars, ctxDone, outOpen, response, executed>>

\* Router.Dispatch and the handlers: what handleRequest may answer.  A panic
\* is recovered into InternalError; a tool that is not registered, and one
\* that refuses its arguments, is InvalidParams.  Arguments that are absent
\* or null are the empty object.
Arguments(m) == IF m.arguments = "object" THEN m.args ELSE NoArguments

Executes(m) == /\ m.method = "tools/call" /\ m.tool \in Registry
               /\ Accepts(m.tool, Arguments(m))

\* The handler decodes the other fields of params too, which may fail.
InitializeOutcomes == {"result", "InvalidParams"}

Outcomes(m) ==
    CASE m.method = "initialize" -> InitializeOutcomes
      [] m.method = "tools/list" -> {"result"}
      [] m.method = "tools/call" ->
           IF Executes(m) THEN {"result", "InvalidParams", "InternalError"}
                          ELSE {"InvalidParams"}
      [] OTHER -> {"MethodNotFound"}

Dispatch ==
    /\ pc = "dispatch"
    /\ LET n == lastRead.line
       IN /\ \E body \in Outcomes(sent[n]) :
                response' = Response(n, sent[n].id, body)
          /\ executed' = IF Executes(sent[n]) THEN Append(executed, n) ELSE executed
    /\ pc' = "respond"
    /\ UNCHANGED <<transportVars, ctxDone, outOpen, out, exit>>

\* Mutant: the replacement error is written behind the result.
RespondTwice ==
    /\ pc = "respond"
    /\ out' = IF outOpen THEN out \o <<response, [response EXCEPT !.body = "InternalError"]>> ELSE out
    /\ IF outOpen THEN pc' = "loop" /\ exit' = exit ELSE Stop("write_error")
    /\ response' = NoResponse
    /\ UNCHANGED <<transportVars, ctxDone, outOpen, executed>>

\* Mutant: a response above maxWriteBytes is dropped.
RespondDropsOversized ==
    /\ pc = "respond"
    /\ \/ Write(response)
       \/ pc' = "loop" /\ UNCHANGED <<out, exit>>
    /\ response' = NoResponse
    /\ UNCHANGED <<transportVars, ctxDone, outOpen, executed>>

\* writeResponse: a response above maxWriteBytes, be it a result or the error
\* of a handler, is replaced by an error that is written without a limit.
Respond ==
    /\ pc = "respond"
    /\ \/ Write(response)
       \/ Write([response EXCEPT !.body = "InternalError"])
    /\ response' = NoResponse
    /\ UNCHANGED <<transportVars, ctxDone, outOpen, executed>>

Server == \/ CheckContext \/ Reading \/ HandleEOF \/ HandleTooLarge
          \/ HandleMessage \/ Dispatch \/ Respond

Next == Client \/ ClientStopsReading \/ Cancel \/ ReadFails \/ Server

\* The process runs as long as it can: Run is one goroutine that nothing but
\* a blocked ReadByte holds up.  The client owes the server nothing.
Fairness == WF_vars(Server)

Spec == Init /\ [][Next]_vars /\ Fairness

-----------------------------------------------------------------------------
(* Properties *)

TypeOK ==
    /\ TransportTypeOK
    /\ pc \in {"loop", "reading", "handle", "dispatch", "respond", "stopped"}
    /\ ctxDone \in BOOLEAN
    /\ outOpen \in BOOLEAN
    /\ out \in Seq([line : Nat \ {0}, id : {m.id : m \in Messages} \cup {NullId}, body : Bodies])
    /\ executed \in Seq(Nat \ {0})
    /\ exit \in {"running", "nil", "canceled", "read_error", "write_error"}

Answers(n) == {k \in DOMAIN out : out[k].line = n}
\* A line the JSON-RPC envelope is complete in; without id a notification.
Envelope(m) == m.json = "object" /\ m.version /\ m.id # "bad" /\ m.method # "blank"

\* A line too long for the reader, and every line that is no notification,
\* is owed exactly one answer.
Oversized(m) == MaxReadBytes > 0 /\ m.bytes >= MaxReadBytes
OwesAnswer(m) == Oversized(m) \/ ~(Envelope(m) /\ m.id = "absent")

\* Lines whose iteration of the loop is complete: refinement mapping for
\* `served`.  A line whose read or answer failed stays unserved.
Settled == pc = "loop" \/ exit \in {"nil", "canceled"}
linesServed == IF Settled THEN cur - 1 ELSE first - 1

\* The unterminated line is gone after the iteration that consumed it; a later
\* call finds nothing to put into its buffer.
tailLeft == IF exit = "nil" \/ (off > 0 /\ (Settled \/ line = 0)) THEN 0 ELSE tail

ending == CASE exit = "running" -> "no"
            [] exit = "nil" -> "drained"
            [] OTHER -> "aborted"

Contract == INSTANCE ServerContract WITH served <- linesServed, rest <- tailLeft, over <- ending

\* The loop keeps the contract: whatever the client pipelines and whenever it
\* closes, stops reading or cancels, every line gets the one answer it is owed
\* with its own id before the next line gets its own, a line disappears only
\* behind an exact-limit line, and Run returns nil only when every line is
\* served (server.go:48 Run, transport.go:44 ReadMessage).
ImplementsContract == Contract!Spec

\* "Parse errors and invalid requests without a valid request ID serialize
\* id:null" (README.md:101) and every other answer echoes the id of the line
\* it answers: no answer is ever addressed to another request.
AnswerIdentity ==
    \A k \in DOMAIN out :
       LET n == out[k].line
           m == sent[n]
           identifiable == n <= Len(sent) /\ ~Oversized(m) /\ m.json = "object"
       IN out[k].id = IF identifiable /\ m.id \notin {"absent", "bad"} THEN m.id ELSE NullId

\* The code of an answer follows from the line alone, in whatever order the
\* validation asks: parse errors for malformed JSON, invalid requests for a
\* line over the limit or a broken envelope, and everything else only for a
\* complete envelope with an id (docs/tool-conventions.md:72).
AnswerCodes ==
    \A k \in DOMAIN out :
       LET n == out[k].line
           m == sent[n]
           cut == n > Len(sent) \/ Oversized(m)
       IN /\ out[k].body = "ParseError" <=> ~cut /\ m.json = "malformed"
          /\ out[k].body = "InvalidRequest" <=>
                cut \/ (m.json # "malformed" /\ ~Envelope(m))
          /\ out[k].body = "MethodNotFound" =>
                m.method \notin {"initialize", "tools/list", "tools/call"}
          /\ out[k].body = "result" => Envelope(m) /\ m.id # "absent"

\* "tools/call without an id cannot trigger filesystem operations"
\* (docs/security.md:197), a rejected line cannot either, a tool runs at most
\* once per request and in request order, and a read-only server runs no tool
\* that writes.
OnlyValidRequestsExecute ==
    /\ \A j, k \in DOMAIN executed : j < k => executed[j] < executed[k]
    /\ \A k \in DOMAIN executed :
          LET m == sent[executed[k]]
          IN /\ ~Oversized(m) /\ m.json = "object" /\ m.version /\ m.id # "absent"
             /\ ReadOnly => m.tool \notin WriteTools

\* A client that goes by the schemas of tools/list can predict the server: a
\* request for a registered tool reaches the file system exactly when its
\* schema describes the arguments, with three differences: a path of spaces
\* and an integer that is no int64 literal fit the schema and are refused, and
\* a name spelled with other capitals does not fit and is taken for the field
\* (params_validation.go:12 decodeStrictArguments, the tools' InputSchema).  A
\* call that is not made is answered InvalidParams, or InternalError when that
\* answer itself is above MCP_MAX_RESPONSE_BYTES (server.go:134), and never a
\* result.
Respelled(a) == [f \in {Field(name) : name \in DOMAIN a} |-> Value(a, f)]
ArgumentsAsPublished ==
    \A k \in DOMAIN out :
       LET n == out[k].line
           m == sent[n]
           a == Respelled(Arguments(m))
           called == \E j \in DOMAIN executed : executed[j] = n
       IN n <= Len(sent) /\ ~Oversized(m) /\ validateRequestMessage(m).verdict = "request"
          /\ m.method = "tools/call" /\ m.tool \in Registry =>
             /\ called <=> /\ Described(m.tool, a)
                           /\ \A f \in {"path", "source", "target"} \cap DOMAIN a : a[f] # "blank"
                           /\ \A f \in DOMAIN a : a[f] # "wide"
             /\ ~called => out[k].body \in {"InvalidParams", "InternalError"}

\* A result of tools/call is only reported for a tool that ran; and when Run
\* has stopped without a write error, every tool that ran was answered for.
ExecutionReported ==
    /\ \A k \in DOMAIN out :
          out[k].body = "result" /\ sent[out[k].line].method = "tools/call"
             => \E j \in DOMAIN executed : executed[j] = out[k].line
    /\ exit \in {"nil", "canceled", "read_error"} =>
          \A j \in DOMAIN executed : Answers(executed[j]) # {}

Alone(n) == /\ sent[n].bytes # MaxReadBytes \/ MaxReadBytes = 0
            /\ n > 1 => (sent[n - 1].bytes # MaxReadBytes \/ MaxReadBytes = 0)

\* A client may write one line and wait for its answer before it writes more:
\* the answer comes, unless the server has stopped.  Lines of exactly the
\* limit, and lines behind one, are the exception (see ReadsSingleMessage in Transport).
LineEventuallyAnswered ==
    \A n \in 1..MaxLines :
       (n <= Len(sent) /\ Alone(n) /\ OwesAnswer(sent[n]))
          ~> (exit # "running" \/ Answers(n) # {})

\* Closing stdin stops the server, whatever was written before.
EOFStopsServer == closed ~> exit # "running"
=============================================================================
