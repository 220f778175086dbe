--------------------------- MODULE ServerContract ---------------------------
(***************************************************************************)
(* What Server.Run promises a client that writes lines without waiting:    *)
(* the lines are served one after the other, each in one step, in which it *)
(* gets the answer it is owed; a server that ends by itself has served     *)
(* every line.  The one line that may go unserved is the line behind one   *)
(* of exactly MaxReadBytes bytes.                                          *)
(*                                                                         *)
(* McpServer.tla is the loop that implements this.                         *)
(***************************************************************************)
EXTENDS Naturals, Sequences

CONSTANTS Messages,      \* the lines a client may write
          MaxReadBytes,  \* the longest line that is read; 0 means no limit
          TailBytes,     \* lengths a final line without newline may have
          MaxLines,      \* bound: lines a client writes
          NullId         \* JSON null as an id

VARIABLES sent,    \* lines the client has written
          closed,  \* it has closed stdin
          served,  \* how many lines are served
          rest,    \* bytes of an unterminated last line not yet consumed
          out,     \* the answers
          over     \* "no", "drained" (the server has ended) or "aborted"

vars == <<sent, closed, served, rest, out, over>>

Init == sent = <<>> /\ closed = FALSE /\ served = 0 /\ rest = 0 /\ out = <<>> /\ over = "no"

Send(m) == /\ ~closed /\ Len(sent) < MaxLines
           /\ sent' = Append(sent, m)
           /\ UNCHANGED <<closed, served, rest, out, over>>

Close(n) == /\ ~closed
            /\ closed' = TRUE /\ rest' = n
            /\ UNCHANGED <<sent, served, out, over>>

\* JSON-RPC: the envelope is complete, and without id it is a notification.
Envelope(m)     == m.json = "object" /\ m.version /\ m.id # "bad" /\ m.method # "blank"
Notification(m) == Envelope(m) /\ m.id = "absent"

EchoedId(m) == IF m.json = "object" /\ m.id \notin {"absent", "bad"} THEN m.id ELSE NullId
Codes(m) ==
    CASE m.json = "malformed" -> {"ParseError"}
      [] m.json # "malformed" /\ ~Envelope(m) -> {"InvalidRequest"}
      [] OTHER -> {"result", "MethodNotFound", "InvalidParams", "InternalError"}

Answer(n, id, body) == out' = Append(out, [line |-> n, id |-> id, body |-> body])
Refuse(n) == Answer(n, NullId, "InvalidRequest")

Fits(n)  == MaxReadBytes = 0 \/ n < MaxReadBytes
Waiting  == over = "no" /\ served < Len(sent)
current  == sent[served + 1]

\* A line within the limit: a notification gets nothing, any other line its answer.
Serve ==
    /\ Waiting /\ Fits(current.bytes)
    /\ \/ Notification(current) /\ out' = out
       \/ /\ ~Notification(current)
          /\ \E body \in Codes(current) : Answer(served + 1, EchoedId(current), body)
    /\ served' = served + 1
    /\ UNCHANGED <<sent, closed, rest, over>>

\* A longer line is refused.  One of exactly the limit takes along what is
\* behind it: a line, or the unterminated end of the input.
ServeOversized ==
    /\ Waiting /\ ~Fits(current.bytes)
    /\ Refuse(served + 1)
    /\ \/ /\ current.bytes > MaxReadBytes
          /\ served' = served + 1 /\ rest' = rest
       \/ /\ current.bytes = MaxReadBytes /\ served + 1 < Len(sent)
          /\ served' = served + 2 /\ rest' = rest
       \/ /\ current.bytes = MaxReadBytes /\ served + 1 = Len(sent) /\ closed
          /\ served' = served + 1 /\ rest' = 0
    /\ UNCHANGED <<sent, closed, over>>

Drained == over = "no" /\ closed /\ served = Len(sent)

ServeTail ==
    /\ Drained /\ MaxReadBytes > 0 /\ rest > MaxReadBytes
    /\ Refuse(served + 1)
    /\ rest' = 0
    /\ UNCHANGED <<sent, closed, served, over>>

End ==
    /\ Drained /\ (MaxReadBytes > 0 => rest <= MaxReadBytes)
    /\ over' = "drained" /\ rest' = 0
    /\ UNCHANGED <<sent, closed, served, out>>

\* Cancellation, or an error on stdin or stdout.
Abort ==
    /\ over = "no"
    /\ over' = "aborted"
    /\ UNCHANGED <<sent, closed, served, rest, out>>

Next == \/ \E m \in Messages : Send(m)
        \/ \E n \in TailBytes : Close(n)
        \/ Serve \/ ServeOversized \/ ServeTail \/ End \/ Abort

Spec == Init /\ [][Next]_vars
=============================================================================
