----------------------------- MODULE LineReader -----------------------------
(***************************************************************************)
(* What transport.ReadMessage promises its caller, one whole call per      *)
(* step: the lines of stdin are returned in order, each as one message or  *)
(* one rejection.  The only exception is the one the code really has: a    *)
(* line whose content is exactly MaxReadBytes long overflows on its own    *)
(* newline, and the rejection consumes the line behind it as well.         *)
(*                                                                         *)
(* Transport.tla is the byte-by-byte reader that implements this.          *)
(***************************************************************************)
EXTENDS Naturals, Sequences

CONSTANTS Messages,      \* the lines a client may write; m.bytes is the content's length
          MaxReadBytes,  \* Transport.maxReadBytes; 0 means no limit
          TailBytes,     \* lengths a final line without newline may have
          MaxLines       \* bound: lines a client writes

VARIABLES sent,    \* complete lines the client has written, in order
          closed,  \* the client has closed stdin
          next,    \* the first line no ReadMessage call has consumed
          rest,    \* bytes of an unterminated final line not yet consumed
          reads    \* results of the ReadMessage calls, in order

vars == <<sent, closed, next, rest, reads>>

Limited == MaxReadBytes > 0

\* Everything that was written has been consumed by earlier calls.
Drained == next = Len(sent) + 1

Returned(kind, n) == reads' = Append(reads, [kind |-> kind, line |-> n])

Init == /\ sent = <<>>
        /\ closed = FALSE
        /\ next = 1
        /\ rest = 0
        /\ reads = <<>>

Send(m) == /\ ~closed
           /\ Len(sent) < MaxLines
           /\ sent' = Append(sent, m)
           /\ UNCHANGED <<closed, next, rest, reads>>

Close(n) == /\ ~closed
            /\ closed' = TRUE
            /\ rest' = n
            /\ UNCHANGED <<sent, next, reads>>

\* A line shorter than the limit is returned as a message.
Deliver == /\ next \in 1..Len(sent)
           /\ Limited => sent[next].bytes < MaxReadBytes
           /\ Returned("message", next)
           /\ next' = next + 1
           /\ UNCHANGED <<sent, closed, rest>>

\* A longer line is rejected and consumed to its own newline.
Reject == /\ next \in 1..Len(sent)
          /\ Limited /\ sent[next].bytes > MaxReadBytes
          /\ Returned("toolarge", next)
          /\ next' = next + 1
          /\ UNCHANGED <<sent, closed, rest>>

\* A line of exactly the limit takes the line behind it along.
RejectPair == /\ next \in 1..Len(sent)
              /\ Limited /\ sent[next].bytes = MaxReadBytes
              /\ Returned("toolarge", next)
              /\ \/ /\ next < Len(sent)
                    /\ next' = next + 2
                    /\ rest' = rest
                 \/ /\ next = Len(sent) /\ closed
                    /\ next' = next + 1
                    /\ rest' = 0
              /\ UNCHANGED <<sent, closed>>

\* An unterminated final line above the limit is rejected, not ignored.
RejectTail == /\ closed /\ Drained
              /\ Limited /\ rest > MaxReadBytes
              /\ Returned("toolarge", next)
              /\ rest' = 0
              /\ UNCHANGED <<sent, closed, next>>

\* End of input; an unterminated final line within the limit is dropped.
EndOfInput == /\ closed /\ Drained
              /\ Limited => rest <= MaxReadBytes
              /\ Returned("eof", next)
              /\ rest' = 0
              /\ UNCHANGED <<sent, closed, next>>

Next == \/ \E m \in Messages : Send(m)
        \/ \E n \in TailBytes : Close(n)
        \/ Deliver
        \/ Reject
        \/ RejectPair
        \/ RejectTail
        \/ EndOfInput

Spec == Init /\ [][Next]_vars
=============================================================================
