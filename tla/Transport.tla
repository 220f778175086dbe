----------------------------- MODULE Transport ------------------------------
(***************************************************************************)
(* internal/mcp/transport: ReadMessage, one ReadByte per step.             *)
(*                                                                         *)
(* The stream is kept as the lines the client has written and a position   *)
(* in it, <<cur, off>>: off bytes of line cur are consumed, byte number    *)
(* sent[cur].bytes + 1 of a line is its newline.  After the last complete  *)
(* line may come an unterminated one of `tail` bytes, cut off by EOF.      *)
(* The buffer `line` of the code is modelled by its length: its bytes are  *)
(* always the first `line` bytes of line `cur` (see Aligned).              *)
(*                                                                         *)
(* Not modelled: bufio's own buffer (ReadByte is what it promises) and     *)
(* read errors other than EOF, which end Server.Run like EOF does.         *)
(***************************************************************************)
EXTENDS Naturals, Sequences

CONSTANTS Messages,      \* the lines a client may write; m.bytes is the content's length
          MaxReadBytes,  \* Transport.maxReadBytes; 0 means no limit
          TailBytes,     \* lengths a final line without newline may have
          MaxLines       \* bound: lines a client writes

ASSUME TransportAssumption ==
    /\ MaxReadBytes \in Nat
    /\ MaxLines \in Nat
    /\ TailBytes \subseteq Nat
    /\ \A m \in Messages : m.bytes \in Nat

VARIABLES sent,    \* complete lines the client has written, in order
          closed,  \* the client has closed stdin
          tail,    \* bytes of the unterminated line before EOF
          cur,     \* the line the next byte belongs to
          off,     \* bytes of line cur already consumed
          line,    \* len(line) in ReadMessage
          reader,  \* "idle", or the loop ReadMessage is in
          first,   \* the line at which the current ReadMessage call began
          reads    \* results of the calls that returned, in order

clientVars == <<sent, closed, tail>>
transportVars == <<sent, closed, tail, cur, off, line, reader, first, reads>>

ReadKinds == {"message", "toolarge", "eof"}

TransportTypeOK ==
    /\ sent \in Seq(Messages)
    /\ closed \in BOOLEAN
    /\ tail \in Nat
    /\ cur \in Nat \ {0}
    /\ off \in Nat
    /\ line \in Nat
    /\ reader \in {"idle", "read", "discard"}
    /\ first \in Nat \ {0}
    /\ reads \in Seq([kind : ReadKinds, line : Nat \ {0}])

TransportInit ==
    /\ sent = <<>>
    /\ closed = FALSE
    /\ tail = 0
    /\ cur = 1
    /\ off = 0
    /\ line = 0
    /\ reader = "idle"
    /\ first = 1
    /\ reads = <<>>

-----------------------------------------------------------------------------
(* The client's side of stdin. *)

ClientSend(m) ==
    /\ ~closed
    /\ Len(sent) < MaxLines
    /\ sent' = Append(sent, m)
    /\ UNCHANGED <<closed, tail, cur, off, line, reader, first, reads>>

ClientClose(n) ==
    /\ ~closed
    /\ closed' = TRUE
    /\ tail' = n
    /\ UNCHANGED <<sent, cur, off, line, reader, first, reads>>

-----------------------------------------------------------------------------
(* bufio.Reader.ReadByte: a byte, EOF, or neither yet. *)

InLine  == cur <= Len(sent)
HasByte == InLine \/ (closed /\ off < tail)
AtEOF   == closed /\ ~HasByte
Newline == InLine /\ off = sent[cur].bytes

Advance == IF Newline THEN /\ cur' = cur + 1
                           /\ off' = 0
                      ELSE /\ cur' = cur
                           /\ off' = off + 1

Overflows(n) == MaxReadBytes > 0 /\ n > MaxReadBytes

Return(kind, n) ==
    /\ reader' = "idle"
    /\ reads' = Append(reads, [kind |-> kind, line |-> n])

\* Mutant: the buffer of the previous line is kept.
StartReadKeepsBuffer ==
    /\ reader = "idle"
    /\ reader' = "read"
    /\ first' = cur
    /\ UNCHANGED <<sent, closed, tail, cur, off, line, reads>>

StartRead ==
    /\ reader = "idle"
    /\ reader' = "read"
    /\ line' = 0
    /\ first' = cur
    /\ UNCHANGED <<sent, closed, tail, cur, off, reads>>

\* One pass of ReadMessage's loop.  The limit is tested before the newline.
ReadByte ==
    /\ reader = "read"
    /\ HasByte
    /\ Advance
    /\ line' = line + 1
    /\ \/ /\ Overflows(line + 1)
          /\ reader' = "discard"
          /\ reads' = reads
       \/ /\ ~Overflows(line + 1) /\ Newline
          /\ Return("message", first)
       \/ /\ ~Overflows(line + 1) /\ ~Newline
          /\ UNCHANGED <<reader, reads>>
    /\ UNCHANGED <<sent, closed, tail, first>>

ReadEOF ==
    /\ reader = "read"
    /\ AtEOF
    /\ Return("eof", first)
    /\ UNCHANGED <<sent, closed, tail, cur, off, line, first>>

\* Mutant: one byte is discarded instead of the rest of the line.
DiscardOneByte ==
    /\ reader = "discard"
    /\ HasByte
    /\ Advance
    /\ Return("toolarge", first)
    /\ UNCHANGED <<sent, closed, tail, line, first>>

\* One pass of discardLine's loop; ReadMessage then returns ErrMessageTooLarge.
DiscardByte ==
    /\ reader = "discard"
    /\ HasByte
    /\ Advance
    /\ \/ Newline /\ Return("toolarge", first)
       \/ ~Newline /\ UNCHANGED <<reader, reads>>
    /\ UNCHANGED <<sent, closed, tail, line, first>>

\* Mutant: discardLine ignores EOF and spins.
DiscardEOFSpins ==
    /\ reader = "discard"
    /\ AtEOF
    /\ UNCHANGED transportVars

DiscardEOF ==
    /\ reader = "discard"
    /\ AtEOF
    /\ Return("toolarge", first)
    /\ UNCHANGED <<sent, closed, tail, cur, off, line, first>>

ReadMessage == ReadByte \/ ReadEOF \/ DiscardByte \/ DiscardEOF

\* Server.Run calls ReadMessage again and again until it has returned EOF.
AfterEOF == \E k \in 1..Len(reads) : reads[k].kind = "eof"

TransportNext ==
    \/ \E m \in Messages : ClientSend(m)
    \/ \E n \in TailBytes : ClientClose(n)
    \/ ~AfterEOF /\ StartRead
    \/ ReadMessage

TransportSpec == TransportInit /\ [][TransportNext]_transportVars

-----------------------------------------------------------------------------
(* Properties *)

\* Every byte before EOF has been consumed.
Exhausted == closed /\ cur = Len(sent) + 1 /\ off = tail

\* The line buffer holds exactly the consumed bytes of one line, and never
\* more than MaxReadBytes of them: a read that overflows leaves the loop of
\* ReadMessage (transport.go:54) before it can grow again.  While discarding,
\* the reader is in the line that overflowed, or, when that line was exactly
\* MaxReadBytes long, in the one behind it.  A call in progress therefore
\* always knows which line it is in, whatever the client wrote or cut off.
Aligned ==
    /\ cur <= Len(sent) + 1
    /\ InLine => off <= sent[cur].bytes
    /\ ~InLine => off <= tail
    /\ ~closed => tail = 0
    /\ MaxReadBytes > 0 => line <= MaxReadBytes + 1
    /\ reader = "idle" => off = 0 \/ Exhausted
    /\ reader = "read" => /\ first = cur
                          /\ MaxReadBytes > 0 => line <= MaxReadBytes
                          /\ line = off \/ (Exhausted /\ line = 0)
    /\ reader = "discard" =>
          /\ MaxReadBytes > 0
          /\ \/ first = cur /\ off > MaxReadBytes
             \/ first = cur - 1 /\ first > 0 /\ sent[first].bytes = MaxReadBytes

\* The first line no completed call has consumed: refinement mapping for `next`.
unread == IF reader = "idle" THEN cur ELSE first
\* The unterminated line was consumed by an earlier call: mapping for `rest`.
TailConsumed == \/ reader = "idle" /\ off > 0
                \/ reader = "read" /\ off > line
remaining == IF TailConsumed THEN 0 ELSE tail

Lines == INSTANCE LineReader WITH next <- unread, rest <- remaining

\* The byte loop implements the line-at-a-time promise of LineReader: every
\* ReadMessage call amounts to one atomic step that consumes one line (two
\* after a line of exactly the limit), in order, and never part of a line.
ReadsWholeLines == Lines!Spec

\* "ReadMessage reads a single JSON message" (transport.go:43): a call that
\* returns has consumed bytes of one line only.
ReadsSingleMessage ==
    [][Len(reads') > Len(reads) => cur' <= first + 1]_transportVars
=============================================================================
