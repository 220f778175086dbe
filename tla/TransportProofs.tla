-------------------------- MODULE TransportProofs ---------------------------
(***************************************************************************)
(* Transport for every set of messages, every limit and every length of    *)
(* input: types, the alignment of the reader with the client's lines, and  *)
(* the refinement of LineReader.                                           *)
(***************************************************************************)
EXTENDS Transport, TLAPS

\* Consuming a byte moves the position within its type.
LEMMA AdvanceType ==
    ASSUME TransportTypeOK, Advance
    PROVE  cur' \in Nat \ {0} /\ off' \in Nat
<1>1. CASE Newline
  BY <1>1 DEF TransportTypeOK, Advance
<1>2. CASE ~Newline
  BY <1>2 DEF TransportTypeOK, Advance
<1> QED BY <1>1, <1>2

\* Returning from ReadMessage appends one typed result.
LEMMA ReturnType ==
    ASSUME TransportTypeOK, NEW k \in ReadKinds, Return(k, first)
    PROVE  /\ reads' \in Seq([kind : ReadKinds, line : Nat \ {0}])
           /\ reader' = "idle"
<1>1. [kind |-> k, line |-> first] \in [kind : ReadKinds, line : Nat \ {0}]
  BY DEF TransportTypeOK
<1> QED BY <1>1 DEF TransportTypeOK, Return

\* The steps of the byte reader and of its client keep the types.
LEMMA TransportTypeStep ==
    ASSUME TransportTypeOK, [TransportNext]_transportVars
    PROVE  TransportTypeOK'
<1> USE TransportAssumption
<1>1. ASSUME NEW m \in Messages, ClientSend(m) PROVE TransportTypeOK'
  BY <1>1 DEF TransportTypeOK, ClientSend
<1>2. ASSUME NEW n \in TailBytes, ClientClose(n) PROVE TransportTypeOK'
  BY <1>2 DEF TransportTypeOK, ClientClose
<1>3. CASE StartRead
  BY <1>3 DEF TransportTypeOK, StartRead
<1>4. CASE ReadByte
  <2>1. cur' \in Nat \ {0} /\ off' \in Nat
    BY <1>4, AdvanceType DEF ReadByte
  <2>2. reader' \in {"idle", "read", "discard"}
    BY <1>4 DEF TransportTypeOK, ReadByte, Return
  <2>3. reads' \in Seq([kind : ReadKinds, line : Nat \ {0}])
    BY <1>4, ReturnType DEF TransportTypeOK, ReadByte, ReadKinds
  <2>4. line' \in Nat
    BY <1>4 DEF TransportTypeOK, ReadByte
  <2> QED BY <1>4, <2>1, <2>2, <2>3, <2>4 DEF TransportTypeOK, ReadByte
<1>5. CASE ReadEOF
  BY <1>5 DEF TransportTypeOK, ReadEOF, Return, ReadKinds
<1>6. CASE DiscardByte
  <2>1. cur' \in Nat \ {0} /\ off' \in Nat
    BY <1>6, AdvanceType DEF DiscardByte
  <2>2. reader' \in {"idle", "read", "discard"}
    BY <1>6 DEF TransportTypeOK, DiscardByte, Return
  <2>3. reads' \in Seq([kind : ReadKinds, line : Nat \ {0}])
    BY <1>6, ReturnType DEF TransportTypeOK, DiscardByte, ReadKinds
  <2> QED BY <1>6, <2>1, <2>2, <2>3 DEF TransportTypeOK, DiscardByte
<1>7. CASE DiscardEOF
  BY <1>7 DEF TransportTypeOK, DiscardEOF, Return, ReadKinds
<1>8. CASE UNCHANGED transportVars
  BY <1>8 DEF TransportTypeOK, transportVars
<1> QED
  BY <1>1, <1>2, <1>3, <1>4, <1>5, <1>6, <1>7, <1>8 DEF TransportNext, ReadMessage

\* The reader starts typed and aligned.
LEMMA TransportStarts == TransportInit => TransportTypeOK /\ Aligned
<1>1. TransportInit => TransportTypeOK
  <2> SUFFICES ASSUME TransportInit PROVE TransportTypeOK
    OBVIOUS
  <2> USE DEF TransportInit
  <2>1. sent \in Seq(Messages)
    OBVIOUS
  <2>2. reads \in Seq([kind : ReadKinds, line : Nat \ {0}])
    OBVIOUS
  <2>3. closed \in BOOLEAN /\ reader \in {"idle", "read", "discard"}
    OBVIOUS
  <2>4. tail \in Nat /\ off \in Nat /\ line \in Nat
    OBVIOUS
  <2>5. cur \in Nat \ {0} /\ first \in Nat \ {0}
    OBVIOUS
  <2> QED BY <2>1, <2>2, <2>3, <2>4, <2>5 DEF TransportTypeOK
<1>2. TransportInit => Aligned
  BY TransportAssumption DEF TransportInit, Aligned, InLine, Exhausted
<1> QED BY <1>1, <1>2

\* The variables of the reader always have their types.
THEOREM TransportTypeCorrect == TransportSpec => []TransportTypeOK
<1>1. TransportInit => TransportTypeOK
  BY TransportStarts
<1>2. TransportTypeOK /\ [TransportNext]_transportVars => TransportTypeOK'
  BY TransportTypeStep
<1> QED
  BY <1>1, <1>2, PTL DEF TransportSpec

-----------------------------------------------------------------------------

\* The steps of the byte reader and of its client keep it aligned.
LEMMA AlignedStep ==
    ASSUME TransportTypeOK, Aligned, [TransportNext]_transportVars
    PROVE  Aligned'
<1> USE TransportAssumption DEF InLine, Exhausted
<1>1. ASSUME NEW m \in Messages, ClientSend(m) PROVE Aligned'
  BY <1>1 DEF TransportTypeOK, Aligned, ClientSend
<1>2. ASSUME NEW n \in TailBytes, ClientClose(n) PROVE Aligned'
  BY <1>2 DEF TransportTypeOK, Aligned, ClientClose
<1>3. CASE StartRead
  BY <1>3 DEF TransportTypeOK, Aligned, StartRead
<1>4. CASE ReadByte
  <2> USE <1>4 DEF TransportTypeOK, Aligned, ReadByte, HasByte, Newline
  <2>1. CASE Overflows(line + 1)
    BY <2>1 DEF Overflows, Advance
  <2>2. CASE ~Overflows(line + 1) /\ Newline
    BY <2>2 DEF Overflows, Advance, Return
  <2>3. CASE ~Overflows(line + 1) /\ ~Newline
    BY <2>3, SMTT(30) DEF Overflows, Advance
  <2> QED BY <2>1, <2>2, <2>3
<1>5. CASE ReadEOF
  BY <1>5 DEF TransportTypeOK, Aligned, ReadEOF, AtEOF, HasByte, Return
<1>6. CASE DiscardByte
  <2> USE <1>6 DEF TransportTypeOK, Aligned, DiscardByte, HasByte, Newline
  <2>1. CASE Newline
    BY <2>1 DEF Advance, Return
  <2>2. CASE ~Newline
    <3>1. cur' = cur /\ off' = off + 1 /\ reader' = "discard"
      BY <2>2 DEF Advance
    <3>2. InLine => off + 1 <= sent[cur].bytes
      <4> SUFFICES ASSUME InLine PROVE off + 1 <= sent[cur].bytes
        OBVIOUS
      <4>1. sent[cur] \in Messages
        OBVIOUS
      <4>2. sent[cur].bytes \in Nat
        BY <4>1
      <4> QED BY <2>2, <4>2
    <3>3. ~InLine => off + 1 <= tail
      OBVIOUS
    <3> QED BY <3>1, <3>2, <3>3
  <2> QED BY <2>1, <2>2
<1>7. CASE DiscardEOF
  BY <1>7 DEF TransportTypeOK, Aligned, DiscardEOF, AtEOF, HasByte, Return
<1>8. CASE UNCHANGED transportVars
  BY <1>8 DEF Aligned, transportVars
<1> QED
  BY <1>1, <1>2, <1>3, <1>4, <1>5, <1>6, <1>7, <1>8 DEF TransportNext, ReadMessage

\* The line buffer is bounded and always holds the consumed bytes of exactly
\* one line, for every limit and every input (transport.go:44).
THEOREM AlwaysAligned == TransportSpec => []Aligned
<1>1. TransportInit => Aligned
  BY TransportStarts
<1>2. TransportTypeOK /\ Aligned /\ [TransportNext]_transportVars => Aligned'
  BY AlignedStep
<1> QED
  BY <1>1, <1>2, TransportTypeCorrect, PTL DEF TransportSpec

-----------------------------------------------------------------------------

\* One step of the byte reader is one step of LineReader, or none.
LEMMA LineStep ==
    ASSUME TransportTypeOK, Aligned, [TransportNext]_transportVars
    PROVE  [Lines!Next]_(Lines!vars)
<1> USE TransportAssumption DEF InLine, Exhausted, unread, remaining, TailConsumed
<1>1. ASSUME NEW m \in Messages, ClientSend(m) PROVE Lines!Send(m)
  BY <1>1 DEF TransportTypeOK, Aligned, ClientSend, Lines!Send
<1>2. ASSUME NEW n \in TailBytes, ClientClose(n) PROVE Lines!Close(n)
  BY <1>2 DEF TransportTypeOK, Aligned, ClientClose, Lines!Close
<1>3. CASE StartRead
  BY <1>3 DEF TransportTypeOK, Aligned, StartRead, Lines!vars
<1>4. CASE ReadByte
  <2> USE <1>4 DEF TransportTypeOK, Aligned, ReadByte, HasByte, Newline
  <2>1. CASE Overflows(line + 1)
    BY <2>1 DEF Overflows, Advance, Lines!vars
  <2>2. CASE ~Overflows(line + 1) /\ Newline
    <3>1. Lines!Deliver
      BY <2>2 DEF Overflows, Advance, Return, Lines!Deliver, Lines!Limited, Lines!Returned
    <3> QED BY <3>1 DEF Lines!Next
  <2>3. CASE ~Overflows(line + 1) /\ ~Newline
    BY <2>3 DEF Overflows, Advance, Lines!vars
  <2> QED BY <2>1, <2>2, <2>3
<1>5. CASE ReadEOF
  <2>1. Lines!EndOfInput
    BY <1>5 DEF TransportTypeOK, Aligned, ReadEOF, AtEOF, HasByte, Return,
                Lines!EndOfInput, Lines!Drained, Lines!Limited, Lines!Returned
  <2> QED BY <2>1 DEF Lines!Next
<1>6. CASE DiscardByte
  <2> USE <1>6 DEF TransportTypeOK, Aligned, DiscardByte, HasByte, Newline
  <2>1. CASE Newline /\ first = cur
    <3>1. Lines!Reject
      BY <2>1 DEF Advance, Return, Lines!Reject, Lines!Limited, Lines!Returned
    <3> QED BY <3>1 DEF Lines!Next
  <2>2. CASE Newline /\ first = cur - 1
    <3>1. Lines!RejectPair
      BY <2>2 DEF Advance, Return, Lines!RejectPair, Lines!Limited, Lines!Returned
    <3> QED BY <3>1 DEF Lines!Next
  <2>3. CASE ~Newline
    BY <2>3 DEF Advance, Lines!vars
  <2> QED BY <2>1, <2>2, <2>3
<1>7. CASE DiscardEOF
  <2> USE <1>7 DEF TransportTypeOK, Aligned, DiscardEOF, AtEOF, HasByte, Return
  <2>1. CASE first = cur
    <3>1. Lines!RejectTail
      BY <2>1 DEF Lines!RejectTail, Lines!Drained, Lines!Limited, Lines!Returned
    <3> QED BY <3>1 DEF Lines!Next
  <2>2. CASE first = cur - 1
    <3>1. Lines!RejectPair
      BY <2>2 DEF Lines!RejectPair, Lines!Limited, Lines!Returned
    <3> QED BY <3>1 DEF Lines!Next
  <2> QED BY <2>1, <2>2
<1>8. CASE UNCHANGED transportVars
  BY <1>8 DEF transportVars, Lines!vars
<1> QED
  BY <1>1, <1>2, <1>3, <1>4, <1>5, <1>6, <1>7, <1>8
  DEF TransportNext, ReadMessage, Lines!Next

\* ReadMessage, read byte by byte against a client that writes and closes at
\* any moment, consumes whole lines in order: the detailed specification
\* implements LineReader.
THEOREM TransportImplementsLineReader == TransportSpec => ReadsWholeLines
<1>1. TransportInit => Lines!Init
  BY DEF TransportInit, Lines!Init, unread, remaining, TailConsumed
<1>2. TransportTypeOK /\ Aligned /\ [TransportNext]_transportVars
        => [Lines!Next]_(Lines!vars)
  BY LineStep
<1> QED
  BY <1>1, <1>2, TransportTypeCorrect, AlwaysAligned, PTL
  DEF TransportSpec, ReadsWholeLines, Lines!Spec
=============================================================================
