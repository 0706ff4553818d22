----------------------------- MODULE TraceLink ------------------------------
(***************************************************************************)
(* The way of a trace object from a device to the trace tool: tracer.c     *)
(* writes a frame into the transmit buffer of the USART, whose start_tx    *)
(* sends it before it returns; the tool's USART thread puts the bytes into *)
(* its ring, and thread_read_trace_object.c looks for the header, reads    *)
(* the number of bytes and waits for that many.  trace_parser.c takes the  *)
(* frame apart.  There is no checksum and no escape for header bytes.      *)
(*                                                                         *)
(* The tool is attached in the middle of a frame, and the device may be    *)
(* restarted in the middle of one; then it is silent for longer than the   *)
(* tool waits, 100 ms for each part. Bytes of one frame follow each other  *)
(* faster than that.                                                       *)
(***************************************************************************)
EXTENDS Integers, Sequences

CONSTANTS
  NameLength,      \* bytes of the name of the file
  RxSize,          \* bytes of the tool's ring
  MaxTraces,       \* bound: traces in a behaviour
  MaxRestarts      \* bound: restarts of the device

HeaderByte == 250       \* 0xFA, three of them

\* A line number is one byte here, and none a header byte.
ASSUME TraceAssumption ==
  /\ NameLength \in 1 .. 250 /\ {RxSize, MaxTraces, MaxRestarts} \subseteq Nat
  /\ MaxTraces < HeaderByte

VARIABLES
  rx,        \* bytes that are on the line or in the tool's ring
  silent,    \* the device was restarted and has not traced since
  raw,       \* p_raw_obj->data up to where it is filled
  announced, \* the number of bytes the frame announces, or -1
  link       \* history: traced, how many of them whole, got by the tool, restarts

tracevars == <<rx, silent, raw, announced, link>>

Header == <<HeaderByte, HeaderByte, HeaderByte>>
Footer == <<10>>
TraceName == [i \in 1 .. NameLength |-> 99]
Least(a, b) == IF a < b THEN a ELSE b

\* What the macros of tracer.h hand over: the data are the bytes as they are in
\* memory, two of them header bytes.
Payload ==
  { [type |-> 1, data |-> <<>>], [type |-> 2, data |-> <<HeaderByte>>],
    [type |-> 3, data |-> <<HeaderByte, HeaderByte>>],
    [type |-> 4, data |-> <<0, HeaderByte, 0, 0>>],
    [type |-> 5, data |-> <<HeaderByte, HeaderByte>>] }

Trace(n, p) == [type |-> p.type, data |-> p.data, line |-> <<n, 0>>, name |-> TraceName]

\* tracer_pass, _byte, _word, _long and _n: the number of bytes counts what
\* follows it; only an array is preceded by its own length.
Content(t) ==
  (IF t.type = 5 THEN <<Len(t.data)>> ELSE <<>>) \o t.data \o t.line \o t.name \o Footer
TraceFrame(t) ==
  LET count == 1 + Len(Content(t)) IN
    Header \o <<count \div 256, count % 256, t.type>> \o Content(t)

\* tracer_parse_object and its four helpers, with the offsets they compute.
DataLength(bytes) == IF bytes[6] = 5 THEN bytes[7] ELSE <<0, 1, 2, 4>>[bytes[6]]
DataStart(bytes) == IF bytes[6] = 5 THEN 8 ELSE 7
NameStart(bytes) == DataStart(bytes) + DataLength(bytes) + 2
Parsed(bytes) ==
  [ type |-> bytes[6],
    data |-> SubSeq(bytes, DataStart(bytes), DataStart(bytes) + DataLength(bytes) - 1),
    line |-> SubSeq(bytes, NameStart(bytes) - 2, NameStart(bytes) - 1),
    name |-> SubSeq(bytes, NameStart(bytes), Len(bytes) - Len(Footer)) ]
Parses(bytes) == bytes[6] \in 1 .. 5

\* The tool is switched on while the device traces.
TraceInit ==
  /\ \E p \in Payload : \E n \in 2 .. Len(TraceFrame(Trace(0, p))) + 1 :
       rx = SubSeq(TraceFrame(Trace(0, p)), n, Len(TraceFrame(Trace(0, p))))
  /\ silent = FALSE
  /\ raw = <<>>
  /\ announced = -1
  /\ link = [traced |-> <<>>, whole |-> 0, got |-> <<>>, restarts |-> 0]

-----------------------------------------------------------------------------

Traces(p) == Trace(Len(link.traced) + 1, p)

\* Traces come so that the tool keeps up with them, and after a restart not
\* before the tool has looked at all there was and given up waiting for more.
MayTrace(p) ==
  /\ Len(link.traced) < MaxTraces
  /\ Len(rx) + Len(TraceFrame(Traces(p))) <= RxSize
  /\ silent => rx = <<>> /\ raw = <<>>

\* A trace: the frame goes into the transmit buffer, and start_tx sends it.
Emit(p) ==
  /\ MayTrace(p)
  /\ rx' = rx \o TraceFrame(Traces(p))
  /\ silent' = FALSE
  /\ link' = [link EXCEPT !.traced = Append(@, Traces(p)), !.whole = @ + 1]
  /\ UNCHANGED <<raw, announced>>

\* The device is restarted while it sends; the rest of the frame never comes.
Restart(p) ==
  /\ link.restarts < MaxRestarts
  /\ MayTrace(p)
  /\ \E n \in 1 .. Len(TraceFrame(Traces(p))) - 1 : rx' = rx \o SubSeq(TraceFrame(Traces(p)), 1, n)
  /\ silent' = TRUE
  /\ link' = [link EXCEPT !.traced = Append(@, Traces(p)), !.restarts = @ + 1]
  /\ UNCHANGED <<raw, announced>>

Take(n) == rx' = SubSeq(rx, n + 1, Len(rx))
StartOver == raw' = <<>> /\ announced' = -1

\* The header, byte by byte; one that does not fit is gone, too.
ReadHeader ==
  /\ Len(raw) < Len(Header) /\ rx # <<>>
  /\ Take(1)
  /\ IF Head(rx) = HeaderByte THEN raw' = Append(raw, Head(rx)) /\ UNCHANGED announced
     ELSE StartOver
  /\ UNCHANGED <<silent, link>>

\* The number of bytes, cut down to what the object can hold.
WrongReadCount ==            \* variant: the two bytes are swapped
  /\ Len(raw) = Len(Header) /\ announced = -1 /\ Len(rx) >= 2
  /\ Take(2)
  /\ LET count == rx[2] * 256 + rx[1] IN
       IF count = 0 THEN StartOver
       ELSE raw' = raw \o SubSeq(rx, 1, 2) /\ announced' = Least(count, 1024 - 5)
  /\ UNCHANGED <<silent, link>>

ReadCount ==
  /\ Len(raw) = Len(Header) /\ announced = -1 /\ Len(rx) >= 2
  /\ Take(2)
  /\ LET count == rx[1] * 256 + rx[2] IN
       IF count = 0 THEN StartOver
       ELSE raw' = raw \o SubSeq(rx, 1, 2) /\ announced' = Least(count, 1024 - 5)
  /\ UNCHANGED <<silent, link>>

\* The rest, in one go; the object goes on to the parser.
ReadContent ==
  /\ announced # -1 /\ Len(rx) >= announced
  /\ Take(announced)
  /\ StartOver
  /\ LET bytes == raw \o SubSeq(rx, 1, announced) IN
       link' = IF Parses(bytes) THEN [link EXCEPT !.got = Append(@, Parsed(bytes))] ELSE link
  /\ UNCHANGED silent

\* wait_for_rx comes back without the bytes; what there is of them stays in the
\* ring and is looked through for a header.
Waits ==
  \/ raw # <<>> /\ Len(raw) < Len(Header) /\ rx = <<>>
  \/ Len(raw) = Len(Header) /\ Len(rx) < 2
  \/ announced # -1 /\ Len(rx) < announced
GiveUp ==
  /\ Waits
  /\ StartOver
  /\ UNCHANGED <<rx, silent, link>>

TraceNext ==
  \/ \E p \in Payload : Emit(p) \/ Restart(p)
  \/ ReadHeader \/ ReadCount \/ ReadContent \/ GiveUp

TraceSpec == TraceInit /\ [][TraceNext]_tracevars

-----------------------------------------------------------------------------
(* Properties *)

\* Every object the tool makes of the bytes is one that was traced, each once
\* and in order, whatever rest of a frame it starts with or is left with, and
\* although two header bytes in a row occur among the data; three, which nothing
\* escapes, would be taken for a frame.
ObjectsAreTraced ==
  /\ \A i \in 1 .. Len(link.got) :
       \E n \in 1 .. Len(link.traced) : link.got[i] = link.traced[n]
  /\ \A i, j \in 1 .. Len(link.got) : i < j => link.got[i].line[1] < link.got[j].line[1]

\* The tool finds back into the stream: attaching it costs only the frame it was
\* attached in, and a restart the frame it cut.
FindsBack == rx = <<>> /\ raw = <<>> => Len(link.got) = link.whole

TracesArrive == ObjectsAreTraced /\ FindsBack
=============================================================================
