------------------------ MODULE BoardDevices_proofs ------------------------
(***************************************************************************)
(* Proofs about the devices and services of BoardDevices, each first for   *)
(* its own specification and then, because no image touches what another   *)
(* one owns, for the composed one.                                         *)
(*                                                                         *)
(* MsgRing: for rings of every size and any number of bytes, whatever the  *)
(* interrupt does between two accesses of the main loop, the bytes taken   *)
(* after the ring was emptied came in after that.                          *)
(*                                                                         *)
(* HostLog: for any directories, lengths of the queue and numbers of       *)
(* files, lines and losses of the disk, the log keeps to one directory and *)
(* to the order of the calls, and shows that lines are missing.            *)
(*                                                                         *)
(* SensorHistory: for arrays of every length, any readings and any number  *)
(* of them, the means and extremes told are those of the values added      *)
(* last, and light is a share of a hundred.                                *)
(*                                                                         *)
(* Infrared: for any number of commands and a queue of any size, what is   *)
(* on air is the waveform of the command that is sent, to its last level.  *)
(*                                                                         *)
(* TraceLink: for names of any length and any number of traces and         *)
(* restarts, wherever a frame is cut, the tool gets the traces that were   *)
(* sent whole, and nothing else.                                           *)
(***************************************************************************)
EXTENDS BoardDevices, SequenceTheorems, FiniteSetTheorems, WellFoundedInduction, TLAPS

-----------------------------------------------------------------------------
(* The ring buffer of the serial driver: MsgRing.                          *)

RingState ==
  [mem : [0 .. RingSize - 1 -> Nat], read : 0 .. RingSize - 1,
   write : 0 .. RingSize - 1, num : Nat]

RingTypeOK ==
  /\ ring \in RingState
  /\ reader \in [at : {"idle", "load", "store", "write", "num"}, num : Nat]
  /\ bytes \in [received : Nat, cleared : Nat, taken : Seq(Nat)]
  /\ bytes.cleared <= bytes.received
  /\ reader.at = "load" => ring.num >= 1
  /\ reader.at = "store" => reader.num >= 1

\* A cell that was written after the clearing began.
Fresh(c) == ring.mem[c] > bytes.cleared

\* The interrupt has been round the whole memory since write was set to 0.
AllFresh == \A c \in 0 .. RingSize - 1 : Fresh(c)

\* It has not: the cells in front of write are fresh, and the reader, which
\* counts the byte it has just taken until it stores num, keeps behind.
SomeFresh ==
  /\ ring.read <= ring.write
  /\ \A c \in 0 .. RingSize - 1 : c < ring.write => Fresh(c)
  /\ reader.at = "idle" => ring.num <= ring.write - ring.read
  /\ reader.at = "load" => ring.num <= ring.write - ring.read + 1
  /\ reader.at = "store" => reader.num <= ring.write - ring.read + 1

\* Between the stores of clear_all to read and to write nothing is known of the
\* memory, and nothing is taken.
RingInv ==
  /\ RingTypeOK
  /\ NoOldBytes
  /\ reader.at = "write" => ring.read = 0
  /\ reader.at # "write" => AllFresh \/ SomeFresh

\* An index that is counted up stays in the memory.
LEMMA NextIndex ==
  ASSUME NEW i \in 0 .. RingSize - 1
  PROVE  /\ (i + 1) % RingSize \in 0 .. RingSize - 1
         /\ (i + 1) % RingSize = IF i = RingSize - 1 THEN 0 ELSE i + 1
<1>1. RingSize \in Nat \ {0}
  BY RingAssumption
<1>2. CASE i = RingSize - 1
  <2>1. (i + 1) % RingSize = 0
    BY <1>1, <1>2
  <2>2. QED
    BY <1>1, <1>2, <2>1
<1>3. CASE i # RingSize - 1
  <2>1. (i + 1) % RingSize = i + 1
    BY <1>1, <1>3
  <2>2. QED
    BY <1>1, <1>3, <2>1
<1>4. QED
  BY <1>2, <1>3

\* A byte that is received keeps the memory fresh, or the reader behind write.
LEMMA InterruptKeeps ==
  ASSUME RingInv, ReceiveInterrupt
  PROVE  RingInv'
<1> DEFINE b == bytes.received + 1
<1>1. /\ bytes' = [bytes EXCEPT !.received = b] /\ reader' = reader
      /\ ring' = Added(ring, b)
  BY DEF ReceiveInterrupt
<1>2. /\ b \in Nat /\ b > bytes.cleared /\ bytes'.cleared = bytes.cleared
      /\ bytes'.taken = bytes.taken /\ bytes' \in [received : Nat, cleared : Nat, taken : Seq(Nat)]
      /\ bytes'.cleared <= bytes'.received
  BY <1>1 DEF RingInv, RingTypeOK
<1>3. CASE ring.num = RingSize
  <2>1. ring' = ring
    BY <1>1, <1>3 DEF Added
  <2>2. RingTypeOK'
    BY <1>1, <1>2, <2>1 DEF RingInv, RingTypeOK
  <2>3. QED
    BY <1>1, <1>2, <2>1, <2>2 DEF RingInv, NoOldBytes, AllFresh, SomeFresh, Fresh
<1>4. CASE ring.num # RingSize
  <2>1. /\ ring'.mem = [ring.mem EXCEPT ![ring.write] = b] /\ ring'.read = ring.read
        /\ ring'.write = (ring.write + 1) % RingSize /\ ring'.num = ring.num + 1
        /\ ring' = [mem |-> ring'.mem, read |-> ring'.read, write |-> ring'.write, num |-> ring'.num]
    BY <1>1, <1>4 DEF Added
  <2>2. /\ ring.mem \in [0 .. RingSize - 1 -> Nat] /\ ring.read \in 0 .. RingSize - 1
        /\ ring.write \in 0 .. RingSize - 1 /\ ring.num \in Nat /\ RingSize \in Nat
    BY RingAssumption DEF RingInv, RingTypeOK, RingState
  <2>3. /\ ring'.write \in 0 .. RingSize - 1
        /\ ring'.write = IF ring.write = RingSize - 1 THEN 0 ELSE ring.write + 1
    BY <2>1, <2>2, NextIndex
  <2>4. ring' \in RingState
    <3>1. ring'.mem \in [0 .. RingSize - 1 -> Nat] /\ ring'.num \in Nat
      <4>1. ring'.mem \in [0 .. RingSize - 1 -> Nat]
        <5> HIDE DEF b
        <5> QED BY <1>2, <2>1, <2>2
      <4>2. ring'.num \in Nat
        BY <2>1, <2>2
      <4>3. QED
        BY <4>1, <4>2
    <3> DEFINE m == ring'.mem
               n == ring'.num
               w == ring'.write
               r == ring'.read
    <3>2. r \in 0 .. RingSize - 1 /\ w \in 0 .. RingSize - 1
      BY <2>1, <2>2, <2>3
    <3>3. ring' = [mem |-> m, read |-> r, write |-> w, num |-> n]
      BY <2>1
    <3> HIDE DEF m, n, w, r
    <3>4. m \in [0 .. RingSize - 1 -> Nat] /\ n \in Nat
      BY <3>1 DEF m, n
    <3>5. QED
      BY <3>2, <3>3, <3>4 DEF RingState
  <2>5. RingTypeOK'
    BY <1>1, <1>2, <2>1, <2>2, <2>4 DEF RingInv, RingTypeOK
  <2>6. ASSUME NEW c \in 0 .. RingSize - 1, c = ring.write \/ Fresh(c) PROVE Fresh(c)'
    BY <1>2, <2>1, <2>2, <2>6 DEF Fresh
  <2>7. AllFresh => AllFresh'
    BY <2>6 DEF AllFresh
  <2>8. ASSUME SomeFresh PROVE AllFresh' \/ SomeFresh'
    <3>1. CASE ring.write = RingSize - 1
      <4>1. \A c \in 0 .. RingSize - 1 : c = ring.write \/ c < ring.write
        BY <2>2, <3>1
      <4>2. AllFresh'
        BY <2>6, <2>8, <4>1 DEF SomeFresh, AllFresh
      <4>3. QED
        BY <4>2
    <3>2. CASE ring.write # RingSize - 1
      <4>1. ring'.write = ring.write + 1
        BY <2>3, <3>2
      <4>2. \A c \in 0 .. RingSize - 1 : c < ring'.write => Fresh(c)'
        BY <2>2, <2>6, <2>8, <4>1 DEF SomeFresh
      <4>3. reader.num \in Nat
        BY DEF RingInv, RingTypeOK
      <4>4. QED
        <5>1. ring'.read <= ring'.write
          <6>1. ring.read <= ring.write
            BY <2>8 DEF SomeFresh
          <6>2. QED
            BY <2>1, <2>2, <4>1, <6>1
        <5>2. reader'.at = "idle" => ring'.num <= ring'.write - ring'.read
          <6>1. reader'.at = "idle" => ring.num <= ring.write - ring.read
            BY <1>1, <2>8 DEF SomeFresh
          <6>2. ring'.num = ring.num + 1 /\ ring'.write = ring.write + 1 /\ ring'.read = ring.read
            BY <2>1, <4>1
          <6>3. QED
            BY <2>2, <6>1, <6>2
        <5>3. reader'.at = "load" => ring'.num <= ring'.write - ring'.read + 1
          <6>1. reader'.at = "load" => ring.num <= ring.write - ring.read + 1
            BY <1>1, <2>8 DEF SomeFresh
          <6>2. ring'.num = ring.num + 1 /\ ring'.write = ring.write + 1 /\ ring'.read = ring.read
            BY <2>1, <4>1
          <6>3. QED
            BY <2>2, <6>1, <6>2
        <5>4. reader'.at = "store" => reader'.num <= ring'.write - ring'.read + 1
          <6>1. reader'.at = "store" => reader.num <= ring.write - ring.read + 1
            BY <1>1, <2>8 DEF SomeFresh
          <6>2. reader'.num = reader.num /\ ring'.write = ring.write + 1 /\ ring'.read = ring.read
            BY <1>1, <2>1, <4>1
          <6>3. QED
            BY <2>2, <4>3, <6>1, <6>2
        <5>5. QED
          BY <4>2, <5>1, <5>2, <5>3, <5>4 DEF SomeFresh
    <3>3. QED
      BY <3>1, <3>2
  <2>9. QED
    BY <1>1, <1>2, <2>1, <2>5, <2>7, <2>8 DEF RingInv, NoOldBytes
<1>5. QED
  BY <1>3, <1>4

\* The byte that get_byte takes is fresh, because num is not 0 and counts no
\* more than the cells between read and write.
LEMMA GetByteKeeps ==
  ASSUME RingInv, GetByte
  PROVE  RingInv'
<1> DEFINE taken == ring.mem[ring.read]
<1>1. /\ reader.at = "idle" /\ ring.num # 0
      /\ bytes' = [bytes EXCEPT !.taken = Append(@, taken)]
      /\ ring' = [ring EXCEPT !.read = (@ + 1) % RingSize]
      /\ reader' = [reader EXCEPT !.at = "load"]
  BY DEF GetByte
<1>2. /\ ring.mem \in [0 .. RingSize - 1 -> Nat] /\ ring.read \in 0 .. RingSize - 1
      /\ ring.write \in 0 .. RingSize - 1 /\ ring.num \in Nat /\ RingSize \in Nat
      /\ bytes.taken \in Seq(Nat) /\ bytes.cleared \in Nat /\ bytes.received \in Nat
  BY RingAssumption DEF RingInv, RingTypeOK, RingState
<1>3. AllFresh \/ (SomeFresh /\ ring.read < ring.write)
  BY <1>1, <1>2 DEF RingInv, SomeFresh
<1>4. taken > bytes.cleared /\ taken \in Nat
  BY <1>2, <1>3 DEF AllFresh, SomeFresh, Fresh
<1>5. /\ ring'.read \in 0 .. RingSize - 1 /\ ring'.mem = ring.mem /\ ring'.write = ring.write
      /\ ring'.num = ring.num /\ ring' \in RingState
      /\ ring'.read = IF ring.read = RingSize - 1 THEN 0 ELSE ring.read + 1
  BY <1>1, <1>2, NextIndex DEF RingInv, RingTypeOK, RingState
<1>6. /\ bytes' \in [received : Nat, cleared : Nat, taken : Seq(Nat)]
      /\ bytes'.cleared = bytes.cleared /\ bytes'.received = bytes.received
      /\ bytes'.taken = Append(bytes.taken, taken)
  <2>1. Append(bytes.taken, taken) \in Seq(Nat)
    BY <1>2, <1>4
  <2> HIDE DEF taken
  <2>2. QED
    BY <1>1, <2>1 DEF RingInv, RingTypeOK
<1>7. RingTypeOK'
  <2>1. reader'.at = "load" /\ reader' \in [at : {"idle", "load", "store", "write", "num"}, num : Nat]
    BY <1>1 DEF RingInv, RingTypeOK
  <2>2. ring'.num >= 1
    BY <1>1, <1>2, <1>5
  <2>3. bytes'.cleared <= bytes'.received
    BY <1>6 DEF RingInv, RingTypeOK
  <2>4. QED
    BY <1>5, <1>6, <2>1, <2>2, <2>3 DEF RingTypeOK
<1>8. NoOldBytes'
  <2>1. ASSUME NEW i \in 1 .. Len(bytes'.taken) PROVE bytes'.taken[i] > bytes'.cleared
    <3> HIDE DEF taken
    <3>1. CASE i = Len(bytes.taken) + 1
      BY <1>2, <1>4, <1>6, <3>1
    <3>2. CASE i # Len(bytes.taken) + 1
      <4>1. /\ Len(Append(bytes.taken, taken)) = Len(bytes.taken) + 1
            /\ Len(bytes.taken) \in Nat
        BY <1>2, <1>4
      <4>2. i \in 1 .. Len(bytes.taken)
        BY <1>6, <3>2, <4>1
      <4>3. Append(bytes.taken, taken)[i] = bytes.taken[i]
        BY <1>2, <1>4, <4>2
      <4>4. bytes.taken[i] > bytes.cleared
        BY <4>2 DEF RingInv, NoOldBytes
      <4>5. QED
        BY <1>6, <4>3, <4>4
    <3>3. QED
      BY <3>1, <3>2
  <2>2. QED
    BY <2>1 DEF NoOldBytes
<1>9. AllFresh => AllFresh'
  BY <1>5, <1>6 DEF AllFresh, Fresh
<1>10. ASSUME SomeFresh, ring.read < ring.write PROVE SomeFresh'
  <2>1. ring'.read = ring.read + 1
    BY <1>2, <1>5, <1>10
  <2>2. reader'.at = "load"
    BY <1>1 DEF RingInv, RingTypeOK
  <2>3. \A c \in 0 .. RingSize - 1 : c < ring'.write => Fresh(c)'
    BY <1>5, <1>6, <1>10 DEF SomeFresh, Fresh
  <2>4. ring'.num <= ring'.write - ring'.read + 1 /\ ring'.read <= ring'.write
    <3>1. ring.num <= ring.write - ring.read
      BY <1>1, <1>10 DEF SomeFresh
    <3>2. ring'.num = ring.num /\ ring'.write = ring.write
      BY <1>5
    <3>3. ring.num \in Nat /\ ring.write \in Nat /\ ring.read \in Nat /\ ring.read < ring.write
      BY <1>2, <1>10
    <3>4. QED
      BY <2>1, <3>1, <3>2, <3>3
  <2>5. QED
    BY <2>2, <2>3, <2>4 DEF SomeFresh
<1>11. QED
  BY <1>1, <1>3, <1>7, <1>8, <1>9, <1>10 DEF RingInv, RingTypeOK

\* The other steps of the main loop.
LEMMA ReaderKeeps ==
  ASSUME RingInv, LoadNum \/ StoreNum \/ ClearRing
  PROVE  RingInv'
<1>1. /\ ring \in RingState /\ reader.num \in Nat
      /\ ring.num \in Nat /\ ring.read \in 0 .. RingSize - 1 /\ ring.write \in 0 .. RingSize - 1
      /\ 0 \in 0 .. RingSize - 1 /\ RingSize \in Nat
  BY RingAssumption DEF RingInv, RingTypeOK, RingState
<1>2. CASE LoadNum
  <2>1. RingTypeOK'
    BY <1>1, <1>2 DEF LoadNum, RingInv, RingTypeOK
  <2>2. QED
    BY <1>1, <1>2, <2>1 DEF LoadNum, RingInv, NoOldBytes, AllFresh, SomeFresh, Fresh
<1>3. CASE StoreNum
  <2>1. reader.num - 1 \in Nat
    BY <1>1, <1>3 DEF StoreNum, RingInv, RingTypeOK
  <2>2. RingTypeOK'
    BY <1>1, <1>3, <2>1 DEF StoreNum, RingInv, RingTypeOK, RingState
  <2>3. ring'.num = reader.num - 1 /\ ring'.mem = ring.mem
        /\ ring'.read = ring.read /\ ring'.write = ring.write
    BY <1>1, <1>3 DEF StoreNum, RingState
  <2>4. QED
    BY <1>1, <1>3, <2>2, <2>3 DEF StoreNum, RingInv, NoOldBytes, AllFresh, SomeFresh, Fresh
<1>4. CASE ClearRead
  <2>1. RingTypeOK'
    <3>1. ring' \in RingState /\ reader'.at = "write"
          /\ reader' \in [at : {"idle", "load", "store", "write", "num"}, num : Nat]
      BY <1>1, <1>4 DEF ClearRead, RingInv, RingTypeOK, RingState
    <3>2. <<>> \in Seq(Nat)
      OBVIOUS
    <3>3. /\ bytes' \in [received : Nat, cleared : Nat, taken : Seq(Nat)]
          /\ bytes'.cleared <= bytes'.received
      <4>1. bytes \in [received : Nat, cleared : Nat, taken : Seq(Nat)]
        BY DEF RingInv, RingTypeOK
      <4>2. bytes' = [bytes EXCEPT !.cleared = bytes.received, !.taken = <<>>]
        BY <1>4 DEF ClearRead
      <4>3. bytes' = [received |-> bytes.received, cleared |-> bytes.received, taken |-> <<>>]
        BY <4>1, <4>2
      <4>4. QED
        BY <3>2, <4>1, <4>3
    <3>4. QED
      BY <3>1, <3>3 DEF RingTypeOK
  <2>2. /\ bytes'.taken = <<>> /\ reader'.at = "write" /\ ring'.read = 0
    BY <1>1, <1>4 DEF ClearRead, RingInv, RingTypeOK, RingState
  <2>3. NoOldBytes'
    BY <2>2 DEF NoOldBytes
  <2>4. QED
    BY <2>1, <2>2, <2>3 DEF RingInv
<1>5. CASE ClearWrite
  <2>1. RingTypeOK'
    BY <1>1, <1>5 DEF ClearWrite, RingInv, RingTypeOK, RingState
  <2>2. /\ bytes' = bytes /\ reader'.at = "num" /\ ring'.read = 0 /\ ring'.write = 0
    BY <1>1, <1>5 DEF ClearWrite, RingInv, RingTypeOK, RingState
  <2>3. SomeFresh'
    BY <1>1, <2>2 DEF SomeFresh
  <2>4. QED
    BY <2>1, <2>2, <2>3 DEF RingInv, NoOldBytes
<1>6. CASE ClearNum
  <2>1. RingTypeOK'
    BY <1>1, <1>6 DEF ClearNum, RingInv, RingTypeOK, RingState
  <2>2. /\ bytes' = bytes /\ reader'.at = "idle" /\ ring'.num = 0 /\ ring'.mem = ring.mem
        /\ ring'.read = ring.read /\ ring'.write = ring.write /\ reader.at = "num"
    BY <1>1, <1>6 DEF ClearNum, RingInv, RingTypeOK, RingState
  <2>3. AllFresh' \/ SomeFresh'
    BY <1>1, <2>2 DEF RingInv, AllFresh, SomeFresh, Fresh
  <2>4. QED
    BY <2>1, <2>2, <2>3 DEF RingInv, NoOldBytes
<1>7. QED
  BY <1>2, <1>3, <1>4, <1>5, <1>6 DEF ClearRing

\* What is taken after the buffer was emptied was received after that, for every
\* size of the ring and every interleaving with the interrupt.
THEOREM NothingOldIsTaken == RingSpec => []NoOldBytes
<1>1. RingInit => RingInv
  <2> SUFFICES ASSUME RingInit PROVE RingInv
    OBVIOUS
  <2>1. 0 \in 0 .. RingSize - 1 /\ RingSize \in Nat
    BY RingAssumption
  <2>2. ring \in RingState /\ ring.read = 0 /\ ring.write = 0 /\ ring.num = 0
    BY <2>1 DEF RingInit, RingState
  <2>3. <<>> \in Seq(Nat)
    OBVIOUS
  <2>4. RingTypeOK
    BY <2>2, <2>3 DEF RingInit, RingTypeOK
  <2>5. SomeFresh
    BY <2>1, <2>2 DEF RingInit, SomeFresh
  <2>6. NoOldBytes
    BY DEF RingInit, NoOldBytes
  <2>7. QED
    BY <2>4, <2>5, <2>6 DEF RingInit, RingInv
<1>2. RingInv /\ [RingNext]_ringvars => RingInv'
  <2> SUFFICES ASSUME RingInv, [RingNext]_ringvars PROVE RingInv'
    OBVIOUS
  <2>1. CASE ReceiveInterrupt
    BY <2>1, InterruptKeeps
  <2>2. CASE GetByte
    BY <2>2, GetByteKeeps
  <2>3. CASE LoadNum \/ StoreNum \/ ClearRing
    BY <2>3, ReaderKeeps
  <2>4. CASE UNCHANGED ringvars
    BY <2>4 DEF ringvars, RingInv, RingTypeOK, NoOldBytes, AllFresh, SomeFresh, Fresh
  <2>5. QED
    BY <2>1, <2>2, <2>3, <2>4 DEF RingNext, ReadRing
<1>3. RingInv => NoOldBytes
  BY DEF RingInv
<1>4. QED
  BY <1>1, <1>2, <1>3, PTL DEF RingSpec

-----------------------------------------------------------------------------
(* The log of the host: HostLog.                                           *)

LogPlace == Directory \cup {"default"}
Line == [line : Nat, to : LogPlace]

Logger == [state : {"START_UP", "IDLE", "OPEN_FILE", "WRITE_LOG", "CLOSE_FILE", "SLEEP"},
           overflow : BOOLEAN, complete : BOOLEAN, path : LogPlace,
           queue : Seq(Nat), up : BOOLEAN]

LogTypeOK ==
  /\ logger \in Logger
  /\ logged \in Seq(Line)
  /\ logpast \in [given : Nat, lines : Nat, drops : SUBSET Nat, disk : BOOLEAN, losses : Nat]

\* The log does not start before the configuration is complete, and then its
\* path stays; it opens its file for a line that is there.
Started ==
  /\ logger.state # "START_UP" => logger.complete
  /\ logged # <<>> => logger.complete
  /\ logger.state \in {"OPEN_FILE", "WRITE_LOG"} => logger.queue # <<>>

\* Lines are numbered by their calls: the queue goes on where the log ends.
QueueInOrder ==
  /\ \A i \in 1 .. Len(logger.queue) : logger.queue[i] \in 1 .. logpast.lines
  /\ \A i, j \in 1 .. Len(logger.queue) : i < j => logger.queue[i] < logger.queue[j]

LogInOrder ==
  /\ \A i \in 1 .. Len(logged) :
       logged[i].to = logger.path /\ logged[i].line <= logpast.lines
  /\ \A i, j \in 1 .. Len(logged) :
       i < j /\ Mark \notin {logged[i].line, logged[j].line} => logged[i].line < logged[j].line
  /\ \A i \in 1 .. Len(logged), j \in 1 .. Len(logger.queue) :
       logged[i].line < logger.queue[j]

DropsMarked ==
  /\ \A d \in logpast.drops : d <= Len(logged)
  /\ ~logger.overflow =>
       \A d \in logpast.drops : \E j \in d + 1 .. Len(logged) : logged[j].line = Mark

HonestInv == LogTypeOK /\ Started /\ QueueInOrder /\ LogInOrder /\ DropsMarked

\* Two lines at the end of a log.
LEMMA OneMore ==
  ASSUME NEW S, NEW q \in Seq(S), NEW e \in S, NEW m \in S
  PROVE  /\ q \o <<e>> \o <<>> \in Seq(S)
         /\ Len(q \o <<e>> \o <<>>) = Len(q) + 1
         /\ \A i \in 1 .. Len(q) : (q \o <<e>> \o <<>>)[i] = q[i]
         /\ (q \o <<e>> \o <<>>)[Len(q) + 1] = e
         /\ q \o <<e>> \o <<m>> \in Seq(S)
         /\ Len(q \o <<e>> \o <<m>>) = Len(q) + 2
         /\ \A i \in 1 .. Len(q) : (q \o <<e>> \o <<m>>)[i] = q[i]
         /\ (q \o <<e>> \o <<m>>)[Len(q) + 1] = e
         /\ (q \o <<e>> \o <<m>>)[Len(q) + 2] = m
<1>1. /\ <<e>> \in Seq(S) /\ Len(<<e>>) = 1 /\ <<e>>[1] = e
      /\ <<m>> \in Seq(S) /\ Len(<<m>>) = 1 /\ <<m>>[1] = m
      /\ <<>> \in Seq(S) /\ Len(<<>>) = 0
  OBVIOUS
<1> DEFINE p == q \o <<e>>
<1>2. /\ p \in Seq(S) /\ Len(p) = Len(q) + 1 /\ p[Len(q) + 1] = e
      /\ \A i \in 1 .. Len(q) : p[i] = q[i]
  BY <1>1, ConcatProperties
<1> HIDE DEF p
<1>3. /\ p \o <<>> \in Seq(S) /\ Len(p \o <<>>) = Len(p)
      /\ \A i \in 1 .. Len(p) : (p \o <<>>)[i] = p[i]
  BY <1>1, <1>2, ConcatProperties
<1>4. /\ p \o <<m>> \in Seq(S) /\ Len(p \o <<m>>) = Len(p) + 1 /\ (p \o <<m>>)[Len(p) + 1] = m
      /\ \A i \in 1 .. Len(p) : (p \o <<m>>)[i] = p[i]
  BY <1>1, <1>2, ConcatProperties
<1>5. Len(q) \in Nat /\ Len(p) + 1 = Len(q) + 2
  BY <1>2
<1>6. QED
  BY <1>2, <1>3, <1>4, <1>5 DEF p

\* Head and tail of a queue.
LEMMA FirstLine ==
  ASSUME NEW S, NEW q \in Seq(S), q # <<>>
  PROVE  /\ Head(q) \in S /\ Head(q) = q[1] /\ Tail(q) \in Seq(S)
         /\ Len(q) \in Nat \ {0} /\ Len(Tail(q)) = Len(q) - 1
         /\ \A i \in 1 .. Len(Tail(q)) : Tail(q)[i] = q[i + 1]
BY HeadTailProperties, ElementOfSeq, EmptySeq

\* The next line of the queue, and the mark if lines were dropped.
LEMMA ProcessKeeps ==
  ASSUME HonestInv, NEW l \in Logger, ProcessQeue(l), UNCHANGED logpast,
         logger.queue # <<>>, logger.complete,
         l.queue = logger.queue, l.path = logger.path, l.overflow = logger.overflow,
         l.complete = logger.complete
  PROVE  HonestInv'
<1> DEFINE n == Len(logged)
           first == Head(logger.queue)
           e == [line |-> first, to |-> logger.path]
           m == [line |-> Mark, to |-> logger.path]
<1>1. /\ logger \in Logger /\ logged \in Seq(Line) /\ n \in Nat
      /\ logger.queue \in Seq(Nat) /\ logger.path \in LogPlace /\ logpast.lines \in Nat
      /\ \A d \in logpast.drops : d \in Nat
  BY DEF HonestInv, LogTypeOK, Logger
<1>2. /\ first \in Nat /\ first = logger.queue[1] /\ Tail(logger.queue) \in Seq(Nat)
      /\ Len(logger.queue) \in Nat \ {0} /\ Len(Tail(logger.queue)) = Len(logger.queue) - 1
      /\ \A i \in 1 .. Len(Tail(logger.queue)) : Tail(logger.queue)[i] = logger.queue[i + 1]
  BY <1>1, FirstLine
<1>3. e \in Line /\ m \in Line
  BY <1>1, <1>2 DEF Line, Mark
<1>4. /\ logged' = logged \o <<e>> \o (IF logger.overflow THEN <<m>> ELSE <<>>)
      /\ logger' = [l EXCEPT !.queue = Tail(logger.queue), !.overflow = FALSE,
                             !.state = IF Len(logger.queue) = 1 THEN "CLOSE_FILE" ELSE "WRITE_LOG"]
  BY DEF ProcessQeue
<1> HIDE DEF e, m, first
<1>5. /\ logged' \in Seq(Line)
      /\ \A i \in 1 .. n : logged'[i] = logged[i]
      /\ logged'[n + 1] = e
      /\ logger.overflow => Len(logged') = n + 2 /\ logged'[n + 2] = m
      /\ ~logger.overflow => Len(logged') = n + 1
  <2>1. CASE logger.overflow
    <3>1. logged' = logged \o <<e>> \o <<m>>
      BY <1>4, <2>1
    <3>2. QED
      BY <1>1, <1>3, <2>1, <3>1, OneMore
  <2>2. CASE ~logger.overflow
    <3>1. logged' = logged \o <<e>> \o <<>>
      BY <1>4, <2>2
    <3>2. QED
      BY <1>1, <1>3, <2>2, <3>1, OneMore
  <2>3. QED
    BY <2>1, <2>2
<1>6. /\ logger'.queue = Tail(logger.queue) /\ logger'.overflow = FALSE
      /\ logger'.path = logger.path /\ logger'.complete
      /\ logger'.state \in {"CLOSE_FILE", "WRITE_LOG"}
      /\ logger'.state = "WRITE_LOG" => Len(logger.queue) # 1
      /\ logger' \in Logger
  BY <1>2, <1>4 DEF Logger
<1>7. e.line = first /\ e.to = logger.path /\ m.line = Mark /\ m.to = logger.path
  BY DEF e, m
<1>8. LogTypeOK'
  BY <1>5, <1>6 DEF HonestInv, LogTypeOK
<1>9. Started'
  <2>1. ASSUME logger'.state = "WRITE_LOG" PROVE logger'.queue # <<>>
    <3>1. Len(Tail(logger.queue)) # 0
      BY <1>2, <1>6, <2>1
    <3>2. Len(<<>>) = 0
      OBVIOUS
    <3>3. QED
      BY <1>6, <3>1, <3>2, Zenon
  <2>2. QED
    BY <1>6, <2>1 DEF Started
<1>10. QueueInOrder'
  <2>1. \A i \in 1 .. Len(logger'.queue) :
          i + 1 \in 1 .. Len(logger.queue) /\ logger'.queue[i] = logger.queue[i + 1]
    BY <1>2, <1>6
  <2>2. \A i \in 1 .. Len(logger'.queue) : logger'.queue[i] \in 1 .. logpast'.lines
    BY <2>1 DEF HonestInv, QueueInOrder
  <2>3. ASSUME NEW i \in 1 .. Len(logger'.queue), NEW j \in 1 .. Len(logger'.queue), i < j
        PROVE  logger'.queue[i] < logger'.queue[j]
    <3>1. i + 1 < j + 1
      BY <2>3, <1>2, <1>6
    <3>2. QED
      BY <2>1, <3>1 DEF HonestInv, QueueInOrder
  <2>4. QED
    BY <2>2, <2>3 DEF QueueInOrder
<1>11. \A i \in 1 .. n : logged[i].line \in Nat /\ logged[i].line < first /\ logged[i].to = logger.path
  <2>1. ASSUME NEW i \in 1 .. n PROVE logged[i] \in Line
    BY <1>1
  <2>2. 1 \in 1 .. Len(logger.queue)
    BY <1>2
  <2>3. QED
    BY <1>2, <2>1, <2>2 DEF HonestInv, LogInOrder, Line
<1>12. first \in 1 .. logpast.lines /\ \A j \in 1 .. Len(logger'.queue) : first < logger'.queue[j]
  <2>1. 1 \in 1 .. Len(logger.queue)
    BY <1>2
  <2>2. ASSUME NEW j \in 1 .. Len(logger'.queue) PROVE first < logger'.queue[j]
    <3>1. j + 1 \in 1 .. Len(logger.queue) /\ logger'.queue[j] = logger.queue[j + 1] /\ 1 < j + 1
      BY <1>2, <1>6
    <3>2. QED
      BY <1>2, <2>1, <3>1 DEF HonestInv, QueueInOrder
  <2>3. QED
    BY <1>2, <2>1, <2>2 DEF HonestInv, QueueInOrder
<1>13. \A i \in 1 .. Len(logged') : i \in 1 .. n \/ i = n + 1 \/ (i = n + 2 /\ logger.overflow)
  BY <1>1, <1>5
<1>14. LogInOrder'
  <2>1. ASSUME NEW i \in 1 .. Len(logged')
        PROVE  logged'[i].to = logger'.path /\ logged'[i].line <= logpast'.lines
    <3>1. CASE i \in 1 .. n
      BY <1>5, <1>6, <1>11, <3>1 DEF HonestInv, LogInOrder
    <3>2. CASE i = n + 1
      BY <1>1, <1>2, <1>5, <1>6, <1>7, <1>12, <3>2
    <3>3. CASE i = n + 2 /\ logger.overflow
      BY <1>1, <1>5, <1>6, <1>7, <3>3 DEF Mark
    <3>4. QED
      BY <1>13, <3>1, <3>2, <3>3
  <2>2. ASSUME NEW i \in 1 .. Len(logged'), NEW j \in 1 .. Len(logged'), i < j,
               Mark \notin {logged'[i].line, logged'[j].line}
        PROVE  logged'[i].line < logged'[j].line
    <3>1. i # n + 2 /\ j # n + 2
      BY <1>5, <1>7, <1>13, <2>2
    <3>2. i \in 1 .. n
      BY <1>1, <1>13, <2>2, <3>1
    <3>3. CASE j = n + 1
      BY <1>5, <1>7, <1>11, <3>2, <3>3
    <3>4. CASE j \in 1 .. n
      BY <1>5, <2>2, <3>2, <3>4 DEF HonestInv, LogInOrder
    <3>5. QED
      BY <1>13, <3>1, <3>3, <3>4
  <2>3. ASSUME NEW i \in 1 .. Len(logged'), NEW j \in 1 .. Len(logger'.queue)
        PROVE  logged'[i].line < logger'.queue[j]
    <3>1. logger'.queue[j] \in Nat /\ first < logger'.queue[j] /\ first > 0 /\ first \in Nat
      <4>1. logger'.queue \in Seq(Nat)
        BY <1>2, <1>6
      <4>2. logger'.queue[j] \in Nat
        BY <2>3, <4>1
      <4>3. first \in Nat /\ first > 0
        BY <1>1, <1>12
      <4>4. QED
        BY <1>12, <2>3, <4>2, <4>3
    <3>2. CASE i \in 1 .. n
      <4>1. logged'[i].line < first /\ logged'[i].line \in Nat
        BY <1>5, <1>11, <3>2
      <4>2. QED
        BY <3>1, <4>1
    <3>3. CASE i = n + 1
      BY <1>5, <1>7, <3>1, <3>3
    <3>4. CASE i = n + 2 /\ logger.overflow
      <4>1. logged'[i].line = 0
        BY <1>5, <1>7, <3>4 DEF Mark
      <4>2. QED
        BY <3>1, <4>1
    <3>5. QED
      BY <1>13, <3>2, <3>3, <3>4
  <2>4. QED
    BY <2>1, <2>2, <2>3 DEF LogInOrder
<1>15. DropsMarked'
  <2>1. Len(logged') >= n
    BY <1>1, <1>5
  <2>2. ASSUME NEW d \in logpast.drops
        PROVE  d <= Len(logged') /\ \E j \in d + 1 .. Len(logged') : logged'[j].line = Mark
    <3>1. d \in Nat /\ d <= n
      BY <1>1 DEF HonestInv, DropsMarked
    <3>2. CASE logger.overflow
      <4>1. n + 2 \in d + 1 .. Len(logged') /\ logged'[n + 2].line = Mark
        BY <1>1, <1>5, <1>7, <3>1, <3>2
      <4>2. QED
        BY <1>1, <2>1, <3>1, <4>1
    <3>3. CASE ~logger.overflow
      <4>1. PICK j \in d + 1 .. n : logged[j].line = Mark
        BY <3>3 DEF HonestInv, DropsMarked
      <4>2. j \in 1 .. n /\ j \in d + 1 .. Len(logged')
        BY <1>1, <1>5, <3>1, <3>3
      <4>3. logged'[j].line = Mark
        BY <1>5, <4>1, <4>2
      <4>4. QED
        BY <1>1, <2>1, <3>1, <4>2, <4>3
    <3>4. QED
      BY <3>2, <3>3
  <2>3. QED
    BY <2>2 DEF DropsMarked
<1>16. QED
  BY <1>8, <1>9, <1>10, <1>14, <1>15 DEF HonestInv

\* A call of log_message: a line at the end of the queue, or one dropped.
LEMMA MessageKeeps ==
  ASSUME HonestInv, LogMessage
  PROVE  HonestInv'
<1> DEFINE new == logpast.lines + 1
<1>1. /\ logger \in Logger /\ logged \in Seq(Line) /\ Len(logged) \in Nat
      /\ logger.queue \in Seq(Nat) /\ Len(logger.queue) \in Nat /\ new \in Nat
      /\ logpast \in [given : Nat, lines : Nat, drops : SUBSET Nat, disk : BOOLEAN, losses : Nat]
      /\ logpast.lines \in Nat
  BY DEF HonestInv, LogTypeOK, Logger
<1>2. logged' = logged
  BY DEF LogMessage
<1>3. CASE Len(logger.queue) = LogQueueSize
  <2>1. /\ logger' = [logger EXCEPT !.overflow = TRUE]
        /\ logpast' = [logpast EXCEPT !.lines = @ + 1, !.drops = @ \cup {Len(logged)}]
    BY <1>3 DEF LogMessage
  <2>2. /\ logger'.queue = logger.queue /\ logger'.overflow /\ logger'.path = logger.path
        /\ logger'.complete = logger.complete /\ logger'.state = logger.state
        /\ logger' \in Logger
    BY <1>1, <2>1 DEF Logger
  <2>3. /\ logpast'.lines = logpast.lines + 1 /\ logpast'.drops = logpast.drops \cup {Len(logged)}
        /\ logpast' \in [given : Nat, lines : Nat, drops : SUBSET Nat, disk : BOOLEAN, losses : Nat]
    BY <1>1, <2>1
  <2>4. QueueInOrder'
    <3>1. ASSUME NEW i \in 1 .. Len(logger.queue)
          PROVE  logger.queue[i] \in 1 .. logpast.lines + 1
      <4>1. logger.queue[i] \in 1 .. logpast.lines
        BY DEF HonestInv, QueueInOrder
      <4>2. QED
        BY <1>1, <4>1
    <3>2. QED
      BY <2>2, <2>3, <3>1 DEF HonestInv, QueueInOrder
  <2>5. DropsMarked'
    BY <1>1, <1>2, <2>2, <2>3 DEF HonestInv, DropsMarked
  <2>6. ASSUME NEW i \in 1 .. Len(logged) PROVE logged[i].line <= logpast'.lines
    <3>1. logged[i] \in Line /\ logged[i].line <= logpast.lines
      BY <1>1 DEF HonestInv, LogInOrder
    <3>2. QED
      BY <1>1, <2>3, <3>1 DEF Line
  <2>7. LogInOrder'
    BY <1>2, <2>2, <2>6 DEF HonestInv, LogInOrder
  <2>8. QED
    BY <1>1, <1>2, <2>2, <2>3, <2>4, <2>5, <2>7 DEF HonestInv, LogTypeOK, Started
<1>4. CASE Len(logger.queue) # LogQueueSize
  <2>1. /\ logger' = [logger EXCEPT !.queue = Append(@, new)]
        /\ logpast' = [logpast EXCEPT !.lines = @ + 1]
    BY <1>4 DEF LogMessage
  <2> HIDE DEF new
  <2>2. /\ Append(logger.queue, new) \in Seq(Nat)
        /\ Len(Append(logger.queue, new)) = Len(logger.queue) + 1
        /\ \A i \in 1 .. Len(logger.queue) : Append(logger.queue, new)[i] = logger.queue[i]
        /\ Append(logger.queue, new)[Len(logger.queue) + 1] = new
    BY <1>1, AppendProperties
  <2>3. /\ logger'.queue = Append(logger.queue, new) /\ logger'.overflow = logger.overflow
        /\ logger'.path = logger.path /\ logger'.complete = logger.complete
        /\ logger'.state = logger.state /\ logger' \in Logger
    BY <1>1, <2>1, <2>2 DEF Logger
  <2>4. /\ logpast'.lines = new /\ logpast'.drops = logpast.drops
        /\ logpast' \in [given : Nat, lines : Nat, drops : SUBSET Nat, disk : BOOLEAN, losses : Nat]
    BY <1>1, <2>1 DEF new
  <2>5. \A i \in 1 .. Len(logger'.queue) : i \in 1 .. Len(logger.queue) \/ i = Len(logger.queue) + 1
    BY <1>1, <2>2, <2>3
  <2>6. \A i \in 1 .. Len(logger.queue) : logger.queue[i] \in Nat /\ logger.queue[i] < new
    BY <1>1 DEF HonestInv, QueueInOrder, new
  <2>7. QueueInOrder'
    <3>1. ASSUME NEW i \in 1 .. Len(logger'.queue) PROVE logger'.queue[i] \in 1 .. logpast'.lines
      <4>1. CASE i \in 1 .. Len(logger.queue)
        <5>1. logger'.queue[i] = logger.queue[i]
          BY <2>2, <2>3, <4>1
        <5>2. logger.queue[i] \in 1 .. logpast.lines
          BY <4>1 DEF HonestInv, QueueInOrder
        <5>3. QED
          BY <1>1, <2>4, <5>1, <5>2 DEF new
      <4>2. CASE i = Len(logger.queue) + 1
        BY <1>1, <2>2, <2>3, <2>4, <4>2 DEF new
      <4>3. QED
        BY <2>5, <4>1, <4>2
    <3>2. ASSUME NEW i \in 1 .. Len(logger'.queue), NEW j \in 1 .. Len(logger'.queue), i < j
          PROVE  logger'.queue[i] < logger'.queue[j]
      <4>1. i \in 1 .. Len(logger.queue)
        BY <1>1, <2>5, <3>2
      <4>2. CASE j \in 1 .. Len(logger.queue)
        BY <2>2, <2>3, <3>2, <4>1, <4>2 DEF HonestInv, QueueInOrder
      <4>3. CASE j = Len(logger.queue) + 1
        BY <2>2, <2>3, <2>6, <4>1, <4>3
      <4>4. QED
        BY <2>5, <4>2, <4>3
    <3>3. QED
      BY <3>1, <3>2 DEF QueueInOrder
  <2>8. LogInOrder'
    <3>1. ASSUME NEW i \in 1 .. Len(logged)
          PROVE  logged[i].to = logger.path /\ logged[i].line < new /\ logged[i].line <= new
      <4>1. logged[i] \in Line /\ logged[i].line <= logpast.lines /\ logged[i].to = logger.path
        BY <1>1 DEF HonestInv, LogInOrder
      <4>2. QED
        BY <1>1, <4>1 DEF new, Line
    <3>2. ASSUME NEW i \in 1 .. Len(logged), NEW j \in 1 .. Len(logger'.queue)
          PROVE  logged[i].line < logger'.queue[j]
      BY <2>2, <2>3, <2>5, <3>1, <3>2 DEF HonestInv, LogInOrder
    <3>3. QED
      BY <1>2, <2>3, <2>4, <3>1, <3>2 DEF HonestInv, LogInOrder
  <2>9. Started'
    <3>1. logger'.queue # <<>>
      BY <1>1, <2>2, <2>3
    <3>2. QED
      BY <1>2, <2>3, <3>1 DEF HonestInv, Started
  <2>10. QED
    BY <1>1, <1>2, <2>3, <2>4, <2>7, <2>8, <2>9 DEF HonestInv, LogTypeOK, DropsMarked
<1>5. QED
  BY <1>3, <1>4

\* What leaves the queue and the log alone, and the path once it counts.
LEMMA LogUntouched ==
  ASSUME HonestInv, logger' \in Logger, logged' = logged,
         logger'.queue = logger.queue, logger'.overflow = logger.overflow,
         logger.complete => logger'.path = logger.path /\ logger'.complete,
         logpast' \in [given : Nat, lines : Nat, drops : SUBSET Nat, disk : BOOLEAN, losses : Nat],
         logpast'.lines = logpast.lines, logpast'.drops = logpast.drops,
         logger'.state # "START_UP" => logger'.complete,
         logger'.state \in {"OPEN_FILE", "WRITE_LOG"} => logger'.queue # <<>>
  PROVE  HonestInv'
<1>1. LogTypeOK' /\ Started' /\ QueueInOrder' /\ DropsMarked'
  BY DEF HonestInv, LogTypeOK, Started, QueueInOrder, DropsMarked
<1>2. LogInOrder'
  <2>1. CASE logger.complete
    BY <2>1 DEF HonestInv, LogInOrder
  <2>2. CASE ~logger.complete
    <3>1. Len(logged') = 0
      BY <2>2 DEF HonestInv, Started
    <3>2. QED
      BY <3>1 DEF LogInOrder
  <2>3. QED
    BY <2>1, <2>2
<1>3. QED
  BY <1>1, <1>2 DEF HonestInv

\* The object of a configuration file is heard before the first completion only.
LEMMA ObjectKeeps ==
  ASSUME HonestInv, NEW f, ObjectSent(f), logged' = logged, logpast' = logpast
  PROVE  HonestInv'
<1>1. CASE f \in Directory /\ ~logger.complete
  <2>1. logger' = [logger EXCEPT !.path = f]
    BY <1>1 DEF ObjectSent
  <2>2. /\ logger' \in Logger /\ logger'.queue = logger.queue /\ logger'.state = logger.state
        /\ logger'.overflow = logger.overflow /\ logger'.complete = logger.complete
    BY <1>1, <2>1 DEF HonestInv, LogTypeOK, Logger, LogPlace
  <2>3. QED
    BY <1>1, <2>2, LogUntouched DEF HonestInv, LogTypeOK, Started
<1>2. CASE ~(f \in Directory /\ ~logger.complete)
  <2>1. logger' = logger
    BY <1>2 DEF ObjectSent
  <2>2. QED
    BY <2>1, LogUntouched DEF HonestInv, LogTypeOK, Started
<1>3. QED
  BY <1>1, <1>2

LEMMA StepKeeps ==
  ASSUME HonestInv, [LogNext]_logvars
  PROVE  HonestInv'
<1> USE DEF HonestInv, LogTypeOK, Started
<1>1. ASSUME NEW f \in CfgFile, CfgFileGiven(f) PROVE HonestInv'
  <2>1. /\ logger' = logger /\ logged' = logged
        /\ logpast' = [logpast EXCEPT !.given = @ + 1]
    BY <1>1 DEF CfgFileGiven
  <2>2. /\ logpast' \in [given : Nat, lines : Nat, drops : SUBSET Nat, disk : BOOLEAN, losses : Nat]
        /\ logpast'.lines = logpast.lines /\ logpast'.drops = logpast.drops
    BY <2>1
  <2>3. QED
    BY <2>1, <2>2, LogUntouched
<1>2. CASE UNCHANGED <<logger, logged, logpast>>
  BY <1>2, LogUntouched
<1>3. CASE CfgIdle
  <2>1. logged' = logged /\ logpast' = logpast
    BY <1>3 DEF CfgIdle
  <2>2. CASE parser.timer = "up"
    BY <1>2, <1>3, <2>1, <2>2 DEF CfgIdle
  <2>3. CASE parser.timer # "up"
    <3>1. ObjectSent([parser EXCEPT !.new = FALSE].path)
      BY <1>3, <2>3 DEF CfgIdle, CfgOpen
    <3>2. QED
      BY <2>1, <3>1, ObjectKeeps
  <2>4. QED
    BY <2>2, <2>3
<1>4. CASE CfgOpenFile
  BY <1>4, ObjectKeeps DEF CfgOpenFile, CfgOpen
<1>5. CASE CfgSignalComplete
  <2>1. /\ logger' = [logger EXCEPT !.complete = TRUE]
        /\ logged' = logged /\ logpast' = logpast
    BY <1>5 DEF CfgSignalComplete
  <2>2. /\ logger' \in Logger /\ logger'.queue = logger.queue /\ logger'.state = logger.state
        /\ logger'.overflow = logger.overflow /\ logger'.complete /\ logger'.path = logger.path
    BY <2>1 DEF Logger
  <2>3. QED
    BY <2>1, <2>2, LogUntouched
<1>6. CASE LogMessage
  BY <1>6, MessageKeeps
<1>7. ASSUME NEW s \in {"IDLE", "OPEN_FILE", "SLEEP"}, NEW u \in BOOLEAN,
             logger' = [logger EXCEPT !.state = s, !.up = u],
             logger.complete, s = "OPEN_FILE" => logger.queue # <<>>,
             UNCHANGED <<logged, logpast>>
      PROVE  HonestInv'
  <2>1. /\ logger' \in Logger /\ logger'.queue = logger.queue /\ logger'.state = s
        /\ logger'.overflow = logger.overflow /\ logger'.complete = logger.complete
        /\ logger'.path = logger.path
    BY <1>7 DEF Logger
  <2>2. QED
    BY <1>7, <2>1, LogUntouched
<1>8. /\ logger.up \in BOOLEAN
      /\ \A s \in {"IDLE", "OPEN_FILE"} :
           [logger EXCEPT !.state = s] = [logger EXCEPT !.state = s, !.up = logger.up]
  BY DEF Logger
<1>9. CASE LogStartUp
  <2>1. logger' = [logger EXCEPT !.state = "IDLE"] /\ logger.complete /\ UNCHANGED <<logged, logpast>>
    BY <1>9 DEF LogStartUp
  <2>2. QED
    BY <1>7, <1>8, <2>1
<1>10. CASE LogIdle
  <2>1. /\ logger' = [logger EXCEPT !.state = "OPEN_FILE"]
        /\ logger.complete /\ logger.queue # <<>> /\ UNCHANGED <<logged, logpast>>
    BY <1>10 DEF LogIdle
  <2>2. QED
    BY <1>7, <1>8, <2>1
<1>11. CASE LogOpenFile
  <2>1. logger.complete /\ logger.queue # <<>> /\ UNCHANGED logpast
    BY <1>11 DEF LogOpenFile
  <2>2. CASE logpast.disk
    <3> DEFINE l == [logger EXCEPT !.state = "WRITE_LOG"]
    <3>1. /\ l \in Logger /\ l.queue = logger.queue /\ l.path = logger.path
          /\ l.overflow = logger.overflow /\ l.complete = logger.complete
      BY DEF Logger
    <3>2. ProcessQeue(l)
      BY <1>11, <2>2 DEF LogOpenFile
    <3> HIDE DEF l
    <3>3. QED
      BY <2>1, <3>1, <3>2, ProcessKeeps
  <2>3. CASE ~logpast.disk
    <3>1. logger' = [logger EXCEPT !.state = "SLEEP", !.up = FALSE] /\ UNCHANGED logged
      BY <1>11, <2>3 DEF LogOpenFile
    <3>2. QED
      BY <1>7, <2>1, <3>1
  <2>4. QED
    BY <2>2, <2>3
<1>12. CASE LogWrite
  <2>1. /\ logger.complete /\ logger.queue # <<>> /\ UNCHANGED logpast /\ ProcessQeue(logger)
        /\ logger \in Logger
    BY <1>12 DEF LogWrite
  <2>2. QED
    BY <2>1, ProcessKeeps
<1>13. CASE LogCloseFile
  <2>1. logger' = [logger EXCEPT !.state = "IDLE"] /\ logger.complete /\ UNCHANGED <<logged, logpast>>
    BY <1>13 DEF LogCloseFile
  <2>2. QED
    BY <1>7, <1>8, <2>1
<1>14. CASE LogSleep
  <2>1. logger' = [logger EXCEPT !.state = "IDLE"] /\ logger.complete /\ UNCHANGED <<logged, logpast>>
    BY <1>14 DEF LogSleep
  <2>2. QED
    BY <1>7, <1>8, <2>1
<1>15. CASE LogTimeUp
  <2>1. /\ logger' = [logger EXCEPT !.up = TRUE] /\ logger.state = "SLEEP"
        /\ logger.complete /\ UNCHANGED <<logged, logpast>>
    BY <1>15 DEF LogTimeUp
  <2>2. logger' = [logger EXCEPT !.state = "SLEEP", !.up = TRUE]
    BY <2>1 DEF Logger
  <2>3. QED
    BY <1>7, <2>1, <2>2
<1>16. ASSUME DiskGoes \/ DiskComesBack PROVE HonestInv'
  <2>1. logger' = logger /\ logged' = logged
    BY <1>16 DEF DiskGoes, DiskComesBack
  <2>2. PICK b \in BOOLEAN, k \in Nat : logpast' = [logpast EXCEPT !.disk = b, !.losses = k]
    <3>1. CASE DiskGoes
      <4>1. logpast.losses + 1 \in Nat
        OBVIOUS
      <4>2. QED
        BY <3>1, <4>1 DEF DiskGoes
    <3>2. CASE DiskComesBack
      <4>1. /\ logpast.losses \in Nat
            /\ logpast' = [logpast EXCEPT !.disk = TRUE, !.losses = logpast.losses]
        BY <3>2 DEF DiskComesBack
      <4>2. QED
        BY <4>1
    <3>3. QED
      BY <1>16, <3>1, <3>2
  <2>3. /\ logpast' \in [given : Nat, lines : Nat, drops : SUBSET Nat, disk : BOOLEAN, losses : Nat]
        /\ logpast'.lines = logpast.lines /\ logpast'.drops = logpast.drops
    BY <2>2
  <2>4. QED
    BY <2>1, <2>3, LogUntouched
<1>17. CASE CfgTimeUp \/ CfgWaitForFile \/ UNCHANGED logvars
  BY <1>2, <1>17 DEF CfgTimeUp, CfgWaitForFile, logvars
<1>18. QED
  BY <1>1, <1>3, <1>4, <1>5, <1>6, <1>9, <1>10, <1>11, <1>12, <1>13, <1>14, <1>15, <1>16, <1>17
     DEF LogNext, CfgTask, LogTask

\* The log stays in one directory, its lines are in the order of the calls, and
\* every line that was dropped has a mark behind it, in log_interface.c.
THEOREM LogStaysHonest == LogSpec => []LogIsHonest
<1>1. LogInit => HonestInv
  BY DEF LogInit, HonestInv, LogTypeOK, Logger, LogPlace, Started, QueueInOrder, LogInOrder, DropsMarked
<1>2. HonestInv /\ [LogNext]_logvars => HonestInv'
  BY StepKeeps
<1>3. HonestInv => LogIsHonest
  BY DEF HonestInv, LogInOrder, DropsMarked, LogIsHonest
<1>4. QED
  BY <1>1, <1>2, <1>3, PTL DEF LogSpec

-----------------------------------------------------------------------------
(* What the sensors tell of the last day: SensorHistory.                   *)

\* What a sensor tells fits into a byte, with or without a sign.
Value == {x \in Int : -128 <= x /\ x <= 255}

\* An array has a place at least.
LEMMA LengthIsOne ==
  HistoryLength \in Nat /\ HistoryLength >= 1 /\ Value \subseteq Int
<1>1. Value \subseteq Int
  BY DEF Value
<1>2. HistoryLength \in 1 .. 255
  BY HistoryAssumption
<1>3. QED
  BY <1>1, <1>2


\* A set of numbers that is not empty has a least one.
LEMMA LeastOf ==
  ASSUME NEW T, T \subseteq Nat, T # {}
  PROVE  \E x \in T : \A y \in T : x <= y
<1> DEFINE R == OpToRel(<, Nat)
<1>1. IsWellFoundedOn(R, Nat)
  BY NatLessThanWellFounded
<1>2. \A x, y \in Nat : x < y => <<x, y>> \in R
  BY DEF OpToRel
<1> HIDE DEF R
<1>3. PICK x \in T : \A y \in T : ~(<<y, x>> \in R)
  BY <1>1, WFMin
<1>4. ASSUME NEW y \in T PROVE x <= y
  <2>1. x \in Nat /\ y \in Nat
    OBVIOUS
  <2>2. <<y, x>> \notin R
    BY <1>3
  <2>3. ~(y < x)
    BY <1>2, <2>1, <2>2
  <2>4. QED
    BY <2>1, <2>3
<1>5. QED
  BY <1>4

\* What holds of 0 and goes from each number to the next holds of all of them.
LEMMA CountingUp ==
  ASSUME NEW T, 0 \in T, \A k \in Nat : k \in T => k + 1 \in T
  PROVE  Nat \subseteq T
<1>1. SUFFICES ASSUME Nat \ T # {} PROVE FALSE
  OBVIOUS
<1>2. PICK k \in Nat \ T : \A j \in Nat \ T : k <= j
  BY <1>1, LeastOf
<1>3. k # 0 /\ k \in Nat
  BY <1>2
<1>4. k - 1 \in Nat /\ ~(k <= k - 1)
  BY <1>3
<1>5. k - 1 \in T
  BY <1>2, <1>4
<1>6. (k - 1) + 1 \in T
  BY <1>4, <1>5
<1>7. QED
  BY <1>2, <1>3, <1>6


\* A set of readings has extremes.
LEMMA ExtremesOf ==
  ASSUME NEW S, S \subseteq Value, S # {}
  PROVE  /\ Max(S) \in S /\ \A y \in S : y <= Max(S)
         /\ Min(S) \in S /\ \A y \in S : Min(S) <= y
<1>1. \E x \in S : \A y \in S : x <= y
  <2> DEFINE T == {y + 128 : y \in S}
  <2>1. T \subseteq Nat /\ T # {}
    <3>1. \A y \in S : y + 128 \in Nat
      BY DEF Value
    <3>2. QED
      BY <3>1
  <2> HIDE DEF T
  <2>2. PICK u \in T : \A v \in T : u <= v
    BY <2>1, LeastOf
  <2>3. PICK x \in S : u = x + 128
    BY DEF T
  <2>4. ASSUME NEW y \in S PROVE x <= y
    <3>1. y + 128 \in T
      BY DEF T
    <3>2. x + 128 <= y + 128
      BY <2>2, <2>3, <3>1
    <3>3. QED
      BY <3>2 DEF Value
  <2>5. QED
    BY <2>4
<1>2. \E x \in S : \A y \in S : x >= y
  <2> DEFINE T == {255 - y : y \in S}
  <2>1. T \subseteq Nat /\ T # {}
    <3>1. \A y \in S : 255 - y \in Nat
      BY DEF Value
    <3>2. QED
      BY <3>1
  <2> HIDE DEF T
  <2>2. PICK u \in T : \A v \in T : u <= v
    BY <2>1, LeastOf
  <2>3. PICK x \in S : u = 255 - x
    BY DEF T
  <2>4. ASSUME NEW y \in S PROVE x >= y
    <3>1. 255 - y \in T
      BY DEF T
    <3>2. 255 - x <= 255 - y
      BY <2>2, <2>3, <3>1
    <3>3. QED
      BY <3>2 DEF Value
  <2>5. QED
    BY <2>4
<1>3. Min(S) \in S /\ \A y \in S : Min(S) <= y
  BY <1>1 DEF Min
<1>4. Max(S) \in S /\ \A y \in S : Max(S) >= y
  BY <1>2 DEF Max
<1>5. \A y \in S : Max(S) >= y => y <= Max(S)
  BY <1>4 DEF Value
<1>6. QED
  BY <1>3, <1>4, <1>5

\* Of two numbers it takes one.
LEMMA OfTwo ==
  ASSUME NEW a \in Int, NEW b \in Int
  PROVE  Max({a, b}) = (IF a >= b THEN a ELSE b) /\ Min({a, b}) = (IF a <= b THEN a ELSE b)
<1>1. Max({a, b}) = (IF a >= b THEN a ELSE b)
  <2>1. \E x \in {a, b} : \A y \in {a, b} : x >= y
    OBVIOUS
  <2>2. Max({a, b}) \in {a, b} /\ \A y \in {a, b} : Max({a, b}) >= y
    BY <2>1 DEF Max
  <2>3. Max({a, b}) >= a /\ Max({a, b}) >= b /\ (Max({a, b}) = a \/ Max({a, b}) = b)
    BY <2>2
  <2>4. QED
    BY <2>3
<1>2. Min({a, b}) = (IF a <= b THEN a ELSE b)
  <2>1. \E x \in {a, b} : \A y \in {a, b} : x <= y
    OBVIOUS
  <2>2. Min({a, b}) \in {a, b} /\ \A y \in {a, b} : Min({a, b}) <= y
    BY <2>1 DEF Min
  <2>3. Min({a, b}) <= a /\ Min({a, b}) <= b /\ (Min({a, b}) = a \/ Min({a, b}) = b)
    BY <2>2
  <2>4. QED
    BY <2>3
<1>3. QED
  BY <1>1, <1>2

-----------------------------------------------------------------------------
(* The recursion of Sum has a solution, *)
AddsUp(s, buffer, n) ==
  s = [k \in 0 .. n |-> IF k = 0 THEN 0 ELSE s[k - 1] + buffer[k - 1]]

LEMMA SumDefined ==
  ASSUME NEW buffer, NEW n \in Nat
  PROVE  \E s : AddsUp(s, buffer, n) /\ Sum(buffer, n) = s[n]
<1> DEFINE T == {m \in Nat : \E s : AddsUp(s, buffer, m)}
<1>1. 0 \in T
  <2>1. AddsUp([k \in 0 .. 0 |-> 0], buffer, 0)
    BY DEF AddsUp
  <2>2. QED
    BY <2>1
<1>2. ASSUME NEW m \in Nat, m \in T PROVE m + 1 \in T
  <2>1. PICK s : AddsUp(s, buffer, m)
    BY <1>2
  <2> DEFINE t == [k \in 0 .. m + 1 |-> IF k = m + 1 THEN s[m] + buffer[m] ELSE s[k]]
  <2>2. \A k \in 0 .. m : s[k] = IF k = 0 THEN 0 ELSE s[k - 1] + buffer[k - 1]
    BY <2>1 DEF AddsUp
  <2>3. ASSUME NEW k \in 0 .. m + 1
        PROVE  t[k] = IF k = 0 THEN 0 ELSE t[k - 1] + buffer[k - 1]
    <3>1. CASE k = m + 1
      <4>1. (m + 1) - 1 = m /\ m \in 0 .. m + 1 /\ m # m + 1 /\ m + 1 # 0
        OBVIOUS
      <4>2. t[k] = s[m] + buffer[m] /\ t[m] = s[m]
        BY <3>1, <4>1
      <4> HIDE DEF t
      <4>3. QED
        BY <3>1, <4>1, <4>2
    <3>2. CASE k # m + 1
      <4>1. k \in 0 .. m /\ (k # 0 => k - 1 \in 0 .. m)
        BY <3>2
      <4>2. t[k] = s[k]
        BY <3>2
      <4>3. k # 0 => t[k - 1] = s[k - 1]
        BY <4>1
      <4> HIDE DEF t
      <4>4. QED
        BY <2>2, <4>1, <4>2, <4>3
    <3>3. QED
      BY <3>1, <3>2
  <2>4. t = [k \in 0 .. m + 1 |-> t[k]]
    OBVIOUS
  <2> HIDE DEF t
  <2>5. [k \in 0 .. m + 1 |-> t[k]]
          = [k \in 0 .. m + 1 |-> IF k = 0 THEN 0 ELSE t[k - 1] + buffer[k - 1]]
    BY <2>3
  <2>6. AddsUp(t, buffer, m + 1)
    BY <2>4, <2>5 DEF AddsUp
  <2>7. QED
    BY <2>6
<1> HIDE DEF T
<1>3. n \in T
  BY <1>1, <1>2, CountingUp
<1>4. \E s : AddsUp(s, buffer, n)
  BY <1>3 DEF T
<1> DEFINE sum == CHOOSE s : s = [k \in 0 .. n |-> IF k = 0 THEN 0 ELSE s[k - 1] + buffer[k - 1]]
<1>5. AddsUp(sum, buffer, n)
  BY <1>4 DEF AddsUp
<1>6. Sum(buffer, n) = sum[n]
  BY DEF Sum
<1> HIDE DEF sum
<1>7. QED
  BY <1>5, <1>6

\* and one only.
LEMMA SumOnce ==
  ASSUME NEW buffer, NEW n \in Nat, NEW s, AddsUp(s, buffer, n),
         NEW m \in Nat, NEW t, AddsUp(t, buffer, m), n <= m
  PROVE  s[n] = t[n]
<1> DEFINE T == {k \in Nat : k <= n => s[k] = t[k]}
<1>1. \A k \in 0 .. n : s[k] = IF k = 0 THEN 0 ELSE s[k - 1] + buffer[k - 1]
  BY DEF AddsUp
<1>2. \A k \in 0 .. m : t[k] = IF k = 0 THEN 0 ELSE t[k - 1] + buffer[k - 1]
  BY DEF AddsUp
<1>3. 0 \in T
  BY <1>1, <1>2
<1>4. ASSUME NEW k \in Nat, k \in T PROVE k + 1 \in T
  <2>1. SUFFICES ASSUME k + 1 <= n PROVE s[k + 1] = t[k + 1]
    OBVIOUS
  <2>2. s[k] = t[k]
    BY <1>4, <2>1
  <2>3. k + 1 \in 0 .. n /\ k + 1 \in 0 .. m /\ k + 1 # 0 /\ (k + 1) - 1 = k
    BY <2>1
  <2>4. s[k + 1] = s[k] + buffer[k] /\ t[k + 1] = t[k] + buffer[k]
    BY <1>1, <1>2, <2>3
  <2>5. QED
    BY <2>2, <2>4
<1> HIDE DEF T
<1>5. n \in T
  BY <1>3, <1>4, CountingUp
<1>6. QED
  BY <1>5 DEF T

\* So it is what the loop adds up.
LEMMA SumSteps ==
  ASSUME NEW buffer, NEW n \in Nat
  PROVE  Sum(buffer, 0) = 0 /\ Sum(buffer, n + 1) = Sum(buffer, n) + buffer[n]
<1>1. Sum(buffer, 0) = 0
  <2>1. PICK s : AddsUp(s, buffer, 0) /\ Sum(buffer, 0) = s[0]
    BY SumDefined
  <2>2. QED
    BY <2>1 DEF AddsUp
<1>2. PICK s : AddsUp(s, buffer, n) /\ Sum(buffer, n) = s[n]
  BY SumDefined
<1>3. PICK t : AddsUp(t, buffer, n + 1) /\ Sum(buffer, n + 1) = t[n + 1]
  BY SumDefined
<1>4. s[n] = t[n]
  BY <1>2, <1>3, SumOnce
<1>5. t[n + 1] = t[n] + buffer[n]
  <2>1. n + 1 \in 0 .. n + 1 /\ n + 1 # 0 /\ (n + 1) - 1 = n
    OBVIOUS
  <2>2. QED
    BY <1>3, <2>1 DEF AddsUp
<1>6. QED
  BY <1>1, <1>2, <1>3, <1>4, <1>5

\* It is a number.
LEMMA SumIsInt ==
  ASSUME NEW buffer, NEW n \in Nat, \A i \in 0 .. n - 1 : buffer[i] \in Int
  PROVE  Sum(buffer, n) \in Int
<1> DEFINE T == {k \in Nat : k <= n => Sum(buffer, k) \in Int}
<1>1. 0 \in T
  BY SumSteps
<1>2. ASSUME NEW k \in Nat, k \in T PROVE k + 1 \in T
  <2>1. SUFFICES ASSUME k + 1 <= n PROVE Sum(buffer, k + 1) \in Int
    OBVIOUS
  <2>2. Sum(buffer, k) \in Int /\ buffer[k] \in Int
    BY <1>2, <2>1
  <2>3. Sum(buffer, k + 1) = Sum(buffer, k) + buffer[k]
    BY SumSteps
  <2>4. QED
    BY <2>2, <2>3
<1> HIDE DEF T
<1>3. n \in T
  BY <1>1, <1>2, CountingUp
<1>4. QED
  BY <1>3 DEF T

\* Buffers that agree on these come to the same.
LEMMA SumAgrees ==
  ASSUME NEW f, NEW g, NEW n \in Nat, \A i \in 0 .. n - 1 : f[i] = g[i]
  PROVE  Sum(f, n) = Sum(g, n)
<1> DEFINE T == {k \in Nat : k <= n => Sum(f, k) = Sum(g, k)}
<1>1. 0 \in T
  BY SumSteps
<1>2. ASSUME NEW k \in Nat, k \in T PROVE k + 1 \in T
  <2>1. SUFFICES ASSUME k + 1 <= n PROVE Sum(f, k + 1) = Sum(g, k + 1)
    OBVIOUS
  <2>2. Sum(f, k) = Sum(g, k) /\ f[k] = g[k]
    BY <1>2, <2>1
  <2>3. Sum(f, k + 1) = Sum(f, k) + f[k] /\ Sum(g, k + 1) = Sum(g, k) + g[k]
    BY SumSteps
  <2>4. QED
    BY <2>2, <2>3
<1> HIDE DEF T
<1>3. n \in T
  BY <1>1, <1>2, CountingUp
<1>4. QED
  BY <1>3 DEF T

\* A place that changes changes the sum by as much,
LEMMA SumChanges ==
  ASSUME NEW n \in Nat, NEW f \in [0 .. n - 1 -> Int], NEW p \in 0 .. n - 1, NEW v \in Int
  PROVE  Sum([f EXCEPT ![p] = v], n) = Sum(f, n) - f[p] + v
<1> DEFINE g == [f EXCEPT ![p] = v]
           T == {k \in Nat : k <= n =>
                   Sum(g, k) = Sum(f, k) + (IF p < k THEN v - f[p] ELSE 0)}
<1>0. \A i \in 0 .. n - 1 : g[i] = (IF i = p THEN v ELSE f[i]) /\ f[i] \in Int
  OBVIOUS
<1> HIDE DEF g
<1>1. 0 \in T
  <2>1. ~(p < 0)
    OBVIOUS
  <2>2. QED
    BY <2>1, SumSteps
<1>2. ASSUME NEW k \in Nat, k \in T PROVE k + 1 \in T
  <2>1. SUFFICES ASSUME k + 1 <= n
                 PROVE  Sum(g, k + 1) = Sum(f, k + 1) + (IF p < k + 1 THEN v - f[p] ELSE 0)
    OBVIOUS
  <2>2. k \in 0 .. n - 1 /\ Sum(g, k) = Sum(f, k) + (IF p < k THEN v - f[p] ELSE 0)
    BY <1>2, <2>1
  <2>3. Sum(f, k + 1) = Sum(f, k) + f[k] /\ Sum(g, k + 1) = Sum(g, k) + g[k]
    BY SumSteps
  <2>4. Sum(f, k) \in Int
    BY <1>0, <2>2, SumIsInt
  <2>5. f[p] \in Int /\ f[k] \in Int /\ g[k] = IF k = p THEN v ELSE f[k]
    BY <1>0, <2>2
  <2> DEFINE sf == Sum(f, k)
             fp == f[p]
             fk == f[k]
  <2>6. sf \in Int /\ fp \in Int /\ fk \in Int /\ (k = p => fk = fp)
    BY <2>4, <2>5
  <2>7. Sum(f, k + 1) = sf + fk
        /\ Sum(g, k + 1) = (sf + (IF p < k THEN v - fp ELSE 0)) + (IF k = p THEN v ELSE fk)
    BY <2>2, <2>3, <2>5
  <2>8. Sum(f, k + 1) + (IF p < k + 1 THEN v - f[p] ELSE 0)
         = (sf + fk) + (IF p < k + 1 THEN v - fp ELSE 0)
    BY <2>7
  <2> HIDE DEF sf, fp, fk
  <2>9. (sf + (IF p < k THEN v - fp ELSE 0)) + (IF k = p THEN v ELSE fk)
         = (sf + fk) + (IF p < k + 1 THEN v - fp ELSE 0)
    BY <2>6
  <2>10. QED
    BY <2>7, <2>8, <2>9
<1> HIDE DEF T
<1>3. n \in T
  BY <1>1, <1>2, CountingUp
<1>4. Sum(g, n) = Sum(f, n) + (v - f[p])
  BY <1>3 DEF T
<1>5. Sum(f, n) \in Int /\ f[p] \in Int
  BY <1>0, SumIsInt
<1>6. QED
  BY <1>4, <1>5 DEF g

\* and the sum of the places from a on is the difference of two sums from 0 on.
LEMMA SumFrom ==
  ASSUME NEW a \in Nat, NEW n \in Nat, NEW f, NEW g,
         \A i \in 0 .. a + n - 1 : f[i] \in Int,
         \A i \in 0 .. n - 1 : g[i] = f[a + i]
  PROVE  Sum(g, n) = Sum(f, a + n) - Sum(f, a)
<1> DEFINE T == {k \in Nat : k <= n => Sum(g, k) = Sum(f, a + k) - Sum(f, a)}
<1>0. \A k \in 0 .. a + n : Sum(f, k) \in Int
  <2>1. ASSUME NEW k \in 0 .. a + n PROVE \A i \in 0 .. k - 1 : f[i] \in Int
    OBVIOUS
  <2>2. QED
    BY <2>1, SumIsInt
<1>1. 0 \in T
  <2>1. Sum(f, a) \in Int /\ a + 0 = a
    BY <1>0
  <2>2. Sum(g, 0) = 0
    BY SumSteps
  <2>3. QED
    BY <2>1, <2>2
<1>2. ASSUME NEW k \in Nat, k \in T PROVE k + 1 \in T
  <2>1. SUFFICES ASSUME k + 1 <= n PROVE Sum(g, k + 1) = Sum(f, a + (k + 1)) - Sum(f, a)
    OBVIOUS
  <2>2. Sum(g, k) = Sum(f, a + k) - Sum(f, a) /\ g[k] = f[a + k] /\ f[a + k] \in Int
    BY <1>2, <2>1
  <2>3. Sum(g, k + 1) = Sum(g, k) + g[k] /\ Sum(f, (a + k) + 1) = Sum(f, a + k) + f[a + k]
    <3>1. a + k \in Nat
      OBVIOUS
    <3>2. QED
      BY <3>1, SumSteps
  <2>4. Sum(f, a) \in Int /\ Sum(f, a + k) \in Int /\ a + (k + 1) = (a + k) + 1
    BY <1>0, <2>1
  <2> DEFINE x == Sum(f, a + k)
             y == Sum(f, a)
             z == f[a + k]
  <2>5. x \in Int /\ y \in Int /\ z \in Int
    BY <2>2, <2>4
  <2>6. Sum(g, k + 1) = (x - y) + z /\ Sum(f, a + (k + 1)) - Sum(f, a) = (x + z) - y
    BY <2>2, <2>3, <2>4
  <2> HIDE DEF x, y, z
  <2>7. QED
    BY <2>5, <2>6
<1> HIDE DEF T
<1>3. n \in T
  BY <1>1, <1>2, CountingUp
<1>4. QED
  BY <1>3 DEF T

\* A share of less than 101 times of something is not more than a hundred of it.
LEMMA ShareOf ==
  ASSUME NEW x \in Nat, NEW s \in Nat, s # 0, x < 101 * s
  PROVE  Divided(x, s) \in 0 .. 100
<1> DEFINE q == x \div s
<1>1. q \in Nat /\ s * q <= x
  OBVIOUS
<1>2. Divided(x, s) = q
  BY DEF Divided
<1> HIDE DEF q
<1>3. ASSUME q >= 101 PROVE FALSE
  <2>1. PICK e \in Nat : q = 101 + e
    <3>1. q - 101 \in Nat /\ q = 101 + (q - 101)
      BY <1>1, <1>3
    <3>2. QED
      BY <3>1
  <2>2. s * q = 101 * s + s * e
    BY <2>1
  <2>3. s * e \in Nat /\ 101 * s \in Nat
    OBVIOUS
  <2>4. 101 * s <= s * q
    BY <2>2, <2>3
  <2>5. s * q \in Nat
    BY <1>1
  <2>6. QED
    BY <1>1, <2>3, <2>4, <2>5
<1>4. QED
  BY <1>1, <1>2, <1>3

-----------------------------------------------------------------------------
(* An array and the values that were added to it. *)
ArrayState ==
  [ buffer : [0 .. HistoryLength - 1 -> Value], write_pointer : 0 .. HistoryLength,
    array_not_full : BOOLEAN ]

\* What the first k of them come to.
TotalOf(all, k) == Sum([i \in 0 .. Len(all) - 1 |-> all[i + 1]], k)

\* The place of the array that holds a value: the array is written from the
\* front, and the places behind write_pointer are from the round before.
FirstRound(s, all) ==
  /\ s.write_pointer = Len(all)
  /\ \A i \in 0 .. Len(all) - 1 : s.buffer[i] = all[i + 1]

LaterRound(s, all) ==
  /\ s.write_pointer >= 1
  /\ \A i \in 0 .. HistoryLength - 1 :
       s.buffer[i] = IF i < s.write_pointer THEN all[Len(all) - s.write_pointer + i + 1]
                     ELSE all[Len(all) - s.write_pointer + i + 1 - HistoryLength]
  /\ Sum(s.buffer, HistoryLength) = TotalOf(all, Len(all)) - TotalOf(all, Len(all) - HistoryLength)

Keeps(s, all) ==
  IF Len(all) <= HistoryLength THEN FirstRound(s, all) ELSE LaterRound(s, all)

\* The full array is in its later round as well.
LEMMA FullHolds ==
  ASSUME NEW s \in ArrayState, NEW all \in Seq(Value), Keeps(s, all), Len(all) >= HistoryLength
  PROVE  LaterRound(s, all)
<1> DEFINE n == Len(all)
           f == [i \in 0 .. n - 1 |-> all[i + 1]]
<1>1. HistoryLength \in Nat /\ HistoryLength >= 1 /\ n \in Nat
  BY LengthIsOne
<1>2. CASE n > HistoryLength
  BY <1>1, <1>2 DEF Keeps
<1>3. CASE n = HistoryLength
  <2>1. s.write_pointer = n /\ \A i \in 0 .. n - 1 : s.buffer[i] = all[i + 1]
    BY <1>1, <1>3 DEF Keeps, FirstRound
  <2>2. \A i \in 0 .. n - 1 : i < n /\ n - n + i + 1 = i + 1
    BY <1>1
  <2>3. Sum(s.buffer, n) = Sum(f, n) /\ Sum(f, n - n) = 0 /\ Sum(f, n) \in Int
    <3>1. \A i \in 0 .. n - 1 : s.buffer[i] = f[i]
      BY <2>1
    <3>2. \A i \in 0 .. n - 1 : f[i] \in Int
      <4>1. \A i \in 0 .. n - 1 : i + 1 \in 1 .. Len(all)
        BY <1>1
      <4>2. \A i \in 0 .. n - 1 : all[i + 1] \in Value
        BY <4>1
      <4>3. \A i \in 0 .. n - 1 : f[i] = all[i + 1]
        OBVIOUS
      <4> HIDE DEF f
      <4>4. QED
        BY <4>2, <4>3, LengthIsOne
    <3>3. n - n = 0
      BY <1>1
    <3> HIDE DEF f, n
    <3>4. QED
      BY <1>1, <3>1, <3>2, <3>3, SumAgrees, SumSteps, SumIsInt
  <2>4. Sum(s.buffer, HistoryLength) = TotalOf(all, Len(all)) - TotalOf(all, Len(all) - HistoryLength)
    <3>1. TotalOf(all, n) = Sum(f, n) /\ TotalOf(all, n - n) = Sum(f, n - n)
      BY DEF TotalOf
    <3> HIDE DEF f
    <3>2. Sum(s.buffer, n) = TotalOf(all, n) - TotalOf(all, n - n)
      <4>1. Sum(f, n) = Sum(f, n) - 0
        BY <2>3
      <4>2. QED
        BY <2>3, <3>1, <4>1
    <3>3. QED
      BY <1>3, <3>2
  <2> HIDE DEF f
  <2>5. QED
    <3>1. s.write_pointer >= 1
      BY <1>1, <1>3, <2>1
    <3>2. ASSUME NEW i \in 0 .. HistoryLength - 1
          PROVE  i < s.write_pointer /\ s.buffer[i] = all[n - s.write_pointer + i + 1]
      BY <1>3, <2>1, <2>2
    <3>3. QED
      BY <2>4, <3>1, <3>2 DEF LaterRound
<1>4. QED
  BY <1>1, <1>2, <1>3

\* What the sums are of a value more.
LEMMA TotalOfMore ==
  ASSUME NEW all \in Seq(Value), NEW v \in Value, NEW k \in 0 .. Len(all)
  PROVE  /\ TotalOf(Append(all, v), k) = TotalOf(all, k) /\ TotalOf(all, k) \in Int
         /\ k < Len(all) => TotalOf(Append(all, v), k + 1) = TotalOf(all, k) + all[k + 1]
         /\ k = Len(all) => TotalOf(Append(all, v), k + 1) = TotalOf(all, k) + v
<1> DEFINE n == Len(all)
           f == [i \in 0 .. n - 1 |-> all[i + 1]]
           more == Append(all, v)
           g == [i \in 0 .. Len(more) - 1 |-> more[i + 1]]
<1>1. /\ Len(more) = n + 1 /\ n \in Nat /\ more[n + 1] = v
      /\ \A i \in 1 .. n : more[i] = all[i] /\ all[i] \in Int
  <2>1. \A i \in 1 .. n : all[i] \in Int
    <3>1. \A i \in 1 .. n : all[i] \in Value
      OBVIOUS
    <3>2. QED
      BY <3>1, LengthIsOne
  <2>2. QED
    BY <2>1, AppendProperties
<1> HIDE DEF more
<1>2. \A i \in 0 .. n - 1 : f[i] \in Int /\ g[i] = f[i] /\ f[i] = all[i + 1]
  BY <1>1
<1>3. g[n] = v
  BY <1>1
<1>4. TotalOf(all, k) = Sum(f, k) /\ TotalOf(more, k) = Sum(g, k) /\ TotalOf(more, k + 1) = Sum(g, k + 1)
  BY DEF TotalOf
<1> HIDE DEF f, g
<1>5. Sum(g, k) = Sum(f, k)
  <2>1. \A i \in 0 .. k - 1 : g[i] = f[i]
    BY <1>1, <1>2
  <2>2. k \in Nat
    OBVIOUS
  <2>3. QED
    BY <2>1, <2>2, SumAgrees
<1>6. Sum(f, k) \in Int
  <2>1. \A i \in 0 .. k - 1 : f[i] \in Int
    BY <1>1, <1>2
  <2>2. k \in Nat
    OBVIOUS
  <2>3. QED
    BY <2>1, <2>2, SumIsInt
<1>7. Sum(g, k + 1) = Sum(g, k) + g[k]
  BY SumSteps
<1>8. k < n => g[k] = all[k + 1]
  <2>1. k < n => k \in 0 .. n - 1
    BY <1>1
  <2>2. QED
    BY <1>2, <2>1
<1>9. QED
  BY <1>3, <1>4, <1>5, <1>6, <1>7, <1>8 DEF more

\* The array keeps holding them, through every wrap.
LEMMA AddHolds ==
  ASSUME NEW s \in ArrayState, NEW all \in Seq(Value), NEW v \in Value, Keeps(s, all)
  PROVE  AddValue(s, v) \in ArrayState /\ Keeps(AddValue(s, v), Append(all, v))
<1> DEFINE n == Len(all)
           H == HistoryLength
           p == s.write_pointer
           place == IF p = H THEN 0 ELSE p
           t == AddValue(s, v)
           more == Append(all, v)
<1>1. /\ H \in Nat /\ H >= 1 /\ n \in Nat /\ p \in 0 .. H /\ s.buffer \in [0 .. H - 1 -> Value]
      /\ s.array_not_full \in BOOLEAN
  BY LengthIsOne DEF ArrayState
<1>2. place \in 0 .. H - 1
  BY <1>1
<1>3. /\ Len(more) = n + 1 /\ more[n + 1] = v /\ \A i \in 1 .. n : more[i] = all[i]
  BY AppendProperties
<1>4. /\ t.buffer = [s.buffer EXCEPT ![place] = v] /\ t.write_pointer = place + 1
      /\ t \in ArrayState
  <2> DEFINE full == s.array_not_full /\ ~(p = H)
             b == [s.buffer EXCEPT ![place] = v]
  <2>1. full \in BOOLEAN
    OBVIOUS
  <2>2. t = [s EXCEPT !.buffer[place] = v, !.write_pointer = place + 1, !.array_not_full = full]
    BY DEF AddValue
  <2>3. s = [buffer |-> s.buffer, write_pointer |-> p, array_not_full |-> s.array_not_full]
    BY DEF ArrayState
  <2> HIDE DEF full, t
  <2>4. /\ t.buffer = b /\ t.write_pointer = place + 1
        /\ t = [buffer |-> b, write_pointer |-> place + 1, array_not_full |-> full]
    BY <2>2, <2>3
  <2> HIDE DEF place
  <2>5. b \in [0 .. H - 1 -> Value] /\ place + 1 \in 0 .. H
    BY <1>1, <1>2
  <2>6. t.buffer = [s.buffer EXCEPT ![place] = v]
    BY <2>4
  <2> HIDE DEF b
  <2>7. QED
    BY <2>1, <2>4, <2>5, <2>6 DEF ArrayState
<1>5. \A i \in 0 .. H - 1 : t.buffer[i] = IF i = place THEN v ELSE s.buffer[i]
  BY <1>1, <1>2, <1>4
<1> HIDE DEF t, more
<1>6. CASE n < H
  <2>1. p = n /\ place = n /\ \A i \in 0 .. n - 1 : s.buffer[i] = all[i + 1]
    BY <1>1, <1>6 DEF Keeps, FirstRound
  <2> HIDE DEF place, p
  <2>2. ASSUME NEW i \in 0 .. n PROVE t.buffer[i] = more[i + 1]
    <3>1. i \in 0 .. H - 1
      BY <1>1, <1>6
    <3>2. CASE i = n
      BY <1>3, <1>5, <2>1, <3>1, <3>2
    <3>3. CASE i # n
      <4>1. i \in 0 .. n - 1 /\ i + 1 \in 1 .. n
        BY <1>1, <3>3
      <4>2. QED
        BY <1>3, <1>5, <2>1, <3>1, <3>3, <4>1
    <3>4. QED
      BY <3>2, <3>3
  <2>3. t.write_pointer = Len(more) /\ Len(more) - 1 = n /\ Len(more) <= H
    BY <1>1, <1>3, <1>4, <1>6, <2>1
  <2>4. QED
    BY <1>4, <2>2, <2>3 DEF Keeps, FirstRound, t, more
<1>7. CASE n >= H
  <2>1. /\ p >= 1
        /\ \A i \in 0 .. H - 1 : s.buffer[i] = IF i < p THEN all[n - p + i + 1] ELSE all[n - p + i + 1 - H]
        /\ Sum(s.buffer, H) = TotalOf(all, n) - TotalOf(all, n - H)
    BY <1>7, FullHolds DEF LaterRound
  <2>2. t.write_pointer = place + 1 /\ place + 1 >= 1
    BY <1>2, <1>4
  <2>3. ASSUME NEW i \in 0 .. H - 1
        PROVE  t.buffer[i] = IF i < place + 1 THEN more[(n + 1) - (place + 1) + i + 1]
                             ELSE more[(n + 1) - (place + 1) + i + 1 - H]
    <3>1. CASE i = place
      <4>1. i < place + 1 /\ (n + 1) - (place + 1) + i + 1 = n + 1
        BY <1>1, <1>2, <3>1
      <4> HIDE DEF place
      <4>2. QED
        BY <1>3, <1>5, <3>1, <4>1
    <3>2. CASE i < place
      <4>1. /\ place = p /\ i < p /\ i < place + 1
            /\ (n + 1) - (place + 1) + i + 1 = n - p + i + 1 /\ n - p + i + 1 \in 1 .. n
        BY <1>1, <1>7, <3>2
      <4>2. t.buffer[i] = all[n - p + i + 1]
        BY <1>5, <2>1, <3>2, <4>1
      <4>3. QED
        BY <1>3, <4>1, <4>2
    <3>3. CASE i > place
      <4>1. ~(i < place + 1) /\ i # place
        BY <1>2, <3>3
      <4>2. CASE p = H
        <5>1. /\ place = 0 /\ i < p
              /\ (n + 1) - (place + 1) + i + 1 - H = n - p + i + 1 /\ n - p + i + 1 \in 1 .. n
          BY <1>1, <1>7, <4>2
        <5>2. t.buffer[i] = all[n - p + i + 1]
          BY <1>5, <2>1, <4>1, <5>1
        <5>3. QED
          BY <1>3, <4>1, <5>1, <5>2
      <4>3. CASE p # H
        <5>1. /\ place = p /\ ~(i < p)
              /\ (n + 1) - (place + 1) + i + 1 - H = n - p + i + 1 - H
              /\ n - p + i + 1 - H \in 1 .. n
          BY <1>1, <1>7, <3>3, <4>3
        <5>2. t.buffer[i] = all[n - p + i + 1 - H]
          BY <1>5, <2>1, <4>1, <5>1
        <5>3. QED
          BY <1>3, <4>1, <5>1, <5>2
      <4>4. QED
        BY <4>2, <4>3
    <3>4. QED
      BY <1>2, <3>1, <3>2, <3>3
  <2>4. s.buffer[place] = all[n - H + 1] /\ n - H \in 0 .. n /\ n - H < n
    <3>1. CASE p = H
      <4>1. place = 0 /\ 0 < p /\ n - p + 0 + 1 = n - H + 1 /\ 0 \in 0 .. H - 1
        BY <1>1, <3>1
      <4>2. QED
        BY <1>1, <1>7, <2>1, <4>1
    <3>2. CASE p # H
      <4>1. place = p /\ ~(p < p) /\ n - p + p + 1 - H = n - H + 1 /\ p \in 0 .. H - 1
        BY <1>1, <3>2
      <4>2. s.buffer[p] = all[n - p + p + 1 - H]
        BY <2>1, <4>1
      <4>3. s.buffer[place] = all[n - H + 1]
        BY <4>1, <4>2
      <4>4. QED
        BY <1>1, <1>7, <4>3
    <3>3. QED
      BY <3>1, <3>2
  <2>5. Sum(t.buffer, H) = Sum(s.buffer, H) - s.buffer[place] + v
    <3>1. Value \subseteq Int
      BY DEF Value
    <3>2. s.buffer \in [0 .. H - 1 -> Int] /\ v \in Int
      BY <1>1, <3>1
    <3> HIDE DEF place
    <3> DEFINE f == s.buffer
               g == t.buffer
    <3>3. f \in [0 .. H - 1 -> Int] /\ g = [f EXCEPT ![place] = v] /\ place \in 0 .. H - 1 /\ H \in Nat
      BY <1>1, <1>2, <1>4, <3>2
    <3> HIDE DEF f, g, p, n, H
    <3>4. Sum(g, H) = Sum(f, H) - f[place] + v
      BY <3>2, <3>3, SumChanges
    <3>5. QED
      BY <3>4 DEF f, g
  <2>6. /\ TotalOf(all, n) \in Int /\ TotalOf(all, n - H) \in Int
        /\ TotalOf(more, n + 1) = TotalOf(all, n) + v
        /\ TotalOf(more, (n - H) + 1) = TotalOf(all, n - H) + all[(n - H) + 1]
    BY <1>1, <2>4, TotalOfMore DEF more
  <2>7. all[(n - H) + 1] \in Int /\ v \in Int /\ (n + 1) - H = (n - H) + 1
    <3>1. (n - H) + 1 \in 1 .. n
      BY <1>1, <1>7
    <3>2. all[(n - H) + 1] \in Value
      BY <3>1
    <3>3. all[(n - H) + 1] \in Int /\ v \in Int
      BY <3>2, LengthIsOne
    <3>4. (n + 1) - H = (n - H) + 1
      BY <1>1
    <3>5. QED
      BY <3>3, <3>4
  <2>8. Sum(t.buffer, H) = TotalOf(more, n + 1) - TotalOf(more, (n + 1) - H)
    <3> DEFINE x == TotalOf(all, n)
               y == TotalOf(all, n - H)
               z == all[(n - H) + 1]
    <3>1. x \in Int /\ y \in Int /\ z \in Int /\ v \in Int
      BY <2>6, <2>7
    <3>2. Sum(t.buffer, H) = ((x - y) - z) + v
      BY <2>1, <2>4, <2>5
    <3>3. TotalOf(more, n + 1) = x + v /\ TotalOf(more, (n + 1) - H) = y + z
      BY <2>6, <2>7
    <3> HIDE DEF x, y, z
    <3>4. ((x - y) - z) + v = (x + v) - (y + z)
      BY <3>1
    <3>5. QED
      BY <3>2, <3>3, <3>4
  <2>9. Len(more) = n + 1 /\ ~(Len(more) <= H)
    BY <1>1, <1>3, <1>7
  <2> HIDE DEF place, p, n
  <2>10. LaterRound(t, more)
    BY <2>2, <2>3, <2>8, <2>9 DEF LaterRound
  <2>11. QED
    BY <1>4, <2>9, <2>10 DEF Keeps, t, more
<1>8. QED
  BY <1>1, <1>6, <1>7

\* The last values, as many as there are places.
LastOf(all) ==
  SubSeq(all, Max({1, Len(all) - HistoryLength + 1}), Len(all))

PlacesOf(all) == IF Len(all) <= HistoryLength THEN Len(all) ELSE HistoryLength

\* They are the end of the sequence.
LEMMA WindowIs ==
  ASSUME NEW all \in Seq(Value)
  PROVE  /\ LastOf(all) \in Seq(Value) /\ Len(LastOf(all)) = PlacesOf(all) /\ PlacesOf(all) \in Nat
         /\ PlacesOf(all) <= Len(all) /\ PlacesOf(all) <= HistoryLength
         /\ \A j \in 1 .. PlacesOf(all) : LastOf(all)[j] = all[Len(all) - PlacesOf(all) + j]
<1> DEFINE n == Len(all)
           m == Max({1, n - HistoryLength + 1})
           u == PlacesOf(all)
<1>1. n \in Nat /\ HistoryLength \in Nat
  BY LengthIsOne
<1>2. m = IF n <= HistoryLength THEN 1 ELSE n - HistoryLength + 1
  <2>1. n - HistoryLength + 1 \in Int
    BY <1>1
  <2>2. m = IF 1 >= n - HistoryLength + 1 THEN 1 ELSE n - HistoryLength + 1
    BY <2>1, OfTwo
  <2> HIDE DEF m
  <2>3. QED
    BY <1>1, <2>2
<1>3. u = IF n <= HistoryLength THEN n ELSE HistoryLength
  BY DEF PlacesOf
<1>4. LastOf(all) = SubSeq(all, m, n)
  BY DEF LastOf
<1> HIDE DEF m, u, n
<1>5. /\ u \in Nat /\ u <= n /\ u <= HistoryLength /\ m \in 1 .. n + 1 /\ m - 1 = n - u
      /\ n - m + 1 = u
  <2>1. CASE n <= HistoryLength
    BY <1>1, <1>2, <1>3, <2>1
  <2>2. CASE ~(n <= HistoryLength)
    BY <1>1, <1>2, <1>3, <2>2
  <2>3. QED
    BY <2>1, <2>2
<1>6. /\ SubSeq(all, m, n) \in Seq(Value)
      /\ Len(SubSeq(all, m, n)) = IF m <= n THEN n - m + 1 ELSE 0
      /\ \A j \in 1 .. n - m + 1 : SubSeq(all, m, n)[j] = all[m + j - 1]
  <2>1. m \in 1 .. Len(all) + 1 /\ n \in m - 1 .. Len(all)
    BY <1>1, <1>5 DEF n
  <2>2. QED
    BY <2>1, SubSeqProperties
<1>7. Len(SubSeq(all, m, n)) = u
  BY <1>1, <1>5, <1>6
<1>8. \A j \in 1 .. u : m + j - 1 = n - u + j
  BY <1>1, <1>5
<1>9. QED
  BY <1>4, <1>5, <1>6, <1>7, <1>8 DEF n, u

\* Mean and extremes of an array are those of the last values.
LEMMA ReadOf ==
  ASSUME NEW s \in ArrayState, NEW all \in Seq(Value), Keeps(s, all), Used(s) = PlacesOf(all)
  PROVE  LET w == LastOf(all) IN
           /\ Values(s) = ToSet(w)
           /\ GetMean(s) = Divided(Sum([i \in 0 .. Len(w) - 1 |-> w[i + 1]], Len(w)), Len(w))
<1> DEFINE n == Len(all)
           H == HistoryLength
           u == PlacesOf(all)
           w == LastOf(all)
           g == [i \in 0 .. u - 1 |-> w[i + 1]]
           f == [i \in 0 .. n - 1 |-> all[i + 1]]
           p == s.write_pointer
<1>1. /\ n \in Nat /\ H \in Nat /\ H >= 1 /\ u \in Nat /\ u <= n /\ u <= H /\ Len(w) = u
      /\ w \in Seq(Value)
      /\ \A j \in 1 .. u : w[j] = all[n - u + j]
      /\ u = IF n <= H THEN n ELSE H
  BY LengthIsOne, WindowIs DEF PlacesOf
<1>2. p \in 0 .. H
  BY DEF ArrayState
<1>3. \A i \in 0 .. n - 1 : f[i] = all[i + 1] /\ f[i] \in Int
  <2>1. \A i \in 0 .. n - 1 : i + 1 \in 1 .. Len(all)
    BY <1>1
  <2>2. \A i \in 0 .. n - 1 : all[i + 1] \in Value
    BY <2>1
  <2>3. \A i \in 0 .. n - 1 : f[i] = all[i + 1]
    OBVIOUS
  <2> HIDE DEF f, n
  <2>4. QED
    BY <2>2, <2>3, LengthIsOne
<1>4. \A i \in 0 .. u - 1 : g[i] = all[(n - u) + (i + 1)]
  <2>1. \A i \in 0 .. u - 1 : i + 1 \in 1 .. u /\ g[i] = w[i + 1]
    BY <1>1
  <2> HIDE DEF g, w, u, n
  <2>2. QED
    BY <1>1, <2>1
<1>5. ToSet(w) = {w[j] : j \in 1 .. u}
  <2>1. DOMAIN w = 1 .. u
    BY <1>1
  <2> HIDE DEF w, u
  <2>2. QED
    BY <2>1 DEF ToSet
<1>6. Values(s) = {s.buffer[i] : i \in 0 .. u - 1} /\ GetMean(s) = Divided(Sum(s.buffer, u), u)
  BY DEF Values, GetMean
<1>7. [i \in 0 .. Len(w) - 1 |-> w[i + 1]] = g
  BY <1>1
<1>8. \A j \in 1 .. u : w[j] = all[n - u + j]
  BY <1>1
<1>9. CASE n <= H
  <2>1. u = n /\ \A i \in 0 .. n - 1 : s.buffer[i] = all[i + 1]
    BY <1>1, <1>9 DEF Keeps, FirstRound
  <2> HIDE DEF u, w, g, n, f, H
  <2>2. \A i \in 0 .. u - 1 : (n - u) + (i + 1) = i + 1 /\ i + 1 \in 1 .. u
    <3>1. u = n /\ n \in Nat
      BY <1>1, <2>1
    <3>2. QED
      BY <3>1
  <2>3. \A i \in 0 .. u - 1 : s.buffer[i] = g[i]
    BY <1>4, <2>1, <2>2
  <2>4. Sum(s.buffer, u) = Sum(g, u)
    BY <1>1, <2>3, SumAgrees
  <2>5. \A j \in 1 .. u : j - 1 \in 0 .. u - 1 /\ (j - 1) + 1 = j /\ n - u + j = j
    BY <1>1, <2>1
  <2>6. \A j \in 1 .. u : w[j] = s.buffer[j - 1]
    <3>1. \A j \in 1 .. u : s.buffer[j - 1] = all[j]
      BY <2>1, <2>5
    <3>2. QED
      BY <1>8, <2>5, <3>1
  <2>7. \A i \in 0 .. u - 1 : s.buffer[i] = w[i + 1]
    BY <1>8, <2>1, <2>2
  <2>8. {s.buffer[i] : i \in 0 .. u - 1} = {w[j] : j \in 1 .. u}
    BY <2>2, <2>5, <2>6, <2>7
  <2>9. QED
    BY <1>1, <1>5, <1>6, <1>7, <2>4, <2>8 DEF w
<1>10. CASE ~(n <= H)
  <2>1. /\ p >= 1 /\ u = H
        /\ \A i \in 0 .. H - 1 : s.buffer[i] = IF i < p THEN all[n - p + i + 1] ELSE all[n - p + i + 1 - H]
        /\ Sum(s.buffer, H) = TotalOf(all, n) - TotalOf(all, n - H)
    BY <1>1, <1>10 DEF Keeps, LaterRound
  <2>2. TotalOf(all, n) = Sum(f, n) /\ TotalOf(all, n - H) = Sum(f, n - H)
    BY DEF TotalOf
  <2> HIDE DEF u, w, g, n, f, H, p
  <2>3. Sum(g, H) = Sum(f, (n - H) + H) - Sum(f, n - H)
    <3>1. n - H \in Nat /\ (n - H) + H = n
      BY <1>1, <1>10
    <3>2. \A i \in 0 .. H - 1 : (n - H) + (i + 1) = ((n - H) + i) + 1 /\ (n - H) + i \in 0 .. n - 1
      BY <1>1, <1>10
    <3>3. \A i \in 0 .. H - 1 : g[i] = f[(n - H) + i]
      BY <1>3, <1>4, <2>1, <3>2
    <3> DEFINE a == n - H
    <3>4. a \in Nat /\ H \in Nat /\ \A i \in 0 .. H - 1 : g[i] = f[a + i]
      BY <1>1, <3>1, <3>3
    <3>5. \A i \in 0 .. a + H - 1 : f[i] \in Int
      BY <1>1, <1>3, <3>1
    <3> HIDE DEF a
    <3>6. Sum(g, H) = Sum(f, a + H) - Sum(f, a)
      BY <3>4, <3>5, SumFrom
    <3>7. QED
      BY <3>6 DEF a
  <2>4. Sum(s.buffer, u) = Sum(g, u)
    <3>1. (n - H) + H = n
      BY <1>1
    <3>2. QED
      BY <2>1, <2>2, <2>3, <3>1
  <2>5. ASSUME NEW i \in 0 .. u - 1 PROVE \E j \in 1 .. u : s.buffer[i] = w[j]
    <3>1. CASE i < p
      <4>1. (H - p + i + 1) \in 1 .. u /\ n - u + (H - p + i + 1) = n - p + i + 1 /\ i \in 0 .. H - 1
        BY <1>1, <1>2, <2>1, <3>1
      <4>2. s.buffer[i] = all[n - p + i + 1]
        BY <2>1, <3>1, <4>1
      <4>3. w[H - p + i + 1] = all[n - u + (H - p + i + 1)]
        BY <1>8, <4>1
      <4>4. s.buffer[i] = w[H - p + i + 1]
        BY <4>1, <4>2, <4>3
      <4>5. QED
        BY <4>1, <4>4
    <3>2. CASE ~(i < p)
      <4>1. (i + 1 - p) \in 1 .. u /\ n - u + (i + 1 - p) = n - p + i + 1 - H /\ i \in 0 .. H - 1
        BY <1>1, <1>2, <2>1, <3>2
      <4>2. s.buffer[i] = all[n - p + i + 1 - H]
        BY <2>1, <3>2, <4>1
      <4>3. w[i + 1 - p] = all[n - u + (i + 1 - p)]
        BY <1>8, <4>1
      <4>4. s.buffer[i] = w[i + 1 - p]
        BY <4>1, <4>2, <4>3
      <4>5. QED
        BY <4>1, <4>4
    <3>3. QED
      BY <3>1, <3>2
  <2>6. ASSUME NEW j \in 1 .. u PROVE \E i \in 0 .. u - 1 : w[j] = s.buffer[i]
    <3>1. CASE j > H - p
      <4> DEFINE i == j - 1 + p - H
      <4>1. i \in 0 .. u - 1 /\ i < p /\ n - p + i + 1 = n - u + j /\ i \in 0 .. H - 1
        BY <1>1, <1>2, <2>1, <3>1
      <4> HIDE DEF i
      <4>2. s.buffer[i] = all[n - p + i + 1]
        BY <2>1, <4>1
      <4>3. QED
        BY <1>8, <4>1, <4>2
    <3>2. CASE ~(j > H - p)
      <4> DEFINE i == j + p - 1
      <4>1. i \in 0 .. u - 1 /\ ~(i < p) /\ n - p + i + 1 - H = n - u + j /\ i \in 0 .. H - 1
        BY <1>1, <1>2, <2>1, <3>2
      <4> HIDE DEF i
      <4>2. s.buffer[i] = all[n - p + i + 1 - H]
        BY <2>1, <4>1
      <4>3. QED
        BY <1>8, <4>1, <4>2
    <3>3. QED
      BY <3>1, <3>2
  <2>7. {s.buffer[i] : i \in 0 .. u - 1} = {w[j] : j \in 1 .. u}
    <3>1. {s.buffer[i] : i \in 0 .. u - 1} \subseteq {w[j] : j \in 1 .. u}
      BY <2>5
    <3>2. {w[j] : j \in 1 .. u} \subseteq {s.buffer[i] : i \in 0 .. u - 1}
      BY <2>6
    <3>3. QED
      BY <3>1, <3>2
  <2>8. QED
    BY <1>1, <1>5, <1>6, <1>7, <2>4, <2>7 DEF w
<1>11. QED
  BY <1>9, <1>10

-----------------------------------------------------------------------------
(* The sensors. *)
ReadingState == [actual : Value, maximal : Value, mean : Int, minimal : Value]

SenseTypeOK ==
  /\ storage \in [Quantity -> ArrayState]
  /\ reading \in [Quantity -> ReadingState]
  /\ calibration \in [max : Nat, min : Nat, slope : Nat \ {0}]
  /\ calibration.max >= 26403 /\ calibration.min <= 213
  /\ sensed \in [ sensor : {"light", "climate"}, added : [Quantity -> Seq(Value)],
                  just : BOOLEAN, since : Int, rested : BOOLEAN, readings : Nat ]

\* The slope keeps up with the extremes of the resistor.
SlopeFollows == calibration.max - calibration.min < 101 * calibration.slope

ArrayHolds(q) ==
  /\ Keeps(storage[q], sensed.added[q])
  /\ storage[q].array_not_full <=> (q # "light" /\ Len(sensed.added[q]) <= HistoryLength)

\* What is told of an array is read from it when something is added to it.
ToldOf(q) ==
  Len(sensed.added[q]) > 0 =>
    /\ reading[q].mean = GetMean(storage[q])
    /\ sensed.just => /\ reading[q].minimal = GetMin(storage[q])
                      /\ reading[q].maximal = GetMax(storage[q])

OneSensor ==
  \A q \in Quantity :
    Len(sensed.added[q]) > 0 => (q = "light" <=> sensed.sensor = "light")

Encloses(r) == r.minimal <= r.actual /\ r.actual <= r.maximal

InRange ==
  /\ reading["light"].actual \in 0 .. 100
  /\ sensed.readings > 0 =>
       Encloses(reading[IF sensed.sensor = "light" THEN "light" ELSE "temperature"])

SenseInv ==
  /\ SenseTypeOK /\ SlopeFollows /\ OneSensor /\ InRange
  /\ \A q \in Quantity : ArrayHolds(q) /\ ToldOf(q)

\* What is read of an array to which a value was just added.
LEMMA AddShows ==
  ASSUME NEW s \in ArrayState, NEW v \in Value
  PROVE  LET t == AddValue(s, v) IN
           /\ GetMin(t) <= v /\ v <= GetMax(t)
           /\ GetMin(t) \in Value /\ GetMax(t) \in Value /\ GetMean(t) \in Int
           /\ t.array_not_full <=> (s.array_not_full /\ s.write_pointer # HistoryLength)
<1> DEFINE H == HistoryLength
           p == s.write_pointer
           place == IF p = H THEN 0 ELSE p
           b == [s.buffer EXCEPT ![place] = v]
           full == s.array_not_full /\ ~(p = H)
           t == AddValue(s, v)
           u == Used(t)
<1>1. /\ H \in Nat /\ H >= 1 /\ p \in 0 .. H /\ s.buffer \in [0 .. H - 1 -> Value]
      /\ s.array_not_full \in BOOLEAN /\ full \in BOOLEAN
  BY LengthIsOne DEF ArrayState
<1>2. place \in 0 .. H - 1
  BY <1>1
<1>3. t.buffer = b /\ t.write_pointer = place + 1 /\ t.array_not_full = full
  <2>1. t = [s EXCEPT !.buffer[place] = v, !.write_pointer = place + 1, !.array_not_full = full]
    BY DEF AddValue
  <2>2. s = [buffer |-> s.buffer, write_pointer |-> p, array_not_full |-> s.array_not_full]
    BY DEF ArrayState
  <2> HIDE DEF full, t, place
  <2>3. QED
    BY <2>1, <2>2
<1>4. u = IF full THEN place + 1 ELSE H
  BY <1>3 DEF Used
<1>5. Values(t) = {b[i] : i \in 0 .. u - 1}
  BY <1>3 DEF Values
<1>6. /\ u \in 1 .. H /\ place \in 0 .. u - 1
  <2> HIDE DEF place, full
  <2>1. QED
    BY <1>1, <1>2, <1>4
<1>7. b \in [0 .. H - 1 -> Value] /\ b[place] = v
  BY <1>1, <1>2
<1> HIDE DEF b, place, u
<1>8. v \in Values(t)
  BY <1>5, <1>6, <1>7
<1>9. Values(t) \subseteq Value
  <2>1. \A i \in 0 .. u - 1 : b[i] \in Value
    <3>1. \A i \in 0 .. u - 1 : i \in 0 .. H - 1
      BY <1>1, <1>6
    <3>2. QED
      BY <1>7, <3>1
  <2>2. QED
    BY <1>5, <2>1
<1>10. {0} \cup Values(t) \subseteq Value /\ v \in {0} \cup Values(t)
  <2>1. 0 \in Value
    BY DEF Value
  <2>2. QED
    BY <1>8, <1>9, <2>1
<1>11. GetMean(t) \in Int
  <2> DEFINE x == Sum(b, u)
  <2>1. x \in Int
    <3>1. \A i \in 0 .. u - 1 : b[i] \in Int
      <4>1. \A i \in 0 .. u - 1 : i \in 0 .. H - 1
        BY <1>1, <1>6
      <4>2. QED
        BY <1>7, <4>1, LengthIsOne
    <3>2. u \in Nat
      BY <1>1, <1>6
    <3>3. QED
      BY <3>1, <3>2, SumIsInt
  <2>2. GetMean(t) = Divided(x, u)
    BY <1>3 DEF GetMean, u
  <2> HIDE DEF x
  <2>3. u \in Nat /\ u # 0
    BY <1>1, <1>6
  <2>4. CASE x < 0
    <3>1. (-x) \in Nat
      BY <2>1, <2>4
    <3>2. (-x) \div u \in Int
      BY <2>3, <3>1
    <3>3. Divided(x, u) = -((-x) \div u)
      BY <2>3, <2>4 DEF Divided
    <3>4. QED
      BY <2>2, <3>2, <3>3
  <2>5. CASE ~(x < 0)
    <3>1. x \div u \in Int
      BY <2>1, <2>3
    <3>2. QED
      BY <2>2, <2>3, <2>5, <3>1 DEF Divided
  <2>6. QED
    BY <2>4, <2>5
<1>12. GetMin(t) \in Value /\ GetMin(t) <= v
  BY <1>8, <1>9, ExtremesOf DEF GetMin
<1>13. GetMax(t) \in Value /\ v <= GetMax(t)
  BY <1>10, ExtremesOf DEF GetMax
<1>14. full <=> (s.array_not_full /\ s.write_pointer # HistoryLength)
  OBVIOUS
<1>15. QED
  BY <1>3, <1>11, <1>12, <1>13, <1>14

\* Extremes that are widened are those of what was read, too.
LEMMA WidenedIs ==
  ASSUME NEW r \in ReadingState, NEW v \in Value
  PROVE  /\ Widened(r, v) \in ReadingState /\ Widened(r, v).mean = r.mean
         /\ Widened(r, v).actual = v /\ Encloses(Widened(r, v))
<1> DEFINE hi == Max({r.maximal, v})
           lo == Min({r.minimal, v})
           w == Widened(r, v)
<1>1. r.maximal \in Value /\ r.minimal \in Value /\ r.mean \in Int
  BY DEF ReadingState
<1>2. r.maximal \in Int /\ r.minimal \in Int /\ v \in Int
  BY <1>1, LengthIsOne
<1>3. /\ hi = (IF r.maximal >= v THEN r.maximal ELSE v)
      /\ lo = (IF r.minimal <= v THEN r.minimal ELSE v)
  BY <1>2, OfTwo
<1>4. w = [actual |-> v, maximal |-> hi, mean |-> r.mean, minimal |-> lo]
  <2>1. r = [actual |-> r.actual, maximal |-> r.maximal, mean |-> r.mean, minimal |-> r.minimal]
    BY DEF ReadingState
  <2>2. w = [r EXCEPT !.actual = v, !.maximal = hi, !.minimal = lo]
    BY DEF Widened
  <2> HIDE DEF hi, lo, w
  <2>3. QED
    BY <2>1, <2>2
<1> HIDE DEF hi, lo, w
<1>5. hi \in Value /\ lo \in Value /\ lo <= v /\ v <= hi
  BY <1>1, <1>2, <1>3
<1>6. w \in ReadingState
  BY <1>1, <1>4, <1>5 DEF ReadingState
<1>7. w.mean = r.mean /\ w.actual = v /\ w.minimal <= w.actual /\ w.actual <= w.maximal
  BY <1>4, <1>5
<1>8. QED
  BY <1>6, <1>7 DEF w, Encloses

\* Those of the humidity stay what a byte can hold.
LEMMA HumidityIs ==
  ASSUME NEW r \in ReadingState, NEW v \in Value, NEW temperature \in Int
  PROVE  /\ HumidityWidened(r, v, temperature) \in ReadingState
         /\ HumidityWidened(r, v, temperature).mean = r.mean
<1> DEFINE hi == IF v > r.maximal THEN temperature % 256 ELSE r.maximal
           lo == Min({r.minimal, v})
           w == HumidityWidened(r, v, temperature)
<1>1. r.maximal \in Value /\ r.minimal \in Value /\ r.mean \in Int
  BY DEF ReadingState
<1>2. r.minimal \in Int /\ v \in Int
  BY <1>1, LengthIsOne
<1>3. lo = (IF r.minimal <= v THEN r.minimal ELSE v)
  BY <1>2, OfTwo
<1>4. w = [actual |-> v, maximal |-> hi, mean |-> r.mean, minimal |-> lo]
  <2>1. r = [actual |-> r.actual, maximal |-> r.maximal, mean |-> r.mean, minimal |-> r.minimal]
    BY DEF ReadingState
  <2>2. w = [r EXCEPT !.actual = v, !.minimal = lo, !.maximal = hi]
    BY DEF HumidityWidened
  <2> HIDE DEF hi, lo, w
  <2>3. QED
    BY <2>1, <2>2
<1>5. hi \in Value
  <2>1. temperature % 256 \in Value
    BY DEF Value
  <2>2. QED
    BY <1>1, <2>1
<1> HIDE DEF hi, lo, w
<1>6. lo \in Value
  BY <1>1, <1>3
<1>7. w \in ReadingState /\ w.mean = r.mean
  BY <1>1, <1>4, <1>5, <1>6 DEF ReadingState
<1>8. QED
  BY <1>7 DEF w

\* A byte with a sign, and a share of a hundred, are values.
LEMMA ByteIs ==
  ASSUME NEW x \in Int
  PROVE  I8(x) \in Int /\ -128 <= I8(x) /\ I8(x) <= 127
BY DEF I8

\* So is what the climate sensor answers.
LEMMA BytesAre ==
  ASSUME NEW word \in Nat, word < 65536
  PROVE  Celsius(word) \in Value /\ Celsius(word) \in Int /\ Percent(word) \in Value
<1> DEFINE warm == (word * 175) \div 65536 - 45
           less == I8(warm) - 4
<1>2. warm \in Int
  OBVIOUS
<1>3. Celsius(word) = I8(less)
  BY DEF Celsius
<1> HIDE DEF warm
<1>4. I8(warm) \in Int
  BY <1>2, ByteIs
<1>5. less \in Int
  BY <1>4
<1> HIDE DEF less
<1>6. Celsius(word) \in Int /\ -128 <= Celsius(word) /\ Celsius(word) <= 127
  BY <1>3, <1>5, ByteIs
<1>7. Percent(word) \in 0 .. 100
  BY DEF Percent
<1>8. QED
  BY <1>6, <1>7 DEF Value

\* A new light keeps the slope and lies between the extremes of the resistor.
LEMMA StretchedIs ==
  ASSUME SenseTypeOK, SlopeFollows, NEW adc \in Nat
  PROVE  LET c == Stretched(calibration, adc) IN
           /\ c \in [max : Nat, min : Nat, slope : Nat \ {0}]
           /\ c.max >= 26403 /\ c.min <= 213 /\ c.min <= adc /\ adc <= c.max
           /\ c.max - c.min < 101 * c.slope
<1> DEFINE Cal == [max : Nat, min : Nat, slope : Nat \ {0}]
           Good(c) == c \in Cal /\ c.max >= 26403 /\ c.min <= 213 /\ c.max - c.min < 101 * c.slope
<1>1. Good(calibration)
  BY DEF SenseTypeOK, SlopeFollows
<1>2. ASSUME NEW c \in Cal, c.max >= 26403, c.min <= 213
      PROVE  /\ Good(Calibrated(c)) /\ Calibrated(c).max = c.max /\ Calibrated(c).min = c.min
  <2> DEFINE d == Divided(c.max - c.min, 100)
  <2>1. /\ c.max \in Nat /\ c.min \in Nat
        /\ c = [max |-> c.max, min |-> c.min, slope |-> c.slope]
    OBVIOUS
  <2>2. d \in Nat \ {0} /\ c.max - c.min < 101 * d
    <3>1. d = (c.max - c.min) \div 100
      BY <1>2, <2>1 DEF Divided
    <3>2. c.max - c.min >= 26190 /\ c.max - c.min \in Nat
      BY <1>2, <2>1
    <3> HIDE DEF d
    <3>3. QED
      BY <3>1, <3>2
  <2>3. Calibrated(c) = [c EXCEPT !.slope = d]
    BY DEF Calibrated
  <2> HIDE DEF d
  <2>4. Calibrated(c) = [max |-> c.max, min |-> c.min, slope |-> d]
    BY <2>1, <2>3
  <2>5. QED
    BY <1>2, <2>1, <2>2, <2>4
<1> DEFINE c0 == calibration
           c1 == [c0 EXCEPT !.max = adc]
           up == IF adc > c0.max THEN Calibrated(c1) ELSE c0
           c2 == [up EXCEPT !.min = adc]
           c == IF adc < up.min THEN Calibrated(c2) ELSE up
<1>3. Good(up) /\ adc <= up.max
  <2>1. CASE adc > c0.max
    <3>1. c1 \in Cal /\ c1.max = adc /\ c1.min = c0.min
      BY <1>1
    <3>2. c1.max >= 26403 /\ c1.min <= 213
      BY <1>1, <2>1, <3>1
    <3> HIDE DEF c1, Good
    <3>3. Good(Calibrated(c1)) /\ Calibrated(c1).max = adc
      BY <1>2, <3>1, <3>2
    <3>4. adc <= adc
      OBVIOUS
    <3>5. QED
      BY <2>1, <3>3, <3>4
  <2>2. CASE ~(adc > c0.max)
    <3>1. up = c0
      BY <2>2
    <3>2. adc <= c0.max
      BY <1>1, <2>2
    <3> HIDE DEF up, Good
    <3>3. QED
      BY <1>1, <3>1, <3>2
  <2>3. QED
    BY <2>1, <2>2
<1> HIDE DEF up
<1>4. Good(c) /\ adc <= c.max /\ c.min <= adc
  <2>1. CASE adc < up.min
    <3>1. c2 \in Cal /\ c2.min = adc /\ c2.max = up.max
      BY <1>3
    <3>2. c2.max >= 26403 /\ c2.min <= 213
      BY <1>3, <2>1, <3>1
    <3> HIDE DEF c2, Good
    <3>3. Good(Calibrated(c2)) /\ Calibrated(c2).max = up.max /\ Calibrated(c2).min = adc
      BY <1>2, <3>1, <3>2
    <3>4. adc <= adc
      OBVIOUS
    <3>5. QED
      BY <1>3, <2>1, <3>3, <3>4
  <2>2. CASE ~(adc < up.min)
    <3>1. c = up
      BY <2>2
    <3>2. up.min <= adc
      BY <1>3, <2>2
    <3> HIDE DEF c, Good
    <3>3. QED
      BY <1>3, <3>1, <3>2
  <2>3. QED
    BY <2>1, <2>2
<1>5. c = Stretched(calibration, adc)
  BY DEF Stretched, up
<1> HIDE DEF c
<1>6. QED
  BY <1>4, <1>5

\* The arrays, and what is told of them, are in order.
ArraysInOrder == OneSensor /\ \A q \in Quantity : ArrayHolds(q) /\ ToldOf(q)

\* Readings r of the quantities Q of this sensor, that keep their means,
Readable(Q, r) ==
  /\ Q \subseteq Quantity /\ r \in [Q -> ReadingState]
  /\ \A q \in Q : r[q].mean = reading[q].mean /\ (q = "light" <=> sensed.sensor = "light")
  /\ \A q \in Quantity \ Q : q = "light" <=> sensed.sensor # "light"

\* and what is then noted of them.
Followed(Q, r) ==
  /\ storage' \in [Quantity -> ArrayState] /\ reading' \in [Quantity -> ReadingState]
  /\ sensed' \in [ sensor : {"light", "climate"}, added : [Quantity -> Seq(Value)],
                   just : BOOLEAN, since : Int, rested : BOOLEAN, readings : Nat ]
  /\ ArraysInOrder' /\ sensed'.sensor = sensed.sensor
  /\ \A q \in Q : /\ reading'[q].actual = r[q].actual
                  /\ Encloses(r[q]) => Encloses(reading'[q])
  /\ \A q \in Quantity \ Q : reading'[q] = reading[q]

\* Noting leaves the arrays and what is told of them in order, added or not.
LEMMA NotedKeeps ==
  ASSUME SenseTypeOK, ArraysInOrder, NEW Q, NEW r, NEW adds \in BOOLEAN,
         Readable(Q, r), Noted(r, adds)
  PROVE  Followed(Q, r)
<1>0. /\ Q \subseteq Quantity /\ r \in [Q -> ReadingState]
      /\ \A q \in Q : r[q].mean = reading[q].mean /\ (q = "light" <=> sensed.sensor = "light")
      /\ \A q \in Quantity \ Q : q = "light" <=> sensed.sensor # "light"
  BY DEF Readable
<1> DEFINE next == [q \in Quantity |->
                      IF q \in DOMAIN r /\ adds THEN AddValue(storage[q], r[q].actual) ELSE storage[q]]
           more == [q \in Quantity |->
                      IF q \in DOMAIN r /\ adds THEN Append(sensed.added[q], r[q].actual)
                      ELSE sensed.added[q]]
           told == [q \in Quantity |->
                      IF q \notin DOMAIN r THEN reading[q]
                      ELSE IF adds THEN Shown(r[q], next[q]) ELSE r[q]]
           since == IF adds THEN 0 ELSE sensed.since
           number == sensed.readings + 1
<1>1. /\ DOMAIN r = Q /\ \A q \in Q : r[q] \in ReadingState /\ r[q].actual \in Value
      /\ \A q \in Quantity : storage[q] \in ArrayState /\ reading[q] \in ReadingState
                             /\ sensed.added[q] \in Seq(Value)
  BY <1>0 DEF SenseTypeOK, ReadingState
<1>2. storage' = next /\ reading' = told
  BY DEF Noted
<1>3. sensed' = [sensed EXCEPT !.readings = number, !.rested = FALSE, !.just = adds,
                               !.since = since, !.added = more]
  BY DEF Noted
<1>4. \A q \in Quantity :
        /\ next[q] = IF q \in Q /\ adds THEN AddValue(storage[q], r[q].actual) ELSE storage[q]
        /\ more[q] = IF q \in Q /\ adds THEN Append(sensed.added[q], r[q].actual) ELSE sensed.added[q]
        /\ told[q] = IF q \notin Q THEN reading[q]
                     ELSE IF adds THEN Shown(r[q], next[q]) ELSE r[q]
  BY <1>1
<1>5. /\ since \in Int /\ number \in Nat
  BY DEF SenseTypeOK
<1>6. next = [q \in Quantity |-> next[q]] /\ more = [q \in Quantity |-> more[q]]
      /\ told = [q \in Quantity |-> told[q]]
  OBVIOUS
<1> HIDE DEF next, more, told, since, number
<1>7. /\ sensed'.added = more /\ sensed'.just = adds /\ sensed'.sensor = sensed.sensor
      /\ sensed' = [ sensor |-> sensed.sensor, added |-> more, just |-> adds, since |-> since,
                     rested |-> FALSE, readings |-> number ]
  <2>1. sensed = [ sensor |-> sensed.sensor, added |-> sensed.added, just |-> sensed.just,
                   since |-> sensed.since, rested |-> sensed.rested, readings |-> sensed.readings ]
    BY DEF SenseTypeOK
  <2>2. QED
    BY <1>3, <2>1
<1>8. ASSUME NEW q \in Quantity
      PROVE  next[q] \in ArrayState /\ more[q] \in Seq(Value) /\ Keeps(next[q], more[q])
             /\ (next[q].array_not_full <=> (q # "light" /\ Len(more[q]) <= HistoryLength))
  <2>1. /\ storage[q] \in ArrayState /\ sensed.added[q] \in Seq(Value)
        /\ Keeps(storage[q], sensed.added[q])
        /\ storage[q].array_not_full <=> (q # "light" /\ Len(sensed.added[q]) <= HistoryLength)
    BY <1>1 DEF ArraysInOrder, ArrayHolds
  <2>2. CASE ~(q \in Q /\ adds)
    <3>1. next[q] = storage[q] /\ more[q] = sensed.added[q]
      BY <1>4, <2>2
    <3>2. QED
      BY <2>1, <3>1
  <2>3. CASE q \in Q /\ adds
    <3> DEFINE s == storage[q]
               all == sensed.added[q]
               v == r[q].actual
    <3>1. next[q] = AddValue(s, v) /\ more[q] = Append(all, v) /\ v \in Value
          /\ s \in ArrayState /\ all \in Seq(Value) /\ Keeps(s, all)
      BY <1>1, <1>4, <2>1, <2>3
    <3>2. /\ Len(Append(all, v)) = Len(all) + 1 /\ Len(all) \in Nat /\ Append(all, v) \in Seq(Value)
      BY <3>1, AppendProperties
    <3> HIDE DEF s, all, v
    <3>3. AddValue(s, v) \in ArrayState /\ Keeps(AddValue(s, v), Append(all, v))
      BY <3>1, AddHolds
    <3>4. AddValue(s, v).array_not_full <=> (s.array_not_full /\ s.write_pointer # HistoryLength)
      BY <3>1, AddShows
    <3>5. s.array_not_full <=> (q # "light" /\ Len(all) <= HistoryLength)
      BY <2>1 DEF s, all
    <3>6. ASSUME Len(all) <= HistoryLength PROVE s.write_pointer = Len(all)
      BY <3>1, <3>6 DEF Keeps, FirstRound
    <3>7. HistoryLength \in Nat
      BY LengthIsOne
    <3>8. (Len(all) <= HistoryLength /\ s.write_pointer # HistoryLength)
            <=> Len(all) + 1 <= HistoryLength
      BY <3>2, <3>6, <3>7
    <3>9. QED
      BY <3>1, <3>2, <3>3, <3>4, <3>5, <3>8
  <2>4. QED
    BY <2>2, <2>3
<1>9. ASSUME NEW q \in Q, adds
      PROVE  /\ told[q] \in ReadingState /\ told[q].actual = r[q].actual /\ Encloses(told[q])
             /\ told[q].mean = GetMean(next[q]) /\ told[q].minimal = GetMin(next[q])
             /\ told[q].maximal = GetMax(next[q])
  <2> DEFINE s == storage[q]
             v == r[q].actual
             t == next[q]
             hi == GetMax(t)
             lo == GetMin(t)
             avg == GetMean(t)
  <2>1. t = AddValue(s, v) /\ v \in Value /\ s \in ArrayState /\ r[q] \in ReadingState
        /\ told[q] = Shown(r[q], t)
    BY <1>0, <1>1, <1>4, <1>9
  <2>2. told[q] = [r[q] EXCEPT !.maximal = hi, !.minimal = lo, !.mean = avg]
    BY <2>1 DEF Shown
  <2> HIDE DEF s, t
  <2>3. lo <= v /\ v <= hi /\ lo \in Value /\ hi \in Value /\ avg \in Int
    <3> HIDE DEF v
    <3>1. QED
      BY <2>1, AddShows
  <2> HIDE DEF hi, lo, avg
  <2>4. r[q] = [actual |-> v, maximal |-> r[q].maximal, mean |-> r[q].mean, minimal |-> r[q].minimal]
    BY <2>1 DEF ReadingState
  <2> HIDE DEF v
  <2>5. told[q] = [actual |-> v, maximal |-> hi, mean |-> avg, minimal |-> lo]
    <3> DEFINE old == r[q]
               new == told[q]
               a == old.maximal
               b == old.mean
               c == old.minimal
    <3>1. new = [old EXCEPT !.maximal = hi, !.minimal = lo, !.mean = avg]
      BY <2>2
    <3>2. old = [actual |-> v, maximal |-> a, mean |-> b, minimal |-> c]
      BY <2>4
    <3> HIDE DEF a, b, c
    <3> HIDE DEF old, new
    <3>3. new = [actual |-> v, maximal |-> hi, mean |-> avg, minimal |-> lo]
      BY <3>1, <3>2
    <3>4. QED
      BY <3>3 DEF new
  <2>6. told[q] \in ReadingState
    BY <2>1, <2>3, <2>5 DEF ReadingState
  <2>7. /\ told[q].actual = v /\ told[q].mean = avg /\ told[q].minimal = lo /\ told[q].maximal = hi
    BY <2>5
  <2>8. Encloses(told[q])
    BY <2>3, <2>7 DEF Encloses
  <2>9. QED
    BY <2>6, <2>7, <2>8 DEF v, hi, lo, avg, t
<1>10. ASSUME NEW q \in Quantity
       PROVE  /\ told[q] \in ReadingState
              /\ Len(more[q]) > 0 =>
                   /\ told[q].mean = GetMean(next[q])
                   /\ adds => told[q].minimal = GetMin(next[q]) /\ told[q].maximal = GetMax(next[q])
  <2>1. CASE q \in Q /\ adds
    BY <1>9, <2>1
  <2>2. CASE q \in Q /\ ~adds
    <3>1. told[q] = r[q] /\ next[q] = storage[q] /\ more[q] = sensed.added[q]
      BY <1>4, <2>2
    <3>2. Len(sensed.added[q]) > 0 => reading[q].mean = GetMean(storage[q])
      BY DEF ArraysInOrder, ToldOf
    <3>3. r[q].mean = reading[q].mean
      BY <1>0, <2>2
    <3>4. QED
      BY <1>1, <2>2, <3>1, <3>2, <3>3
  <2>3. CASE q \notin Q
    <3>1. told[q] = reading[q] /\ more[q] = sensed.added[q]
      BY <1>4, <2>3
    <3>2. ~(Len(sensed.added[q]) > 0)
      BY <1>0, <2>3 DEF ArraysInOrder, OneSensor
    <3>3. QED
      BY <1>1, <3>1, <3>2
  <2>4. QED
    BY <2>1, <2>2, <2>3
<1>11. ASSUME NEW q \in Quantity, Len(more[q]) > 0
       PROVE  q = "light" <=> sensed.sensor = "light"
  <2>1. CASE q \in Q
    BY <1>0, <2>1
  <2>2. CASE q \notin Q
    <3>1. more[q] = sensed.added[q]
      BY <1>4, <2>2
    <3>2. QED
      BY <1>11, <3>1 DEF ArraysInOrder, OneSensor
  <2>3. QED
    BY <2>1, <2>2
<1>12. ArraysInOrder'
  <2>1. OneSensor'
    BY <1>7, <1>11 DEF OneSensor
  <2>2. ASSUME NEW q \in Quantity PROVE ArrayHolds(q)'
    BY <1>2, <1>7, <1>8 DEF ArrayHolds
  <2>3. ASSUME NEW q \in Quantity PROVE ToldOf(q)'
    BY <1>2, <1>7, <1>10 DEF ToldOf
  <2>4. QED
    BY <2>1, <2>2, <2>3 DEF ArraysInOrder
<1>13. /\ storage' \in [Quantity -> ArrayState] /\ reading' \in [Quantity -> ReadingState]
  <2>1. next \in [Quantity -> ArrayState]
    BY <1>6, <1>8
  <2>2. told \in [Quantity -> ReadingState]
    BY <1>6, <1>10
  <2>3. QED
    BY <1>2, <2>1, <2>2
<1>14. sensed' \in [ sensor : {"light", "climate"}, added : [Quantity -> Seq(Value)],
                     just : BOOLEAN, since : Int, rested : BOOLEAN, readings : Nat ]
  <2>1. more \in [Quantity -> Seq(Value)]
    BY <1>6, <1>8
  <2>2. sensed.sensor \in {"light", "climate"}
    BY DEF SenseTypeOK
  <2>3. QED
    BY <1>5, <1>7, <2>1, <2>2
<1>15. ASSUME NEW q \in Q
       PROVE  reading'[q].actual = r[q].actual /\ (Encloses(r[q]) => Encloses(reading'[q]))
  <2>1. CASE adds
    BY <1>2, <1>9, <2>1
  <2>2. CASE ~adds
    BY <1>0, <1>2, <1>4, <2>2
  <2>3. QED
    BY <2>1, <2>2
<1>16. \A q \in Quantity \ Q : reading'[q] = reading[q]
  BY <1>2, <1>4
<1>17. QED
  BY <1>7, <1>12, <1>13, <1>14, <1>15, <1>16 DEF Followed

\* The light: the share is one of a hundred because the slope follows.
LEMMA LightKeeps ==
  ASSUME SenseInv, NEW adc \in AdcReading, NewLight(adc)
  PROVE  SenseInv'
<1> DEFINE c == Stretched(calibration, adc)
           timer == IF maxmin.active THEN maxmin ELSE StartedAgain
           value == Divided(c.max - adc, c.slope) % 256
           seen == Widened(reading.light, value)
           r == [q \in {"light"} |-> seen]
           adds == IsUp(timer)
<1>1. /\ sensed.sensor = "light" /\ calibration' = c /\ Noted(r, adds)
  BY DEF NewLight, MayRead
<1>2. /\ c \in [max : Nat, min : Nat, slope : Nat \ {0}]
      /\ c.max >= 26403 /\ c.min <= 213 /\ c.min <= adc /\ adc <= c.max
      /\ c.max - c.min < 101 * c.slope /\ adc \in Nat
  <2>1. adc \in Nat
    BY SensorAssumption
  <2> HIDE DEF c
  <2>2. QED
    BY <2>1, StretchedIs DEF SenseInv, c
<1> HIDE DEF c
<1>3. value \in 0 .. 100
  <2> DEFINE x == c.max - adc
             s == c.slope
             share == Divided(x, s)
  <2>1. x \in Nat /\ s \in Nat /\ s # 0 /\ x < 101 * s
    BY <1>2
  <2> HIDE DEF x, s
  <2>2. share \in 0 .. 100
    BY <2>1, ShareOf
  <2>3. value = share % 256
    BY DEF x, s
  <2> HIDE DEF share, value
  <2>4. share % 256 = share
    BY <2>2
  <2>5. QED
    BY <2>2, <2>3, <2>4
<1> HIDE DEF value
<1>4. value \in Value /\ reading["light"] \in ReadingState /\ "light" \in Quantity
  BY <1>3 DEF SenseInv, SenseTypeOK, Quantity, Value
<1>5. seen \in ReadingState /\ seen.mean = reading["light"].mean /\ seen.actual = value /\ Encloses(seen)
  BY <1>4, WidenedIs
<1>6. adds \in BOOLEAN
  BY DEF IsUp
<1> HIDE DEF seen, adds
<1>7. r \in [{"light"} -> ReadingState] /\ r["light"] = seen
  BY <1>5
<1> HIDE DEF r
<1>8. SenseTypeOK /\ ArraysInOrder /\ Readable({"light"}, r)
  <2>1. SenseTypeOK /\ ArraysInOrder
    BY DEF SenseInv, ArraysInOrder
  <2>2. Readable({"light"}, r)
    BY <1>1, <1>4, <1>5, <1>7 DEF Readable
  <2>3. QED
    BY <2>1, <2>2
<1>9. /\ storage' \in [Quantity -> ArrayState] /\ reading' \in [Quantity -> ReadingState]
      /\ sensed' \in [ sensor : {"light", "climate"}, added : [Quantity -> Seq(Value)],
                       just : BOOLEAN, since : Int, rested : BOOLEAN, readings : Nat ]
      /\ ArraysInOrder' /\ sensed'.sensor = sensed.sensor
      /\ \A q \in {"light"} : /\ reading'[q].actual = r[q].actual
                              /\ Encloses(r[q]) => Encloses(reading'[q])
  <2>1. Followed({"light"}, r)
    BY <1>1, <1>6, <1>8, NotedKeeps
  <2>2. QED
    BY <2>1 DEF Followed
<1>10. SenseTypeOK' /\ SlopeFollows'
  <2>1. calibration' = c
    BY <1>1
  <2>2. QED
    BY <1>2, <1>9, <2>1 DEF SenseTypeOK, SlopeFollows
<1>11. InRange'
  <2>1. reading'["light"].actual = value /\ Encloses(reading'["light"])
    BY <1>5, <1>7, <1>9
  <2>2. sensed'.sensor = "light"
    BY <1>1, <1>9
  <2>3. QED
    BY <1>3, <2>1, <2>2 DEF InRange
<1>12. QED
  BY <1>9, <1>10, <1>11 DEF SenseInv, ArraysInOrder

\* The climate: temperature and humidity, and never the light.
LEMMA ClimateKeeps ==
  ASSUME SenseInv, NEW t \in RawTemperature, NEW h \in RawHumidity, NewClimate(t, h)
  PROVE  SenseInv'
<1> DEFINE warmth == Celsius(t)
           damp == Percent(h)
           seen == Widened(reading.temperature, warmth)
           felt == HumidityWidened(reading.humidity, damp, warmth)
           Q == {"temperature", "humidity"}
           r == [q \in Q |-> IF q = "temperature" THEN seen ELSE felt]
           adds == ~IsUp(maxmin)
<1>1. /\ sensed.sensor = "climate" /\ calibration' = calibration /\ Noted(r, adds)
  BY DEF NewClimate, MayRead
<1>2. warmth \in Value /\ warmth \in Int /\ damp \in Value
  <2>1. t \in Nat /\ t < 65536 /\ h \in Nat /\ h < 65536
    BY SensorAssumption
  <2>2. QED
    BY <2>1, BytesAre
<1> HIDE DEF warmth, damp
<1>3. reading["temperature"] \in ReadingState /\ reading["humidity"] \in ReadingState /\ Q \subseteq Quantity
  BY DEF SenseInv, SenseTypeOK, Quantity
<1>4. seen \in ReadingState /\ seen.mean = reading["temperature"].mean /\ Encloses(seen)
  BY <1>2, <1>3, WidenedIs
<1>5. felt \in ReadingState /\ felt.mean = reading["humidity"].mean
  BY <1>2, <1>3, HumidityIs
<1>6. adds \in BOOLEAN
  BY DEF IsUp
<1> HIDE DEF seen, felt, adds
<1>7. r \in [Q -> ReadingState] /\ r["temperature"] = seen /\ r["humidity"] = felt
  BY <1>4, <1>5
<1> HIDE DEF r
<1>8. SenseTypeOK /\ ArraysInOrder /\ Readable(Q, r)
  <2>1. SenseTypeOK /\ ArraysInOrder
    BY DEF SenseInv, ArraysInOrder
  <2>2. \A q \in Q : r[q].mean = reading[q].mean
    BY <1>4, <1>5, <1>7
  <2>3. /\ \A q \in Q : q = "light" <=> sensed.sensor = "light"
        /\ \A q \in Quantity \ Q : q = "light" <=> sensed.sensor # "light"
    BY <1>1 DEF Quantity
  <2> HIDE DEF Q
  <2>4. Readable(Q, r)
    BY <1>3, <1>7, <2>2, <2>3 DEF Readable
  <2>5. QED
    BY <2>1, <2>4
<1>9. /\ storage' \in [Quantity -> ArrayState] /\ reading' \in [Quantity -> ReadingState]
      /\ sensed' \in [ sensor : {"light", "climate"}, added : [Quantity -> Seq(Value)],
                       just : BOOLEAN, since : Int, rested : BOOLEAN, readings : Nat ]
      /\ ArraysInOrder' /\ sensed'.sensor = sensed.sensor
      /\ \A q \in Q : /\ reading'[q].actual = r[q].actual
                      /\ Encloses(r[q]) => Encloses(reading'[q])
      /\ \A q \in Quantity \ Q : reading'[q] = reading[q]
  <2> HIDE DEF Q
  <2>1. Followed(Q, r)
    BY <1>1, <1>6, <1>8, NotedKeeps
  <2>2. QED
    BY <2>1 DEF Followed
<1>10. SenseTypeOK' /\ SlopeFollows'
  BY <1>1, <1>9 DEF SenseInv, SenseTypeOK, SlopeFollows
<1>11. InRange'
  <2>1. reading'["light"] = reading["light"] /\ Encloses(reading'["temperature"])
    <3>1. "light" \in Quantity \ Q /\ "temperature" \in Q
      BY DEF Quantity
    <3>2. QED
      BY <1>4, <1>7, <1>9, <3>1
  <2>2. sensed'.sensor = "climate"
    BY <1>1, <1>9
  <2>3. QED
    BY <2>1, <2>2 DEF SenseInv, InRange
<1>12. QED
  BY <1>9, <1>10, <1>11 DEF SenseInv, ArraysInOrder

\* Every step of the sensors.
LEMMA SensorsKeep ==
  ASSUME SenseInv, [SenseNext]_sensevars
  PROVE  SenseInv'
<1>1. CASE Tick
  <2> DEFINE since == Min({sensed.since + 1, HistoryInterval})
  <2>1. sensed' = [sensed EXCEPT !.rested = TRUE, !.since = since]
        /\ UNCHANGED <<storage, reading, calibration>>
    BY <1>1 DEF Tick
  <2>2. since \in Int
    <3>1. sensed.since + 1 \in Int /\ HistoryInterval \in Int
      BY HistoryAssumption DEF SenseInv, SenseTypeOK
    <3>2. QED
      BY <3>1, OfTwo
  <2> HIDE DEF since
  <2>3. /\ sensed'.sensor = sensed.sensor /\ sensed'.added = sensed.added
        /\ sensed'.just = sensed.just /\ sensed'.readings = sensed.readings
        /\ sensed' \in [ sensor : {"light", "climate"}, added : [Quantity -> Seq(Value)],
                         just : BOOLEAN, since : Int, rested : BOOLEAN, readings : Nat ]
    <3>1. sensed = [ sensor |-> sensed.sensor, added |-> sensed.added, just |-> sensed.just,
                     since |-> sensed.since, rested |-> sensed.rested,
                     readings |-> sensed.readings ]
      BY DEF SenseInv, SenseTypeOK
    <3>2. sensed' = [ sensor |-> sensed.sensor, added |-> sensed.added, just |-> sensed.just,
                      since |-> since, rested |-> TRUE, readings |-> sensed.readings ]
      BY <2>1, <3>1
    <3>3. QED
      BY <2>2, <3>2 DEF SenseInv, SenseTypeOK
  <2>4. SenseTypeOK'
    BY <2>1, <2>3 DEF SenseInv, SenseTypeOK
  <2>5. QED
    BY <2>1, <2>3, <2>4
       DEF SenseInv, SlopeFollows, OneSensor, InRange, Encloses, ArrayHolds, ToldOf
<1>2. ASSUME NEW adc \in AdcReading, NewLight(adc) PROVE SenseInv'
  BY <1>2, LightKeeps
<1>3. ASSUME NEW t \in RawTemperature, NEW h \in RawHumidity, NewClimate(t, h) PROVE SenseInv'
  BY <1>3, ClimateKeeps
<1>4. CASE UNCHANGED sensevars
  BY <1>4 DEF sensevars, SenseInv, SenseTypeOK, SlopeFollows, OneSensor, InRange, Encloses,
              ArrayHolds, ToldOf
<1>5. QED
  BY <1>1, <1>2, <1>3, <1>4 DEF SenseNext

\* The invariant holds from the first state on.
LEMMA SenseInvHolds == SenseSpec => []SenseInv
<1>1. SenseInit => SenseInv
  <2> SUFFICES ASSUME SenseInit PROVE SenseInv
    OBVIOUS
  <2>1. 0 \in Value /\ 127 \in Value /\ 100 \in Value /\ 0 \in 0 .. HistoryLength
        /\ HistoryLength \in Nat
    BY LengthIsOne DEF Value
  <2>2. /\ <<>> \in Seq(Value) /\ Len(<<>>) = 0
    OBVIOUS
  <2> DEFINE b == [i \in 0 .. HistoryLength - 1 |-> 0]
             empty == [buffer |-> b, write_pointer |-> 0, array_not_full |-> TRUE]
             built == [buffer |-> b, write_pointer |-> 0, array_not_full |-> FALSE]
  <2>3. empty \in ArrayState /\ built \in ArrayState
    <3>1. b \in [0 .. HistoryLength - 1 -> Value]
      BY <2>1
    <3> HIDE DEF b
    <3>2. QED
      BY <2>1, <3>1 DEF ArrayState
  <2>4. BuiltStorage = built /\ StorageInit(built) = empty
    <3>1. BuiltStorage = built
      BY DEF BuiltStorage
    <3>2. StorageInit(built) = [built EXCEPT !.write_pointer = 0, !.array_not_full = TRUE]
      BY DEF StorageInit
    <3> HIDE DEF b
    <3>3. QED
      BY <3>1, <3>2
  <2>5. storage = [q \in Quantity |-> IF q = "light" THEN built ELSE empty]
    <3> HIDE DEF built, empty
    <3>1. QED
      BY <2>4 DEF SenseInit
  <2>6. \A s \in {empty, built} : s.write_pointer = 0
    OBVIOUS
  <2>7. ~built.array_not_full /\ empty.array_not_full
    OBVIOUS
  <2> HIDE DEF built, empty
  <2>8. storage \in [Quantity -> ArrayState]
    BY <2>3, <2>5
  <2>9. /\ reading \in [Quantity -> ReadingState]
        /\ reading["light"].actual = 0
    BY <2>1 DEF SenseInit, ReadingState, Quantity
  <2>10. /\ calibration \in [max : Nat, min : Nat, slope : Nat \ {0}]
         /\ calibration.max >= 26403 /\ calibration.min <= 213 /\ SlopeFollows
    BY DEF SenseInit, SlopeFollows
  <2>11. PICK sensor \in {"light", "climate"} :
           sensed = [ sensor |-> sensor, added |-> [q \in Quantity |-> <<>>], just |-> FALSE,
                      since |-> 0, rested |-> FALSE, readings |-> 0 ]
    BY DEF SenseInit
  <2>12. \A q \in Quantity : sensed.added[q] = <<>>
    BY <2>11
  <2>13. /\ sensed \in [ sensor : {"light", "climate"}, added : [Quantity -> Seq(Value)],
                         just : BOOLEAN, since : Int, rested : BOOLEAN, readings : Nat ]
         /\ sensed.readings = 0
    BY <2>2, <2>11
  <2>14. OneSensor /\ \A q \in Quantity : ToldOf(q)
    BY <2>2, <2>12 DEF OneSensor, ToldOf
  <2>15. ASSUME NEW q \in Quantity PROVE ArrayHolds(q)
    <3>1. storage[q] = (IF q = "light" THEN built ELSE empty)
      BY <2>5
    <3>2. storage[q].write_pointer = 0 /\ (storage[q].array_not_full <=> q # "light")
      BY <2>6, <2>7, <3>1
    <3>3. Keeps(storage[q], <<>>)
      BY <2>1, <2>2, <3>2 DEF Keeps, FirstRound
    <3>4. QED
      BY <2>1, <2>2, <2>12, <3>2, <3>3 DEF ArrayHolds
  <2>16. InRange
    BY <2>9, <2>13 DEF InRange
  <2>17. QED
    BY <2>8, <2>9, <2>10, <2>13, <2>14, <2>15, <2>16 DEF SenseInv, SenseTypeOK
<1>2. SenseInv /\ [SenseNext]_sensevars => SenseInv'
  BY SensorsKeep
<1>3. QED
  BY <1>1, <1>2, PTL DEF SenseSpec

\* Light is a share of a hundred whatever the resistor was calibrated to, and
\* what is read is inside the extremes told with it, whether these are those of
\* the readings or those of the array.
THEOREM ReadingsStayInRange == SenseSpec => []ReadingsInRange
<1>1. SenseInv => ReadingsInRange
  BY DEF SenseInv, InRange, Encloses, ReadingsInRange
<1>2. QED
  BY <1>1, SenseInvHolds, PTL

\* Mean and extremes are those of the values added last, for arrays of every
\* length and any number of wraps of local_data_storage_array.c.
THEOREM HistoryStaysRecent == SenseSpec => []HistoryIsRecent
<1>1. ASSUME SenseInv, NEW q \in Quantity,
             Len(Recent(q)) >= (IF q = "light" THEN HistoryLength ELSE 1)
      PROVE  LET w == Recent(q) IN
               /\ reading[q].mean = Divided(Sum([i \in 0 .. Len(w) - 1 |-> w[i + 1]], Len(w)), Len(w))
               /\ sensed.just => /\ reading[q].minimal = Min(ToSet(w))
                                 /\ reading[q].maximal = Max({0} \cup ToSet(w))
  <2> DEFINE s == storage[q]
             all == sensed.added[q]
             w == LastOf(all)
  <2>1. /\ s \in ArrayState /\ all \in Seq(Value) /\ Keeps(s, all)
        /\ s.array_not_full <=> (q # "light" /\ Len(all) <= HistoryLength)
        /\ Recent(q) = w
    BY <1>1 DEF SenseInv, SenseTypeOK, ArrayHolds, Recent, LastOf
  <2>2. Len(w) = PlacesOf(all) /\ HistoryLength \in Nat /\ HistoryLength >= 1 /\ Len(all) \in Nat
    BY <2>1, WindowIs, LengthIsOne
  <2>3. Used(s) = PlacesOf(all) /\ Len(all) > 0
    <3>1. Len(w) >= (IF q = "light" THEN HistoryLength ELSE 1)
      BY <1>1, <2>1
    <3>2. PlacesOf(all) = IF Len(all) <= HistoryLength THEN Len(all) ELSE HistoryLength
      BY DEF PlacesOf
    <3>3. CASE s.array_not_full
      <4>1. s.write_pointer = Len(all) /\ Len(all) <= HistoryLength
        BY <2>1, <3>3 DEF Keeps, FirstRound
      <4>2. QED
        BY <2>1, <2>2, <3>1, <3>2, <3>3, <4>1 DEF Used
    <3>4. CASE ~s.array_not_full
      <4> HIDE DEF s, all, w
      <4>1. q = "light" \/ ~(Len(all) <= HistoryLength)
        BY <2>1, <3>4
      <4>2. PlacesOf(all) = HistoryLength /\ Len(all) > 0
        BY <2>2, <3>1, <3>2, <4>1
      <4>3. QED
        BY <3>4, <4>2 DEF Used
    <3>5. QED
      BY <3>3, <3>4
  <2>4. /\ reading[q].mean = GetMean(s)
        /\ sensed.just => reading[q].minimal = GetMin(s) /\ reading[q].maximal = GetMax(s)
    BY <1>1, <2>3 DEF SenseInv, ToldOf
  <2> HIDE DEF s, all
  <2>5. /\ Values(s) = ToSet(w)
        /\ GetMean(s) = Divided(Sum([i \in 0 .. Len(w) - 1 |-> w[i + 1]], Len(w)), Len(w))
    BY <2>1, <2>3, ReadOf
  <2> HIDE DEF w
  <2>6. GetMin(s) = Min(ToSet(w)) /\ GetMax(s) = Max({0} \cup ToSet(w))
    BY <2>5 DEF GetMin, GetMax
  <2>7. QED
    BY <2>1, <2>4, <2>5, <2>6
<1>2. SenseInv => HistoryIsRecent
  BY <1>1 DEF HistoryIsRecent
<1>3. QED
  BY <1>2, SenseInvHolds, PTL

-----------------------------------------------------------------------------
(* The infrared transmitter: Infrared. *)

\* The recursion of FlattenSeq has a solution,
JoinsUp(f, pieces, n) ==
  f = [i \in 1 .. n |-> IF i = 1 THEN pieces[i] ELSE f[i - 1] \o pieces[i]]

LEMMA FlattenDefined ==
  ASSUME NEW pieces, NEW n \in Nat, n > 0, Len(pieces) = n
  PROVE  \E f : JoinsUp(f, pieces, n) /\ FlattenSeq(pieces) = f[n]
<1> DEFINE T == {m \in Nat : \E f : JoinsUp(f, pieces, m)}
<1>1. 0 \in T
  <2> DEFINE f == [i \in 1 .. 0 |-> <<>>]
  <2>1. f = [i \in 1 .. 0 |-> IF i = 1 THEN pieces[i] ELSE f[i - 1] \o pieces[i]]
    OBVIOUS
  <2>2. JoinsUp(f, pieces, 0)
    BY <2>1 DEF JoinsUp
  <2>3. QED
    BY <2>2
<1>2. ASSUME NEW m \in Nat, m \in T PROVE m + 1 \in T
  <2>1. PICK f : JoinsUp(f, pieces, m)
    BY <1>2
  <2> DEFINE last == IF m = 0 THEN pieces[1] ELSE f[m] \o pieces[m + 1]
             g == [i \in 1 .. m + 1 |-> IF i = m + 1 THEN last ELSE f[i]]
  <2>2. \A i \in 1 .. m : f[i] = IF i = 1 THEN pieces[i] ELSE f[i - 1] \o pieces[i]
    BY <2>1 DEF JoinsUp
  <2>3. ASSUME NEW i \in 1 .. m + 1
        PROVE  g[i] = IF i = 1 THEN pieces[i] ELSE g[i - 1] \o pieces[i]
    <3>1. CASE i = m + 1
      <4>1. g[i] = last
        BY <3>1
      <4>2. m # 0 => g[i - 1] = f[m] /\ i - 1 = m /\ i # 1
        BY <3>1
      <4>3. m = 0 => i = 1
        BY <3>1
      <4> HIDE DEF g
      <4>4. QED
        BY <3>1, <4>1, <4>2, <4>3
    <3>2. CASE i # m + 1
      <4>1. i \in 1 .. m /\ (i # 1 => i - 1 \in 1 .. m)
        BY <3>2
      <4>2. g[i] = f[i] /\ (i # 1 => g[i - 1] = f[i - 1])
        BY <3>2, <4>1
      <4> HIDE DEF g
      <4>3. QED
        BY <2>2, <4>1, <4>2
    <3>3. QED
      BY <3>1, <3>2
  <2>4. g = [i \in 1 .. m + 1 |-> g[i]]
    OBVIOUS
  <2> HIDE DEF g
  <2>5. [i \in 1 .. m + 1 |-> g[i]]
          = [i \in 1 .. m + 1 |-> IF i = 1 THEN pieces[i] ELSE g[i - 1] \o pieces[i]]
    BY <2>3
  <2>6. JoinsUp(g, pieces, m + 1)
    BY <2>4, <2>5 DEF JoinsUp
  <2>7. QED
    BY <2>6
<1> HIDE DEF T
<1>3. n \in T
  BY <1>1, <1>2, CountingUp
<1>4. \E f : JoinsUp(f, pieces, n)
  BY <1>3 DEF T
<1> DEFINE h == CHOOSE f : f = [i \in 1 .. n |-> IF i = 1 THEN pieces[i] ELSE f[i - 1] \o pieces[i]]
<1>5. JoinsUp(h, pieces, n)
  BY <1>4 DEF JoinsUp
<1>6. FlattenSeq(pieces) = h[n]
  BY DEF FlattenSeq
<1>7. QED
  BY <1>5, <1>6

\* ... so that what it joins is as long as its pieces are together.
LEMMA Flattened ==
  ASSUME NEW pieces, NEW n \in Nat, n > 0, Len(pieces) = n,
         \A i \in 1 .. n : pieces[i] \in Seq(BOOLEAN) /\ Len(pieces[i]) <= 4
  PROVE  FlattenSeq(pieces) \in Seq(BOOLEAN) /\ Len(FlattenSeq(pieces)) <= 4 * n
<1>1. PICK f : JoinsUp(f, pieces, n) /\ FlattenSeq(pieces) = f[n]
  BY FlattenDefined
<1>2. \A i \in 1 .. n : f[i] = IF i = 1 THEN pieces[i] ELSE f[i - 1] \o pieces[i]
  BY <1>1 DEF JoinsUp
<1> DEFINE T == {m \in Nat : m \in 1 .. n => f[m] \in Seq(BOOLEAN) /\ Len(f[m]) <= 4 * m}
<1>3. 0 \in T
  OBVIOUS
<1>4. ASSUME NEW m \in Nat, m \in T PROVE m + 1 \in T
  <2>1. SUFFICES ASSUME m + 1 \in 1 .. n
                 PROVE  f[m + 1] \in Seq(BOOLEAN) /\ Len(f[m + 1]) <= 4 * (m + 1)
    OBVIOUS
  <2>2. CASE m = 0
    <3>1. f[m + 1] = pieces[m + 1]
      BY <1>2, <2>1, <2>2
    <3>2. m + 1 \in 1 .. n /\ 4 * (m + 1) = 4
      BY <2>1, <2>2
    <3>3. QED
      BY <3>1, <3>2
  <2>3. CASE m # 0
    <3>1. m \in 1 .. n /\ (m + 1) - 1 = m /\ m + 1 # 1
      BY <2>1, <2>3
    <3>2. f[m + 1] = f[m] \o pieces[m + 1]
      BY <1>2, <2>1, <3>1
    <3>3. f[m] \in Seq(BOOLEAN) /\ Len(f[m]) <= 4 * m
      BY <1>4, <3>1
    <3>4. pieces[m + 1] \in Seq(BOOLEAN) /\ Len(pieces[m + 1]) <= 4
      BY <2>1
    <3> HIDE DEF T
    <3>5. f[m + 1] \in Seq(BOOLEAN) /\ Len(f[m + 1]) = Len(f[m]) + Len(pieces[m + 1])
      BY <3>2, <3>3, <3>4, ConcatProperties
    <3>6. Len(f[m]) \in Nat /\ Len(pieces[m + 1]) \in Nat
      BY <3>3, <3>4
    <3>7. 4 * (m + 1) = 4 * m + 4
      OBVIOUS
    <3>8. Len(f[m + 1]) <= 4 * m + 4
      <4>1. ASSUME NEW a \in Nat, NEW b \in Nat, a <= 4 * m, b <= 4 PROVE a + b <= 4 * m + 4
        BY <4>1
      <4>2. Len(f[m]) + Len(pieces[m + 1]) <= 4 * m + 4
        BY <3>3, <3>4, <3>6, <4>1
      <4>3. QED
        BY <3>5, <4>2
    <3>9. QED
      BY <3>5, <3>7, <3>8
  <2>4. QED
    BY <2>2, <2>3
<1> HIDE DEF T
<1>5. n \in T
  BY <1>3, <1>4, CountingUp
<1>6. QED
  BY <1>1, <1>5 DEF T

\* Levels of n intervals.
Levels(f, n) == f \in Seq(BOOLEAN) /\ Len(f) = n

LEMMA LevelsOf ==
  ASSUME NEW n \in Nat
  PROVE  Levels(Pulses(n), n) /\ Levels(Pauses(n), n) /\ \A i \in 1 .. n : ~Pauses(n)[i]
BY DEF Levels, Pulses, Pauses

\* From place at on, h has the n levels of f.
Runs(h, at, f, n) == \A i \in 1 .. n : h[at + i] = f[i]

LEMMA LevelsJoined ==
  ASSUME NEW f, NEW g, NEW m \in Nat, NEW n \in Nat, Levels(f, m), Levels(g, n)
  PROVE  /\ Levels(f \o g, m + n)
         /\ Runs(f \o g, 0, f, m) /\ Runs(f \o g, m, g, n)
<1>1. f \in Seq(BOOLEAN) /\ g \in Seq(BOOLEAN) /\ Len(f) = m /\ Len(g) = n
  BY DEF Levels
<1>2. /\ f \o g \in Seq(BOOLEAN) /\ Len(f \o g) = Len(f) + Len(g)
      /\ \A i \in 1 .. Len(f) + Len(g) : (f \o g)[i] = IF i <= Len(f) THEN f[i] ELSE g[i - Len(f)]
  BY <1>1, ConcatProperties
<1>3. /\ f \o g \in Seq(BOOLEAN) /\ Len(f \o g) = m + n
      /\ \A i \in 1 .. m + n : (f \o g)[i] = IF i <= m THEN f[i] ELSE g[i - m]
  BY <1>1, <1>2
<1>4. ASSUME NEW i \in 1 .. m PROVE (f \o g)[0 + i] = f[i]
  <2>1. 0 + i = i /\ i \in 1 .. m + n /\ i <= m
    OBVIOUS
  <2>2. QED
    BY <1>3, <2>1
<1>5. ASSUME NEW i \in 1 .. n PROVE (f \o g)[m + i] = g[i]
  <2>1. (m + i) - m = i /\ m + i \in 1 .. m + n /\ ~(m + i <= m)
    OBVIOUS
  <2>2. QED
    BY <1>3, <2>1
<1>6. QED
  BY <1>3, <1>4, <1>5 DEF Levels, Runs

LEMMA RunsWithin ==
  ASSUME NEW h, NEW f, NEW g, NEW at \in Nat, NEW from \in Nat, NEW m \in Nat, NEW n \in Nat,
         Runs(h, at, f, m), Runs(f, from, g, n), from + n <= m
  PROVE  Runs(h, at + from, g, n)
<1>1. SUFFICES ASSUME NEW i \in 1 .. n PROVE h[(at + from) + i] = g[i]
  BY DEF Runs
<1>2. from + i \in 1 .. m /\ at + (from + i) = (at + from) + i
  OBVIOUS
<1>3. h[at + (from + i)] = f[from + i] /\ f[from + i] = g[i]
  BY <1>2 DEF Runs
<1>4. QED
  BY <1>2, <1>3

\* A word of n bits.
Word(v, n) == v \in Seq(Int) /\ Len(v) = n

LEMMA WordsJoined ==
  ASSUME NEW v, NEW w, NEW m \in Nat, NEW n \in Nat, Word(v, m), Word(w, n)
  PROVE  Word(v \o w, m + n)
<1>1. v \in Seq(Int) /\ w \in Seq(Int) /\ Len(v) = m /\ Len(w) = n
  BY DEF Word
<1>2. v \o w \in Seq(Int) /\ Len(v \o w) = Len(v) + Len(w)
  BY <1>1, ConcatProperties
<1>3. QED
  BY <1>1, <1>2 DEF Word

LEMMA WordInverted ==
  ASSUME NEW v, NEW n \in Nat, Word(v, n)
  PROVE  Word(Inverted(v), n)
<1>1. DOMAIN v = 1 .. n /\ v \in Seq(Int)
  BY DEF Word
<1>2. Inverted(v) = [i \in 1 .. n |-> 1 - v[i]]
  BY <1>1 DEF Inverted
<1>3. \A i \in 1 .. n : 1 - v[i] \in Int
  BY <1>1
<1>4. QED
  BY <1>2, <1>3 DEF Word

\* A word of n bits is sent in at most 4 * n intervals, in both codes.
LEMMA Coded ==
  ASSUME NEW word, NEW n \in Nat, n > 0, Word(word, n)
  PROVE  /\ PauseCoded(word) \in Seq(BOOLEAN) /\ Len(PauseCoded(word)) <= 4 * n
         /\ PulseCoded(word) \in Seq(BOOLEAN)
<1>1. DOMAIN word = 1 .. n
  BY DEF Word
<1>2. ASSUME NEW k \in {1, 2, 3}
      PROVE  /\ Levels(Pulses(1) \o Pauses(k), 1 + k)
             /\ Levels(Pauses(1) \o Pulses(k), 1 + k)
  <2>1. 1 \in Nat /\ k \in Nat
    OBVIOUS
  <2>2. Levels(Pulses(1), 1) /\ Levels(Pauses(1), 1) /\ Levels(Pulses(k), k) /\ Levels(Pauses(k), k)
    BY <2>1, LevelsOf
  <2>3. QED
    BY <2>1, <2>2, LevelsJoined
<1>3. /\ PauseCoded(word) \in Seq(BOOLEAN)
      /\ Len(PauseCoded(word)) <= 4 * n
  <2> DEFINE pieces == [i \in 1 .. n |-> Pulses(1) \o Pauses(IF word[i] = 1 THEN 3 ELSE 1)]
  <2>1. ASSUME NEW i \in 1 .. n PROVE pieces[i] \in Seq(BOOLEAN) /\ Len(pieces[i]) <= 4
    <3>1. PICK k \in {1, 2, 3} : pieces[i] = Pulses(1) \o Pauses(k)
      <4>1. CASE word[i] = 1
        BY <4>1
      <4>2. CASE word[i] # 1
        BY <4>2
      <4>3. QED
        BY <4>1, <4>2
    <3> HIDE DEF pieces
    <3>2. pieces[i] \in Seq(BOOLEAN) /\ Len(pieces[i]) = 1 + k
      BY <1>2, <3>1 DEF Levels
    <3>3. 1 + k <= 4
      OBVIOUS
    <3>4. QED
      BY <3>2, <3>3
  <2>2. Len(pieces) = n
    OBVIOUS
  <2>3. PauseCoded(word) = FlattenSeq(pieces)
    BY <1>1 DEF PauseCoded
  <2> HIDE DEF pieces
  <2>4. QED
    BY <2>1, <2>2, <2>3, Flattened
<1>4. PulseCoded(word) \in Seq(BOOLEAN)
  <2> DEFINE pieces == [i \in 1 .. n |-> Pauses(1) \o Pulses(IF word[i] = 1 THEN 2 ELSE 1)]
  <2>1. ASSUME NEW i \in 1 .. n PROVE pieces[i] \in Seq(BOOLEAN) /\ Len(pieces[i]) <= 4
    <3>1. PICK k \in {1, 2, 3} : pieces[i] = Pauses(1) \o Pulses(k)
      <4>1. CASE word[i] = 1
        BY <4>1
      <4>2. CASE word[i] # 1
        BY <4>2
      <4>3. QED
        BY <4>1, <4>2
    <3> HIDE DEF pieces
    <3>2. pieces[i] \in Seq(BOOLEAN) /\ Len(pieces[i]) = 1 + k
      BY <1>2, <3>1 DEF Levels
    <3>3. 1 + k <= 4
      OBVIOUS
    <3>4. QED
      BY <3>2, <3>3
  <2>2. Len(pieces) = n
    OBVIOUS
  <2>3. PulseCoded(word) = FlattenSeq(pieces)
    BY <1>1 DEF PulseCoded
  <2> HIDE DEF pieces
  <2>4. QED
    BY <2>1, <2>2, <2>3, Flattened
<1>5. QED
  BY <1>3, <1>4

\* A frame is a sequence of levels; those of jvc are longer than their preamble,
\* and a word of them is over before the next one is due.
LEMMA FramesAreLevels ==
  ASSUME NEW c \in IrCommand
  PROVE  /\ c.type \in IrProtocol
         /\ Frame[c] \in Seq(BOOLEAN)
         /\ c.type = "jvc" => 24 < Len(Frame[c]) /\ Len(Frame[c]) < 105
<1>1. /\ c.type \in IrProtocol
      /\ Word(c.data_1, 8) /\ Word(c.data_2, 8)
      /\ c.type = "sony" => Word(c.data_3, 8)
  <2>1. CASE c = LedLightsOn
    BY <2>1 DEF LedLightsOn, IrProtocol, Word
  <2>2. CASE c = SamsungTvPower
    BY <2>2 DEF SamsungTvPower, IrProtocol, Word
  <2>3. CASE c = JvcRadioVolumeUp
    BY <2>3 DEF JvcRadioVolumeUp, IrProtocol, Word
  <2>4. CASE c = SonyBdPlayerPower
    BY <2>4 DEF SonyBdPlayerPower, IrProtocol, Word
  <2>5. QED
    BY <2>1, <2>2, <2>3, <2>4 DEF IrCommand
<1>2. Word(Inverted(c.data_1), 8) /\ Word(Inverted(c.data_2), 8)
  BY <1>1, WordInverted
<1>3. ASSUME NEW f, NEW g, f \in Seq(BOOLEAN), g \in Seq(BOOLEAN)
      PROVE  f \o g \in Seq(BOOLEAN) /\ Len(f \o g) = Len(f) + Len(g)
  BY <1>3, ConcatProperties
<1>4. ASSUME NEW n \in Nat
      PROVE  /\ Pulses(n) \in Seq(BOOLEAN) /\ Len(Pulses(n)) = n
             /\ Pauses(n) \in Seq(BOOLEAN) /\ Len(Pauses(n)) = n
  BY LevelsOf DEF Levels
<1>5. ASSUME NEW v, NEW w, Word(v, 8), Word(w, 8), NEW u, Word(u, 8), NEW t, Word(t, 8)
      PROVE  Word(v \o w, 16) /\ Word(v \o w \o u \o t, 32)
  <2>1. Word(v \o w, 8 + 8)
    BY <1>5, WordsJoined
  <2>2. Word(v \o w, 16) /\ 16 \in Nat
    BY <2>1
  <2>3. Word(v \o w \o u, 16 + 8)
    BY <1>5, <2>2, WordsJoined
  <2>4. Word(v \o w \o u, 24) /\ 24 \in Nat
    BY <2>3
  <2>5. Word(v \o w \o u \o t, 24 + 8)
    BY <1>5, <2>4, WordsJoined
  <2>6. QED
    BY <2>2, <2>5
<1>6. ASSUME NEW v, Word(v, 32)
      PROVE  PauseCoded(v) \in Seq(BOOLEAN)
  <2>1. 32 \in Nat /\ 32 > 0
    OBVIOUS
  <2>2. QED
    BY <1>6, <2>1, Coded
<1>7. NecFrame(c) \in Seq(BOOLEAN)
  <2>1. PauseCoded(c.data_1 \o Inverted(c.data_1) \o c.data_2 \o Inverted(c.data_2)) \in Seq(BOOLEAN)
    BY <1>1, <1>2, <1>5, <1>6
  <2>2. QED
    BY <1>3, <1>4, <2>1 DEF NecFrame
<1>8. SamsungFrame(c) \in Seq(BOOLEAN)
  <2>1. PauseCoded(c.data_1 \o c.data_1 \o c.data_2 \o Inverted(c.data_2)) \in Seq(BOOLEAN)
    BY <1>1, <1>2, <1>5, <1>6
  <2>2. QED
    BY <1>3, <1>4, <2>1 DEF SamsungFrame
<1>9. JvcFrame(c) \in Seq(BOOLEAN) /\ 24 < Len(JvcFrame(c)) /\ Len(JvcFrame(c)) < 105
  <2> DEFINE code == PauseCoded(c.data_1 \o c.data_2)
  <2>1. Word(c.data_1 \o c.data_2, 16) /\ 16 \in Nat /\ 16 > 0
    BY <1>1, <1>5
  <2>2. code \in Seq(BOOLEAN) /\ Len(code) <= 4 * 16
    BY <2>1, Coded
  <2>3. JvcFrame(c) = Pulses(16) \o Pauses(8) \o code \o Pulses(1)
    BY DEF JvcFrame
  <2> HIDE DEF code
  <2>4. Len(code) \in Nat
    BY <2>2
  <2>5. /\ Pulses(16) \o Pauses(8) \in Seq(BOOLEAN) /\ Len(Pulses(16) \o Pauses(8)) = 24
    BY <1>3, <1>4
  <2>6. /\ Pulses(16) \o Pauses(8) \o code \in Seq(BOOLEAN)
        /\ Len(Pulses(16) \o Pauses(8) \o code) = 24 + Len(code)
    BY <1>3, <2>2, <2>5
  <2>7. JvcFrame(c) \in Seq(BOOLEAN) /\ Len(JvcFrame(c)) = 25 + Len(code)
    BY <1>3, <1>4, <2>3, <2>4, <2>6
  <2>8. QED
    BY <2>2, <2>4, <2>7
<1>10. ASSUME c.type = "sony" PROVE SonyFrame(c) \in Seq(BOOLEAN)
  <2> DEFINE head == SubSeq(c.data_1, 1, 7)
             tail == SubSeq(c.data_2, 4, 8)
  <2>1. ASSUME NEW v, Word(v, 8)
        PROVE  Word(SubSeq(v, 1, 7), 7) /\ Word(SubSeq(v, 4, 8), 5)
    <3>1. v \in Seq(Int) /\ Len(v) = 8
      BY <2>1 DEF Word
    <3>2. \A i \in 1 .. 8 : v[i] \in Int
      <4>1. \A i \in 1 .. Len(v) : v[i] \in Int
        BY <3>1, ElementOfSeq
      <4>2. QED
        BY <3>1, <4>1
    <3>3. SubSeq(v, 1, 7) = [i \in 1 .. 7 |-> v[i]] /\ SubSeq(v, 4, 8) = [i \in 1 .. 5 |-> v[i + 3]]
      BY <3>1
    <3>4. /\ [i \in 1 .. 7 |-> v[i]] \in Seq(Int) /\ Len([i \in 1 .. 7 |-> v[i]]) = 7
          /\ [i \in 1 .. 5 |-> v[i + 3]] \in Seq(Int) /\ Len([i \in 1 .. 5 |-> v[i + 3]]) = 5
      BY <3>2
    <3>5. QED
      BY <3>3, <3>4 DEF Word
  <2>2. Word(head, 7) /\ Word(tail, 5) /\ Word(c.data_3, 8)
    BY <1>1, <1>10, <2>1
  <2>3. SonyFrame(c) = Pulses(4) \o PulseCoded(head \o tail \o c.data_3)
    BY DEF SonyFrame
  <2> HIDE DEF head, tail
  <2>4. Word(head \o tail, 7 + 5)
    BY <2>2, WordsJoined
  <2>5. Word(head \o tail, 12) /\ 12 \in Nat
    BY <2>4
  <2>6. Word(head \o tail \o c.data_3, 12 + 8)
    BY <2>2, <2>5, WordsJoined
  <2>7. Word(head \o tail \o c.data_3, 20) /\ 20 \in Nat /\ 20 > 0
    BY <2>6
  <2>8. PulseCoded(head \o tail \o c.data_3) \in Seq(BOOLEAN)
    BY <2>7, Coded
  <2>9. QED
    BY <1>3, <1>4, <2>3, <2>8
<1>11. /\ c.type = "nec" => Frame[c] = NecFrame(c)
       /\ c.type = "samsung" => Frame[c] = SamsungFrame(c)
       /\ c.type = "jvc" => Frame[c] = JvcFrame(c)
       /\ c.type = "sony" => Frame[c] = SonyFrame(c)
  BY DEF Frame
<1>12. QED
  BY <1>1, <1>7, <1>8, <1>9, <1>10, <1>11 DEF IrProtocol

\* What is on air n intervals into a frame, or behind it.
LevelIn(f, n) == IF n <= Len(f) THEN f[n] ELSE FALSE

LEMMA PaddedLevels ==
  ASSUME NEW f, NEW m \in Nat, NEW n \in Nat, Levels(f, m), m <= n
  PROVE  /\ Levels(Padded(f, n), n)
         /\ \A i \in 1 .. n : Padded(f, n)[i] = LevelIn(f, i)
<1> DEFINE rest == Pauses(n - m)
<1>1. n - m \in Nat /\ m + (n - m) = n /\ Len(f) = m
  BY DEF Levels
<1>2. Padded(f, n) = f \o rest
  BY <1>1 DEF Padded
<1>3. Levels(rest, n - m)
  BY <1>1, LevelsOf
<1>4. \A i \in 1 .. n - m : rest[i] = FALSE
  BY <1>1 DEF Pauses
<1> HIDE DEF rest
<1>5. /\ Levels(f \o rest, m + (n - m))
      /\ Runs(f \o rest, 0, f, m) /\ Runs(f \o rest, m, rest, n - m)
  BY <1>1, <1>3, LevelsJoined
<1>6. ASSUME NEW i \in 1 .. n PROVE (f \o rest)[i] = LevelIn(f, i)
  <2>1. CASE i <= m
    <3>1. i \in 1 .. m /\ 0 + i = i
      BY <2>1
    <3>2. (f \o rest)[0 + i] = f[i]
      BY <1>5, <3>1 DEF Runs
    <3>3. QED
      BY <1>1, <2>1, <3>1, <3>2 DEF LevelIn
  <2>2. CASE ~(i <= m)
    <3>1. i - m \in 1 .. n - m /\ m + (i - m) = i
      BY <2>2
    <3>2. (f \o rest)[m + (i - m)] = rest[i - m] /\ rest[i - m] = FALSE
      BY <1>4, <1>5, <3>1 DEF Runs
    <3>3. QED
      BY <1>1, <2>2, <3>1, <3>2 DEF LevelIn
  <2>3. QED
    BY <2>1, <2>2
<1>7. QED
  BY <1>1, <1>2, <1>5, <1>6

\* The word of jvc that is repeated, without the preamble.
LEMMA WordLevels ==
  ASSUME NEW f, NEW m \in Nat, Levels(f, m), 24 < m
  PROVE  LET word == SubSeq(f, 25, Len(f)) IN
           /\ Levels(word, m - 24)
           /\ \A n \in Nat : n > 0 => LevelIn(word, n) = LevelIn(f, 24 + n)
<1> DEFINE word == SubSeq(f, 25, m)
<1>1. f \in Seq(BOOLEAN) /\ Len(f) = m /\ 25 \in Int /\ m \in Int
  BY DEF Levels
<1>2. \A i \in 25 .. m : f[i] \in BOOLEAN
  <2>1. \A i \in 1 .. Len(f) : f[i] \in BOOLEAN
    BY <1>1, ElementOfSeq
  <2>2. QED
    BY <1>1, <2>1
<1>3. /\ word \in Seq(BOOLEAN)
      /\ Len(word) = IF 25 <= m THEN m - 25 + 1 ELSE 0
      /\ \A i \in 1 .. m - 25 + 1 : word[i] = f[25 + i - 1]
  BY <1>1, <1>2, SubSeqProperties
<1> HIDE DEF word
<1>4. m - 25 + 1 = m - 24 /\ 25 <= m /\ m - 24 \in Nat
  OBVIOUS
<1>5. Levels(word, m - 24)
  BY <1>3, <1>4 DEF Levels
<1>6. ASSUME NEW n \in Nat, n > 0 PROVE LevelIn(word, n) = LevelIn(f, 24 + n)
  <2>1. Len(word) = m - 24
    BY <1>3, <1>4
  <2>2. (n <= m - 24) <=> (24 + n <= m)
    BY <1>6
  <2>3. CASE n <= m - 24
    <3>1. n \in 1 .. m - 25 + 1 /\ 25 + n - 1 = 24 + n
      BY <1>6, <2>3
    <3>2. word[n] = f[24 + n]
      BY <1>3, <3>1
    <3>3. QED
      BY <1>1, <2>1, <2>2, <2>3, <3>2 DEF LevelIn
  <2>4. CASE ~(n <= m - 24)
    BY <1>1, <2>1, <2>2, <2>4 DEF LevelIn
  <2>5. QED
    BY <2>3, <2>4
<1>7. SubSeq(f, 25, Len(f)) = word
  BY <1>1 DEF word
<1>8. QED
  BY <1>5, <1>6, <1>7

\* From place at on, what is on air are n levels of f, from place from on.
Sounds(h, at, f, from, n) == \A k \in 1 .. n : h[at + k] = LevelIn(f, from + k)

\* A frame and three words in a given time each, and frames with pauses.
LEMMA FrameAndWords ==
  ASSUME NEW f, NEW len \in Nat, Levels(f, len), 24 < len,
         NEW first \in Nat, NEW next \in Nat, len <= first, len - 24 <= next
  PROVE  LET word == SubSeq(f, 25, Len(f))
             wave == Padded(f, first) \o Padded(word, next) \o Padded(word, next) \o word
         IN  /\ Levels(wave, first + next + next + (len - 24))
             /\ Sounds(wave, 0, f, 0, first)
             /\ Sounds(wave, first, f, 24, next)
             /\ Sounds(wave, first + next, f, 24, next)
             /\ Sounds(wave, first + next + next, f, 24, len - 24)
<1> DEFINE word == SubSeq(f, 25, Len(f))
           a == Padded(f, first)
           b == Padded(word, next)
           rest == len - 24
<1>1. /\ Levels(word, rest) /\ rest \in Nat
      /\ \A n \in Nat : n > 0 => LevelIn(word, n) = LevelIn(f, 24 + n)
  BY WordLevels
<1>2. Len(word) = rest
  BY <1>1 DEF Levels
<1> HIDE DEF word
<1>3. Levels(a, first) /\ \A i \in 1 .. first : a[i] = LevelIn(f, i)
  BY PaddedLevels
<1>4. Levels(b, next) /\ \A i \in 1 .. next : b[i] = LevelIn(word, i)
  BY <1>1, PaddedLevels
<1> HIDE DEF a, b, rest
<1>5. ASSUME NEW k \in 1 .. first PROVE a[k] = LevelIn(f, 0 + k)
  <2>1. 0 + k = k
    OBVIOUS
  <2>2. QED
    BY <1>3, <2>1
<1>6. ASSUME NEW k \in 1 .. next PROVE b[k] = LevelIn(f, 24 + k)
  <2>1. k \in Nat /\ k > 0
    OBVIOUS
  <2>2. QED
    BY <1>1, <1>4, <2>1
<1>7. ASSUME NEW k \in 1 .. rest PROVE word[k] = LevelIn(f, 24 + k)
  <2>1. k \in Nat /\ k > 0 /\ k <= Len(word)
    BY <1>1, <1>2
  <2>2. word[k] = LevelIn(word, k)
    BY <2>1 DEF LevelIn
  <2>3. QED
    BY <1>1, <2>1, <2>2
<1>8. Levels(a, first) /\ Levels(b, next) /\ Levels(word, rest) /\ rest \in Nat
  BY <1>1, <1>3, <1>4
<1> DEFINE ab == a \o b
           abb == ab \o b
           wave == abb \o word
           m == first + next
           z == m + next
<1>9. /\ m \in Nat /\ z \in Nat /\ 0 \in Nat /\ 0 + first = first /\ 0 + m = m /\ 0 + 0 = 0
      /\ 0 + first <= m /\ first + next <= m /\ 0 + m <= z /\ m + next <= z
  OBVIOUS
<1>10. Levels(ab, m) /\ Runs(ab, 0, a, first) /\ Runs(ab, first, b, next)
  BY <1>8, LevelsJoined
<1> HIDE DEF m, ab
<1>11. Levels(abb, z) /\ Runs(abb, 0, ab, m) /\ Runs(abb, m, b, next)
  BY <1>8, <1>9, <1>10, LevelsJoined
<1> HIDE DEF z, abb
<1>12. Levels(wave, z + rest) /\ Runs(wave, 0, abb, z) /\ Runs(wave, z, word, rest)
  BY <1>8, <1>9, <1>11, LevelsJoined
<1> HIDE DEF wave
<1>13. Runs(wave, 0 + 0, ab, m) /\ Runs(wave, 0 + m, b, next)
  BY <1>9, <1>11, <1>12, RunsWithin
<1>14. Runs(wave, 0 + 0, a, first) /\ Runs(wave, 0 + first, b, next)
  BY <1>9, <1>10, <1>13, RunsWithin
<1>15. Runs(wave, 0, a, first) /\ Runs(wave, first, b, next) /\ Runs(wave, m, b, next)
  BY <1>9, <1>13, <1>14
<1>16. /\ Sounds(wave, 0, f, 0, first) /\ Sounds(wave, first, f, 24, next)
       /\ Sounds(wave, m, f, 24, next) /\ Sounds(wave, z, f, 24, rest)
  <2>1. Sounds(wave, 0, f, 0, first)
    BY <1>5, <1>15 DEF Runs, Sounds
  <2>2. Sounds(wave, first, f, 24, next)
    BY <1>6, <1>15 DEF Runs, Sounds
  <2>3. Sounds(wave, m, f, 24, next)
    BY <1>6, <1>15 DEF Runs, Sounds
  <2>4. Sounds(wave, z, f, 24, rest)
    BY <1>7, <1>12 DEF Runs, Sounds
  <2>5. QED
    BY <2>1, <2>2, <2>3, <2>4
<1>17. QED
  BY <1>12, <1>16 DEF wave, abb, ab, a, b, word, m, z, rest

LEMMA ThreeFrames ==
  ASSUME NEW f, NEW len \in Nat, Levels(f, len), NEW gap \in Nat
  PROVE  LET wave == f \o Pauses(gap) \o f \o Pauses(gap) \o f
             m == len + gap
         IN  /\ Levels(wave, (m + m) + len)
             /\ Sounds(wave, 0, f, 0, m)
             /\ Sounds(wave, m, f, 0, m)
             /\ Sounds(wave, m + m, f, 0, len)
<1> DEFINE m == len + gap
           a == Padded(f, m)
           aa == a \o a
           wave == aa \o f
           z == m + m
<1>1. m \in Nat /\ len <= m /\ m - Len(f) = gap /\ 0 \in Nat
  BY DEF Levels
<1>2. a = f \o Pauses(gap)
  BY <1>1 DEF Padded
<1> HIDE DEF m
<1>3. Levels(a, m) /\ \A i \in 1 .. m : a[i] = LevelIn(f, i)
  BY <1>1, PaddedLevels
<1> HIDE DEF a
<1>4. wave = f \o Pauses(gap) \o f \o Pauses(gap) \o f
  <2>1. a \in Seq(BOOLEAN) /\ f \in Seq(BOOLEAN) /\ Pauses(gap) \in Seq(BOOLEAN)
    <3>1. Levels(Pauses(gap), gap)
      BY LevelsOf
    <3>2. QED
      BY <1>3, <3>1 DEF Levels
  <2>2. (a \o f) \o Pauses(gap) = a \o (f \o Pauses(gap))
    BY <2>1, ConcatAssociative
  <2>3. aa = (a \o f) \o Pauses(gap)
    BY <1>2, <2>2
  <2>4. wave = ((a \o f) \o Pauses(gap)) \o f
    BY <2>3
  <2>5. QED
    BY <1>2, <2>4
<1>5. z \in Nat /\ 0 + 0 = 0 /\ 0 + m = m /\ 0 + m <= z /\ m + m <= z
  BY <1>1
<1>6. Levels(aa, z) /\ Runs(aa, 0, a, m) /\ Runs(aa, m, a, m)
  BY <1>1, <1>3, LevelsJoined
<1> HIDE DEF z, aa
<1>7. Levels(wave, z + len) /\ Runs(wave, 0, aa, z) /\ Runs(wave, z, f, len)
  BY <1>5, <1>6, LevelsJoined
<1> HIDE DEF wave
<1>8. Runs(wave, 0 + 0, a, m) /\ Runs(wave, 0 + m, a, m)
  BY <1>1, <1>5, <1>6, <1>7, RunsWithin
<1>9. Runs(wave, 0, a, m) /\ Runs(wave, m, a, m)
  BY <1>5, <1>8
<1>10. ASSUME NEW k \in 1 .. m PROVE a[k] = LevelIn(f, 0 + k)
  <2>1. 0 + k = k
    BY <1>1
  <2>2. QED
    BY <1>3, <2>1
<1>11. ASSUME NEW k \in 1 .. len PROVE f[k] = LevelIn(f, 0 + k)
  <2>1. 0 + k = k /\ k <= Len(f)
    BY DEF Levels
  <2>2. QED
    BY <2>1 DEF LevelIn
<1>12. Sounds(wave, 0, f, 0, m) /\ Sounds(wave, m, f, 0, m)
  BY <1>9, <1>10 DEF Runs, Sounds
<1>13. Sounds(wave, z, f, 0, len)
  BY <1>7, <1>11 DEF Runs, Sounds
<1>14. QED
  BY <1>4, <1>7, <1>12, <1>13 DEF m, z

\* The waveform of a command, part by part.
\* What the waveforms are made of: the frame; a frame and three words in a
\* time of their own; three frames with a pause behind the first two.
PlainWave(f, wave, length) ==
  Len(f) = length /\ Len(wave) = length /\ Sounds(wave, 0, f, 0, length)

JvcWave(f, wave, length) ==
  /\ Len(f) = length /\ 24 < length /\ length < 105 /\ Len(wave) = 250 + length
  /\ Sounds(wave, 0, f, 0, 112) /\ Sounds(wave, 112, f, 24, 81)
  /\ Sounds(wave, 193, f, 24, 81) /\ Sounds(wave, 274, f, 24, length - 24)

SonyWave(f, wave, length) ==
  /\ Len(f) = length /\ Len(wave) = 3 * length + 150
  /\ Sounds(wave, 0, f, 0, length + 75) /\ Sounds(wave, length + 75, f, 0, length + 75)
  /\ Sounds(wave, 2 * length + 150, f, 0, length)

LEMMA PlainParts ==
  ASSUME NEW c \in IrCommand, c.type \notin {"jvc", "sony"},
         NEW f, f = Frame[c], NEW len \in Nat, Levels(f, len),
         NEW wave, wave = Waveform[c]
  PROVE  PlainWave(f, wave, len)
<1>1. f \in Seq(BOOLEAN) /\ Len(f) = len
  BY DEF Levels
<1>2. wave = f
  BY DEF Waveform
<1>4. Len(wave) = len /\ Sounds(wave, 0, f, 0, len)
  <2>1. ASSUME NEW k \in 1 .. len PROVE f[0 + k] = LevelIn(f, 0 + k)
    <3>1. 0 + k = k /\ k <= Len(f)
      BY <1>1
    <3>2. QED
      BY <3>1 DEF LevelIn
  <2>2. QED
    BY <1>1, <1>2, <2>1 DEF Sounds
<1>9. QED
  BY <1>1, <1>4 DEF PlainWave

LEMMA JvcParts ==
  ASSUME NEW c \in IrCommand, c.type = "jvc",
         NEW f, f = Frame[c], NEW len \in Nat, Levels(f, len),
         NEW wave, wave = Waveform[c]
  PROVE  JvcWave(f, wave, len)
<1> DEFINE word == SubSeq(f, 25, Len(f))
<1>1. f \in Seq(BOOLEAN) /\ Len(f) = len
  BY DEF Levels
<1>2. wave = Padded(f, 112) \o Padded(word, 81) \o Padded(word, 81) \o word
  BY DEF Waveform
<1>3. 24 < len /\ len < 105
  BY <1>1, FramesAreLevels
<1>5. /\ Len(wave) = 250 + len
             /\ Sounds(wave, 0, f, 0, 112) /\ Sounds(wave, 112, f, 24, 81)
             /\ Sounds(wave, 193, f, 24, 81) /\ Sounds(wave, 274, f, 24, len - 24)
  <2>1. /\ 24 < len /\ len <= 112 /\ len - 24 <= 81 /\ 112 \in Nat /\ 81 \in Nat
        /\ 112 + 81 = 193 /\ 112 + 81 + 81 = 274 /\ 112 + 81 + 81 + (len - 24) = 250 + len
    BY <1>1, <1>3
  <2>2. wave = Padded(f, 112) \o Padded(word, 81) \o Padded(word, 81) \o word
    BY <1>2
  <2>3. LET v == Padded(f, 112) \o Padded(word, 81) \o Padded(word, 81) \o word
        IN  /\ Levels(v, 112 + 81 + 81 + (len - 24))
            /\ Sounds(v, 0, f, 0, 112) /\ Sounds(v, 112, f, 24, 81)
            /\ Sounds(v, 112 + 81, f, 24, 81) /\ Sounds(v, 112 + 81 + 81, f, 24, len - 24)
    <3>1. ASSUME NEW first \in Nat, NEW next \in Nat, 24 < len, len <= first, len - 24 <= next
          PROVE  LET v == Padded(f, first) \o Padded(word, next) \o Padded(word, next) \o word
                 IN  /\ Levels(v, first + next + next + (len - 24))
                     /\ Sounds(v, 0, f, 0, first) /\ Sounds(v, first, f, 24, next)
                     /\ Sounds(v, first + next, f, 24, next)
                     /\ Sounds(v, first + next + next, f, 24, len - 24)
      BY <3>1, FrameAndWords
    <3>2. PICK first \in Nat : first = 112
      OBVIOUS
    <3>3. PICK next \in Nat : next = 81
      OBVIOUS
    <3>4. 24 < len /\ len <= first /\ len - 24 <= next
      BY <2>1, <3>2, <3>3
    <3>5. LET v == Padded(f, first) \o Padded(word, next) \o Padded(word, next) \o word
          IN  /\ Levels(v, first + next + next + (len - 24))
              /\ Sounds(v, 0, f, 0, first) /\ Sounds(v, first, f, 24, next)
              /\ Sounds(v, first + next, f, 24, next)
              /\ Sounds(v, first + next + next, f, 24, len - 24)
      BY <3>1, <3>4
    <3>6. QED
      BY <3>2, <3>3, <3>5
  <2> HIDE DEF word
  <2>4. /\ Levels(wave, 112 + 81 + 81 + (len - 24))
        /\ Sounds(wave, 0, f, 0, 112) /\ Sounds(wave, 112, f, 24, 81)
        /\ Sounds(wave, 112 + 81, f, 24, 81) /\ Sounds(wave, 112 + 81 + 81, f, 24, len - 24)
    BY <2>2, <2>3
  <2>5. QED
    BY <2>1, <2>4 DEF Levels
<1>9. QED
  BY <1>1, <1>3, <1>5 DEF JvcWave

LEMMA SonyParts ==
  ASSUME NEW c \in IrCommand, c.type = "sony",
         NEW f, f = Frame[c], NEW len \in Nat, Levels(f, len),
         NEW wave, wave = Waveform[c]
  PROVE  SonyWave(f, wave, len)
<1>1. f \in Seq(BOOLEAN) /\ Len(f) = len
  BY DEF Levels
<1>2. wave = f \o Pauses(75) \o f \o Pauses(75) \o f
  BY DEF Waveform
<1>6. /\ Len(wave) = 3 * len + 150
             /\ Sounds(wave, 0, f, 0, len + 75)
             /\ Sounds(wave, len + 75, f, 0, len + 75)
             /\ Sounds(wave, 2 * len + 150, f, 0, len)
  <2>1. /\ 75 \in Nat /\ (len + 75) + (len + 75) = 2 * len + 150
        /\ ((len + 75) + (len + 75)) + len = 3 * len + 150
    BY <1>1
  <2>2. /\ Levels(wave, ((len + 75) + (len + 75)) + len)
        /\ Sounds(wave, 0, f, 0, len + 75) /\ Sounds(wave, len + 75, f, 0, len + 75)
        /\ Sounds(wave, (len + 75) + (len + 75), f, 0, len)
    <3>1. wave = f \o Pauses(75) \o f \o Pauses(75) \o f
      BY <1>2
    <3>2. LET v == f \o Pauses(75) \o f \o Pauses(75) \o f
              m == len + 75
          IN  /\ Levels(v, (m + m) + len)
              /\ Sounds(v, 0, f, 0, m) /\ Sounds(v, m, f, 0, m)
              /\ Sounds(v, m + m, f, 0, len)
      <4>1. ASSUME NEW gap \in Nat
            PROVE LET v == f \o Pauses(gap) \o f \o Pauses(gap) \o f
                      m == len + gap
                  IN  /\ Levels(v, (m + m) + len)
                      /\ Sounds(v, 0, f, 0, m) /\ Sounds(v, m, f, 0, m)
                      /\ Sounds(v, m + m, f, 0, len)
        BY ThreeFrames
      <4>2. QED
        BY <2>1, <4>1
    <3>3. QED
      BY <3>1, <3>2
  <2>3. QED
    BY <2>1, <2>2 DEF Levels
<1>9. QED
  BY <1>1, <1>6 DEF SonyWave

-----------------------------------------------------------------------------
(* The task and the interrupt. *)

IrTypeOK ==
  /\ irtask \in [ state : {"IDLE", "START", "TRANSMIT"}, command : IrCommand \cup {NoIrCommand},
                  queue : Seq(IrCommand), installed : SUBSET IrProtocol, timers : BOOLEAN,
                  asked : Nat, gone : Nat ]
  /\ irsend \in [ active : [IrProtocol -> BOOLEAN], requested : BOOLEAN, buffer : Seq(BOOLEAN),
                  read : Nat, words : Nat, cycle : Nat, out : BOOLEAN, ticks : Nat ]

\* How far into its buffer a protocol is when a command is k intervals into a
\* word that starts at place from of its frame and has so many intervals.
InWord(read, length, from, k, intervals) ==
  /\ k \in 0 .. intervals - 1
  /\ read = IF from + k <= length THEN from + k ELSE length

JvcAt(words, read, cycle, ticks, length) ==
  \/ /\ words = 0 /\ cycle = 112 - ticks
     /\ InWord(read, length, 0, ticks, 112)
  \/ /\ words = 1 /\ cycle = 193 - ticks
     /\ InWord(read, length, 24, ticks - 112, 81)
  \/ /\ words = 2 /\ cycle = 274 - ticks
     /\ InWord(read, length, 24, ticks - 193, 81)
  \/ /\ words = 3 /\ cycle = 355 - ticks
     /\ InWord(read, length, 24, ticks - 274, length - 23)

SonyWord(read, cycle, length, k) ==
  /\ InWord(read, length, 0, k, length + 75)
  /\ cycle = IF k <= length THEN 75 ELSE 75 - (k - length)

SonyAt(words, read, cycle, ticks, length) ==
  \/ words = 0 /\ SonyWord(read, cycle, length, ticks)
  \/ words = 1 /\ SonyWord(read, cycle, length, ticks - (length + 75))
  \/ /\ words = 2 /\ SonyWord(read, cycle, length, ticks - (2 * length + 150))
     /\ ticks - (2 * length + 150) <= length

PlainAt(words, read, ticks, length) == words = 0 /\ read = ticks /\ ticks <= length

OnlyActive(p) == [q \in IrProtocol |-> q = p]
NoneActive == [q \in IrProtocol |-> FALSE]

\* A command is under way: the counters are where the number of interrupts
\* since its start says, and so is the level.
Sending(s, c) ==
  LET length == Len(Frame[c]) IN
    /\ s.buffer = Frame[c] /\ s.requested /\ s.active = OnlyActive(c.type)
    /\ s.out = IF s.ticks = 0 THEN FALSE ELSE Waveform[c][s.ticks]
    /\ CASE c.type = "jvc" -> JvcAt(s.words, s.read, s.cycle, s.ticks, length)
         [] c.type = "sony" -> SonyAt(s.words, s.read, s.cycle, s.ticks, length)
         [] OTHER -> PlainAt(s.words, s.read, s.ticks, length)

Silent(s) == s.active = NoneActive /\ ~s.requested /\ ~s.out

\* All of it was sent.
Done(s, c) ==
  /\ Silent(s)
  /\ s.ticks = Len(Waveform[c]) + 1
  /\ s.read = Len(s.buffer) /\ s.words = Repeats[c.type]

IrInv ==
  /\ IrTypeOK
  /\ irtask.timers = (irtask.state = "TRANSMIT")
  /\ irtask.state # "IDLE" => irtask.command \in IrCommand
  /\ IF irtask.state = "TRANSMIT"
     THEN Sending(irsend, irtask.command) \/ Done(irsend, irtask.command)
     ELSE Silent(irsend)

SendState ==
  [ active : [IrProtocol -> BOOLEAN], requested : BOOLEAN, buffer : Seq(BOOLEAN),
    read : Nat, words : Nat, cycle : Nat, out : BOOLEAN, ticks : Nat ]

\* The counters wrap only below zero.
LEMMA CountsDown ==
  ASSUME NEW n \in Nat, n > 0, n <= 255
  PROVE  /\ (n + 256 - 1) % 256 = n - 1 /\ (n + 65536 - 1) % 65536 = n - 1
OBVIOUS

\* What an interrupt leaves as it was, but for the end of a command.
Unchanged(s, t) ==
  t.active = s.active /\ t.requested = s.requested /\ t.buffer = s.buffer

LEMMA NextIntervalFields ==
  ASSUME NEW s \in SendState, NEW p \in IrProtocol, s.read < Len(s.buffer),
         NEW down \in Nat, down = (s.cycle + Width[p] - 1) % Width[p]
  PROVE  LET u == NextInterval(s, p) IN
           /\ u \in SendState /\ Unchanged(s, u)
           /\ u.read = s.read + 1 /\ u.words = s.words /\ u.out = s.buffer[s.read + 1]
           /\ u.cycle = IF p = "jvc" THEN down ELSE s.cycle
           /\ u.ticks = s.ticks
<1> DEFINE v == IF p = "jvc" THEN CountedDown(s, p) ELSE s
           u == NextInterval(s, p)
<1>1. /\ v \in SendState /\ v.active = s.active /\ v.requested = s.requested /\ v.buffer = s.buffer
      /\ v.read = s.read /\ v.words = s.words /\ v.ticks = s.ticks
      /\ v.cycle = IF p = "jvc" THEN down ELSE s.cycle
  BY DEF CountedDown, SendState
<1>2. s.buffer[s.read + 1] \in BOOLEAN /\ s.read + 1 \in Nat
  BY DEF SendState
<1>3. u = [v EXCEPT !.out = s.buffer[s.read + 1], !.read = v.read + 1]
  BY DEF NextInterval
<1> HIDE DEF u, v
<1>4. u \in SendState
  BY <1>1, <1>2, <1>3 DEF SendState
<1>5. /\ u.active = v.active /\ u.requested = v.requested /\ u.buffer = v.buffer
      /\ u.words = v.words /\ u.cycle = v.cycle /\ u.ticks = v.ticks
      /\ u.out = s.buffer[s.read + 1] /\ u.read = v.read + 1
  BY <1>1, <1>3 DEF SendState
<1>6. QED
  BY <1>1, <1>4, <1>5 DEF u, Unchanged

LEMMA BetweenFields ==
  ASSUME NEW s \in SendState, NEW p \in IrProtocol,
         NEW down \in Nat, down = (s.cycle + Width[p] - 1) % Width[p]
  PROVE  LET u == BetweenFrames(s, p) IN
           /\ u \in SendState /\ Unchanged(s, u)
           /\ u.read = IF down = 0 THEN RestartAt[p] ELSE s.read
           /\ u.words = IF down = 0 THEN s.words + 1 ELSE s.words
           /\ u.cycle = IF down = 0 THEN NextCycle[p] ELSE down
           /\ ~u.out /\ u.ticks = s.ticks
<1> DEFINE v == CountedDown(s, p)
           x == [v EXCEPT !.out = FALSE]
           u == BetweenFrames(s, p)
<1>1. /\ v \in SendState /\ v.active = s.active /\ v.requested = s.requested /\ v.buffer = s.buffer
      /\ v.read = s.read /\ v.words = s.words /\ v.ticks = s.ticks /\ v.cycle = down
  BY DEF CountedDown, SendState
<1> HIDE DEF v
<1>2. /\ x \in SendState /\ x.active = s.active /\ x.requested = s.requested /\ x.buffer = s.buffer
      /\ x.read = s.read /\ x.words = s.words /\ x.ticks = s.ticks /\ x.cycle = down /\ x.out = FALSE
  BY <1>1 DEF SendState
<1> HIDE DEF x
<1>3. u = IF x.cycle = 0 THEN Restarted(x, p) ELSE x
  BY DEF BetweenFrames, v, x
<1> HIDE DEF u
<1>4. RestartAt[p] \in Nat /\ NextCycle[p] \in Nat
  BY DEF RestartAt, NextCycle, IrProtocol
<1>5. CASE down = 0
  <2>1. u = [x EXCEPT !.read = RestartAt[p], !.words = x.words + 1, !.cycle = NextCycle[p]]
    BY <1>2, <1>3, <1>5 DEF Restarted
  <2>2. u \in SendState
    <3>1. x.words + 1 \in Nat
      BY <1>2 DEF SendState
    <3>2. QED
      BY <1>2, <1>4, <2>1, <3>1 DEF SendState
  <2>3. /\ u.active = x.active /\ u.requested = x.requested /\ u.buffer = x.buffer
        /\ u.read = RestartAt[p] /\ u.words = x.words + 1 /\ u.cycle = NextCycle[p]
        /\ u.out = x.out /\ u.ticks = x.ticks
    BY <1>2, <2>1 DEF SendState
  <2>4. QED
    BY <1>2, <1>5, <2>2, <2>3 DEF Unchanged, u
<1>6. CASE down # 0
  <2>1. u = x
    BY <1>2, <1>3, <1>6
  <2>2. QED
    BY <1>2, <1>6, <2>1 DEF Unchanged, u
<1>7. QED
  BY <1>5, <1>6

\* An interrupt while a command is sent.
Ticked(s, p) == [TransmitIrq(s, p) EXCEPT !.ticks = IF s.active[p] THEN @ + 1 ELSE @]

Interrupted(s, p, down, t) ==
  /\ t \in SendState /\ t.ticks = s.ticks + 1
  /\ s.read < Len(s.buffer) =>
       /\ Unchanged(s, t)
       /\ t.read = s.read + 1 /\ t.words = s.words /\ t.out = s.buffer[s.read + 1]
       /\ t.cycle = IF p = "jvc" THEN down ELSE s.cycle
  /\ ~(s.read < Len(s.buffer)) /\ s.words < Repeats[p] =>
       /\ Unchanged(s, t)
       /\ t.read = IF down = 0 THEN RestartAt[p] ELSE s.read
       /\ t.words = IF down = 0 THEN s.words + 1 ELSE s.words
       /\ t.cycle = IF down = 0 THEN NextCycle[p] ELSE down
       /\ ~t.out
  /\ ~(s.read < Len(s.buffer)) /\ ~(s.words < Repeats[p]) =>
       /\ t.active = [s.active EXCEPT ![p] = FALSE] /\ ~t.requested /\ ~t.out
       /\ t.buffer = s.buffer /\ t.read = s.read /\ t.words = s.words

LEMMA TickedFields ==
  ASSUME NEW s \in SendState, NEW p \in IrProtocol, s.active[p],
         NEW down \in Nat, down = (s.cycle + Width[p] - 1) % Width[p],
         NEW t, t = Ticked(s, p)
  PROVE  Interrupted(s, p, down, t)
<1> DEFINE u == TransmitIrq(s, p)
<1>1. /\ s.read < Len(s.buffer) => u = NextInterval(s, p)
      /\ ~(s.read < Len(s.buffer)) /\ s.words < Repeats[p] => u = BetweenFrames(s, p)
      /\ ~(s.read < Len(s.buffer)) /\ ~(s.words < Repeats[p]) =>
           u = [s EXCEPT !.active[p] = FALSE, !.requested = FALSE, !.out = FALSE]
  BY DEF TransmitIrq
<1> HIDE DEF u
<1>2. ASSUME s.read < Len(s.buffer)
      PROVE  /\ u \in SendState /\ Unchanged(s, u)
             /\ u.read = s.read + 1 /\ u.words = s.words /\ u.out = s.buffer[s.read + 1]
             /\ u.cycle = IF p = "jvc" THEN down ELSE s.cycle
             /\ u.ticks = s.ticks
  BY <1>1, <1>2, NextIntervalFields
<1>3. ASSUME ~(s.read < Len(s.buffer)), s.words < Repeats[p]
      PROVE  /\ u \in SendState /\ Unchanged(s, u)
             /\ u.read = IF down = 0 THEN RestartAt[p] ELSE s.read
             /\ u.words = IF down = 0 THEN s.words + 1 ELSE s.words
             /\ u.cycle = IF down = 0 THEN NextCycle[p] ELSE down
             /\ ~u.out /\ u.ticks = s.ticks
  BY <1>1, <1>3, BetweenFields
<1>4. ASSUME ~(s.read < Len(s.buffer)), ~(s.words < Repeats[p])
      PROVE  /\ u \in SendState
             /\ u.active = [s.active EXCEPT ![p] = FALSE] /\ ~u.requested /\ ~u.out
             /\ u.buffer = s.buffer /\ u.read = s.read /\ u.words = s.words /\ u.ticks = s.ticks
  BY <1>1, <1>4 DEF SendState
<1>5. u \in SendState /\ u.ticks = s.ticks
  BY <1>2, <1>3, <1>4
<1>6. t = [u EXCEPT !.ticks = u.ticks + 1]
  BY DEF Ticked, u
<1>7. /\ t \in SendState /\ t.active = u.active /\ t.requested = u.requested /\ t.buffer = u.buffer
      /\ t.read = u.read /\ t.words = u.words /\ t.cycle = u.cycle /\ t.out = u.out
      /\ t.ticks = u.ticks + 1
  <2>1. u.ticks + 1 \in Nat
    BY <1>5 DEF SendState
  <2>2. t \in SendState
    BY <1>5, <1>6, <2>1 DEF SendState
  <2>3. QED
    BY <1>5, <1>6, <2>2 DEF SendState
<1>8. QED
  BY <1>2, <1>3, <1>4, <1>5, <1>7 DEF Interrupted, Unchanged

\* Where the buffer is after the next interval, and what is on air then: the
\* next level of the frame, or nothing when it is over.
GoesOn(i, length, from, k, f, wave, n) ==
  /\ i < length =>
       /\ from + k < length /\ wave[n] = f[i + 1]
       /\ i + 1 = IF from + (k + 1) <= length THEN from + (k + 1) ELSE length
  /\ ~(i < length) =>
       /\ i = length /\ length <= from + k /\ wave[n] = FALSE
       /\ i = IF from + (k + 1) <= length THEN from + (k + 1) ELSE length

\* Within a word and behind it the next level is the one of the waveform.
LEMMA WordGoesOn ==
  ASSUME NEW i \in Nat, NEW k \in Nat, NEW f, NEW length \in Nat, Len(f) = length,
         NEW wave, NEW at \in Nat, NEW from \in Nat, from <= length,
         NEW n \in Nat, Sounds(wave, at, f, from, n),
         NEW m \in Nat, InWord(i, length, from, k, m), k < n
  PROVE  GoesOn(i, length, from, k, f, wave, at + (k + 1))
<1>1. i = IF from + k <= length THEN from + k ELSE length
  BY DEF InWord
<1>2. wave[at + (k + 1)] = IF from + (k + 1) <= length THEN f[from + (k + 1)] ELSE FALSE
  <2>1. k + 1 \in 1 .. n
    OBVIOUS
  <2>2. wave[at + (k + 1)] = LevelIn(f, from + (k + 1))
    BY <2>1 DEF Sounds
  <2>3. QED
    BY <2>2 DEF LevelIn
<1>3. CASE i < length
  <2>1. i = from + k /\ from + (k + 1) <= length /\ from + (k + 1) = i + 1
    BY <1>1, <1>3
  <2>2. wave[at + (k + 1)] = f[i + 1]
    BY <1>2, <2>1
  <2>3. QED
    BY <1>3, <2>1, <2>2 DEF GoesOn
<1>4. CASE ~(i < length)
  <2>1. i = length /\ length <= from + k /\ ~(from + (k + 1) <= length)
    BY <1>1, <1>4
  <2>2. wave[at + (k + 1)] = FALSE
    BY <1>2, <2>1
  <2>3. QED
    BY <1>4, <2>1, <2>2 DEF GoesOn
<1>5. QED
  BY <1>3, <1>4

\* How many intervals are left after an interrupt.
Counted(y, down) == y > 0 /\ y <= 255 => down = y - 1

\* What an interrupt does to the counters, the buffer and the level of jvc ...
JvcInFrame(w, i, w2, i2, y2, level, f, length, down) ==
  i < length /\ i2 = i + 1 /\ w2 = w /\ level = f[i + 1] /\ y2 = down
JvcBetween(w, i, w2, i2, y2, level, length, down) ==
  /\ ~(i < length) /\ w < 3 /\ level = FALSE
  /\ i2 = (IF down = 0 THEN 24 ELSE i)
  /\ w2 = (IF down = 0 THEN w + 1 ELSE w)
  /\ y2 = (IF down = 0 THEN 81 ELSE down)

\* ... and what follows from it.
JvcTick(w, i, w2, i2, y2, x2, level, f, wave, length, down) ==
  /\ \/ JvcInFrame(w, i, w2, i2, y2, level, f, length, down)
     \/ JvcBetween(w, i, w2, i2, y2, level, length, down)
     => JvcAt(w2, i2, y2, x2, length) /\ level = wave[x2]
  /\ ~(i < length) /\ ~(w < 3) => i = length /\ w = 3 /\ x2 = Len(wave) + 1

LEMMA JvcGoesOn ==
  ASSUME NEW w \in Nat, NEW i \in Nat, NEW y \in Nat, NEW x \in Nat,
         NEW w2 \in Nat, NEW i2 \in Nat, NEW y2 \in Nat, NEW x2 \in Nat, NEW level,
         NEW f, NEW length \in Nat, NEW wave, JvcWave(f, wave, length),
         JvcAt(w, i, y, x, length), x2 = x + 1, NEW down \in Nat, Counted(y, down)
  PROVE  JvcTick(w, i, w2, i2, y2, x2, level, f, wave, length, down)
<1> DEFINE InFrame == JvcInFrame(w, i, w2, i2, y2, level, f, length, down)
           Between == JvcBetween(w, i, w2, i2, y2, level, length, down)
           Behind == ~(i < length) /\ ~(w < 3)
<1>1. /\ Len(f) = length /\ 24 < length /\ length < 105 /\ Len(wave) = 250 + length
      /\ Sounds(wave, 0, f, 0, 112) /\ Sounds(wave, 112, f, 24, 81)
      /\ Sounds(wave, 193, f, 24, 81) /\ Sounds(wave, 274, f, 24, length - 24)
      /\ y > 0 /\ y <= 255 => down = y - 1
  BY DEF JvcWave, Counted
<1> USE <1>1
<1>2. ASSUME NEW at \in Nat, NEW from \in Nat, from <= length, NEW n \in Nat, n <= 112,
             Sounds(wave, at, f, from, n), InWord(i, length, from, x - at, n),
             NEW next \in Nat, next = at + n, y = next - x, w < 3,
             length < from + n
      PROVE  /\ InFrame => /\ level = wave[x2] /\ InWord(i2, length, from, x2 - at, n)
                           /\ y2 = next - x2 /\ w2 = w
             /\ Between => /\ level = wave[x2]
                           /\ \/ /\ InWord(i2, length, from, x2 - at, n)
                                 /\ y2 = next - x2 /\ w2 = w
                              \/ x2 = next /\ i2 = 24 /\ w2 = w + 1 /\ y2 = 81
             /\ ~Behind
  <2>1. PICK k \in Nat : k = x - at /\ k < n
    BY <1>2 DEF InWord
  <2>2. y > 0 /\ y <= 255 /\ at + (k + 1) = x2 /\ x2 - at = k + 1 /\ x = at + k
    BY <1>2, <2>1
  <2>3. down = y - 1 /\ down = next - x2
    BY <1>2, <2>2
  <2>4. InWord(i, length, from, k, n)
    BY <1>2, <2>1
  <2>5. GoesOn(i, length, from, k, f, wave, x2)
    <3>1. GoesOn(i, length, from, k, f, wave, at + (k + 1))
      BY <1>2, <2>1, <2>4, WordGoesOn
    <3>2. QED
      BY <2>2, <3>1
  <2>6. ASSUME i2 = (IF from + (k + 1) <= length THEN from + (k + 1) ELSE length), k + 1 < n
        PROVE  InWord(i2, length, from, x2 - at, n)
    <3>1. k + 1 \in 0 .. n - 1
      BY <2>6
    <3>2. QED
      BY <2>2, <2>6, <3>1 DEF InWord
  <2>7. ASSUME InFrame
        PROVE  /\ level = wave[x2] /\ InWord(i2, length, from, x2 - at, n)
               /\ y2 = next - x2 /\ w2 = w
    <3>1. k + 1 < n
      <4>1. i < length
        BY <2>7 DEF JvcInFrame
      <4>2. from + k < length
        BY <2>5, <4>1 DEF GoesOn
      <4>3. QED
        BY <1>2, <4>2
    <3>2. wave[x2] = f[i + 1]
      BY <2>5, <2>7 DEF JvcInFrame, JvcBetween, GoesOn
    <3>3. QED
      BY <2>3, <2>5, <2>6, <2>7, <3>1, <3>2 DEF JvcInFrame, JvcBetween, GoesOn
  <2>8. ASSUME Between
        PROVE  /\ level = wave[x2]
               /\ \/ /\ InWord(i2, length, from, x2 - at, n)
                     /\ y2 = next - x2 /\ w2 = w
                  \/ x2 = next /\ i2 = 24 /\ w2 = w + 1 /\ y2 = 81
    <3>1. level = wave[x2]
      BY <2>5, <2>8 DEF JvcInFrame, JvcBetween, GoesOn
    <3>2. CASE down = 0
      <4>1. x2 = next
        BY <2>3, <3>2
      <4>2. QED
        BY <2>8, <3>1, <3>2, <4>1 DEF JvcInFrame, JvcBetween
    <3>3. CASE down # 0
      <4>1. k + 1 < n
        BY <1>2, <2>2, <2>3, <3>3
      <4>2. InWord(i2, length, from, x2 - at, n)
        BY <2>5, <2>6, <2>8, <3>3, <4>1 DEF JvcInFrame, JvcBetween, GoesOn
      <4>3. QED
        BY <2>3, <2>8, <3>1, <3>3, <4>2 DEF JvcInFrame, JvcBetween
    <3>4. QED
      BY <3>2, <3>3
  <2>9. QED
    BY <1>2, <2>7, <2>8
<1>3. /\ 0 \in Nat /\ 112 \in Nat /\ 193 \in Nat /\ 274 \in Nat /\ 24 \in Nat /\ 81 \in Nat
      /\ 0 <= length /\ 24 <= length /\ 112 <= 112 /\ 81 <= 112
      /\ 112 = 0 + 112 /\ 193 = 112 + 81 /\ 274 = 193 + 81
      /\ length < 0 + 112 /\ length < 24 + 81
  OBVIOUS
<1>4. ASSUME NEW next \in Nat, x2 = next, i2 = 24
      PROVE  /\ InWord(i2, length, 24, x2 - next, 81)
             /\ InWord(i2, length, 24, x2 - next, length - 23)
  <2>1. x2 - next = 0 /\ 0 \in 0 .. 81 - 1 /\ 0 \in 0 .. (length - 23) - 1 /\ 24 + 0 = 24
    BY <1>4
  <2>2. QED
    BY <1>4, <2>1 DEF InWord
<1>5. CASE w = 0
  <2>1. y = 112 - x /\ InWord(i, length, 0, x, 112) /\ x - 0 = x
        /\ x2 - 0 = x2
    BY <1>5 DEF JvcAt
  <2>2. InWord(i, length, 0, x - 0, 112)
    BY <2>1
  <2>3. /\ InFrame => /\ level = wave[x2] /\ InWord(i2, length, 0, x2 - 0, 112)
                      /\ y2 = 112 - x2 /\ w2 = w
        /\ Between => /\ level = wave[x2]
                      /\ \/ /\ InWord(i2, length, 0, x2 - 0, 112)
                            /\ y2 = 112 - x2 /\ w2 = w
                         \/ x2 = 112 /\ i2 = 24 /\ w2 = w + 1 /\ y2 = 81
        /\ ~Behind
    BY <1>2, <1>3, <1>5, <2>1, <2>2
  <2>4. InFrame => JvcAt(w2, i2, y2, x2, length) /\ level = wave[x2]
    BY <1>5, <2>1, <2>3 DEF JvcAt
  <2>5. ASSUME Between PROVE JvcAt(w2, i2, y2, x2, length) /\ level = wave[x2]
    <3>1. CASE InWord(i2, length, 0, x2 - 0, 112) /\ y2 = 112 - x2 /\ w2 = w
      BY <1>5, <2>1, <2>3, <2>5, <3>1 DEF JvcAt
    <3>2. CASE x2 = 112 /\ i2 = 24 /\ w2 = w + 1 /\ y2 = 81
      <4>1. w2 = 1 /\ y2 = 193 - x2
        BY <1>5, <3>2
      <4>2. InWord(i2, length, 24, x2 - 112, 81)
        BY <1>3, <1>4, <3>2
      <4>3. QED
        BY <2>3, <2>5, <4>1, <4>2 DEF JvcAt
    <3>3. QED
      BY <2>3, <2>5, <3>1, <3>2
  <2>6. QED
    BY <2>3, <2>4, <2>5 DEF JvcTick
<1>6. CASE w = 1
  <2>1. y = 193 - x /\ InWord(i, length, 24, x - 112, 81)
    BY <1>6 DEF JvcAt
  <2>2. /\ InFrame => /\ level = wave[x2] /\ InWord(i2, length, 24, x2 - 112, 81)
                      /\ y2 = 193 - x2 /\ w2 = w
        /\ Between => /\ level = wave[x2]
                      /\ \/ /\ InWord(i2, length, 24, x2 - 112, 81)
                            /\ y2 = 193 - x2 /\ w2 = w
                         \/ x2 = 193 /\ i2 = 24 /\ w2 = w + 1 /\ y2 = 81
        /\ ~Behind
    BY <1>2, <1>3, <1>6, <2>1
  <2>3. InFrame => JvcAt(w2, i2, y2, x2, length) /\ level = wave[x2]
    BY <1>6, <2>2 DEF JvcAt
  <2>4. ASSUME Between PROVE JvcAt(w2, i2, y2, x2, length) /\ level = wave[x2]
    <3>1. CASE InWord(i2, length, 24, x2 - 112, 81) /\ y2 = 193 - x2 /\ w2 = w
      BY <1>6, <2>1, <2>2, <2>4, <3>1 DEF JvcAt
    <3>2. CASE x2 = 193 /\ i2 = 24 /\ w2 = w + 1 /\ y2 = 81
      <4>1. w2 = 2 /\ y2 = 274 - x2
        BY <1>6, <3>2
      <4>2. InWord(i2, length, 24, x2 - 193, 81)
        BY <1>3, <1>4, <3>2
      <4>3. QED
        BY <2>2, <2>4, <4>1, <4>2 DEF JvcAt
    <3>3. QED
      BY <2>2, <2>4, <3>1, <3>2
  <2>5. QED
    BY <2>2, <2>3, <2>4 DEF JvcTick
<1>7. CASE w = 2
  <2>1. y = 274 - x /\ InWord(i, length, 24, x - 193, 81)
    BY <1>7 DEF JvcAt
  <2>2. /\ InFrame => /\ level = wave[x2] /\ InWord(i2, length, 24, x2 - 193, 81)
                      /\ y2 = 274 - x2 /\ w2 = w
        /\ Between => /\ level = wave[x2]
                      /\ \/ /\ InWord(i2, length, 24, x2 - 193, 81)
                            /\ y2 = 274 - x2 /\ w2 = w
                         \/ x2 = 274 /\ i2 = 24 /\ w2 = w + 1 /\ y2 = 81
        /\ ~Behind
    BY <1>2, <1>3, <1>7, <2>1
  <2>3. InFrame => JvcAt(w2, i2, y2, x2, length) /\ level = wave[x2]
    BY <1>7, <2>2 DEF JvcAt
  <2>4. ASSUME Between PROVE JvcAt(w2, i2, y2, x2, length) /\ level = wave[x2]
    <3>1. CASE InWord(i2, length, 24, x2 - 193, 81) /\ y2 = 274 - x2 /\ w2 = w
      BY <1>7, <2>1, <2>2, <2>4, <3>1 DEF JvcAt
    <3>2. CASE x2 = 274 /\ i2 = 24 /\ w2 = w + 1 /\ y2 = 81
      <4>1. w2 = 3 /\ y2 = 355 - x2
        BY <1>7, <3>2
      <4>2. InWord(i2, length, 24, x2 - 274, length - 23)
        BY <1>3, <1>4, <3>2
      <4>3. QED
        BY <2>2, <2>4, <4>1, <4>2 DEF JvcAt
    <3>3. QED
      BY <2>2, <2>4, <3>1, <3>2
  <2>5. QED
    BY <2>2, <2>3, <2>4 DEF JvcTick
<1>8. CASE w = 3
  <2>1. /\ y = 355 - x /\ InWord(i, length, 24, x - 274, length - 23)
    BY <1>8 DEF JvcAt
  <2>2. PICK k \in Nat : k = x - 274 /\ k <= length - 24
    BY <2>1 DEF InWord
  <2>3. /\ InWord(i, length, 24, k, length - 23) /\ length - 23 \in Nat /\ length - 24 \in Nat
        /\ x2 - 274 = k + 1 /\ 274 + (k + 1) = x2 /\ y > 0 /\ y <= 255
    BY <2>1, <2>2
  <2>4. down = 355 - x2 /\ i = 24 + k
    <3>1. i = IF 24 + k <= length THEN 24 + k ELSE length
      BY <2>3 DEF InWord
    <3>2. QED
      BY <2>1, <2>2, <2>3, <3>1
  <2>5. ASSUME InFrame PROVE JvcAt(w2, i2, y2, x2, length) /\ level = wave[x2]
    <3>1. k < length - 24
      BY <2>4, <2>5 DEF JvcInFrame, JvcBetween
    <3>2. /\ wave[x2] = f[i + 1]
          /\ i + 1 = IF 24 + (k + 1) <= length THEN 24 + (k + 1) ELSE length
      <4>1. GoesOn(i, length, 24, k, f, wave, 274 + (k + 1))
        BY <1>3, <2>3, <3>1, WordGoesOn
      <4>2. GoesOn(i, length, 24, k, f, wave, x2)
        BY <2>3, <4>1
      <4>3. QED
        BY <2>5, <4>2 DEF JvcInFrame, JvcBetween, GoesOn
    <3>3. k + 1 \in 0 .. (length - 23) - 1
      BY <2>2, <3>1
    <3>4. InWord(i2, length, 24, x2 - 274, length - 23)
      BY <2>3, <2>5, <3>2, <3>3 DEF JvcInFrame, JvcBetween, InWord
    <3>5. QED
      BY <1>8, <2>3, <2>4, <2>5, <3>2, <3>4 DEF JvcInFrame, JvcBetween, JvcAt
  <2>6. ASSUME Behind PROVE i = length /\ x2 = Len(wave) + 1
    BY <2>2, <2>3, <2>4, <2>6 DEF JvcInFrame, JvcBetween
  <2>7. ~Between
    BY <1>8 DEF JvcInFrame, JvcBetween
  <2>8. QED
    BY <1>8, <2>5, <2>6, <2>7 DEF JvcTick
<1>9. QED
  BY <1>5, <1>6, <1>7, <1>8 DEF JvcAt

\* The same of sony, which counts the intervals behind a frame only.
SonyInFrame(w, i, y, w2, i2, y2, level, f, length) ==
  i < length /\ i2 = i + 1 /\ w2 = w /\ level = f[i + 1] /\ y2 = y
SonyBetween(w, i, w2, i2, y2, level, length, down) ==
  /\ ~(i < length) /\ w < 2 /\ level = FALSE
  /\ i2 = (IF down = 0 THEN 0 ELSE i)
  /\ w2 = (IF down = 0 THEN w + 1 ELSE w)
  /\ y2 = (IF down = 0 THEN 75 ELSE down)

SonyTick(w, i, y, w2, i2, y2, x2, level, f, wave, length, down) ==
  /\ \/ SonyInFrame(w, i, y, w2, i2, y2, level, f, length)
     \/ SonyBetween(w, i, w2, i2, y2, level, length, down)
     => SonyAt(w2, i2, y2, x2, length) /\ level = wave[x2]
  /\ ~(i < length) /\ ~(w < 2) => i = length /\ w = 2 /\ x2 = Len(wave) + 1

LEMMA SonyGoesOn ==
  ASSUME NEW w \in Nat, NEW i \in Nat, NEW y \in Nat, NEW x \in Nat,
         NEW w2 \in Nat, NEW i2 \in Nat, NEW y2 \in Nat, NEW x2 \in Nat, NEW level,
         NEW f, NEW length \in Nat, NEW wave, SonyWave(f, wave, length),
         SonyAt(w, i, y, x, length), x2 = x + 1, NEW down \in Nat, Counted(y, down)
  PROVE  SonyTick(w, i, y, w2, i2, y2, x2, level, f, wave, length, down)
<1> DEFINE InFrame == SonyInFrame(w, i, y, w2, i2, y2, level, f, length)
           Between == SonyBetween(w, i, w2, i2, y2, level, length, down)
           Behind == ~(i < length) /\ ~(w < 2)
<1>0. /\ Len(f) = length /\ Len(wave) = 3 * length + 150
      /\ Sounds(wave, 0, f, 0, length + 75) /\ Sounds(wave, length + 75, f, 0, length + 75)
      /\ Sounds(wave, 2 * length + 150, f, 0, length)
      /\ y > 0 /\ y <= 255 => down = y - 1
  BY DEF SonyWave, Counted
<1> USE <1>0
<1>1. 0 \in Nat /\ 0 <= length /\ length + 75 \in Nat /\ 2 * length + 150 \in Nat
  OBVIOUS
<1>2. ASSUME NEW at \in Nat, Sounds(wave, at, f, 0, length + 75),
             SonyWord(i, y, length, x - at), w < 2
      PROVE  /\ InFrame => /\ level = wave[x2] /\ SonyWord(i2, y2, length, x2 - at) /\ w2 = w
             /\ Between => /\ level = wave[x2]
                           /\ \/ SonyWord(i2, y2, length, x2 - at) /\ w2 = w
                              \/ /\ x2 = at + (length + 75) /\ i2 = 0 /\ w2 = w + 1 /\ y2 = 75
             /\ ~Behind
  <2>1. PICK k \in Nat : k = x - at /\ k < length + 75
    BY <1>2 DEF SonyWord, InWord
  <2>2. /\ InWord(i, length, 0, k, length + 75) /\ at + (k + 1) = x2 /\ x2 - at = k + 1
        /\ y = IF k <= length THEN 75 ELSE 75 - (k - length)
    BY <1>2, <2>1 DEF SonyWord
  <2>3. GoesOn(i, length, 0, k, f, wave, x2)
    <3>1. GoesOn(i, length, 0, k, f, wave, at + (k + 1))
      BY <1>1, <1>2, <2>1, <2>2, WordGoesOn
    <3>2. QED
      BY <2>2, <3>1
  <2>4. ASSUME i2 = (IF 0 + (k + 1) <= length THEN 0 + (k + 1) ELSE length), k + 1 < length + 75,
               y2 = (IF k + 1 <= length THEN 75 ELSE 75 - ((k + 1) - length))
        PROVE  SonyWord(i2, y2, length, x2 - at)
    <3>1. k + 1 \in 0 .. (length + 75) - 1
      BY <2>4
    <3>2. QED
      BY <2>2, <2>4, <3>1 DEF SonyWord, InWord
  <2>5. ASSUME InFrame
        PROVE  level = wave[x2] /\ SonyWord(i2, y2, length, x2 - at) /\ w2 = w
    <3>1. /\ wave[x2] = f[i + 1]
          /\ i + 1 = IF 0 + (k + 1) <= length THEN 0 + (k + 1) ELSE length
      BY <2>3, <2>5 DEF SonyInFrame, SonyBetween, GoesOn
    <3>2. k + 1 < length + 75 /\ k + 1 <= length /\ k <= length
      <4>1. i < length
        BY <2>5 DEF SonyInFrame
      <4>2. 0 + k < length
        BY <2>3, <4>1 DEF GoesOn
      <4>3. QED
        BY <4>2
    <3>3. y = 75
      BY <2>2, <3>2
    <3>4. QED
      BY <2>4, <2>5, <3>1, <3>2, <3>3 DEF SonyInFrame, SonyBetween
  <2>6. ASSUME Between
        PROVE  /\ level = wave[x2]
               /\ \/ SonyWord(i2, y2, length, x2 - at) /\ w2 = w
                  \/ /\ x2 = at + (length + 75) /\ i2 = 0 /\ w2 = w + 1 /\ y2 = 75
    <3>1. /\ wave[x2] = FALSE /\ length <= k
          /\ i = IF 0 + (k + 1) <= length THEN 0 + (k + 1) ELSE length
      BY <2>3, <2>6 DEF SonyInFrame, SonyBetween, GoesOn
    <3>2. y = 75 - (k - length) /\ down = y - 1
      BY <2>1, <2>2, <3>1
    <3>3. CASE down = 0
      <4>1. x2 = at + (length + 75)
        BY <2>2, <3>2, <3>3
      <4>2. QED
        BY <2>6, <3>1, <3>3, <4>1 DEF SonyInFrame, SonyBetween
    <3>4. CASE down # 0
      <4>1. k + 1 < length + 75 /\ down = 75 - ((k + 1) - length) /\ ~(k + 1 <= length)
        BY <2>1, <3>1, <3>2, <3>4
      <4>2. SonyWord(i2, y2, length, x2 - at)
        BY <2>4, <2>6, <3>1, <3>4, <4>1 DEF SonyInFrame, SonyBetween
      <4>3. QED
        BY <2>6, <3>1, <3>4, <4>2 DEF SonyInFrame, SonyBetween
    <3>5. QED
      BY <3>3, <3>4
  <2>7. QED
    BY <1>2, <2>5, <2>6
<1>3. ASSUME NEW at \in Nat, x2 = at, i2 = 0, y2 = 75 PROVE SonyWord(i2, y2, length, x2 - at)
  <2>1. x2 - at = 0 /\ 0 \in 0 .. (length + 75) - 1 /\ 0 + 0 = 0
    BY <1>3
  <2>2. QED
    BY <1>3, <2>1 DEF SonyWord, InWord
<1>4. CASE w = 0
  <2>1. SonyWord(i, y, length, x - 0) /\ x2 - 0 = x2 /\ 0 + (length + 75) = length + 75
    <3>1. x - 0 = x
      OBVIOUS
    <3>2. QED
      BY <1>4, <3>1 DEF SonyAt
  <2>2. /\ InFrame => /\ level = wave[x2] /\ SonyWord(i2, y2, length, x2 - 0) /\ w2 = w
        /\ Between => /\ level = wave[x2]
                      /\ \/ SonyWord(i2, y2, length, x2 - 0) /\ w2 = w
                         \/ x2 = 0 + (length + 75) /\ i2 = 0 /\ w2 = w + 1 /\ y2 = 75
        /\ ~Behind
    BY <1>1, <1>2, <1>4, <2>1
  <2>3. ASSUME InFrame PROVE SonyAt(w2, i2, y2, x2, length) /\ level = wave[x2]
    BY <1>4, <2>1, <2>2, <2>3 DEF SonyAt
  <2>4. ASSUME Between PROVE SonyAt(w2, i2, y2, x2, length) /\ level = wave[x2]
    BY <1>1, <1>3, <1>4, <2>1, <2>2, <2>4 DEF SonyAt
  <2>5. QED
    BY <2>2, <2>3, <2>4 DEF SonyTick
<1>5. CASE w = 1
  <2>1. SonyWord(i, y, length, x - (length + 75)) /\ (length + 75) + (length + 75) = 2 * length + 150
    BY <1>5 DEF SonyAt
  <2>2. /\ InFrame => /\ level = wave[x2] /\ SonyWord(i2, y2, length, x2 - (length + 75)) /\ w2 = w
        /\ Between => /\ level = wave[x2]
                      /\ \/ SonyWord(i2, y2, length, x2 - (length + 75)) /\ w2 = w
                         \/ /\ x2 = (length + 75) + (length + 75)
                            /\ i2 = 0 /\ w2 = w + 1 /\ y2 = 75
        /\ ~Behind
    BY <1>1, <1>2, <1>5, <2>1
  <2>3. ASSUME InFrame PROVE SonyAt(w2, i2, y2, x2, length) /\ level = wave[x2]
    BY <1>5, <2>2, <2>3 DEF SonyAt
  <2>4. ASSUME Between PROVE SonyAt(w2, i2, y2, x2, length) /\ level = wave[x2]
    <3>1. CASE SonyWord(i2, y2, length, x2 - (length + 75)) /\ w2 = w
      BY <1>5, <2>2, <2>4, <3>1 DEF SonyAt
    <3>2. CASE x2 = (length + 75) + (length + 75) /\ i2 = 0 /\ w2 = w + 1 /\ y2 = 75
      <4>1. x2 = 2 * length + 150 /\ x2 - (2 * length + 150) <= length /\ w2 = 2
        BY <1>5, <2>1, <3>2
      <4>2. SonyWord(i2, y2, length, x2 - (2 * length + 150))
        BY <1>1, <1>3, <3>2, <4>1
      <4>3. QED
        BY <2>2, <2>4, <4>1, <4>2 DEF SonyAt
    <3>3. QED
      BY <2>2, <2>4, <3>1, <3>2
  <2>5. QED
    BY <2>2, <2>3, <2>4 DEF SonyTick
<1>6. CASE w = 2
  <2>1. SonyWord(i, y, length, x - (2 * length + 150)) /\ x - (2 * length + 150) <= length
    BY <1>6 DEF SonyAt
  <2>2. PICK k \in Nat : k = x - (2 * length + 150) /\ k <= length
    BY <2>1 DEF SonyWord, InWord
  <2>3. /\ InWord(i, length, 0, k, length + 75) /\ y = 75
        /\ x2 - (2 * length + 150) = k + 1 /\ (2 * length + 150) + (k + 1) = x2
    BY <2>1, <2>2 DEF SonyWord
  <2>4. i = k
    BY <2>2, <2>3 DEF InWord
  <2>5. ASSUME InFrame PROVE SonyAt(w2, i2, y2, x2, length) /\ level = wave[x2]
    <3>1. k < length
      BY <2>4, <2>5 DEF SonyInFrame, SonyBetween
    <3>2. /\ wave[x2] = f[i + 1]
          /\ i + 1 = IF 0 + (k + 1) <= length THEN 0 + (k + 1) ELSE length
      <4>1. GoesOn(i, length, 0, k, f, wave, (2 * length + 150) + (k + 1))
        BY <1>1, <2>3, <3>1, WordGoesOn
      <4>2. GoesOn(i, length, 0, k, f, wave, x2)
        BY <2>3, <4>1
      <4>3. QED
        BY <2>5, <4>2 DEF SonyInFrame, SonyBetween, GoesOn
    <3>3. k + 1 \in 0 .. (length + 75) - 1 /\ k + 1 <= length
      BY <3>1
    <3>4. SonyWord(i2, y2, length, x2 - (2 * length + 150))
      BY <2>3, <2>5, <3>2, <3>3 DEF SonyInFrame, SonyBetween, SonyWord, InWord
    <3>5. QED
      BY <1>6, <2>3, <2>5, <3>2, <3>3, <3>4 DEF SonyInFrame, SonyBetween, SonyAt
  <2>6. ASSUME Behind PROVE i = length /\ x2 = Len(wave) + 1
    BY <2>2, <2>3, <2>4, <2>6 DEF SonyInFrame, SonyBetween
  <2>7. ~Between
    BY <1>6 DEF SonyInFrame, SonyBetween
  <2>8. QED
    BY <1>6, <2>5, <2>6, <2>7 DEF SonyTick
<1>7. QED
  BY <1>4, <1>5, <1>6 DEF SonyAt

PlainTick(w, i, w2, i2, x2, level, f, wave, length) ==
  /\ i < length /\ i2 = i + 1 /\ w2 = w /\ level = f[i + 1] =>
       PlainAt(w2, i2, x2, length) /\ level = wave[x2]
  /\ w = 0
  /\ ~(i < length) => i = length /\ x2 = Len(wave) + 1

LEMMA PlainGoesOn ==
  ASSUME NEW w \in Nat, NEW i \in Nat, NEW x \in Nat,
         NEW w2 \in Nat, NEW i2 \in Nat, NEW x2 \in Nat, NEW level,
         NEW f, NEW length \in Nat, NEW wave, PlainWave(f, wave, length),
         PlainAt(w, i, x, length), x2 = x + 1
  PROVE  PlainTick(w, i, w2, i2, x2, level, f, wave, length)
<1>1. w = 0 /\ i = x /\ x <= length
  BY DEF PlainAt
<1>2. ASSUME i < length, i2 = i + 1, w2 = w, level = f[i + 1]
      PROVE  PlainAt(w2, i2, x2, length) /\ level = wave[x2]
  <2>1. x2 \in 1 .. length /\ 0 + x2 = x2 /\ x2 = i + 1
    BY <1>1, <1>2
  <2>2. wave[x2] = LevelIn(f, x2)
    BY <2>1 DEF PlainWave, Sounds
  <2>3. wave[x2] = f[i + 1]
    BY <2>1, <2>2 DEF PlainWave, LevelIn
  <2>4. QED
    BY <1>1, <1>2, <2>1, <2>3 DEF PlainAt
<1>3. ~(i < length) => i = length /\ x2 = Len(wave) + 1
  BY <1>1 DEF PlainWave
<1>4. QED
  BY <1>1, <1>2, <1>3 DEF PlainTick

\* An interrupt takes a command that is being sent to its next interval, with
\* the level of the waveform there, or to its end.
LEMMA SendingGoesOn ==
  ASSUME NEW s \in SendState, NEW c \in IrCommand, Sending(s, c),
         NEW t, t = Ticked(s, c.type)
  PROVE  t \in SendState /\ (Sending(t, c) \/ Done(t, c))
<1>a. Frame[c] \in Seq(BOOLEAN) /\ Len(Frame[c]) \in Nat /\ c.type \in IrProtocol
  BY FramesAreLevels
<1>b. PICK f : f = Frame[c]
  OBVIOUS
<1>c. PICK length \in Nat : length = Len(f)
  BY <1>a, <1>b
<1>d. PICK wave : wave = Waveform[c]
  OBVIOUS
<1>e. PICK p \in IrProtocol : p = c.type
  BY <1>a
<1>1. f \in Seq(BOOLEAN) /\ Levels(f, length) /\ Len(f) = length
  BY <1>a, <1>b, <1>c DEF Levels
<1>2. /\ p \notin {"jvc", "sony"} => PlainWave(f, wave, length)
      /\ p = "jvc" => JvcWave(f, wave, length)
      /\ p = "sony" => SonyWave(f, wave, length)
  <2>1. ASSUME c.type \notin {"jvc", "sony"} PROVE PlainWave(f, wave, length)
    BY <1>1, <1>b, <1>d, <2>1, PlainParts
  <2>2. ASSUME c.type = "jvc" PROVE JvcWave(f, wave, length)
    BY <1>1, <1>b, <1>d, <2>2, JvcParts
  <2>3. ASSUME c.type = "sony" PROVE SonyWave(f, wave, length)
    BY <1>1, <1>b, <1>d, <2>3, SonyParts
  <2>4. QED
    BY <1>e, <2>1, <2>2, <2>3
<1>3. /\ s.buffer = f /\ s.requested /\ s.active = OnlyActive(p)
      /\ p = "jvc" => JvcAt(s.words, s.read, s.cycle, s.ticks, length)
      /\ p = "sony" => SonyAt(s.words, s.read, s.cycle, s.ticks, length)
      /\ p \notin {"jvc", "sony"} => PlainAt(s.words, s.read, s.ticks, length)
  BY <1>b, <1>c, <1>e DEF Sending
<1>4. s.active[p]
  BY <1>3 DEF OnlyActive
<1>5. /\ s.words \in Nat /\ s.read \in Nat /\ s.cycle \in Nat /\ s.ticks \in Nat
  BY DEF SendState
<1>6. PICK down \in Nat :
        /\ down = (s.cycle + Width[p] - 1) % Width[p]
        /\ p = "jvc" \/ p = "sony" => (s.cycle > 0 /\ s.cycle <= 255 => down = s.cycle - 1)
  <2> DEFINE d == (s.cycle + Width[p] - 1) % Width[p]
  <2>1. Width[p] = IF p = "jvc" THEN 256 ELSE IF p = "sony" THEN 65536 ELSE 1
    BY DEF Width, IrProtocol
  <2>2. CASE p = "jvc"
    <3>1. d = (s.cycle + 256 - 1) % 256
      BY <2>1, <2>2
    <3>2. d \in Nat /\ (s.cycle > 0 /\ s.cycle <= 255 => d = s.cycle - 1)
      BY <1>5, <3>1, CountsDown
    <3>3. QED
      BY <3>2
  <2>3. CASE p = "sony"
    <3>1. d = (s.cycle + 65536 - 1) % 65536
      BY <2>1, <2>3
    <3>2. d \in Nat /\ (s.cycle > 0 /\ s.cycle <= 255 => d = s.cycle - 1)
      BY <1>5, <2>3, <3>1, CountsDown
    <3>3. QED
      BY <3>2
  <2>4. CASE p \notin {"jvc", "sony"}
    <3>1. d = (s.cycle + 1 - 1) % 1
      BY <2>1, <2>4
    <3>2. d \in Nat
      BY <1>5, <3>1
    <3>3. QED
      BY <2>4, <3>2
  <2>5. QED
    BY <2>2, <2>3, <2>4
<1>7. /\ t \in SendState /\ t.ticks = s.ticks + 1
      /\ s.read < length =>
           /\ Unchanged(s, t)
           /\ t.read = s.read + 1 /\ t.words = s.words /\ t.out = f[s.read + 1]
           /\ t.cycle = IF p = "jvc" THEN down ELSE s.cycle
      /\ ~(s.read < length) /\ s.words < Repeats[p] =>
           /\ Unchanged(s, t)
           /\ t.read = IF down = 0 THEN RestartAt[p] ELSE s.read
           /\ t.words = IF down = 0 THEN s.words + 1 ELSE s.words
           /\ t.cycle = IF down = 0 THEN NextCycle[p] ELSE down
           /\ ~t.out
      /\ ~(s.read < length) /\ ~(s.words < Repeats[p]) =>
           /\ t.active = [s.active EXCEPT ![p] = FALSE] /\ ~t.requested /\ ~t.out
           /\ t.buffer = s.buffer /\ t.read = s.read /\ t.words = s.words
  <2>1. down = (s.cycle + Width[p] - 1) % Width[p] /\ t = Ticked(s, p)
    BY <1>6, <1>e
  <2>2. s.buffer = f /\ Len(s.buffer) = length
    BY <1>1, <1>3
  <2>3. Interrupted(s, p, down, t)
    BY <1>4, <2>1, TickedFields
  <2>4. QED
    BY <1>3, <2>2, <2>3 DEF Interrupted
<1>8. /\ t.words \in Nat /\ t.read \in Nat /\ t.cycle \in Nat /\ t.ticks \in Nat /\ t.out \in BOOLEAN
      /\ t.ticks # 0
  BY <1>5, <1>7 DEF SendState
<1>9. /\ Repeats[p] = IF p = "jvc" THEN 3 ELSE IF p = "sony" THEN 2 ELSE 0
      /\ RestartAt[p] = IF p = "jvc" THEN 24 ELSE 0
      /\ p = "jvc" => NextCycle[p] = 81
      /\ p = "sony" => NextCycle[p] = 75
  BY DEF Repeats, RestartAt, NextCycle, IrProtocol
<1>10. ASSUME Unchanged(s, t), t.out = wave[t.ticks],
              p = "jvc" => JvcAt(t.words, t.read, t.cycle, t.ticks, length),
              p = "sony" => SonyAt(t.words, t.read, t.cycle, t.ticks, length),
              p \notin {"jvc", "sony"} => PlainAt(t.words, t.read, t.ticks, length)
       PROVE  Sending(t, c)
  BY <1>3, <1>8, <1>10, <1>b, <1>c, <1>d, <1>e DEF Sending, Unchanged
<1>11. ASSUME ~(s.read < length), ~(s.words < Repeats[p]), s.read = length, s.words = Repeats[p],
              t.ticks = Len(wave) + 1
       PROVE  Done(t, c)
  <2>1. t.active = NoneActive
    BY <1>1, <1>3, <1>7, <1>11 DEF OnlyActive, NoneActive
  <2>2. t.read = Len(t.buffer)
    BY <1>1, <1>3, <1>7, <1>11
  <2>3. QED
    BY <1>7, <1>11, <2>1, <2>2, <1>d, <1>e DEF Done, Silent
<1>12. CASE p = "jvc"
  <2>1. JvcWave(f, wave, length) /\ JvcAt(s.words, s.read, s.cycle, s.ticks, length)
    BY <1>2, <1>3, <1>12
  <2>2. Counted(s.cycle, down)
    BY <1>6, <1>12 DEF Counted
  <2>3. JvcTick(s.words, s.read, t.words, t.read, t.cycle, t.ticks, t.out, f, wave, length, down)
    BY <1>5, <1>7, <1>8, <2>1, <2>2, JvcGoesOn
  <2>4. CASE s.read < length
    <3>1. JvcInFrame(s.words, s.read, t.words, t.read, t.cycle, t.out, f, length, down)
      BY <1>7, <1>12, <2>4 DEF JvcInFrame
    <3>2. JvcAt(t.words, t.read, t.cycle, t.ticks, length) /\ t.out = wave[t.ticks]
      BY <2>3, <3>1 DEF JvcTick
    <3>3. Sending(t, c)
      BY <1>7, <1>10, <1>12, <2>4, <3>2
    <3>4. QED
      BY <1>7, <3>3
  <2>5. CASE ~(s.read < length) /\ s.words < 3
    <3>1. JvcBetween(s.words, s.read, t.words, t.read, t.cycle, t.out, length, down)
      BY <1>7, <1>8, <1>9, <1>12, <2>5 DEF JvcBetween
    <3>2. JvcAt(t.words, t.read, t.cycle, t.ticks, length) /\ t.out = wave[t.ticks]
      BY <2>3, <3>1 DEF JvcTick
    <3>3. Sending(t, c)
      BY <1>7, <1>9, <1>10, <1>12, <2>5, <3>2
    <3>4. QED
      BY <1>7, <3>3
  <2>6. CASE ~(s.read < length) /\ ~(s.words < 3)
    <3>1. s.read = length /\ s.words = 3 /\ t.ticks = Len(wave) + 1
      BY <2>3, <2>6 DEF JvcTick
    <3>2. Done(t, c)
      BY <1>9, <1>11, <1>12, <2>6, <3>1
    <3>3. QED
      BY <1>7, <3>2
  <2>7. QED
    BY <2>4, <2>5, <2>6
<1>13. CASE p = "sony"
  <2>1. SonyWave(f, wave, length) /\ SonyAt(s.words, s.read, s.cycle, s.ticks, length)
    BY <1>2, <1>3, <1>13
  <2>2. Counted(s.cycle, down)
    BY <1>6, <1>13 DEF Counted
  <2>3. SonyTick(s.words, s.read, s.cycle, t.words, t.read, t.cycle, t.ticks, t.out, f, wave, length, down)
    BY <1>5, <1>7, <1>8, <2>1, <2>2, SonyGoesOn
  <2>4. CASE s.read < length
    <3>1. SonyInFrame(s.words, s.read, s.cycle, t.words, t.read, t.cycle, t.out, f, length)
      BY <1>7, <1>13, <2>4 DEF SonyInFrame
    <3>2. SonyAt(t.words, t.read, t.cycle, t.ticks, length) /\ t.out = wave[t.ticks]
      BY <2>3, <3>1 DEF SonyTick
    <3>3. Sending(t, c)
      BY <1>7, <1>10, <1>13, <2>4, <3>2
    <3>4. QED
      BY <1>7, <3>3
  <2>5. CASE ~(s.read < length) /\ s.words < 2
    <3>1. SonyBetween(s.words, s.read, t.words, t.read, t.cycle, t.out, length, down)
      BY <1>7, <1>8, <1>9, <1>13, <2>5 DEF SonyBetween
    <3>2. SonyAt(t.words, t.read, t.cycle, t.ticks, length) /\ t.out = wave[t.ticks]
      BY <2>3, <3>1 DEF SonyTick
    <3>3. Sending(t, c)
      BY <1>7, <1>9, <1>10, <1>13, <2>5, <3>2
    <3>4. QED
      BY <1>7, <3>3
  <2>6. CASE ~(s.read < length) /\ ~(s.words < 2)
    <3>1. s.read = length /\ s.words = 2 /\ t.ticks = Len(wave) + 1
      BY <2>3, <2>6 DEF SonyTick
    <3>2. Done(t, c)
      BY <1>9, <1>11, <1>13, <2>6, <3>1
    <3>3. QED
      BY <1>7, <3>2
  <2>7. QED
    BY <2>4, <2>5, <2>6
<1>14. CASE p \notin {"jvc", "sony"}
  <2>1. PlainWave(f, wave, length) /\ PlainAt(s.words, s.read, s.ticks, length)
    BY <1>2, <1>3, <1>14
  <2>2. PlainTick(s.words, s.read, t.words, t.read, t.ticks, t.out, f, wave, length)
    BY <1>5, <1>7, <1>8, <2>1, PlainGoesOn
  <2>3. CASE s.read < length
    <3>1. PlainAt(t.words, t.read, t.ticks, length) /\ t.out = wave[t.ticks]
      BY <1>7, <2>2, <2>3 DEF PlainTick
    <3>2. Sending(t, c)
      BY <1>7, <1>10, <1>14, <2>3, <3>1
    <3>3. QED
      BY <1>7, <3>2
  <2>4. CASE ~(s.read < length)
    <3>1. s.read = length /\ s.words = 0 /\ t.ticks = Len(wave) + 1
      BY <2>2, <2>4 DEF PlainTick
    <3>2. Done(t, c)
      BY <1>9, <1>11, <1>14, <2>4, <3>1
    <3>3. QED
      BY <1>7, <3>2
  <2>5. QED
    BY <2>3, <2>4
<1>15. QED
  BY <1>7, <1>12, <1>13, <1>14

\* A command that is being sent has not been on air for longer than its
\* waveform.
LEMMA SentSoFar ==
  ASSUME NEW s \in SendState, NEW c \in IrCommand, Sending(s, c)
  PROVE  s.ticks <= Len(Waveform[c])
<1>a. Frame[c] \in Seq(BOOLEAN) /\ Len(Frame[c]) \in Nat
  BY FramesAreLevels
<1>b. PICK f : f = Frame[c]
  OBVIOUS
<1>c. PICK length \in Nat : length = Len(f)
  BY <1>a, <1>b
<1>d. PICK wave : wave = Waveform[c]
  OBVIOUS
<1>e. PICK n \in Nat : n = s.ticks
  BY DEF SendState
<1>1. Levels(f, length)
  BY <1>a, <1>b, <1>c DEF Levels
<1>2. CASE c.type = "jvc"
  <2>1. JvcWave(f, wave, length)
    BY <1>1, <1>b, <1>d, <1>2, JvcParts
  <2>2. JvcAt(s.words, s.read, s.cycle, n, length)
    BY <1>2, <1>b, <1>c, <1>e DEF Sending
  <2>3. Len(wave) = 250 + length /\ 24 < length
    BY <2>1 DEF JvcWave
  <2>4. n <= 250 + length
    BY <2>2, <2>3 DEF JvcAt, InWord
  <2>5. QED
    BY <1>d, <1>e, <2>3, <2>4
<1>3. CASE c.type = "sony"
  <2>1. SonyWave(f, wave, length)
    BY <1>1, <1>b, <1>d, <1>3, SonyParts
  <2>2. SonyAt(s.words, s.read, s.cycle, n, length)
    BY <1>3, <1>b, <1>c, <1>e DEF Sending
  <2>3. Len(wave) = 3 * length + 150
    BY <2>1 DEF SonyWave
  <2>4. n <= 3 * length + 150
    BY <2>2 DEF SonyAt, SonyWord, InWord
  <2>5. QED
    BY <1>d, <1>e, <2>3, <2>4
<1>4. CASE c.type \notin {"jvc", "sony"}
  <2>1. PlainWave(f, wave, length)
    BY <1>1, <1>b, <1>d, <1>4, PlainParts
  <2>2. PlainAt(s.words, s.read, n, length)
    BY <1>4, <1>b, <1>c, <1>e DEF Sending
  <2>3. QED
    BY <1>d, <1>e, <2>1, <2>2 DEF PlainWave, PlainAt
<1>5. QED
  BY <1>2, <1>3, <1>4

\* The start of a command finds the buffer free and no protocol at work, so it
\* fills the one and has the other to itself.
LEMMA StartedFields ==
  ASSUME NEW s \in SendState, Silent(s), NEW c \in IrCommand,
         NEW t, t = [Prepared(s, c) EXCEPT !.active[c.type] = TRUE, !.out = FALSE, !.ticks = 0]
  PROVE  t \in SendState /\ Sending(t, c)
<1>1. Frame[c] \in Seq(BOOLEAN) /\ Len(Frame[c]) \in Nat /\ c.type \in IrProtocol
  BY FramesAreLevels
<1>2. ~s.active[c.type] /\ ~s.requested /\ s.active = NoneActive
  BY <1>1 DEF Silent, NoneActive
<1>3. FirstCycle[c.type] \in Nat /\ (c.type = "jvc" => FirstCycle[c.type] = 112)
      /\ (c.type = "sony" => FirstCycle[c.type] = 75)
  BY <1>1 DEF FirstCycle, IrProtocol
<1> DEFINE u == [s EXCEPT !.requested = TRUE, !.buffer = Frame[c], !.read = 0]
           v == [u EXCEPT !.words = 0, !.cycle = FirstCycle[c.type]]
<1>4. Prepared(s, c) = v
  BY <1>2 DEF Prepared
<1>5. /\ u \in SendState /\ u.active = NoneActive /\ u.requested /\ u.buffer = Frame[c] /\ u.read = 0
  BY <1>1, <1>2 DEF SendState
<1> HIDE DEF u
<1>6. /\ v \in SendState /\ v.active = NoneActive /\ v.requested /\ v.buffer = Frame[c] /\ v.read = 0
      /\ v.words = 0 /\ v.cycle = FirstCycle[c.type]
  BY <1>3, <1>5 DEF SendState
<1> HIDE DEF v
<1>7. t = [v EXCEPT !.active[c.type] = TRUE, !.out = FALSE, !.ticks = 0]
  BY <1>4
<1>8. /\ t \in SendState /\ t.requested /\ t.buffer = Frame[c] /\ t.read = 0
      /\ t.words = 0 /\ t.cycle = FirstCycle[c.type] /\ t.out = FALSE /\ t.ticks = 0
      /\ t.active = [v.active EXCEPT ![c.type] = TRUE]
  <2> DEFINE held == [v.active EXCEPT ![c.type] = TRUE]
  <2>1. held \in [IrProtocol -> BOOLEAN]
    BY <1>6 DEF SendState
  <2>2. t = [v EXCEPT !.active = held, !.out = FALSE, !.ticks = 0]
    BY <1>7
  <2> HIDE DEF held
  <2>3. t \in SendState
    BY <1>6, <2>1, <2>2 DEF SendState
  <2>4. /\ t.requested = v.requested /\ t.buffer = v.buffer /\ t.read = v.read
        /\ t.words = v.words /\ t.cycle = v.cycle /\ t.out = FALSE /\ t.ticks = 0
        /\ t.active = held
    BY <1>6, <2>2 DEF SendState
  <2>5. QED
    BY <1>6, <2>3, <2>4 DEF held
<1>9. t.active = OnlyActive(c.type)
  <2>1. t.active = [NoneActive EXCEPT ![c.type] = TRUE]
    BY <1>6, <1>8
  <2>2. QED
    BY <1>1, <2>1 DEF OnlyActive, NoneActive
<1>10. PICK length \in Nat : length = Len(Frame[c])
  BY <1>1
<1>11. InWord(0, length, 0, 0, 112) /\ InWord(0, length, 0, 0, length + 75)
  BY DEF InWord
<1>12. JvcAt(0, 0, 112, 0, length)
  BY <1>11 DEF JvcAt
<1>13. SonyAt(0, 0, 75, 0, length)
  BY <1>11 DEF SonyAt, SonyWord
<1>14. PlainAt(0, 0, 0, length)
  BY DEF PlainAt
<1>15. QED
  BY <1>3, <1>8, <1>9, <1>10, <1>12, <1>13, <1>14 DEF Sending

IrTaskState ==
  [ state : {"IDLE", "START", "TRANSMIT"}, command : IrCommand \cup {NoIrCommand},
    queue : Seq(IrCommand), installed : SUBSET IrProtocol, timers : BOOLEAN,
    asked : Nat, gone : Nat ]

LEMMA InfraredKeeps == IrInv /\ [IrNext]_irvars => IrInv'
<1> SUFFICES ASSUME IrInv, [IrNext]_irvars PROVE IrInv'
  OBVIOUS
<1>1. /\ irtask \in IrTaskState
      /\ irsend \in SendState
      /\ irtask.timers = (irtask.state = "TRANSMIT")
      /\ irtask.state # "IDLE" => irtask.command \in IrCommand
  BY DEF IrInv, IrTypeOK, SendState, IrTaskState
<1>2. ASSUME irtask' \in IrTaskState,
             irsend' \in SendState,
             irtask'.timers = (irtask'.state = "TRANSMIT"),
             irtask'.state # "IDLE" => irtask'.command \in IrCommand,
             IF irtask'.state = "TRANSMIT"
             THEN Sending(irsend', irtask'.command) \/ Done(irsend', irtask'.command)
             ELSE Silent(irsend')
      PROVE  IrInv'
  BY <1>2 DEF IrInv, IrTypeOK, SendState, IrTaskState
<1>3. IF irtask.state = "TRANSMIT"
      THEN Sending(irsend, irtask.command) \/ Done(irsend, irtask.command)
      ELSE Silent(irsend)
  BY DEF IrInv
<1>4. CASE UNCHANGED irvars
  BY <1>1, <1>2, <1>3, <1>4 DEF irvars
<1>5. ASSUME NEW c \in IrCommand, CommandReceived(c) PROVE IrInv'
  <2>1. /\ irtask' \in IrTaskState
        /\ irtask'.state = irtask.state /\ irtask'.command = irtask.command
        /\ irtask'.timers = irtask.timers /\ irsend' = irsend
    <3>1. Append(irtask.queue, c) \in Seq(IrCommand) /\ irtask.asked + 1 \in Nat
      BY <1>1 DEF IrTaskState
    <3>2. CASE irtask' = irtask
      BY <1>1, <1>5, <3>2 DEF CommandReceived
    <3>3. CASE irtask' = [irtask EXCEPT !.queue = Append(irtask.queue, c), !.asked = irtask.asked + 1]
      <4>1. irtask' \in IrTaskState
        BY <1>1, <3>1, <3>3 DEF IrTaskState
      <4>2. /\ irtask'.state = irtask.state /\ irtask'.command = irtask.command
            /\ irtask'.timers = irtask.timers
        BY <1>1, <3>3 DEF IrTaskState
      <4>3. QED
        BY <1>5, <4>1, <4>2 DEF CommandReceived
    <3>4. QED
      BY <1>5, <3>2, <3>3 DEF CommandReceived
  <2>2. QED
    BY <1>1, <1>2, <1>3, <2>1
<1>6. CASE LoadProtocol
  <2>1. Head(irtask.queue) \in IrCommand /\ Tail(irtask.queue) \in Seq(IrCommand)
    BY <1>1, <1>6 DEF LoadProtocol, IrTaskState
  <2>2. /\ irtask' \in IrTaskState
        /\ irtask'.state \in {"IDLE", "START"} /\ irtask'.command \in IrCommand
        /\ irtask'.timers = irtask.timers /\ irsend' = irsend /\ irtask.state = "IDLE"
    <3> DEFINE c == Head(irtask.queue)
    <3>1. PICK state \in {"IDLE", "START"} : state = IF c.type \in irtask.installed THEN "START" ELSE "IDLE"
      OBVIOUS
    <3>2. PICK gone \in Nat : gone = IF c.type \in irtask.installed THEN irtask.gone ELSE irtask.gone + 1
      BY <1>1 DEF IrTaskState
    <3>3. irtask' = [irtask EXCEPT !.queue = Tail(irtask.queue), !.command = c,
                                   !.state = state, !.gone = gone]
      BY <1>6, <3>1, <3>2 DEF LoadProtocol
    <3> HIDE DEF c
    <3>4. irtask' \in IrTaskState
      BY <1>1, <2>1, <3>3 DEF IrTaskState, c
    <3>5. irtask'.state = state /\ irtask'.command = c /\ irtask'.timers = irtask.timers
      BY <1>1, <3>3 DEF IrTaskState
    <3>6. QED
      BY <1>6, <2>1, <3>4, <3>5 DEF LoadProtocol, c
  <2>3. QED
    BY <1>1, <1>2, <1>3, <2>2
<1>7. CASE TransmitStart
  <2>1. /\ irtask' \in IrTaskState
        /\ irtask'.state = "TRANSMIT" /\ irtask'.command = irtask.command /\ irtask'.timers = TRUE
        /\ irtask.state = "START"
    BY <1>1, <1>7 DEF TransmitStart, IrTaskState
  <2>2. Silent(irsend) /\ irtask.command \in IrCommand
    BY <1>1, <1>3, <2>1
  <2>3. irsend' \in SendState /\ Sending(irsend', irtask.command)
    BY <1>1, <1>7, <2>2, StartedFields DEF TransmitStart
  <2>4. QED
    BY <1>2, <2>1, <2>2, <2>3
<1>8. CASE TransmitFinished
  <2>1. /\ irtask' \in IrTaskState
        /\ irtask'.state = "IDLE" /\ irtask'.command = irtask.command /\ irtask'.timers = FALSE
        /\ irtask.state = "TRANSMIT" /\ ~irsend.active[irtask.command.type]
    <3>1. irtask.gone + 1 \in Nat
      BY <1>1 DEF IrTaskState
    <3>2. irtask' = [irtask EXCEPT !.state = "IDLE", !.timers = FALSE, !.gone = irtask.gone + 1]
      BY <1>8 DEF TransmitFinished
    <3>3. irtask' \in IrTaskState
      BY <1>1, <3>1, <3>2 DEF IrTaskState
    <3>4. irtask'.state = "IDLE" /\ irtask'.command = irtask.command /\ irtask'.timers = FALSE
      BY <1>1, <3>2 DEF IrTaskState
    <3>5. QED
      BY <1>8, <3>3, <3>4 DEF TransmitFinished
  <2>2. irtask.command \in IrCommand /\ irtask.command.type \in IrProtocol
    BY <1>1, <2>1, FramesAreLevels
  <2>3. ~Sending(irsend, irtask.command)
    BY <2>1, <2>2 DEF Sending, OnlyActive
  <2>4. Silent(irsend)
    BY <1>3, <2>1, <2>3 DEF Done
  <2>5. irsend' \in SendState /\ irsend'.active = irsend.active
        /\ irsend'.requested = irsend.requested /\ irsend'.out = FALSE
    BY <1>1, <1>8 DEF TransmitFinished, SendState
  <2>6. Silent(irsend')
    BY <2>4, <2>5 DEF Silent
  <2>7. QED
    BY <1>2, <2>1, <2>5, <2>6
<1>9. CASE ModulationInterrupt
  <2>1. irtask.state = "TRANSMIT" /\ irtask' = irtask
        /\ irsend' = Ticked(irsend, irtask.command.type)
    BY <1>1, <1>9 DEF ModulationInterrupt, Ticked
  <2>2. irtask.command \in IrCommand /\ irtask.command.type \in IrProtocol
    BY <1>1, <2>1, FramesAreLevels
  <2>3. CASE Sending(irsend, irtask.command)
    <3>1. /\ irsend' \in SendState
          /\ Sending(irsend', irtask.command) \/ Done(irsend', irtask.command)
      BY <1>1, <2>1, <2>2, <2>3, SendingGoesOn
    <3>2. QED
      BY <1>1, <1>2, <2>1, <3>1
  <2>4. CASE Done(irsend, irtask.command)
    <3>1. ~irsend.active[irtask.command.type]
      BY <2>2, <2>4 DEF Done, Silent, NoneActive
    <3>2. TransmitIrq(irsend, irtask.command.type) = irsend
      <4>1. /\ irsend.read = Len(irsend.buffer)
            /\ irsend.words = Repeats[irtask.command.type] /\ Repeats[irtask.command.type] \in Nat
        BY <2>2, <2>4 DEF Done, Repeats, IrProtocol
      <4>2. ~(irsend.read < Len(irsend.buffer)) /\ ~(irsend.words < Repeats[irtask.command.type])
        BY <1>1, <4>1 DEF SendState
      <4>3. QED
        BY <3>1, <4>2 DEF TransmitIrq
    <3>3. irsend' = irsend
      BY <1>1, <2>1, <3>1, <3>2 DEF Ticked, SendState
    <3>4. QED
      BY <1>1, <1>2, <2>1, <2>4, <3>3
  <2>5. QED
    BY <1>3, <2>1, <2>3, <2>4
<1>10. QED
  BY <1>4, <1>5, <1>6, <1>7, <1>8, <1>9 DEF IrNext, IrTask

LEMMA IrInvHolds == IrSpec => []IrInv
<1>1. IrInit => IrInv
  <2> SUFFICES ASSUME IrInit PROVE IrInv
    OBVIOUS
  <2>1. PICK installed \in {IrProtocol, IrProtocol \ {"nec"}} :
          irtask = [ state |-> "IDLE", command |-> NoIrCommand, queue |-> <<>>,
                     installed |-> installed, timers |-> FALSE,
                     asked |-> 0, gone |-> 0 ]
    BY DEF IrInit
  <2>2. irsend = [ active |-> [p \in IrProtocol |-> FALSE], requested |-> FALSE,
                   buffer |-> <<>>, read |-> 0, words |-> 0, cycle |-> 0,
                   out |-> FALSE, ticks |-> 0 ]
    BY DEF IrInit
  <2>3. installed \in SUBSET IrProtocol
    OBVIOUS
  <2>4. irtask \in IrTaskState
    BY <2>1, <2>3 DEF IrTaskState
  <2>5. irsend \in SendState /\ Silent(irsend)
    BY <2>2 DEF SendState, Silent, NoneActive
  <2>6. QED
    BY <2>1, <2>4, <2>5 DEF IrInv, IrTypeOK, SendState, IrTaskState
<1>2. QED
  BY <1>1, InfraredKeeps, PTL DEF IrSpec

\* On air is the waveform of the command asked for, whatever commands come
\* and in whatever order, and however the interrupts of the modulation timer
\* fall between the steps of the task (ir_protocol_task.c, transmit_irq).
THEOREM WaveformStays == IrSpec => []WaveformIsTheCommands
<1>1. ASSUME IrInv PROVE WaveformIsTheCommands
  <2>1. irsend \in SendState /\ irsend.ticks \in Nat /\ irsend.out \in BOOLEAN
    BY <1>1 DEF IrInv, IrTypeOK, SendState
  <2>2. CASE irtask.state # "TRANSMIT"
    BY <1>1, <2>2 DEF IrInv, Silent, WaveformIsTheCommands
  <2>3. CASE irtask.state = "TRANSMIT"
    <3>1. PICK c \in IrCommand : c = irtask.command
      BY <1>1, <2>3 DEF IrInv
    <3>2. Sending(irsend, c) \/ Done(irsend, c)
      BY <1>1, <2>3, <3>1 DEF IrInv
    <3>3. Frame[c] \in Seq(BOOLEAN) /\ Len(Frame[c]) \in Nat /\ c.type \in IrProtocol
      BY FramesAreLevels
    <3>4. CASE Sending(irsend, c)
      <4>1. irsend.active[c.type]
        BY <3>3, <3>4 DEF Sending, OnlyActive
      <4>2. irsend.ticks <= Len(Waveform[c])
        BY <2>1, <3>4, SentSoFar
      <4>3. irsend.out = IF irsend.ticks = 0 THEN FALSE ELSE Waveform[c][irsend.ticks]
        BY <3>4 DEF Sending
      <4>4. irsend.out = (irsend.ticks > 0 /\ Waveform[c][irsend.ticks])
        <5>1. CASE irsend.ticks = 0
          <6>1. irsend.out = FALSE /\ ~(irsend.ticks > 0)
            BY <4>3, <5>1
          <6>2. QED
            BY <6>1, Zenon
        <5>2. CASE irsend.ticks # 0
          <6>1. irsend.ticks > 0 /\ irsend.out = Waveform[c][irsend.ticks]
            BY <2>1, <4>3, <5>2
          <6>2. QED
            BY <2>1, <6>1
        <5>3. QED
          BY <5>1, <5>2
      <4>5. QED
        BY <2>3, <3>1, <4>1, <4>2, <4>4 DEF WaveformIsTheCommands
    <3>5. CASE Done(irsend, c)
      <4>1. ~irsend.active[c.type] /\ ~irsend.out /\ irsend.ticks = Len(Waveform[c]) + 1
        BY <3>3, <3>5 DEF Done, Silent, NoneActive
      <4>2. QED
        BY <2>3, <3>1, <4>1 DEF WaveformIsTheCommands
    <3>6. QED
      BY <3>2, <3>4, <3>5
  <2>4. QED
    BY <2>2, <2>3
<1>2. QED
  BY <1>1, IrInvHolds, PTL

-----------------------------------------------------------------------------
(* The frames of the tracer: TraceLink. *)

LEMMA NameIsShort == NameLength \in Nat /\ 1 <= NameLength /\ NameLength <= 250
BY TraceAssumption

Bytes(u, n) == u \in Seq(Int) /\ Len(u) = n

\* The bytes of two sequences put together.
LEMMA BytesJoined ==
  ASSUME NEW u, NEW v, NEW m \in Nat, NEW n \in Nat, Bytes(u, m), Bytes(v, n),
         NEW l \in Nat, l = m + n
  PROVE  Bytes(u \o v, l) /\ Runs(u \o v, 0, u, m) /\ Runs(u \o v, m, v, n)
<1>1. /\ u \o v \in Seq(Int) /\ Len(u \o v) = m + n
      /\ \A i \in 1 .. m + n : (u \o v)[i] = IF i <= m THEN u[i] ELSE v[i - m]
  BY ConcatProperties DEF Bytes
<1>2. ASSUME NEW i \in 1 .. m PROVE (u \o v)[0 + i] = u[i]
  <2>1. i \in 1 .. m + n /\ i <= m /\ 0 + i = i
    OBVIOUS
  <2>2. QED
    BY <1>1, <2>1
<1>3. ASSUME NEW i \in 1 .. n PROVE (u \o v)[m + i] = v[i]
  <2>1. m + i \in 1 .. m + n /\ ~(m + i <= m) /\ (m + i) - m = i
    OBVIOUS
  <2>2. QED
    BY <1>1, <2>1
<1>4. QED
  BY <1>1, <1>2, <1>3 DEF Runs, Bytes

\* A frame: the header, two bytes that count, the type, h bytes of data, the
\* line, the name, the footer.
Frame9(f, hi, lo, type, q, h, n) ==
  /\ f \in Seq(Int) /\ Len(f) = h + NameLength + 9
  /\ f[1] = HeaderByte /\ f[2] = HeaderByte /\ f[3] = HeaderByte
  /\ f[4] = hi /\ f[5] = lo /\ f[6] = type
  /\ Runs(f, 6, q, h)
  /\ f[h + 7] = n /\ f[h + 8] = 0
  /\ Runs(f, h + 8, TraceName, NameLength)
  /\ f[h + NameLength + 9] = 10

LEMMA FrameParts ==
  ASSUME NEW q, q \in Seq(Int), NEW h \in Nat, Len(q) = h, NEW n \in Int, NEW type \in Int,
         NEW hi \in Int, NEW lo \in Int
  PROVE  LET content == q \o <<n, 0>> \o TraceName \o Footer
             f == Header \o <<hi, lo, type>> \o content
         IN  Frame9(f, hi, lo, type, q, h, n) /\ 1 + Len(content) = h + NameLength + 4
<1> DEFINE line == <<n, 0>>
           a == q \o line
           b == a \o TraceName
           c == b \o Footer
           lead == <<hi, lo, type>>
           e == Header \o lead
           f == e \o c
<1>1. NameLength \in Nat /\ Bytes(TraceName, NameLength)
  BY NameIsShort DEF TraceName, Bytes
<1>2. PICK one \in Nat, two \in Nat, three \in Nat : one = 1 /\ two = 2 /\ three = 3
  OBVIOUS
<1>3. /\ Bytes(line, two) /\ line[1] = n /\ line[2] = 0
      /\ Bytes(Footer, one) /\ Footer[1] = 10
      /\ Bytes(Header, three)
      /\ Header[1] = HeaderByte /\ Header[2] = HeaderByte /\ Header[3] = HeaderByte
  BY <1>2 DEF Footer, Header, HeaderByte, Bytes
<1>4. Bytes(q, h)
  BY DEF Bytes
<1> HIDE DEF line, f
<1>6. PICK ha \in Nat, hb \in Nat, hc \in Nat :
        ha = h + two /\ hb = ha + NameLength /\ hc = hb + one
  BY <1>1, <1>2
<1>7. Bytes(a, ha) /\ Runs(a, 0, q, h) /\ Runs(a, h, line, two)
  BY <1>2, <1>3, <1>4, <1>6, BytesJoined
<1> HIDE DEF a
<1>8. Bytes(b, hb) /\ Runs(b, 0, a, ha) /\ Runs(b, ha, TraceName, NameLength)
  BY <1>1, <1>6, <1>7, BytesJoined
<1> HIDE DEF b
<1>9. Bytes(c, hc) /\ Runs(c, 0, b, hb) /\ Runs(c, hb, Footer, one)
  BY <1>2, <1>3, <1>6, <1>8, BytesJoined
<1> HIDE DEF c
<1>10. PICK total \in Nat : total = hc + 1
  BY <1>6
<1>11. 1 + Len(c) = total
  BY <1>6, <1>9, <1>10 DEF Bytes
<1>12. Bytes(lead, three) /\ lead[1] = hi /\ lead[2] = lo /\ lead[3] = type
  BY <1>2 DEF Bytes
<1> HIDE DEF lead
<1>14. PICK six \in Nat, hf \in Nat : six = three + three /\ hf = six + hc
  BY <1>2, <1>6
<1>15. Bytes(e, six) /\ Runs(e, 0, Header, three) /\ Runs(e, three, lead, three)
  BY <1>2, <1>3, <1>12, <1>14, BytesJoined
<1> HIDE DEF e
<1>16. Bytes(f, hf) /\ Runs(f, 0, e, six) /\ Runs(f, six, c, hc)
  BY <1>6, <1>9, <1>14, <1>15, BytesJoined DEF f
<1>17. /\ 0 \in Nat /\ 0 + three <= six /\ three + three <= six /\ 0 + hb <= hc /\ hb + one <= hc
       /\ 0 + ha <= hb /\ ha + NameLength <= hb /\ 0 + h <= ha /\ h + two <= ha /\ six + 0 = six
       /\ 0 + 0 = 0
       /\ one \in Nat /\ hb \in Nat /\ hc \in Nat /\ six \in Nat
  BY <1>1, <1>2, <1>6, <1>14
<1>18. Runs(f, 0 + 0, Header, three) /\ Runs(f, 0 + three, lead, three)
  BY <1>2, <1>14, <1>15, <1>16, <1>17, RunsWithin
<1>19. Runs(f, six + 0, b, hb) /\ Runs(f, six + hb, Footer, one)
  <2>1. Runs(f, six + 0, b, hb)
    BY <1>6, <1>9, <1>14, <1>16, <1>17, RunsWithin
  <2>2. Runs(f, six + hb, Footer, one)
    BY <1>9, <1>16, <1>17, RunsWithin
  <2>3. QED
    BY <2>1, <2>2
<1>20. Runs(f, six, a, ha) /\ Runs(f, six + ha, TraceName, NameLength)
  <2>1. Runs(f, six, b, hb)
    BY <1>17, <1>19
  <2>2. Runs(f, six + 0, a, ha) /\ Runs(f, six + ha, TraceName, NameLength)
    BY <1>1, <1>6, <1>8, <1>14, <1>17, <2>1, RunsWithin
  <2>3. QED
    BY <1>17, <2>2
<1>21. Runs(f, six, q, h) /\ Runs(f, six + h, line, two)
  <2>1. Runs(f, six + 0, q, h) /\ Runs(f, six + h, line, two)
    BY <1>2, <1>6, <1>7, <1>14, <1>17, <1>20, RunsWithin
  <2>2. QED
    BY <1>17, <2>1
<1>22. /\ 1 \in 1 .. three /\ 2 \in 1 .. three /\ 3 \in 1 .. three
       /\ 1 \in 1 .. two /\ 2 \in 1 .. two /\ 1 \in 1 .. one
       /\ (0 + 0) + 1 = 1 /\ (0 + 0) + 2 = 2 /\ (0 + 0) + 3 = 3
       /\ (0 + three) + 1 = 4 /\ (0 + three) + 2 = 5 /\ (0 + three) + 3 = 6
       /\ (six + h) + 1 = h + 7 /\ (six + h) + 2 = h + 8
       /\ (six + hb) + 1 = h + NameLength + 9
       /\ total = h + NameLength + 4 /\ hf = h + NameLength + 9 /\ six = 6 /\ six + ha = h + 8
  BY <1>1, <1>2, <1>6, <1>10, <1>14
<1>23. /\ f[1] = HeaderByte /\ f[2] = HeaderByte /\ f[3] = HeaderByte
  BY <1>3, <1>18, <1>22 DEF Runs
<1>24. /\ f[4] = hi /\ f[5] = lo /\ f[6] = type
  BY <1>12, <1>18, <1>22 DEF Runs
<1>25. f[h + 7] = n /\ f[h + 8] = 0
  BY <1>3, <1>21, <1>22 DEF Runs
<1>26. f[h + NameLength + 9] = 10
  BY <1>3, <1>19, <1>22 DEF Runs
<1>27. f \in Seq(Int) /\ Len(f) = hf
  BY <1>16 DEF Bytes
<1>28. QED
  <2>1. Frame9(f, hi, lo, type, q, h, n) /\ 1 + Len(c) = h + NameLength + 4
    BY <1>11, <1>20, <1>21, <1>22, <1>23, <1>24, <1>25, <1>26, <1>27 DEF Frame9
  <2>2. QED
    BY <2>1 DEF f, e, lead, c, b, a, line

\* Three header bytes in a row.
HeaderAt(f, i) == f[i] = HeaderByte /\ f[i + 1] = HeaderByte /\ f[i + 2] = HeaderByte

\* What the bytes of the data of a trace are, and where.
DataBytes(q, h, type, data, s) ==
  /\ q \in Seq(Int) /\ Len(q) = h /\ h <= 4 /\ type \in 1 .. 5 /\ data \in Seq(Int)
  /\ type = 5 => q[1] = Len(data) /\ h >= 1
  /\ type # 5 => <<0, 1, 2, 4>>[type] = Len(data)
  /\ s = (IF type = 5 THEN 1 ELSE 0) /\ h = Len(data) + s
  /\ Runs(q, s, data, Len(data))
  /\ \A i \in 1 .. h : i + 2 <= h => ~HeaderAt(q, i)

\* An array: its length, then its bytes.
LEMMA ArrayBytes ==
  ASSUME NEW q, NEW u, NEW v, NEW one \in Nat, NEW two \in Nat, NEW three \in Nat,
         one = 1, two = 2, three = 3,
         Bytes(q, three), Runs(q, 0, u, one), Runs(q, one, v, two),
         u[1] = 2, v[1] = 250, v[2] = 250, v \in Seq(Int), Len(v) = 2
  PROVE  DataBytes(q, 3, 5, v, 1)
<1>1. 0 + 1 = 1 /\ 1 \in 1 .. one /\ 1 \in 1 .. two /\ 2 \in 1 .. two /\ one + 1 = 2 /\ one + 2 = 3
  OBVIOUS
<1>2. q[1] = 2
  <2>1. q[0 + 1] = u[1]
    BY <1>1 DEF Runs
  <2>2. QED
    BY <1>1, <2>1
<1>3. q[2] = 250 /\ q[3] = 250
  <2>1. q[one + 1] = v[1] /\ q[one + 2] = v[2]
    BY <1>1 DEF Runs
  <2>2. QED
    BY <1>1, <2>1
<1>4. ASSUME NEW i \in 1 .. 3, i + 2 <= 3 PROVE ~HeaderAt(q, i)
  <2>1. i = 1
    BY <1>4
  <2>2. QED
    BY <1>2, <2>1 DEF HeaderAt, HeaderByte
<1>5. /\ 3 <= 4 /\ 5 \in 1 .. 5 /\ 1 = (IF 5 = 5 THEN 1 ELSE 0) /\ 3 >= 1
      /\ q[1] = Len(v) /\ 3 = Len(v) + 1
  BY <1>2
<1>6. Runs(q, 1, v, Len(v)) /\ q \in Seq(Int) /\ Len(q) = 3
  BY DEF Bytes
<1>7. QED
  BY <1>4, <1>5, <1>6 DEF DataBytes

LEMMA PayloadBytes ==
  ASSUME NEW p \in Payload,
         NEW q, q = (IF p.type = 5 THEN <<Len(p.data)>> ELSE <<>>) \o p.data
  PROVE  \E h \in Nat, s \in Nat : DataBytes(q, h, p.type, p.data, s)
<1>1. p.data \in Seq(Int) /\ HeaderByte = 250
  <2>1. \/ p.data = <<>> \/ p.data = <<HeaderByte>> \/ p.data = <<HeaderByte, HeaderByte>>
        \/ p.data = <<0, HeaderByte, 0, 0>>
    BY DEF Payload
  <2>2. HeaderByte \in Int /\ HeaderByte = 250
    BY DEF HeaderByte
  <2>3. /\ <<>> \in Seq(Int) /\ <<HeaderByte>> \in Seq(Int)
        /\ <<HeaderByte, HeaderByte>> \in Seq(Int) /\ <<0, HeaderByte, 0, 0>> \in Seq(Int)
    BY <2>2
  <2>4. p.data \in Seq(Int)
    BY <2>1, <2>3, Zenon
  <2>5. QED
    BY <2>2, <2>4
<1>2. p.type # 5 => q = p.data
  BY <1>1, ConcatEmptySeq
<1>3. CASE p.type = 1
  <2>1. p.data = <<>> /\ q = <<>>
    BY <1>2, <1>3 DEF Payload
  <2>2. DataBytes(q, 0, 1, p.data, 0)
    BY <1>1, <2>1 DEF DataBytes, Runs, HeaderAt
  <2>3. QED
    BY <1>3, <2>2
<1>4. CASE p.type = 2
  <2>1. p.data = <<250>> /\ q = <<250>>
    BY <1>1, <1>2, <1>4 DEF Payload
  <2>2. DataBytes(q, 1, 2, p.data, 0)
    BY <1>1, <2>1 DEF DataBytes, Runs, HeaderAt
  <2>3. QED
    BY <1>4, <2>2
<1>5. CASE p.type = 3
  <2>1. p.data = <<250, 250>> /\ q = <<250, 250>>
    BY <1>1, <1>2, <1>5 DEF Payload
  <2>2. DataBytes(q, 2, 3, p.data, 0)
    BY <1>1, <2>1 DEF DataBytes, Runs, HeaderAt
  <2>3. QED
    BY <1>5, <2>2
<1>6. CASE p.type = 4
  <2>1. p.data = <<0, 250, 0, 0>> /\ q = <<0, 250, 0, 0>>
    BY <1>1, <1>2, <1>6 DEF Payload
  <2>2. DataBytes(q, 4, 4, p.data, 0)
    BY <1>1, <2>1 DEF DataBytes, Runs, HeaderAt
  <2>3. QED
    BY <1>6, <2>2
<1>7. CASE p.type = 5
  <2>1. p.data = <<250, 250>>
    BY <1>1, <1>7 DEF Payload
  <2>2. PICK one \in Nat, two \in Nat, three \in Nat : one = 1 /\ two = 2 /\ three = 3
    OBVIOUS
  <2> DEFINE u == <<2>>
             v == p.data
  <2>3. Bytes(u, one) /\ Bytes(v, two) /\ q = u \o v /\ u[1] = 2
        /\ v[1] = 250 /\ v[2] = 250
    BY <1>7, <2>1, <2>2 DEF Bytes
  <2> HIDE DEF u, v
  <2>4. Bytes(q, three) /\ Runs(q, 0, u, one) /\ Runs(q, one, v, two)
    <3>1. three = one + two
      BY <2>2
    <3>2. Bytes(u, one) /\ Bytes(v, two)
      BY <2>3
    <3>3. Bytes(u \o v, three) /\ Runs(u \o v, 0, u, one) /\ Runs(u \o v, one, v, two)
      BY <2>2, <3>1, <3>2, BytesJoined, Zenon
    <3>4. q = u \o v
      BY <2>3
    <3>5. QED
      BY <3>3, <3>4, Zenon
  <2>5. u[1] = 2 /\ v[1] = 250 /\ v[2] = 250 /\ v \in Seq(Int) /\ Len(v) = 2
    BY <2>2, <2>3 DEF Bytes
  <2>6. DataBytes(q, 3, 5, v, 1)
    BY <2>2, <2>4, <2>5, ArrayBytes
  <2>7. DataBytes(q, 3, 5, p.data, 1)
    BY <2>6 DEF v
  <2>8. QED
    BY <1>7, <2>7
<1>8. p.type \in {1, 2, 3, 4, 5}
  BY DEF Payload
<1>9. QED
  BY <1>3, <1>4, <1>5, <1>6, <1>7, <1>8

\* m as two bytes, the first of them 0 or 1.
TwoBytes(m, hi, lo) == hi = m \div 256 /\ lo = m % 256 /\ hi <= 1 /\ hi * 256 + lo = m

LEMMA CountBytes ==
  ASSUME NEW m \in Nat, m <= 300
  PROVE  \E hi, lo \in Int : TwoBytes(m, hi, lo)
<1>1. CASE m < 256
  <2>1. TwoBytes(m, 0, m) /\ 0 \in Int /\ m \in Int
    BY <1>1 DEF TwoBytes
  <2>2. QED
    BY <2>1, Zenon
<1>2. CASE ~(m < 256)
  <2>1. TwoBytes(m, 1, m - 256) /\ 1 \in Int /\ m - 256 \in Int
    BY <1>2 DEF TwoBytes
  <2>2. QED
    BY <2>1, Zenon
<1>3. QED
  BY <1>1, <1>2

\* No frame is longer.
Longest == 1000

\* What the reader and the parser need of a frame: the header is at its front
\* and nowhere else, its count tells its length, its last byte is none of a
\* header, and it is taken apart into the trace it was made of.
Whole(f, t) ==
  /\ f \in Seq(Int) /\ Len(f) > 5 /\ Len(f) <= Longest
  /\ f[1] = HeaderByte /\ f[2] = HeaderByte /\ f[3] = HeaderByte
  /\ f[4] * 256 + f[5] = Len(f) - 5
  /\ \A i \in 2 .. Len(f) : i + 2 <= Len(f) => ~HeaderAt(f, i)
  /\ f[Len(f)] # HeaderByte
  /\ Parses(f) /\ Parsed(f) = t

LEMMA OneHeader ==
  ASSUME NEW f, NEW q, NEW h \in Nat, NEW n \in Nat, n < HeaderByte, NEW data, NEW s \in Nat,
         NEW hi \in Int, hi <= 1, NEW lo \in Int, NEW type \in Int,
         Frame9(f, hi, lo, type, q, h, n), DataBytes(q, h, type, data, s)
  PROVE  /\ \A i \in 2 .. Len(f) : i + 2 <= Len(f) => ~HeaderAt(f, i)
         /\ f[Len(f)] # HeaderByte
<1>1. PICK l \in Nat : l = NameLength
  BY NameIsShort
<1>2. PICK e \in Nat : e = h + l + 9
  BY <1>1
<1>3. Len(f) = e /\ HeaderByte = 250
  BY <1>1, <1>2 DEF Frame9, HeaderByte
<1>4. /\ f[4] = hi /\ f[6] = type /\ Runs(f, 6, q, h) /\ f[h + 7] = n /\ f[h + 8] = 0
      /\ Runs(f, h + 8, TraceName, l) /\ f[e] = 10
  BY <1>1, <1>2 DEF Frame9
<1>5. ASSUME NEW k \in h + 7 .. e PROVE f[k] # 250
  <2>1. CASE k = h + 7 \/ k = h + 8 \/ k = e
    <3>1. f[h + 7] # 250 /\ f[h + 8] # 250 /\ f[e] # 250
      BY <1>3, <1>4
    <3>2. QED
      BY <2>1, <3>1, Zenon
  <2>2. CASE k # h + 7 /\ k # h + 8 /\ k # e
    <3>1. PICK j \in 1 .. l : k = (h + 8) + j
      <4>1. k - (h + 8) \in 1 .. l
        BY <1>1, <1>2, <2>2
      <4>2. k = (h + 8) + (k - (h + 8))
        OBVIOUS
      <4>3. QED
        BY <4>1, <4>2
    <3>2. f[(h + 8) + j] = TraceName[j]
      BY <1>4, <3>1 DEF Runs
    <3>3. TraceName[j] = 99
      BY <1>1, <3>1 DEF TraceName
    <3>4. QED
      BY <3>1, <3>2, <3>3
  <2>3. QED
    BY <2>1, <2>2
<1>6. ASSUME NEW i \in 2 .. e, i + 2 <= e, HeaderAt(f, i) PROVE FALSE
  <2>1. f[i] = 250 /\ f[i + 1] = 250 /\ f[i + 2] = 250
    BY <1>3, <1>6 DEF HeaderAt
  <2>2. f[4] # 250 /\ f[6] # 250
    <3>1. type <= 5
      BY DEF DataBytes
    <3>2. QED
      BY <1>4, <3>1
  <2>3. i # 2 /\ i # 3 /\ i # 4 /\ i # 5 /\ i # 6
    BY <2>1, <2>2
  <2>4. i + 2 \notin h + 7 .. e
    BY <1>5, <2>1
  <2>5. PICK j \in 1 .. h : i = 6 + j /\ j + 2 <= h
    <3>1. i - 6 \in 1 .. h /\ i = 6 + (i - 6) /\ (i - 6) + 2 <= h
      BY <1>6, <2>3, <2>4
    <3>2. QED
      BY <3>1
  <2>6. /\ j \in 1 .. h /\ j + 1 \in 1 .. h /\ j + 2 \in 1 .. h
        /\ 6 + j = i /\ 6 + (j + 1) = i + 1 /\ 6 + (j + 2) = i + 2
    BY <2>5
  <2>7. q[j] = 250 /\ q[j + 1] = 250 /\ q[j + 2] = 250
    BY <1>4, <2>1, <2>6 DEF Runs
  <2>8. HeaderAt(q, j)
    BY <1>3, <2>7 DEF HeaderAt
  <2>9. QED
    BY <2>5, <2>8 DEF DataBytes
<1>7. QED
  BY <1>3, <1>4, <1>6

\* The m elements of f behind place d are those from i to j.
Spans(f, d, m, i, j) == i = d + 1 /\ j = d + m /\ j <= Len(f)

\* What runs from place d on is cut out whole.
LEMMA PieceIs ==
  ASSUME NEW f, f \in Seq(Int), NEW d \in Nat, NEW m \in Nat, NEW data, data \in Seq(Int),
         Len(data) = m, Runs(f, d, data, m), NEW i \in Int, NEW j \in Int, Spans(f, d, m, i, j)
  PROVE  SubSeq(f, i, j) = data
<1>0. i = d + 1 /\ j = d + m /\ j <= Len(f)
  BY DEF Spans
<1> DEFINE g == SubSeq(f, i, j)
<1>1. \A k \in i .. j : f[k] \in Int
  BY <1>0, ElementOfSeq
<1>2. /\ g \in Seq(Int) /\ Len(g) = (IF i <= j THEN j - i + 1 ELSE 0)
      /\ \A k \in 1 .. j - i + 1 : g[k] = f[i + k - 1]
  BY <1>1, SubSeqProperties
<1> HIDE DEF g
<1>3. (IF i <= j THEN j - i + 1 ELSE 0) = m
  BY <1>0
<1>4. Len(g) = Len(data)
  BY <1>2, <1>3
<1>5. ASSUME NEW k \in 1 .. Len(data) PROVE g[k] = data[k]
  <2>1. k \in 1 .. m /\ k \in 1 .. j - i + 1 /\ i + k - 1 = d + k
    BY <1>0
  <2>2. QED
    BY <1>2, <2>1 DEF Runs
<1>6. g = data
  BY <1>2, <1>4, <1>5, SeqEqual
<1>7. QED
  BY <1>6 DEF g

LEMMA FrameParses ==
  ASSUME NEW f, NEW q, NEW h \in Nat, NEW n \in Nat, NEW data, NEW s \in Nat,
         NEW hi, NEW lo, NEW type \in Int,
         Frame9(f, hi, lo, type, q, h, n), DataBytes(q, h, type, data, s)
  PROVE  /\ Parses(f)
         /\ Parsed(f) = [type |-> type, data |-> data, line |-> <<n, 0>>, name |-> TraceName]
<1>1. PICK l \in Nat : l = NameLength
  BY NameIsShort
<1>2. PICK m \in Nat : m = Len(data) /\ h = m + s
  BY DEF DataBytes
<1>3. /\ f \in Seq(Int) /\ Len(f) = h + l + 9 /\ f[6] = type /\ Runs(f, 6, q, h)
      /\ f[h + 7] = n /\ f[h + 8] = 0 /\ Runs(f, h + 8, TraceName, l)
  BY <1>1 DEF Frame9
<1>4. /\ s = (IF type = 5 THEN 1 ELSE 0) /\ type \in 1 .. 5 /\ data \in Seq(Int)
      /\ Runs(q, s, data, m)
  BY <1>2 DEF DataBytes
<1>5. Parses(f)
  BY <1>3, <1>4 DEF Parses
<1>6. Runs(f, 6 + s, data, m)
  <2>1. 6 \in Nat /\ s + m <= h
    BY <1>2
  <2>2. PICK six \in Nat : six = 6
    OBVIOUS
  <2>3. Runs(f, six, q, h)
    BY <1>3, <2>2
  <2>4. Runs(f, six + s, data, m)
    BY <1>2, <1>4, <2>1, <2>2, <2>3, RunsWithin
  <2>5. QED
    BY <2>2, <2>4
<1>7. DataStart(f) = 7 + s
  BY <1>3, <1>4 DEF DataStart
<1>8. DataLength(f) = m
  <2>1. CASE type = 5
    <3>1. 1 \in 1 .. h /\ 6 + 1 = 7
      BY <2>1 DEF DataBytes
    <3>2. f[7] = q[1]
      BY <1>3, <3>1 DEF Runs
    <3>3. QED
      BY <1>2, <1>3, <2>1, <3>2 DEF DataBytes, DataLength
  <2>2. CASE type # 5
    BY <1>2, <1>3, <2>2 DEF DataBytes, DataLength
  <2>3. QED
    BY <2>1, <2>2
<1>9. NameStart(f) = h + 9
  BY <1>2, <1>7, <1>8 DEF NameStart
<1>10. SubSeq(f, 7 + s, 6 + s + m) = data
  <2>1. PICK d \in Nat, i \in Int, j \in Int : d = 6 + s /\ i = d + 1 /\ j = d + m
    OBVIOUS
  <2>2. Spans(f, d, m, i, j) /\ data \in Seq(Int) /\ Len(data) = m /\ Runs(f, d, data, m)
    BY <1>1, <1>2, <1>3, <1>4, <1>6, <2>1 DEF Spans
  <2>3. SubSeq(f, i, j) = data
    BY <1>3, <2>1, <2>2, PieceIs
  <2>4. i = 7 + s /\ j = 6 + s + m
    BY <1>2, <2>1
  <2>5. QED
    BY <2>3, <2>4
<1>11. SubSeq(f, h + 7, h + 8) = <<n, 0>>
  <2>1. PICK d \in Nat, two \in Nat, i \in Int, j \in Int :
          d = h + 6 /\ two = 2 /\ i = d + 1 /\ j = d + two
    OBVIOUS
  <2> DEFINE line == <<n, 0>>
  <2>2. line \in Seq(Int) /\ Len(line) = two /\ line[1] = n /\ line[2] = 0
    BY <2>1
  <2> HIDE DEF line
  <2>3. Runs(f, d, line, two)
    <3>1. ASSUME NEW k \in 1 .. two PROVE f[d + k] = line[k]
      <4>1. k = 1 \/ k = 2
        BY <2>1
      <4>2. d + 1 = h + 7 /\ d + 2 = h + 8
        BY <2>1
      <4>3. QED
        BY <1>3, <2>2, <4>1, <4>2, Zenon
    <3>2. QED
      BY <3>1 DEF Runs
  <2>4. Spans(f, d, two, i, j)
    BY <1>1, <1>3, <2>1 DEF Spans
  <2>5. SubSeq(f, i, j) = line
    <3>1. f \in Seq(Int)
      BY <1>3
    <3>2. QED
      BY <2>1, <2>2, <2>3, <2>4, <3>1, PieceIs, Zenon
  <2>6. i = h + 7 /\ j = h + 8
    BY <2>1
  <2>7. QED
    BY <2>5, <2>6 DEF line
<1>12. SubSeq(f, h + 9, h + l + 8) = TraceName
  <2>1. PICK d \in Nat, i \in Int, j \in Int : d = h + 8 /\ i = d + 1 /\ j = d + l
    BY <1>1
  <2>2. TraceName \in Seq(Int) /\ Len(TraceName) = l
    BY <1>1 DEF TraceName
  <2>3. Spans(f, d, l, i, j) /\ Runs(f, d, TraceName, l)
    BY <1>1, <1>3, <2>1 DEF Spans
  <2>4. SubSeq(f, i, j) = TraceName
    <3>1. f \in Seq(Int)
      BY <1>3
    <3>2. QED
      BY <2>1, <2>2, <2>3, <3>1, PieceIs, Zenon
  <2>5. i = h + 9 /\ j = h + l + 8
    BY <1>1, <2>1
  <2>6. QED
    BY <2>4, <2>5
<1>13. /\ DataStart(f) + DataLength(f) - 1 = 6 + s + m
       /\ NameStart(f) - 2 = h + 7 /\ NameStart(f) - 1 = h + 8
       /\ Len(f) - Len(Footer) = h + l + 8
  <2>1. Len(Footer) = 1
    BY DEF Footer
  <2>2. QED
    BY <1>1, <1>2, <1>3, <1>7, <1>8, <1>9, <2>1
<1>14. QED
  BY <1>3, <1>5, <1>7, <1>9, <1>10, <1>11, <1>12, <1>13 DEF Parsed

LEMMA DataBounds ==
  ASSUME NEW q, NEW h \in Nat, NEW type, NEW data, NEW s \in Nat, DataBytes(q, h, type, data, s)
  PROVE  q \in Seq(Int) /\ Len(q) = h /\ h <= 4 /\ type \in Int
BY DEF DataBytes

FrameWith(count, t) == Header \o <<count \div 256, count % 256, t.type>> \o Content(t)

MadeOf(count, t, hi, lo, type, content) ==
  /\ count \div 256 = hi /\ count % 256 = lo
  /\ t.type = type /\ Content(t) = content

IsFrame(f, hi, lo, type, content) == f = Header \o <<hi, lo, type>> \o content

LEMMA FrameWithParts ==
  ASSUME NEW count, NEW t, NEW hi, NEW lo, NEW type, NEW content,
         MadeOf(count, t, hi, lo, type, content)
  PROVE  IsFrame(FrameWith(count, t), hi, lo, type, content)
BY Zenon DEF FrameWith, MadeOf, IsFrame

LEMMA FramesAreWhole ==
  ASSUME NEW n \in Nat, n < HeaderByte, NEW p \in Payload, NEW u, u = Trace(n, p)
  PROVE  Whole(TraceFrame(u), u)
<1>0. PICK t : t = Trace(n, p)
  OBVIOUS
<1>1. /\ t = [type |-> p.type, data |-> p.data, line |-> <<n, 0>>, name |-> TraceName]
      /\ t.type = p.type /\ t.data = p.data /\ t.line = <<n, 0>> /\ t.name = TraceName
  BY <1>0 DEF Trace
<1>2. PICK q : q = (IF p.type = 5 THEN <<Len(p.data)>> ELSE <<>>) \o p.data
  OBVIOUS
<1>3. PICK h \in Nat, s \in Nat : DataBytes(q, h, p.type, p.data, s)
  BY <1>2, PayloadBytes
<1>4. q \in Seq(Int) /\ Len(q) = h /\ p.type \in Int /\ h <= 4
  BY <1>3, DataBounds
<1>5. Content(t) = q \o <<n, 0>> \o TraceName \o Footer
  BY <1>1, <1>2 DEF Content
<1>6. PICK count \in Nat : count = h + NameLength + 4 /\ count <= 300
  BY <1>4, NameIsShort
<1>halves. PICK hi \in Int, lo \in Int : TwoBytes(count, hi, lo)
  BY <1>6, CountBytes
<1>7. hi = count \div 256 /\ lo = count % 256 /\ hi <= 1 /\ hi * 256 + lo = count
  BY <1>halves, Zenon DEF TwoBytes
<1> DEFINE content == q \o <<n, 0>> \o TraceName \o Footer
           f == Header \o <<hi, lo, p.type>> \o content
<1>8. Frame9(f, hi, lo, p.type, q, h, n) /\ 1 + Len(content) = h + NameLength + 4
  BY <1>4, FrameParts
<1>9. TraceFrame(t) = f
  <2>1. count = 1 + Len(Content(t))
    BY <1>5, <1>6, <1>8
  <2>2. TraceFrame(t) = FrameWith(1 + Len(Content(t)), t)
    BY Zenon DEF TraceFrame, FrameWith
  <2>3. MadeOf(count, t, hi, lo, p.type, content)
    BY <1>1, <1>5, <1>7, Zenon DEF MadeOf
  <2> HIDE DEF content
  <2>4. TraceFrame(t) = FrameWith(count, t)
    BY <2>1, <2>2, Zenon
  <2>5. IsFrame(FrameWith(count, t), hi, lo, p.type, content)
    BY <2>3, FrameWithParts, Zenon
  <2>6. QED
    BY <2>4, <2>5, Zenon DEF IsFrame
<1> HIDE DEF f, content
<1>10. /\ \A i \in 2 .. Len(f) : i + 2 <= Len(f) => ~HeaderAt(f, i)
       /\ f[Len(f)] # HeaderByte
  BY <1>3, <1>4, <1>7, <1>8, OneHeader, Zenon
<1>11. Parses(f) /\ Parsed(f) = t
  BY <1>1, <1>3, <1>4, <1>8, FrameParses
<1>12. /\ f \in Seq(Int) /\ Len(f) > 5 /\ Len(f) <= Longest
       /\ f[1] = HeaderByte /\ f[2] = HeaderByte /\ f[3] = HeaderByte
       /\ f[4] * 256 + f[5] = Len(f) - 5
  BY <1>4, <1>6, <1>7, <1>8, NameIsShort DEF Frame9, Longest
<1>13. QED
  BY <1>0, <1>9, <1>10, <1>11, <1>12, Zenon DEF Whole

\* The bytes on their way: x[1 .. n], those the reader holds before those in the
\* ring.
Stream(x, n, a, r) ==
  /\ a \in Seq(Int) /\ r \in Seq(Int) /\ n = Len(a) + Len(r)
  /\ Runs(x, 0, a, Len(a)) /\ Runs(x, Len(a), r, Len(r))

\* y is x without its first d bytes.
Follows(y, x, d) == \A i \in Nat : y[i] = x[i + d]

Traced(tr) ==
  /\ Len(tr) \in Nat
  /\ \A k \in 1 .. Len(tr) : Whole(TraceFrame(tr[k]), tr[k])
FrameLength(tr, k) == Len(TraceFrame(tr[k]))

\* Up to z, bytes that no frame begins in: they hold no header, and do not end
\* in the beginning of one unless nothing comes after them.
Junk(x, n, z, s) ==
  /\ z \in Nat /\ z <= n
  /\ \A i \in 1 .. z : i + 2 <= n => ~HeaderAt(x, i)
  /\ z > 0 /\ x[z] = HeaderByte => s = 1 /\ z = n

\* Then the p frames after the first b, from place off[i - 1] to off[i].
Queued(x, n, tr, b, p, off) ==
  /\ off \in [0 .. p -> Nat]
  /\ \A i \in 0 .. p : off[i] <= n
  /\ \A i, k \in 0 .. p : i <= k => off[i] <= off[k]
  /\ \A i \in 1 .. p : /\ off[i] = off[i - 1] + FrameLength(tr, b + i)
                       /\ Runs(x, off[i - 1], TraceFrame(tr[b + i]), FrameLength(tr, b + i))

\* Behind them nothing, or what a restart left of the last frame.
Rest(x, n, tr, s, e) ==
  /\ s = 0 => n = e
  /\ s = 1 => /\ Len(tr) > 0 /\ n - e < FrameLength(tr, Len(tr))
              /\ Runs(x, e, TraceFrame(tr[Len(tr)]), n - e)

Layout(x, n, tr, s, b, p, off) ==
  /\ Len(tr) = b + p + s
  /\ Junk(x, n, off[0], s) /\ Queued(x, n, tr, b, p, off) /\ Rest(x, n, tr, s, off[p])

LEMMA RunsBehind ==
  ASSUME NEW x, NEW y, NEW d \in Nat, Follows(y, x, d), NEW f, NEW at \in Nat, NEW m \in Int,
         d <= at, Runs(x, at, f, m)
  PROVE  Runs(y, at - d, f, m)
<1>1. SUFFICES ASSUME NEW i \in 1 .. m PROVE y[(at - d) + i] = f[i]
  BY DEF Runs
<1>2. (at - d) + i \in Nat /\ ((at - d) + i) + d = at + i
  OBVIOUS
<1>3. y[(at - d) + i] = x[((at - d) + i) + d]
  BY <1>2 DEF Follows
<1>4. x[at + i] = f[i]
  BY DEF Runs
<1>5. QED
  BY <1>2, <1>3, <1>4

LEMMA LayoutTypes ==
  ASSUME NEW x, NEW n \in Nat, NEW tr, NEW s \in 0 .. 1, NEW b \in Nat, NEW p \in Nat, NEW off,
         Layout(x, n, tr, s, b, p, off), Traced(tr)
  PROVE  /\ off \in [0 .. p -> Nat] /\ off[0] \in Nat /\ off[p] \in Nat
         /\ off[0] <= off[p] /\ off[p] <= n
         /\ \A i \in 0 .. p : off[i] \in Nat /\ off[0] <= off[i] /\ off[i] <= n
         /\ \A i \in 1 .. p : b + i \in 1 .. Len(tr) /\ FrameLength(tr, b + i) \in Nat
<1>1. 0 \in 0 .. p /\ p \in 0 .. p /\ off \in [0 .. p -> Nat]
  BY DEF Layout, Queued
<1>2. \A i \in 0 .. p : off[i] \in Nat /\ off[0] <= off[i] /\ off[i] <= n
  BY <1>1 DEF Layout, Queued
<1>3. ASSUME NEW i \in 1 .. p PROVE b + i \in 1 .. Len(tr) /\ FrameLength(tr, b + i) \in Nat
  <2>1. b + i \in 1 .. Len(tr)
    BY DEF Layout, Traced
  <2>2. TraceFrame(tr[b + i]) \in Seq(Int)
    BY <2>1 DEF Traced, Whole
  <2>3. QED
    BY <2>1, <2>2 DEF FrameLength
<1>4. QED
  BY <1>1, <1>2, <1>3

\* Taking bytes of the junk away.
LEMMA JunkTaken ==
  ASSUME NEW x, NEW n \in Nat, NEW tr, NEW s \in 0 .. 1, NEW b \in Nat, NEW p \in Nat, NEW off,
         Layout(x, n, tr, s, b, p, off), Traced(tr),
         NEW d \in Nat, d <= off[0], NEW y, Follows(y, x, d), NEW l \in Nat, l = n - d
  PROVE  \E o : Layout(y, l, tr, s, b, p, o)
<1> DEFINE o == [i \in 0 .. p |-> off[i] - d]
<1>1. /\ off \in [0 .. p -> Nat] /\ off[0] \in Nat /\ off[p] \in Nat /\ off[0] <= off[p] /\ off[p] <= n
      /\ \A i \in 0 .. p : off[i] \in Nat /\ off[0] <= off[i] /\ off[i] <= n
      /\ \A i \in 1 .. p : b + i \in 1 .. Len(tr) /\ FrameLength(tr, b + i) \in Nat
  BY LayoutTypes
<1>2. \A i \in 0 .. p : o[i] = off[i] - d /\ o[i] \in Nat /\ d <= off[i]
  BY <1>1
<1>3. o \in [0 .. p -> Nat] /\ o[0] = off[0] - d /\ o[p] = off[p] - d /\ d <= off[p]
  BY <1>1
<1> HIDE DEF o
<1>4. Junk(y, l, o[0], s)
  <2>1. o[0] \in Nat /\ o[0] <= l
    BY <1>1, <1>3
  <2>2. ASSUME NEW i \in 1 .. o[0], i + 2 <= l PROVE ~HeaderAt(y, i)
    <3>1. i + d \in 1 .. off[0] /\ (i + d) + 2 <= n
      BY <1>1, <1>3, <2>2
    <3>2. ~HeaderAt(x, i + d)
      BY <3>1 DEF Layout, Junk
    <3>3. /\ i \in Nat /\ i + 1 \in Nat /\ i + 2 \in Nat /\ (i + 1) + d = (i + d) + 1
          /\ (i + 2) + d = (i + d) + 2
      BY <1>1, <1>3
    <3>4. y[i] = x[i + d] /\ y[i + 1] = x[(i + d) + 1] /\ y[i + 2] = x[(i + d) + 2]
      BY <3>3 DEF Follows
    <3>5. QED
      BY <3>2, <3>4 DEF HeaderAt
  <2>3. ASSUME o[0] > 0, y[o[0]] = HeaderByte PROVE s = 1 /\ o[0] = l
    <3>1. o[0] + d = off[0] /\ off[0] > 0
      <4>1. PICK v \in Nat, w \in Nat : v = o[0] /\ w = off[0]
        BY <1>1, <2>1
      <4>2. v = w - d /\ v > 0
        BY <1>3, <2>3, <4>1
      <4>3. v + d = w /\ w > 0
        BY <4>2
      <4>4. QED
        BY <4>1, <4>3
    <3>2. x[off[0]] = HeaderByte
      <4>1. y[o[0]] = x[o[0] + d]
        BY <2>1 DEF Follows
      <4>2. QED
        BY <2>3, <3>1, <4>1
    <3>3. s = 1 /\ off[0] = n
      BY <3>1, <3>2 DEF Layout, Junk
    <3>4. QED
      BY <1>3, <3>3
  <2>4. QED
    BY <2>1, <2>2, <2>3 DEF Junk
<1>5. Queued(y, l, tr, b, p, o)
  <2>1. \A i \in 0 .. p : o[i] <= l
    BY <1>1, <1>2
  <2>2. ASSUME NEW i \in 0 .. p, NEW k \in 0 .. p, i <= k PROVE o[i] <= o[k]
    <3>1. off[i] <= off[k]
      BY <2>2 DEF Layout, Queued
    <3>2. QED
      BY <1>1, <1>2, <3>1
  <2>3. ASSUME NEW i \in 1 .. p
        PROVE  /\ o[i] = o[i - 1] + FrameLength(tr, b + i)
               /\ Runs(y, o[i - 1], TraceFrame(tr[b + i]), FrameLength(tr, b + i))
    <3>1. i \in 0 .. p /\ i - 1 \in 0 .. p
      OBVIOUS
    <3>2. /\ off[i] = off[i - 1] + FrameLength(tr, b + i)
          /\ Runs(x, off[i - 1], TraceFrame(tr[b + i]), FrameLength(tr, b + i))
      BY DEF Layout, Queued
    <3>3. PICK fl \in Nat, at \in Nat : fl = FrameLength(tr, b + i) /\ at = off[i - 1]
      BY <1>1, <3>1
    <3>4. o[i - 1] = at - d /\ d <= at
      BY <1>2, <3>1, <3>3
    <3>5. Runs(y, at - d, TraceFrame(tr[b + i]), fl)
      BY <3>2, <3>3, <3>4, RunsBehind
    <3>6. o[i] = off[i] - d
      BY <1>2, <3>1
    <3>7. QED
      BY <3>2, <3>3, <3>4, <3>5, <3>6
  <2>4. QED
    BY <1>3, <2>1, <2>2, <2>3 DEF Queued
<1>6. Rest(y, l, tr, s, o[p])
  <2>1. n - off[p] = l - o[p]
    BY <1>1, <1>3
  <2>2. Runs(x, off[p], TraceFrame(tr[Len(tr)]), n - off[p])
          => Runs(y, off[p] - d, TraceFrame(tr[Len(tr)]), n - off[p])
    <3>1. n - off[p] \in Int
      BY <1>1
    <3>2. QED
      BY <1>1, <1>3, <3>1, RunsBehind
  <2>3. Rest(x, n, tr, s, off[p])
    BY DEF Layout
  <2>4. QED
    BY <1>1, <1>3, <2>1, <2>2, <2>3 DEF Rest
<1>7. QED
  BY <1>4, <1>5, <1>6 DEF Layout

\* One of p frames goes, of length d; l of n bytes are left.
Advances(n, d, l, b, c, p, q) == p > 0 /\ l = n - d /\ c = b + 1 /\ q = p - 1

\* Taking the first frame away, with nothing before it.
LEMMA FrameTaken ==
  ASSUME NEW x, NEW n \in Nat, NEW tr, NEW s \in 0 .. 1, NEW b \in Nat, NEW p \in Nat, NEW off,
         Layout(x, n, tr, s, b, p, off), Traced(tr), off[0] = 0,
         NEW d \in Nat, d = FrameLength(tr, b + 1), NEW y, Follows(y, x, d),
         NEW l \in Int, NEW c \in Nat, NEW q \in Nat, Advances(n, d, l, b, c, p, q)
  PROVE  l \in Nat /\ \E o : Layout(y, l, tr, s, c, q, o)
<1>0. p > 0 /\ l = n - d /\ c = b + 1 /\ q = p - 1
  BY DEF Advances
<1> DEFINE o == [i \in 0 .. q |-> off[i + 1] - d]
<1>1. /\ off \in [0 .. p -> Nat] /\ off[0] \in Nat /\ off[p] \in Nat /\ off[0] <= off[p] /\ off[p] <= n
      /\ \A i \in 0 .. p : off[i] \in Nat /\ off[0] <= off[i] /\ off[i] <= n
      /\ \A i \in 1 .. p : b + i \in 1 .. Len(tr) /\ FrameLength(tr, b + i) \in Nat
  BY LayoutTypes
<1>2. off[1] = d /\ l \in Nat
  <2>1. 1 \in 1 .. p /\ 1 - 1 = 0 /\ 1 \in 0 .. p
    BY <1>0
  <2>2. off[1] = off[1 - 1] + FrameLength(tr, b + 1)
    BY <2>1 DEF Layout, Queued
  <2>3. off[1] = d
    BY <1>0, <2>1, <2>2
  <2>4. off[1] <= n
    BY <1>0, <1>1, <2>1
  <2>5. QED
    BY <1>0, <2>3, <2>4
<1>3. ASSUME NEW i \in 0 .. q
      PROVE  /\ i + 1 \in 0 .. p /\ o[i] = off[i + 1] - d /\ o[i] \in Nat /\ d <= off[i + 1]
             /\ off[i + 1] \in Nat /\ off[i + 1] <= n
  <2>1. i + 1 \in 0 .. p /\ 1 \in 0 .. p /\ 1 <= i + 1
    BY <1>0
  <2>2. d <= off[i + 1]
    BY <1>2, <2>1 DEF Layout, Queued
  <2>3. PICK e \in Nat : e = off[i + 1] /\ e <= n
    BY <1>1, <2>1, Zenon
  <2>4. o[i] = e - d /\ e - d \in Nat /\ d <= e
    BY <2>2, <2>3
  <2>5. QED
    BY <2>1, <2>3, <2>4, Zenon
<1>4. o \in [0 .. q -> Nat] /\ o[0] = 0 /\ o[q] = off[p] - d /\ d <= off[p]
  <2>1. 0 \in 0 .. q /\ q \in 0 .. q /\ 0 + 1 = 1 /\ q + 1 = p
    BY <1>0
  <2>2. QED
    BY <1>0, <1>2, <1>3, <2>1
<1> HIDE DEF o
<1>5. Junk(y, l, o[0], s)
  BY <1>0, <1>2, <1>4 DEF Junk
<1>6. Queued(y, l, tr, c, q, o)
  <2>1. \A i \in 0 .. q : o[i] <= l
    BY <1>0, <1>3
  <2>2. ASSUME NEW i \in 0 .. q, NEW k \in 0 .. q, i <= k PROVE o[i] <= o[k]
    <3>1. i + 1 \in 0 .. p /\ k + 1 \in 0 .. p /\ i + 1 <= k + 1
      BY <1>0, <2>2
    <3>2. off[i + 1] <= off[k + 1]
      BY <1>0, <3>1 DEF Layout, Queued
    <3>3. QED
      BY <1>0, <1>3, <3>2
  <2>3. ASSUME NEW i \in 1 .. q
        PROVE  /\ o[i] = o[i - 1] + FrameLength(tr, c + i)
               /\ Runs(y, o[i - 1], TraceFrame(tr[c + i]), FrameLength(tr, c + i))
    <3>1. PICK k \in 1 .. p : k = i + 1
      BY <1>0
    <3>2. b + k = c + i /\ k - 1 = i /\ i \in 0 .. q /\ i - 1 \in 0 .. q /\ (i - 1) + 1 = i
      BY <1>0, <3>1
    <3>3. /\ off[k] = off[k - 1] + FrameLength(tr, b + k)
          /\ Runs(x, off[k - 1], TraceFrame(tr[b + k]), FrameLength(tr, b + k))
      BY DEF Layout, Queued
    <3>4. PICK fl \in Nat, at \in Nat : fl = FrameLength(tr, c + i) /\ at = off[i]
      BY <1>0, <1>1, <1>3, <3>1, <3>2
    <3>5. o[i - 1] = at - d /\ d <= at
      BY <1>0, <1>3, <3>2, <3>4
    <3>6. Runs(y, at - d, TraceFrame(tr[c + i]), fl)
      BY <3>2, <3>3, <3>4, <3>5, RunsBehind
    <3>7. o[i] = off[k] - d
      BY <1>0, <1>3, <3>1, <3>2
    <3>8. QED
      BY <3>2, <3>3, <3>4, <3>5, <3>6, <3>7
  <2>4. QED
    BY <1>0, <1>4, <2>1, <2>2, <2>3 DEF Queued
<1>7. Rest(y, l, tr, s, o[q])
  <2>1. n - off[p] = l - o[q]
    BY <1>0, <1>1, <1>4
  <2>2. Runs(x, off[p], TraceFrame(tr[Len(tr)]), n - off[p])
          => Runs(y, off[p] - d, TraceFrame(tr[Len(tr)]), n - off[p])
    <3>1. n - off[p] \in Int
      BY <1>0, <1>1
    <3>2. QED
      BY <1>0, <1>1, <1>4, <3>1, RunsBehind
  <2>3. Rest(x, n, tr, s, off[p])
    BY DEF Layout
  <2>4. QED
    BY <1>0, <1>1, <1>4, <2>1, <2>2, <2>3 DEF Rest
<1>8. Len(tr) = c + q + s
  BY <1>0 DEF Layout, Traced
<1>9. QED
  BY <1>0, <1>2, <1>4, <1>5, <1>6, <1>7, <1>8 DEF Layout

\* d of n bytes are given up, more than the junk up to z or all; l are left.
GivesUp(z, n, d, l) == d <= n /\ (d > z \/ d = n) /\ l = n - d

\* Giving up where no whole frame is: all there is left is junk.
LEMMA AllJunk ==
  ASSUME NEW x, NEW n \in Nat, NEW tr, NEW s \in 0 .. 1, NEW b \in Nat, NEW p \in Nat, p = 0, NEW off,
         Layout(x, n, tr, s, b, p, off), Traced(tr),
         NEW d \in Nat, NEW l \in Nat, GivesUp(off[0], n, d, l), NEW y, Follows(y, x, d)
  PROVE  \E o : Layout(y, l, tr, s, b, p, o)
<1> DEFINE o == [i \in 0 .. p |-> l]
<1>1. o \in [0 .. p -> Nat] /\ o[0] = l /\ o[p] = l /\ \A i \in 0 .. p : o[i] = l
  OBVIOUS
<1> HIDE DEF o
<1>2. PICK z \in Nat : z = off[0] /\ z = off[p] /\ z <= n /\ d <= n /\ (d > z \/ d = n) /\ l = n - d
  BY LayoutTypes DEF GivesUp
<1>3. Rest(x, n, tr, s, z) /\ Len(tr) = b + s
  BY <1>2 DEF Layout
<1>4. l > 0 => s = 1 /\ d > z
  BY <1>2, <1>3 DEF Rest
<1>5. ASSUME NEW i \in 1 .. l, i + 2 <= l PROVE ~HeaderAt(y, i)
  <2>1. s = 1 /\ d > z
    BY <1>4, <1>5
  <2>2. Len(tr) \in 1 .. Len(tr)
    BY <1>3, <2>1 DEF Traced
  <2>3. PICK f : f = TraceFrame(tr[Len(tr)]) /\ Whole(f, tr[Len(tr)])
    BY <2>2 DEF Traced
  <2>4. PICK fl \in Nat : fl = Len(f)
    BY <2>3 DEF Whole
  <2>5. Runs(x, z, f, n - z) /\ n - z < fl
    BY <1>3, <2>1, <2>3, <2>4 DEF Rest, FrameLength
  <2>6. PICK k \in 2 .. n - z : k = (i + d) - z /\ k + 2 <= n - z
    <3>1. (i + d) - z \in 2 .. n - z /\ ((i + d) - z) + 2 <= n - z
      BY <1>2, <1>5, <2>1
    <3>2. QED
      BY <3>1
  <2>7. /\ k \in 1 .. n - z /\ k + 1 \in 1 .. n - z /\ k + 2 \in 1 .. n - z
        /\ z + k = i + d /\ z + (k + 1) = (i + 1) + d /\ z + (k + 2) = (i + 2) + d
        /\ i \in Nat /\ i + 1 \in Nat /\ i + 2 \in Nat
    BY <1>2, <2>6
  <2>8. x[z + k] = f[k] /\ x[z + (k + 1)] = f[k + 1] /\ x[z + (k + 2)] = f[k + 2]
    BY <2>5, <2>7 DEF Runs
  <2>9. y[i] = x[i + d] /\ y[i + 1] = x[(i + 1) + d] /\ y[i + 2] = x[(i + 2) + d]
    BY <2>7 DEF Follows
  <2>10. k \in 2 .. Len(f) /\ k + 2 <= Len(f)
    BY <2>4, <2>5, <2>6
  <2>11. ~HeaderAt(f, k)
    BY <2>3, <2>10 DEF Whole
  <2>12. QED
    BY <2>7, <2>8, <2>9, <2>11 DEF HeaderAt
<1>6. Junk(y, l, o[0], s)
  BY <1>1, <1>4, <1>5 DEF Junk
<1>7. Queued(y, l, tr, b, p, o)
  BY <1>1 DEF Queued
<1>8. Rest(y, l, tr, s, o[p])
  <2>1. CASE s = 0
    BY <1>1, <2>1 DEF Rest
  <2>2. CASE s = 1
    <3>1. Len(tr) \in 1 .. Len(tr)
      BY <1>3, <2>2 DEF Traced
    <3>2. Whole(TraceFrame(tr[Len(tr)]), tr[Len(tr)])
      BY <3>1 DEF Traced
    <3>3. FrameLength(tr, Len(tr)) > 0
      BY <3>2 DEF Whole, FrameLength
    <3>4. PICK none \in Int : none = l - o[p]
      BY <1>1
    <3>5. none = 0
      BY <1>1, <3>4
    <3>6. Runs(y, o[p], TraceFrame(tr[Len(tr)]), none)
      BY <3>5 DEF Runs
    <3>7. Len(tr) > 0
      BY <1>3, <2>2
    <3>8. QED
      BY <2>2, <3>3, <3>4, <3>5, <3>6, <3>7 DEF Rest
  <2>3. QED
    BY <2>1, <2>2
<1>9. Len(tr) = b + p + s
  BY DEF Layout
<1>10. QED
  BY <1>6, <1>7, <1>8, <1>9 DEF Layout

\* tr2 is tr and one trace more, t.
Extends(tr2, tr, t) ==
  /\ Len(tr2) = Len(tr) + 1 /\ tr2[Len(tr) + 1] = t
  /\ \A k \in 1 .. Len(tr) : tr2[k] = tr[k]

\* y is x[1 .. n] and then m bytes of f.
Continues(y, x, n, f, m) == (\A i \in 1 .. n : y[i] = x[i]) /\ Runs(y, n, f, m)

\* Nothing on the way.
LEMMA NothingThere ==
  ASSUME NEW x, NEW n \in Nat, n = 0, NEW tr, NEW s \in 0 .. 1, s = 0, NEW b \in Nat, b = Len(tr),
         NEW p \in Nat, p = 0
  PROVE  \E o : Layout(x, n, tr, s, b, p, o) /\ o[0] = 0
<1> DEFINE o == [i \in 0 .. p |-> 0]
<1>1. o \in [0 .. p -> Nat] /\ o[0] = 0 /\ o[p] = 0 /\ \A i \in 0 .. p : o[i] = 0
  OBVIOUS
<1> HIDE DEF o
<1>2. Junk(x, n, o[0], s)
  BY <1>1 DEF Junk
<1>3. Queued(x, n, tr, b, p, o)
  BY <1>1 DEF Queued
<1>4. Rest(x, n, tr, s, o[p])
  BY <1>1 DEF Rest
<1>5. QED
  BY <1>1, <1>2, <1>3, <1>4 DEF Layout

\* Nothing but whole frames so far: what there is ends where the last one ends,
\* and a frame, or a part of one, may follow.
LEMMA FrameFollows ==
  ASSUME NEW x, NEW n \in Nat, NEW tr, NEW b \in Nat, NEW p \in Nat, NEW off,
         Layout(x, n, tr, 0, b, p, off), Traced(tr),
         NEW y, NEW f, NEW m \in Nat, Continues(y, x, n, f, m), NEW l \in Nat, l = n + m,
         NEW tr2, NEW t, Extends(tr2, tr, t), f = TraceFrame(t),
         NEW s \in 0 .. 1, NEW q \in Nat, s = 0 => m = Len(f) /\ q = p + 1,
         s = 1 => m < Len(f) /\ q = p
  PROVE  \E o : Layout(y, l, tr2, s, b, q, o) /\ o[0] = off[0]
<1> DEFINE o == [i \in 0 .. q |-> IF i <= p THEN off[i] ELSE l]
<1>1. PICK zero \in 0 .. 1 : zero = 0
  OBVIOUS
<1>still. Layout(x, n, tr, zero, b, p, off)
  BY <1>1
<1>2. /\ off \in [0 .. p -> Nat] /\ off[0] \in Nat /\ off[p] \in Nat /\ off[0] <= off[p] /\ off[p] <= n
      /\ \A i \in 0 .. p : off[i] \in Nat /\ off[0] <= off[i] /\ off[i] <= n
      /\ \A i \in 1 .. p : b + i \in 1 .. Len(tr) /\ FrameLength(tr, b + i) \in Nat
  BY <1>still, LayoutTypes
<1>3. n = off[p] /\ Len(tr) = b + p
  <2>1. Rest(x, n, tr, 0, off[p]) /\ Len(tr) = b + p + 0
    BY DEF Layout
  <2>2. QED
    BY <2>1 DEF Rest
<1>4. o \in [0 .. q -> Nat]
  BY <1>2
<1>5. /\ \A i \in 0 .. p : o[i] = off[i] /\ i \in 0 .. q
      /\ s = 0 => o[q] = l
  BY <1>2
<1>6. o[0] = off[0]
  BY <1>5
<1> HIDE DEF o
<1>7. ASSUME NEW i \in 1 .. n PROVE y[i] = x[i]
  BY DEF Continues
<1>8. Junk(y, l, o[0], s)
  <2>1. PICK z \in Nat : z = off[0] /\ z <= n
    BY <1>2
  <2>2. /\ \A i \in 1 .. z : i + 2 <= n => ~HeaderAt(x, i)
        /\ z > 0 => x[z] # HeaderByte
    BY <2>1 DEF Layout, Junk
  <2>3. z > 0 => y[z] # HeaderByte
    BY <1>7, <2>1, <2>2
  <2>4. ASSUME NEW i \in 1 .. z PROVE ~HeaderAt(y, i)
    <3>1. CASE i + 2 <= n
      <4>1. i \in 1 .. n /\ i + 1 \in 1 .. n /\ i + 2 \in 1 .. n
        BY <2>1, <3>1
      <4>2. y[i] = x[i] /\ y[i + 1] = x[i + 1] /\ y[i + 2] = x[i + 2]
        BY <1>7, <4>1
      <4>3. ~HeaderAt(x, i)
        BY <2>2, <3>1
      <4>4. QED
        BY <4>2, <4>3 DEF HeaderAt
    <3>2. CASE ~(i + 2 <= n)
      <4>1. z = i \/ z = i + 1 \/ z = i + 2
        BY <2>1, <3>2
      <4>2. QED
        BY <2>3, <4>1 DEF HeaderAt
    <3>3. QED
      BY <3>1, <3>2
  <2>5. z <= l
    BY <2>1
  <2>6. QED
    BY <1>6, <2>1, <2>3, <2>4, <2>5 DEF Junk
<1>9. Queued(y, l, tr2, b, q, o)
  <2>1. \A i \in 0 .. q : o[i] <= l
    <3>1. ASSUME NEW i \in 0 .. q PROVE o[i] <= l
      <4>1. CASE i <= p
        BY <1>2, <1>5, <4>1
      <4>2. CASE ~(i <= p)
        <5>1. i = q /\ s = 0
          BY <4>2
        <5>2. QED
          BY <1>5, <5>1
      <4>3. QED
        BY <4>1, <4>2
    <3>2. QED
      BY <3>1
  <2>2. ASSUME NEW i \in 0 .. q, NEW k \in 0 .. q, i <= k PROVE o[i] <= o[k]
    <3>1. CASE k <= p
      <4>1. i \in 0 .. p /\ k \in 0 .. p
        BY <2>2, <3>1
      <4>2. off[i] <= off[k]
        BY <2>2, <4>1 DEF Layout, Queued
      <4>3. QED
        BY <1>5, <4>1, <4>2
    <3>2. CASE ~(k <= p)
      <4>1. k = q /\ s = 0
        BY <3>2
      <4>2. QED
        BY <1>5, <2>1, <4>1
    <3>3. QED
      BY <3>1, <3>2
  <2>3. ASSUME NEW i \in 1 .. q
        PROVE  /\ o[i] = o[i - 1] + FrameLength(tr2, b + i)
               /\ Runs(y, o[i - 1], TraceFrame(tr2[b + i]), FrameLength(tr2, b + i))
    <3>1. CASE i <= p
      <4>1. i \in 1 .. p /\ i \in 0 .. p /\ i - 1 \in 0 .. p /\ b + i \in 1 .. Len(tr)
        BY <1>2, <3>1
      <4>2. /\ off[i] = off[i - 1] + FrameLength(tr, b + i)
            /\ Runs(x, off[i - 1], TraceFrame(tr[b + i]), FrameLength(tr, b + i))
        BY <4>1 DEF Layout, Queued
      <4>3. tr2[b + i] = tr[b + i]
        BY <4>1 DEF Extends
      <4> DEFINE g == TraceFrame(tr[b + i])
      <4> HIDE DEF g
      <4>4. PICK fl \in Nat, at \in Nat :
              fl = FrameLength(tr, b + i) /\ at = off[i - 1] /\ at + fl <= n
        <5>1. FrameLength(tr, b + i) \in Nat /\ off[i - 1] \in Nat
          BY <1>2, <4>1
        <5>2. off[i - 1] + FrameLength(tr, b + i) <= n
          BY <1>2, <4>1, <4>2
        <5>3. QED
          BY <5>1, <5>2
      <4>5. ASSUME NEW k \in 1 .. fl PROVE y[at + k] = g[k]
        <5>1. at + k \in 1 .. n
          <6>1. at \in Nat /\ fl \in Nat /\ at + fl <= n
            BY <4>4, Zenon
          <6>2. QED
            BY <6>1
        <5>2. x[at + k] = g[k]
          BY <4>2, <4>4 DEF Runs, g
        <5>3. QED
          BY <1>7, <5>1, <5>2
      <4>6. Runs(y, at, g, fl)
        BY <4>5 DEF Runs
      <4>7. o[i] = off[i] /\ o[i - 1] = at
        BY <1>5, <4>1, <4>4
      <4>8. FrameLength(tr2, b + i) = fl /\ TraceFrame(tr2[b + i]) = g
        BY <4>3, <4>4 DEF FrameLength, g
      <4>9. QED
        BY <4>2, <4>4, <4>6, <4>7, <4>8
    <3>2. CASE ~(i <= p)
      <4>1. i = q /\ s = 0 /\ i - 1 = p /\ b + i = Len(tr) + 1 /\ p \in 0 .. p
        BY <1>3, <3>2
      <4>2. tr2[b + i] = t
        BY <4>1 DEF Extends
      <4>3. FrameLength(tr2, b + i) = m /\ TraceFrame(tr2[b + i]) = f
        BY <4>1, <4>2 DEF FrameLength
      <4>4. o[i] = l /\ o[i - 1] = n
        BY <1>3, <1>5, <4>1
      <4>5. QED
        BY <4>3, <4>4 DEF Continues
    <3>3. QED
      BY <3>1, <3>2
  <2>4. QED
    BY <1>4, <2>1, <2>2, <2>3 DEF Queued
<1>10. Rest(y, l, tr2, s, o[q])
  <2>1. CASE s = 0
    BY <1>5, <2>1 DEF Rest
  <2>2. CASE s = 1
    <3>1. o[q] = n /\ Len(tr2) = Len(tr) + 1 /\ tr2[Len(tr2)] = t
      <4>1. q = p /\ p \in 0 .. p
        BY <2>2
      <4>2. QED
        BY <1>3, <1>5, <4>1 DEF Extends
    <3>2. FrameLength(tr2, Len(tr2)) = Len(f) /\ TraceFrame(tr2[Len(tr2)]) = f
      BY <3>1 DEF FrameLength
    <3>3. l - n = m /\ Len(tr) + 1 > 0
      BY <1>3
    <3>4. QED
      BY <2>2, <3>1, <3>2, <3>3 DEF Rest, Continues
  <2>3. QED
    BY <2>1, <2>2
<1>11. Len(tr2) = b + q + s
  BY <1>3 DEF Extends
<1>12. QED
  BY <1>6, <1>8, <1>9, <1>10, <1>11 DEF Layout

\* At place at, x has the k-th byte of f.
ByteOf(x, at, f, k) == x[at] = f[k]

\* Behind the junk is the beginning of the next frame, as far as it goes.
LEMMA FrameBegins ==
  ASSUME NEW x, NEW n \in Nat, NEW tr, NEW s \in 0 .. 1, NEW b \in Nat, NEW p \in Nat, NEW off,
         Layout(x, n, tr, s, b, p, off), Traced(tr), NEW k \in Nat, 0 < k, k <= 5,
         NEW at \in Nat, at = off[0] + k, at <= n
  PROVE  b + 1 \in 1 .. Len(tr) /\ ByteOf(x, at, TraceFrame(tr[b + 1]), k)
<1>1. /\ off \in [0 .. p -> Nat] /\ off[0] \in Nat /\ off[p] \in Nat /\ off[0] <= off[p] /\ off[p] <= n
      /\ \A i \in 1 .. p : b + i \in 1 .. Len(tr) /\ FrameLength(tr, b + i) \in Nat
  BY LayoutTypes
<1>2. CASE p > 0
  <2>1. 1 \in 1 .. p /\ 1 - 1 = 0
    BY <1>2
  <2>2. b + 1 \in 1 .. Len(tr) /\ Runs(x, off[0], TraceFrame(tr[b + 1]), FrameLength(tr, b + 1))
    BY <1>1, <2>1 DEF Layout, Queued
  <2>3. FrameLength(tr, b + 1) > 5
    BY <2>2 DEF Traced, Whole, FrameLength
  <2>4. k \in 1 .. FrameLength(tr, b + 1)
    BY <1>1, <2>1, <2>3
  <2>5. QED
    BY <2>2, <2>4 DEF Runs, ByteOf
<1>3. CASE p = 0
  <2>1. Rest(x, n, tr, s, off[0]) /\ Len(tr) = b + s
    BY <1>3 DEF Layout
  <2>2. s = 1
    BY <1>1, <2>1 DEF Rest
  <2>3. Len(tr) = b + 1 /\ Runs(x, off[0], TraceFrame(tr[b + 1]), n - off[0])
    BY <2>1, <2>2 DEF Rest
  <2>4. k \in 1 .. n - off[0] /\ b + 1 \in 1 .. Len(tr)
    BY <1>1, <2>3
  <2>5. QED
    BY <2>3, <2>4 DEF Runs, ByteOf
<1>4. QED
  BY <1>2, <1>3

LEMMA NotAHeader ==
  ASSUME NEW x, NEW n \in Nat, NEW tr, NEW s \in 0 .. 1, NEW b \in Nat, NEW p \in Nat, NEW off,
         Layout(x, n, tr, s, b, p, off), Traced(tr),
         NEW d \in 1 .. 3, d <= n, x[d] # HeaderByte
  PROVE  d <= off[0]
<1>1. PICK z \in Nat : z = off[0]
  BY LayoutTypes
<1>2. SUFFICES ASSUME z < d PROVE FALSE
  BY <1>1
<1>3. PICK k \in 1 .. 3 : k = d - z /\ z + k = d
  BY <1>2
<1>4. k \in Nat /\ 0 < k /\ k <= 5 /\ d \in Nat /\ d = off[0] + k
  BY <1>1, <1>3
<1>5. b + 1 \in 1 .. Len(tr) /\ x[d] = TraceFrame(tr[b + 1])[k]
  <2>1. b + 1 \in 1 .. Len(tr) /\ ByteOf(x, d, TraceFrame(tr[b + 1]), k)
    BY <1>4, FrameBegins
  <2>2. QED
    BY <2>1 DEF ByteOf
<1>6. Whole(TraceFrame(tr[b + 1]), tr[b + 1])
  BY <1>5 DEF Traced
<1>7. TraceFrame(tr[b + 1])[k] = HeaderByte
  <2>1. k = 1 \/ k = 2 \/ k = 3
    BY <1>3
  <2>2. QED
    BY <1>6, <2>1, Zenon DEF Whole
<1>8. QED
  BY <1>5, <1>7

LEMMA HeaderFound ==
  ASSUME NEW x, NEW n \in Nat, NEW tr, NEW s \in 0 .. 1, NEW b \in Nat, NEW p \in Nat, NEW off,
         Layout(x, n, tr, s, b, p, off), Traced(tr),
         3 <= n, x[1] = HeaderByte, x[2] = HeaderByte, x[3] = HeaderByte
  PROVE  off[0] = 0
<1>1. PICK z \in Nat : z = off[0]
  BY LayoutTypes
<1>2. SUFFICES ASSUME z # 0 PROVE FALSE
  BY <1>1
<1>3. 1 \in 1 .. z /\ 1 + 2 <= n /\ 1 + 1 = 2 /\ 1 + 2 = 3
  BY <1>2
<1>4. ~HeaderAt(x, 1)
  BY <1>1, <1>3 DEF Layout, Junk
<1>5. QED
  BY <1>3, <1>4 DEF HeaderAt

\* The count in x is that of a frame of length d.
Counts(x, d) == x[4] * 256 + x[5] = d - 5

LEMMA CountRead ==
  ASSUME NEW x, NEW n \in Nat, NEW tr, NEW s \in 0 .. 1, NEW b \in Nat, NEW p \in Nat, NEW off,
         Layout(x, n, tr, s, b, p, off), Traced(tr), 5 <= n, off[0] = 0
  PROVE  b + 1 \in 1 .. Len(tr) /\ Counts(x, FrameLength(tr, b + 1))
<1>1. PICK four \in Nat, five \in Nat : four = 4 /\ five = 5
  OBVIOUS
<1>2. /\ 0 < four /\ four <= 5 /\ four = off[0] + four /\ four <= n
      /\ 0 < five /\ five <= 5 /\ five = off[0] + five /\ five <= n
  BY <1>1
<1>3. b + 1 \in 1 .. Len(tr) /\ ByteOf(x, four, TraceFrame(tr[b + 1]), four)
  BY <1>2, FrameBegins
<1>4. ByteOf(x, five, TraceFrame(tr[b + 1]), five)
  BY <1>2, FrameBegins
<1>5. x[4] = TraceFrame(tr[b + 1])[4] /\ x[5] = TraceFrame(tr[b + 1])[5]
  BY <1>1, <1>3, <1>4 DEF ByteOf
<1>6. Whole(TraceFrame(tr[b + 1]), tr[b + 1])
  BY <1>3 DEF Traced
<1> DEFINE f == TraceFrame(tr[b + 1])
<1> HIDE DEF f
<1>7. /\ f \in Seq(Int) /\ Len(f) > 5 /\ Len(f) <= Longest /\ f[4] * 256 + f[5] = Len(f) - 5
  BY <1>6 DEF Whole, f
<1>8. PICK fl \in Nat : fl = Len(f) /\ f[4] * 256 + f[5] = fl - 5
  BY <1>7
<1>9. x[4] = f[4] /\ x[5] = f[5] /\ FrameLength(tr, b + 1) = fl
  BY <1>5, <1>8 DEF f, FrameLength
<1>10. x[4] * 256 + x[5] = fl - 5
  BY <1>8, <1>9
<1>11. QED
  BY <1>3, <1>9, <1>10 DEF Counts

LEMMA FrameFits ==
  ASSUME NEW x, NEW n \in Nat, NEW tr, NEW s \in 0 .. 1, NEW b \in Nat, NEW p \in Nat, NEW off,
         Layout(x, n, tr, s, b, p, off), off[0] = 0, p > 0,
         NEW d \in Nat, d = FrameLength(tr, b + 1)
  PROVE  d <= n /\ Runs(x, 0, TraceFrame(tr[b + 1]), d)
<1>1. 1 \in 1 .. p /\ 1 - 1 = 0 /\ 1 \in 0 .. p
  OBVIOUS
<1>2. Runs(x, 0, TraceFrame(tr[b + 1]), d) /\ off[1] = off[0] + d /\ off[1] <= n
  BY <1>1 DEF Layout, Queued
<1>3. QED
  BY <1>2

LEMMA FrameIsThere ==
  ASSUME NEW x, NEW n \in Nat, NEW tr, NEW s \in 0 .. 1, NEW b \in Nat, NEW p \in Nat, NEW off,
         Layout(x, n, tr, s, b, p, off), Traced(tr), off[0] = 0, b + 1 \in 1 .. Len(tr),
         NEW d \in Nat, d = FrameLength(tr, b + 1), d <= n
  PROVE  p > 0
<1>1. SUFFICES ASSUME p = 0 PROVE n < d
  OBVIOUS
<1>2. Rest(x, n, tr, s, off[0]) /\ Len(tr) = b + s
  BY <1>1 DEF Layout
<1>3. s = 1 /\ Len(tr) = b + 1
  BY <1>2
<1>4. n - off[0] < d
  BY <1>2, <1>3 DEF Rest
<1>5. QED
  BY <1>4

\* The d bytes taken are those the reader holds and m more; l are left of n.
Takes(a, r, m, d, n, l) == m <= Len(r) /\ d = Len(a) + m /\ l = n - d

\* A sequence without its first m elements.
LEMMA TailOf ==
  ASSUME NEW r, r \in Seq(Int), NEW v \in Nat, v = Len(r), NEW m \in Nat, m <= v,
         NEW l \in Nat, l = v - m
  PROVE  /\ SubSeq(r, m + 1, v) \in Seq(Int) /\ Len(SubSeq(r, m + 1, v)) = l
         /\ \A i \in 1 .. l : SubSeq(r, m + 1, v)[i] = r[m + i]
<1> DEFINE q == [i \in 1 .. l |-> r[m + i]]
<1>1. ASSUME NEW i \in 1 .. l PROVE r[m + i] \in Int
  <2>1. m + i \in 1 .. Len(r)
    OBVIOUS
  <2>2. QED
    BY <2>1, ElementOfSeq
<1>2. q \in Seq(Int) /\ Len(q) = l /\ \A i \in 1 .. l : q[i] = r[m + i]
  BY <1>1
<1> HIDE DEF q
<1>3. Runs(r, m, q, l)
  BY <1>2 DEF Runs
<1>4. PICK k \in Int : k = m + 1
  OBVIOUS
<1>5. Spans(r, m, l, k, v)
  BY <1>4 DEF Spans
<1>6. SubSeq(r, k, v) = q
  BY <1>2, <1>3, <1>5, PieceIs
<1>7. QED
  BY <1>2, <1>4, <1>6, Zenon

\* m of the bytes of the ring are taken, and everything before them.
LEMMA StreamTaken ==
  ASSUME NEW x, NEW n \in Nat, NEW a, NEW r, Stream(x, n, a, r),
         NEW m \in Nat, NEW d \in Nat, NEW l \in Int, Takes(a, r, m, d, n, l),
         NEW y, Follows(y, x, d)
  PROVE  l \in Nat /\ Stream(y, l, <<>>, SubSeq(r, m + 1, Len(r)))
<1>0. PICK u \in Nat, v \in Nat : u = Len(a) /\ v = Len(r) /\ m <= v /\ d = u + m /\ l = n - d
  <2>1. Len(a) \in Nat /\ Len(r) \in Nat
    BY DEF Stream
  <2>2. m <= Len(r) /\ d = Len(a) + m /\ l = n - d
    BY DEF Takes
  <2>3. QED
    BY <2>1, <2>2
<1> DEFINE r2 == SubSeq(r, m + 1, v)
<1>1. a \in Seq(Int) /\ r \in Seq(Int) /\ n = u + v /\ Runs(x, u, r, v)
  BY <1>0 DEF Stream
<1>2. l = v - m /\ l \in Nat
  BY <1>0, <1>1
<1>3. r2 \in Seq(Int) /\ Len(r2) = l /\ \A i \in 1 .. l : r2[i] = r[m + i]
  BY <1>0, <1>1, <1>2, TailOf
<1> HIDE DEF r2
<1>5. l \in Nat /\ Len(r2) = l
  BY <1>2, <1>3
<1>6. ASSUME NEW i \in 1 .. l PROVE y[i] = r2[i]
  <2>1. i \in Nat /\ m + i \in 1 .. v /\ i + d = u + (m + i)
    BY <1>0, <1>1, <1>2
  <2>2. y[i] = x[i + d]
    BY <2>1 DEF Follows
  <2>3. x[u + (m + i)] = r[m + i]
    BY <1>1, <2>1 DEF Runs
  <2>4. r2[i] = r[m + i]
    BY <1>3, <2>1
  <2>5. QED
    BY <2>1, <2>2, <2>3, <2>4
<1>7. Runs(y, 0, r2, l) /\ Runs(y, 0, <<>>, 0)
  <2>1. \A i \in 1 .. l : 0 + i = i
    BY <1>5
  <2>2. QED
    BY <1>6, <2>1 DEF Runs
<1>8. <<>> \in Seq(Int) /\ Len(<<>>) = 0 /\ l = 0 + l
  BY <1>5
<1>9. Stream(y, l, <<>>, r2)
  BY <1>3, <1>5, <1>7, <1>8 DEF Stream
<1>10. QED
  BY <1>0, <1>5, <1>9 DEF r2

\* a2 is a and the first m bytes of r.
Longer(a2, a, r, m) ==
  /\ a2 \in Seq(Int) /\ Len(a2) = Len(a) + m
  /\ \A i \in 1 .. Len(a) : a2[i] = a[i]
  /\ Runs(a2, Len(a), r, m)

\* m of the bytes of the ring are kept by the reader.
LEMMA StreamKept ==
  ASSUME NEW x, NEW n \in Nat, NEW a, NEW r, Stream(x, n, a, r),
         NEW u \in Nat, u = Len(a), NEW v \in Nat, v = Len(r), NEW m \in Nat, m <= v,
         NEW a2, Longer(a2, a, r, m)
  PROVE  Stream(x, n, a2, SubSeq(r, m + 1, Len(r)))
<1> DEFINE r2 == SubSeq(r, m + 1, v)
<1>1. a \in Seq(Int) /\ r \in Seq(Int) /\ n = u + v /\ Runs(x, u, r, v)
      /\ Runs(x, 0, a, u)
  BY DEF Stream
<1>2. PICK l \in Nat : l = v - m
  <2>1. v - m \in Nat
    OBVIOUS
  <2>2. QED
    BY <2>1
<1>3. r2 \in Seq(Int) /\ Len(r2) = l /\ \A i \in 1 .. l : r2[i] = r[m + i]
  BY <1>1, <1>2, TailOf
<1>4. a2 \in Seq(Int) /\ Len(a2) = u + m /\ (\A i \in 1 .. u : a2[i] = a[i]) /\ Runs(a2, u, r, m)
  BY <1>1 DEF Longer
<1>5. PICK w \in Nat : w = u + m /\ w = Len(a2) /\ n = u + v
  BY <1>1, <1>4
<1> HIDE DEF r2
<1>6. n = w + l
  BY <1>2, <1>5
<1>7. ASSUME NEW i \in 1 .. w PROVE x[0 + i] = a2[i]
  <2>1. CASE i <= u
    <3>1. i \in 1 .. u
      BY <1>5, <2>1
    <3>2. QED
      BY <1>1, <1>4, <3>1 DEF Runs
  <2>2. CASE ~(i <= u)
    <3>1. PICK k \in 1 .. m : u + k = i /\ 0 + i = i /\ k \in 1 .. v
      <4>1. i - u \in 1 .. m /\ u + (i - u) = i /\ 0 + i = i /\ i - u \in 1 .. v
        BY <1>5, <2>2
      <4>2. QED
        BY <4>1, Zenon
    <3>2. a2[u + k] = r[k] /\ x[u + k] = r[k]
      BY <1>1, <1>4, <3>1 DEF Runs
    <3>3. QED
      BY <3>1, <3>2
  <2>3. QED
    BY <2>1, <2>2
<1>8. ASSUME NEW i \in 1 .. l PROVE x[w + i] = r2[i]
  <2>1. m + i \in 1 .. v /\ w + i = u + (m + i)
    BY <1>2, <1>5
  <2>2. x[u + (m + i)] = r[m + i]
    BY <1>1, <2>1 DEF Runs
  <2>3. r2[i] = r[m + i]
    BY <1>3, <2>1
  <2>4. QED
    BY <2>1, <2>2, <2>3
<1>9. Runs(x, 0, a2, w) /\ Runs(x, w, r2, l)
  BY <1>7, <1>8 DEF Runs
<1>10. Stream(x, n, a2, r2)
  BY <1>2, <1>3, <1>4, <1>5, <1>6, <1>9 DEF Stream
<1>11. QED
  BY <1>10 DEF r2

\* m bytes of f come into the ring.
LEMMA StreamGrows ==
  ASSUME NEW x, NEW n \in Nat, NEW a, NEW r, Stream(x, n, a, r),
         NEW f, f \in Seq(Int), NEW m \in Nat, Len(f) = m, NEW l \in Nat, l = n + m
  PROVE  \E y : Stream(y, l, a, r \o f) /\ Continues(y, x, n, f, m)
<1> DEFINE y == [i \in 1 .. l |-> IF i <= n THEN x[i] ELSE f[i - n]]
           r2 == r \o f
           u == Len(a)
           v == Len(r)
<1>1. a \in Seq(Int) /\ r \in Seq(Int) /\ u \in Nat /\ v \in Nat /\ n = u + v /\ Runs(x, u, r, v)
      /\ Runs(x, 0, a, u)
  BY DEF Stream
<1>2. PICK w \in Nat : w = v + m
  BY <1>1
<1>3. Bytes(r2, w) /\ Runs(r2, 0, r, v) /\ Runs(r2, v, f, m)
  <2>1. Bytes(r, v) /\ Bytes(f, m)
    BY <1>1 DEF Bytes
  <2>2. QED
    BY <1>1, <1>2, <2>1, BytesJoined
<1>4. \A i \in 1 .. n : y[i] = x[i]
  OBVIOUS
<1>5. ASSUME NEW i \in 1 .. m PROVE y[n + i] = f[i]
  <2>1. n + i \in 1 .. l /\ ~(n + i <= n) /\ (n + i) - n = i
    OBVIOUS
  <2>2. QED
    BY <2>1
<1> HIDE DEF y, r2, u, v
<1>6. ASSUME NEW i \in 1 .. u PROVE y[0 + i] = a[i]
  <2>1. i \in 1 .. n /\ 0 + i = i
    BY <1>1
  <2>2. QED
    BY <1>1, <1>4, <2>1 DEF Runs
<1>7. ASSUME NEW i \in 1 .. w PROVE y[u + i] = r2[i]
  <2>1. CASE i <= v
    <3>1. i \in 1 .. v /\ u + i \in 1 .. n /\ 0 + i = i
      BY <1>1, <2>1
    <3>2. r2[i] = r[i] /\ x[u + i] = r[i]
      BY <1>1, <1>3, <3>1 DEF Runs
    <3>3. QED
      BY <1>4, <3>1, <3>2
  <2>2. CASE ~(i <= v)
    <3>1. PICK k \in 1 .. m : v + k = i /\ u + i = n + k
      <4>1. i - v \in 1 .. m /\ v + (i - v) = i /\ u + i = n + (i - v)
        BY <1>1, <1>2, <2>2
      <4>2. QED
        BY <4>1, Zenon
    <3>2. r2[v + k] = f[k] /\ y[n + k] = f[k]
      BY <1>3, <1>5 DEF Runs
    <3>3. QED
      BY <3>1, <3>2
  <2>3. QED
    BY <2>1, <2>2
<1>8. Runs(y, 0, a, u) /\ Runs(y, u, r2, w) /\ Runs(y, n, f, m)
  BY <1>5, <1>6, <1>7 DEF Runs
<1>9. r2 \in Seq(Int) /\ Len(r2) = w /\ l = u + w
  BY <1>1, <1>2, <1>3 DEF Bytes
<1>10. Stream(y, l, a, r2)
  BY <1>1, <1>8, <1>9 DEF Stream, u
<1>11. Continues(y, x, n, f, m)
  BY <1>4, <1>8, Zenon DEF Continues
<1>12. QED
  BY <1>10, <1>11 DEF r2

\* What the tool made of the first b traces.
GotThese(got, tr, b) ==
  /\ \A i \in 1 .. Len(got) : got[i].line[1] \in 1 .. b /\ got[i] = tr[got[i].line[1]]
  /\ \A i, k \in 1 .. Len(got) : i < k => got[i].line[1] < got[k].line[1]

\* The reader holds header bytes, or the front of the next frame with its count.
Reading(a, count, tr, b, z) ==
  \/ count = -1 /\ Len(a) <= 3 /\ \A i \in 1 .. Len(a) : a[i] = HeaderByte
  \/ /\ count # -1 /\ Len(a) = 5 /\ z = 0
     /\ b + 1 \in 1 .. Len(tr) /\ count = FrameLength(tr, b + 1) - 5

OnTheWay(r, a, count, s, tr, got, whole) ==
  \E n \in Nat, b \in Nat, p \in Nat : \E x, off :
    /\ Stream(x, n, a, r) /\ Layout(x, n, tr, s, b, p, off) /\ Reading(a, count, tr, b, off[0])
    /\ GotThese(got, tr, b) /\ whole = Len(got) + p

LongFrame(tr, k) == \E d \in Nat : d = FrameLength(tr, k) /\ d >= 6 /\ d <= Longest

LEMMA FrameIsLong ==
  ASSUME NEW tr, Traced(tr), NEW k \in 1 .. Len(tr)
  PROVE  LongFrame(tr, k)
<1>1. Whole(TraceFrame(tr[k]), tr[k])
  BY DEF Traced
<1>2. PICK f : f = TraceFrame(tr[k])
  OBVIOUS
<1>3. f \in Seq(Int) /\ Len(f) > 5 /\ Len(f) <= Longest
  BY <1>1, <1>2, Zenon DEF Whole
<1>4. Len(f) \in Nat /\ Len(f) >= 6 /\ Len(f) <= Longest
  BY <1>3 DEF Longest
<1>5. FrameLength(tr, k) = Len(f)
  BY <1>2, Zenon DEF FrameLength
<1>6. FrameLength(tr, k) \in Nat /\ FrameLength(tr, k) >= 6 /\ FrameLength(tr, k) <= Longest
  BY <1>4, <1>5, Zenon
<1>7. QED
  BY <1>6, Zenon DEF LongFrame

\* Nothing there means no frame either.
LEMMA Awake ==
  ASSUME NEW r, NEW a, NEW count, NEW s \in 0 .. 1, NEW tr, NEW got, NEW whole, Traced(tr),
         OnTheWay(r, a, count, s, tr, got, whole), s = 1 => r = <<>> /\ a = <<>>
  PROVE  OnTheWay(r, a, count, 0, tr, got, whole)
<1>1. PICK n \in Nat, b \in Nat, p \in Nat : \E x, off :
        /\ Stream(x, n, a, r) /\ Layout(x, n, tr, s, b, p, off) /\ Reading(a, count, tr, b, off[0])
        /\ GotThese(got, tr, b) /\ whole = Len(got) + p
  BY DEF OnTheWay
<1>2. PICK x, off :
        /\ Stream(x, n, a, r) /\ Layout(x, n, tr, s, b, p, off) /\ Reading(a, count, tr, b, off[0])
        /\ GotThese(got, tr, b) /\ whole = Len(got) + p
  BY <1>1
<1>3. CASE s = 0
  BY <1>3
<1>4. CASE s = 1
  <2>1. n = 0 /\ a = <<>> /\ r = <<>>
    BY <1>2, <1>4 DEF Stream
  <2>2. off[0] = 0 /\ \A i \in 1 .. p : b + i \in 1 .. Len(tr)
    <3>1. /\ off[0] \in Nat /\ off[p] \in Nat /\ off[0] <= off[p] /\ off[p] <= n
          /\ \A i \in 1 .. p : b + i \in 1 .. Len(tr)
      BY <1>2, LayoutTypes
    <3>2. QED
      BY <2>1, <3>1
  <2>3. p = 0
    <3>1. SUFFICES ASSUME p > 0 PROVE FALSE
      OBVIOUS
    <3>2. b + 1 \in 1 .. Len(tr)
      BY <2>2, <3>1
    <3>3. LongFrame(tr, b + 1)
      BY <3>2, FrameIsLong
    <3>4. PICK d \in Nat : d = FrameLength(tr, b + 1) /\ d >= 6
      BY <3>3 DEF LongFrame
    <3>5. d <= n
      BY <1>2, <2>2, <3>1, <3>4, FrameFits
    <3>6. QED
      BY <2>1, <3>1, <3>4, <3>5
  <2>4. Len(tr) = b + 1
    BY <1>2, <1>4, <2>3 DEF Layout
  <2>5. PICK c \in Nat, zero \in 0 .. 1 : c = Len(tr) /\ c = b + 1 /\ zero = 0
    BY <2>4
  <2>6. \E o : Layout(x, n, tr, zero, c, p, o) /\ o[0] = 0
    BY <2>1, <2>3, <2>5, NothingThere
  <2>7. PICK o : Layout(x, n, tr, zero, c, p, o)
    BY <2>6
  <2>8. Reading(a, count, tr, c, o[0])
    BY <1>2, <2>1 DEF Reading
  <2>9. GotThese(got, tr, c)
    <3>1. \A i : i \in 1 .. b => i \in 1 .. c
      BY <2>5
    <3>2. QED
      BY <1>2, <3>1 DEF GotThese
  <2>10. QED
    BY <1>2, <2>5, <2>7, <2>8, <2>9 DEF OnTheWay
<1>5. QED
  BY <1>3, <1>4

\* A trace is sent, or the beginning of one.
LEMMA FrameSent ==
  ASSUME NEW r, NEW a, NEW count, NEW tr, NEW got, NEW h \in Nat, h = Len(got),
         NEW w \in Nat, Traced(tr), OnTheWay(r, a, count, 0, tr, got, w),
         NEW tr2, NEW t, Extends(tr2, tr, t), NEW f, f = TraceFrame(t),
         NEW g, g \in Seq(Int), NEW m \in Nat, Len(g) = m, Runs(f, 0, g, m),
         NEW s \in 0 .. 1, NEW w2 \in Nat, s = 0 => m = Len(f) /\ w2 = w + 1,
         s = 1 => m < Len(f) /\ w2 = w
  PROVE  OnTheWay(r \o g, a, count, s, tr2, got, w2)
<1>1. PICK n \in Nat, b \in Nat, p \in Nat : \E x, off :
        /\ Stream(x, n, a, r) /\ Layout(x, n, tr, 0, b, p, off) /\ Reading(a, count, tr, b, off[0])
        /\ GotThese(got, tr, b) /\ w = Len(got) + p
  BY DEF OnTheWay
<1>2. PICK x, off :
        /\ Stream(x, n, a, r) /\ Layout(x, n, tr, 0, b, p, off) /\ Reading(a, count, tr, b, off[0])
        /\ GotThese(got, tr, b) /\ w = Len(got) + p
  BY <1>1
<1>3. PICK l \in Nat : l = n + m
  OBVIOUS
<1>4. PICK y : Stream(y, l, a, r \o g) /\ Continues(y, x, n, g, m)
  BY <1>2, <1>3, StreamGrows
<1>5. Continues(y, x, n, f, m)
  <2>1. ASSUME NEW i \in 1 .. m PROVE y[n + i] = f[i]
    <3>1. 0 + i = i
      OBVIOUS
    <3>2. QED
      BY <1>4, <3>1 DEF Continues, Runs
  <2>2. QED
    BY <1>4, <2>1 DEF Continues, Runs
<1>6. PICK q \in Nat : (s = 0 => q = p + 1) /\ (s = 1 => q = p)
  <2>1. CASE s = 0
    <3>1. p + 1 \in Nat /\ s # 1
      BY <2>1
    <3>2. QED
      BY <3>1
  <2>2. CASE s = 1
    BY <2>2
  <2>3. QED
    BY <2>1, <2>2
<1>7. (s = 0 => m = Len(f) /\ q = p + 1) /\ (s = 1 => m < Len(f) /\ q = p)
  BY <1>6
<1>8. PICK o : Layout(y, l, tr2, s, b, q, o) /\ o[0] = off[0]
  BY <1>2, <1>3, <1>5, <1>7, FrameFollows
<1>9. Len(tr) \in Nat /\ Len(tr) = b + p
  BY <1>2 DEF Traced, Layout
<1>10. Reading(a, count, tr2, b, o[0])
  <2>1. CASE count = -1
    BY <1>2, <2>1 DEF Reading
  <2>2. CASE count # -1
    <3>1. Len(a) = 5 /\ off[0] = 0 /\ b + 1 \in 1 .. Len(tr) /\ count = FrameLength(tr, b + 1) - 5
      BY <1>2, <2>2 DEF Reading
    <3>2. tr2[b + 1] = tr[b + 1] /\ b + 1 \in 1 .. Len(tr2)
      BY <1>9, <3>1 DEF Extends
    <3>3. FrameLength(tr2, b + 1) = FrameLength(tr, b + 1)
      BY <3>2 DEF FrameLength
    <3>4. QED
      BY <1>8, <2>2, <3>1, <3>2, <3>3 DEF Reading
  <2>3. QED
    BY <2>1, <2>2
<1>11. GotThese(got, tr2, b)
  <2>1. \A k : k \in 1 .. b => k \in 1 .. Len(tr)
    BY <1>9
  <2>2. \A k : k \in 1 .. b => tr2[k] = tr[k]
    BY <2>1 DEF Extends
  <2>3. QED
    BY <1>2, <2>2 DEF GotThese
<1>12. w2 = Len(got) + q
  <2>1. w = h + p
    BY <1>2
  <2>2. w2 = h + q
    BY <1>6, <2>1
  <2>3. QED
    BY <2>2
<1>13. QED
  BY <1>4, <1>8, <1>10, <1>11, <1>12 DEF OnTheWay

\* What a state of the reader says of the bytes it holds.
LEMMA HeldBytes ==
  ASSUME NEW x, NEW n \in Nat, NEW a, NEW r, Stream(x, n, a, r),
         NEW count, NEW tr, NEW b, NEW z, Reading(a, count, tr, b, z)
  PROVE  /\ Len(a) \in Nat /\ Len(r) \in Nat /\ n = Len(a) + Len(r)
         /\ Runs(x, 0, a, Len(a)) /\ Runs(x, Len(a), r, Len(r))
         /\ Len(a) <= 3 => count = -1 /\ \A i \in 1 .. Len(a) : x[i] = HeaderByte
         /\ Len(a) # 5 => Len(a) <= 3
<1>1. /\ Len(a) \in Nat /\ Len(r) \in Nat /\ n = Len(a) + Len(r)
      /\ Runs(x, 0, a, Len(a)) /\ Runs(x, Len(a), r, Len(r))
  BY DEF Stream
<1>2. PICK u \in Nat : u = Len(a)
  BY <1>1
<1>3. ASSUME u <= 3 PROVE count = -1 /\ \A i \in 1 .. u : x[i] = HeaderByte
  <2>1. count = -1 /\ \A i \in 1 .. u : a[i] = HeaderByte
    <3>1. u # 5
      BY <1>3
    <3>2. count = -1 /\ \A i \in 1 .. Len(a) : a[i] = HeaderByte
      BY <1>2, <3>1, Zenon DEF Reading
    <3>3. QED
      BY <1>2, <3>2, Zenon
  <2>2. ASSUME NEW i \in 1 .. u PROVE x[i] = a[i]
    <3>1. 0 + i = i
      OBVIOUS
    <3>2. QED
      BY <1>1, <1>2, <3>1 DEF Runs
  <2>3. QED
    BY <2>1, <2>2
<1>4. u # 5 => u <= 3
  BY <1>2, Zenon DEF Reading
<1>5. QED
  BY <1>1, <1>2, <1>3, <1>4

LEMMA HeaderByteTaken ==
  ASSUME NEW r, NEW a, NEW count, NEW s \in 0 .. 1, NEW tr, NEW got, NEW w,
         OnTheWay(r, a, count, s, tr, got, w), Len(a) < 3, r # <<>>, r[1] = HeaderByte
  PROVE  OnTheWay(SubSeq(r, 2, Len(r)), Append(a, r[1]), count, s, tr, got, w)
<1>1. PICK n \in Nat, b \in Nat, p \in Nat : \E x, off :
        /\ Stream(x, n, a, r) /\ Layout(x, n, tr, s, b, p, off) /\ Reading(a, count, tr, b, off[0])
        /\ GotThese(got, tr, b) /\ w = Len(got) + p
  BY DEF OnTheWay
<1>2. PICK x, off :
        /\ Stream(x, n, a, r) /\ Layout(x, n, tr, s, b, p, off) /\ Reading(a, count, tr, b, off[0])
        /\ GotThese(got, tr, b) /\ w = Len(got) + p
  BY <1>1
<1> DEFINE a2 == Append(a, r[1])
<1>3. a \in Seq(Int) /\ r \in Seq(Int) /\ r[1] \in Int
  BY <1>2 DEF Stream
<1>4. PICK u \in Nat, v \in Nat : u = Len(a) /\ v = Len(r) /\ u < 3 /\ v >= 1
  BY <1>3
<1>5. PICK m \in Nat : m = 1 /\ m <= v /\ m + 1 = 2
  BY <1>4
<1>6. a2 \in Seq(Int) /\ Len(a2) = u + 1 /\ (\A i \in 1 .. u : a2[i] = a[i]) /\ a2[u + 1] = r[1]
  BY <1>3, <1>4, AppendProperties
<1> HIDE DEF a2
<1>7. Longer(a2, a, r, m)
  <2>1. \A i \in 1 .. m : a2[u + i] = r[i]
    BY <1>5, <1>6
  <2>2. QED
    BY <1>4, <1>5, <1>6, <2>1 DEF Longer, Runs
<1>8. Stream(x, n, a2, SubSeq(r, m + 1, Len(r)))
  BY <1>2, <1>4, <1>5, <1>7, StreamKept
<1>9. Stream(x, n, a2, SubSeq(r, 2, Len(r)))
  BY <1>5, <1>8
<1>10. Reading(a2, count, tr, b, off[0])
  <2>1. count = -1 /\ \A i \in 1 .. u : a[i] = HeaderByte
    <3>1. \A k \in Nat : k < 3 => k # 5
      OBVIOUS
    <3>2. u # 5
      BY <1>4, <3>1, Zenon
    <3>3. QED
      BY <1>2, <1>4, <3>2, Zenon DEF Reading
  <2>2. ASSUME NEW i \in 1 .. u + 1 PROVE a2[i] = HeaderByte
    <3>1. CASE i \in 1 .. u
      BY <1>6, <2>1, <3>1
    <3>2. CASE i = u + 1
      BY <1>6, <3>2
    <3>3. QED
      BY <3>1, <3>2
  <2>3. QED
    BY <1>4, <1>6, <2>1, <2>2 DEF Reading
<1>11. OnTheWay(SubSeq(r, 2, Len(r)), a2, count, s, tr, got, w)
  BY <1>2, <1>9, <1>10 DEF OnTheWay
<1>12. QED
  BY <1>11 DEF a2

LEMMA NothingHeld ==
  ASSUME NEW tr, NEW b, NEW z
  PROVE  Reading(<<>>, -1, tr, b, z)
<1>1. Len(<<>>) = 0 /\ 0 <= 3 /\ 1 .. 0 = {}
  OBVIOUS
<1>2. QED
  BY <1>1 DEF Reading

LEMMA ByteSkipped ==
  ASSUME NEW r, NEW a, NEW count, NEW s \in 0 .. 1, NEW tr, NEW got, NEW w, Traced(tr),
         OnTheWay(r, a, count, s, tr, got, w), Len(a) < 3, r # <<>>, r[1] # HeaderByte
  PROVE  OnTheWay(SubSeq(r, 2, Len(r)), <<>>, -1, s, tr, got, w)
<1>1. PICK n \in Nat, b \in Nat, p \in Nat : \E x, off :
        /\ Stream(x, n, a, r) /\ Layout(x, n, tr, s, b, p, off) /\ Reading(a, count, tr, b, off[0])
        /\ GotThese(got, tr, b) /\ w = Len(got) + p
  BY DEF OnTheWay
<1>2. PICK x, off :
        /\ Stream(x, n, a, r) /\ Layout(x, n, tr, s, b, p, off) /\ Reading(a, count, tr, b, off[0])
        /\ GotThese(got, tr, b) /\ w = Len(got) + p
  BY <1>1
<1>3. a \in Seq(Int) /\ r \in Seq(Int) /\ n = Len(a) + Len(r) /\ Runs(x, Len(a), r, Len(r))
  BY <1>2 DEF Stream
<1>4. PICK u \in Nat, v \in Nat : u = Len(a) /\ v = Len(r) /\ u < 3 /\ v >= 1 /\ n = u + v
  BY <1>3
<1>5. PICK m \in Nat, d \in Nat : m = 1 /\ m <= v /\ d = u + m /\ m + 1 = 2 /\ d <= n /\ d \in 1 .. 3
  <2>1. 1 \in Nat /\ u + 1 \in Nat /\ 1 <= v /\ u + 1 <= n /\ u + 1 \in 1 .. 3 /\ 1 + 1 = 2
    BY <1>4
  <2>2. QED
    BY <2>1
<1>6. x[d] # HeaderByte
  <2>1. 1 \in 1 .. v
    BY <1>4
  <2>2. x[u + 1] = r[1]
    BY <1>3, <1>4, <2>1 DEF Runs
  <2>3. QED
    BY <1>5, <2>2
<1>7. d <= off[0]
  BY <1>2, <1>5, <1>6, NotAHeader
<1> DEFINE y == [i \in Nat |-> x[i + d]]
<1>8. Follows(y, x, d)
  BY DEF Follows
<1> HIDE DEF y
<1>9. PICK l \in Nat : l = n - d
  BY <1>5
<1>10. Stream(y, l, <<>>, SubSeq(r, m + 1, Len(r)))
  <2>1. Takes(a, r, m, d, n, l)
    BY <1>4, <1>5, <1>9 DEF Takes
  <2>2. QED
    BY <1>2, <1>8, <2>1, StreamTaken
<1>11. PICK o : Layout(y, l, tr, s, b, p, o)
  BY <1>2, <1>7, <1>8, <1>9, JunkTaken, Zenon
<1>12. Reading(<<>>, -1, tr, b, o[0])
  BY NothingHeld
<1>13. Stream(y, l, <<>>, SubSeq(r, 2, Len(r)))
  BY <1>5, <1>10
<1>14. QED
  BY <1>2, <1>11, <1>12, <1>13 DEF OnTheWay

\* The reader gives up with less than it waits for.
LEMMA BytesDropped ==
  ASSUME NEW r, NEW a, NEW count, NEW s \in 0 .. 1, NEW tr, NEW got, NEW w, Traced(tr),
         OnTheWay(r, a, count, s, tr, got, w),
         \/ Len(a) < 3 /\ r = <<>>
         \/ Len(a) = 3 /\ Len(r) < 2
         \/ count # -1 /\ Len(r) < count
  PROVE  OnTheWay(r, <<>>, -1, s, tr, got, w)
<1>1. PICK n \in Nat, b \in Nat, p \in Nat : \E x, off :
        /\ Stream(x, n, a, r) /\ Layout(x, n, tr, s, b, p, off) /\ Reading(a, count, tr, b, off[0])
        /\ GotThese(got, tr, b) /\ w = Len(got) + p
  BY DEF OnTheWay
<1>2. PICK x, off :
        /\ Stream(x, n, a, r) /\ Layout(x, n, tr, s, b, p, off) /\ Reading(a, count, tr, b, off[0])
        /\ GotThese(got, tr, b) /\ w = Len(got) + p
  BY <1>1
<1>3. a \in Seq(Int) /\ r \in Seq(Int) /\ n = Len(a) + Len(r)
  BY <1>2 DEF Stream
<1>4. PICK u \in Nat, v \in Nat : u = Len(a) /\ v = Len(r) /\ n = u + v
  BY <1>3
<1>5. PICK z \in Nat : z = off[0] /\ z <= n
  <2>1. off[0] \in Nat /\ off[p] \in Nat /\ off[0] <= off[p] /\ off[p] <= n
    BY <1>2, LayoutTypes
  <2>2. QED
    BY <2>1
<1>6. p > 0 => n >= 6
  <2>1. SUFFICES ASSUME p > 0 PROVE n >= 6
    OBVIOUS
  <2>2. 1 \in 1 .. p /\ 1 - 1 = 0 /\ 1 \in 0 .. p
    BY <2>1
  <2>3. b + 1 \in 1 .. Len(tr)
    BY <1>2, <2>2, LayoutTypes
  <2>4. off[1] = off[0] + FrameLength(tr, b + 1) /\ off[1] <= n
    BY <1>2, <2>2 DEF Layout, Queued
  <2>5. PICK fl \in Nat : fl = FrameLength(tr, b + 1) /\ fl >= 6
    <3>1. LongFrame(tr, b + 1)
      BY <2>3, FrameIsLong
    <3>2. QED
      BY <3>1 DEF LongFrame
  <2>6. z + fl <= n
    BY <1>5, <2>4, <2>5
  <2>7. QED
    BY <2>5, <2>6
<1>7. p = 0 /\ (u > z \/ u = n)
  <2>1. CASE u < 3 /\ r = <<>>
    <3>1. v = 0 /\ u = n /\ n < 6
      BY <1>4, <2>1
    <3>2. QED
      BY <1>6, <3>1
  <2>2. CASE u = 3 /\ v < 2
    <3>1. /\ Len(a) <= 3 => \A i \in 1 .. Len(a) : x[i] = HeaderByte
      BY <1>2, HeldBytes
    <3>2. 1 \in 1 .. Len(a) /\ 2 \in 1 .. Len(a) /\ 3 \in 1 .. Len(a) /\ Len(a) <= 3 /\ 3 <= n /\ n < 6
      BY <1>4, <2>2
    <3>3. x[1] = HeaderByte /\ x[2] = HeaderByte /\ x[3] = HeaderByte
      BY <3>1, <3>2
    <3>4. off[0] = 0
      BY <1>2, <3>2, <3>3, HeaderFound
    <3>5. QED
      BY <1>5, <1>6, <2>2, <3>2, <3>4
  <2>3. CASE count # -1 /\ v < count
    <3>1. /\ u = 5 /\ z = 0 /\ b + 1 \in 1 .. Len(tr) /\ count = FrameLength(tr, b + 1) - 5
      BY <1>2, <1>4, <1>5, <2>3 DEF Reading
    <3>2. LongFrame(tr, b + 1)
      BY <3>1, FrameIsLong
    <3>3. PICK fl \in Nat : fl = FrameLength(tr, b + 1)
      BY <3>2 DEF LongFrame
    <3>4. v < fl - 5
      BY <2>3, <3>1, <3>3
    <3>5. n < fl
      BY <1>4, <3>1, <3>4
    <3>6. p = 0
      <4>1. SUFFICES ASSUME p > 0 PROVE FALSE
        OBVIOUS
      <4>2. fl <= n
        BY <1>2, <1>5, <3>1, <3>3, <4>1, FrameFits
      <4>3. QED
        BY <3>5, <4>2
    <3>7. QED
      BY <3>1, <3>6
  <2>4. QED
    BY <1>4, <2>1, <2>2, <2>3
<1> DEFINE y == [i \in Nat |-> x[i + u]]
<1>8. Follows(y, x, u)
  BY DEF Follows
<1> HIDE DEF y
<1>9. PICK l \in Nat, m \in Nat : l = n - u /\ m = 0 /\ m <= v /\ u = u + m /\ u <= n /\ m + 1 = 1
  <2>1. n - u \in Nat /\ 0 \in Nat /\ 0 <= v /\ u = u + 0 /\ u <= n /\ 0 + 1 = 1
    BY <1>4
  <2>2. QED
    BY <2>1
<1>10. Stream(y, l, <<>>, SubSeq(r, m + 1, Len(r)))
  <2>1. Takes(a, r, m, u, n, l)
    BY <1>4, <1>9 DEF Takes
  <2>2. QED
    BY <1>2, <1>8, <2>1, StreamTaken
<1>11. SubSeq(r, m + 1, Len(r)) = r
  BY <1>3, <1>9, SubSeqFull
<1>12. PICK o : Layout(y, l, tr, s, b, p, o)
  <2>1. GivesUp(off[0], n, u, l)
    BY <1>5, <1>7, <1>9 DEF GivesUp
  <2>2. QED
    BY <1>2, <1>7, <1>8, <2>1, AllJunk
<1>13. Reading(<<>>, -1, tr, b, o[0])
  BY NothingHeld
<1>14. QED
  BY <1>2, <1>10, <1>11, <1>12, <1>13 DEF OnTheWay

CountFound(c, r, a, s, tr, got, w) ==
  /\ c = r[1] * 256 + r[2] /\ c # 0 /\ c <= Longest
  /\ OnTheWay(SubSeq(r, 3, Len(r)), a \o SubSeq(r, 1, 2), c, s, tr, got, w)

\* The count the reader finds is that of the frame.
LEMMA CountTaken ==
  ASSUME NEW r, NEW a, NEW count, NEW s \in 0 .. 1, NEW tr, NEW got, NEW w, Traced(tr),
         OnTheWay(r, a, count, s, tr, got, w), Len(a) = 3, Len(r) >= 2
  PROVE  \E c \in Nat : CountFound(c, r, a, s, tr, got, w)
<1>1. PICK n \in Nat, b \in Nat, p \in Nat : \E x, off :
        /\ Stream(x, n, a, r) /\ Layout(x, n, tr, s, b, p, off) /\ Reading(a, count, tr, b, off[0])
        /\ GotThese(got, tr, b) /\ w = Len(got) + p
  BY DEF OnTheWay
<1>2. PICK x, off :
        /\ Stream(x, n, a, r) /\ Layout(x, n, tr, s, b, p, off) /\ Reading(a, count, tr, b, off[0])
        /\ GotThese(got, tr, b) /\ w = Len(got) + p
  BY <1>1
<1>3. a \in Seq(Int) /\ r \in Seq(Int) /\ n = Len(a) + Len(r) /\ Runs(x, Len(a), r, Len(r))
  BY <1>2 DEF Stream
<1>4. PICK u \in Nat, v \in Nat : u = Len(a) /\ v = Len(r) /\ u = 3 /\ v >= 2 /\ n = u + v /\ 5 <= n
  <2>lengths. Len(a) \in Nat /\ Len(r) \in Nat
    BY <1>3, LenProperties
  <2>1. PICK u \in Nat, v \in Nat : u = Len(a) /\ v = Len(r)
    BY <2>lengths, Zenon
  <2>2. u = 3 /\ v >= 2 /\ n = u + v
    BY <1>3, <2>1
  <2>3. 5 <= n
    BY <2>2
  <2>4. QED
    BY <2>1, <2>2, <2>3, Zenon
<1>5. off[0] = 0
  <2>1. Len(a) <= 3 => \A i \in 1 .. Len(a) : x[i] = HeaderByte
    BY <1>2, HeldBytes
  <2>2. 1 \in 1 .. Len(a) /\ 2 \in 1 .. Len(a) /\ 3 \in 1 .. Len(a) /\ Len(a) <= 3 /\ 3 <= n
    BY <1>4
  <2>3. x[1] = HeaderByte /\ x[2] = HeaderByte /\ x[3] = HeaderByte
    BY <2>1, <2>2
  <2>4. QED
    BY <1>2, <2>2, <2>3, HeaderFound
<1>6. b + 1 \in 1 .. Len(tr) /\ Counts(x, FrameLength(tr, b + 1))
  BY <1>2, <1>4, <1>5, CountRead
<1>7. x[4] = r[1] /\ x[5] = r[2]
  <2>1. 1 \in 1 .. v /\ 2 \in 1 .. v /\ u + 1 = 4 /\ u + 2 = 5
    BY <1>4
  <2>2. x[u + 1] = r[1] /\ x[u + 2] = r[2]
    BY <1>3, <1>4, <2>1 DEF Runs
  <2>3. QED
    BY <2>1, <2>2
<1>8. PICK c \in Nat : c = FrameLength(tr, b + 1) - 5 /\ c # 0 /\ c <= Longest
  <2>1. LongFrame(tr, b + 1)
    BY <1>6, FrameIsLong
  <2>2. PICK fl \in Nat : fl = FrameLength(tr, b + 1) /\ fl >= 6 /\ fl <= Longest
    BY <2>1 DEF LongFrame
  <2>3. fl - 5 \in Nat /\ fl - 5 # 0 /\ fl - 5 <= Longest
    BY <2>2 DEF Longest
  <2>4. QED
    BY <2>2, <2>3
<1>9. c = r[1] * 256 + r[2]
  BY <1>6, <1>7, <1>8 DEF Counts
<1> DEFINE g == SubSeq(r, 1, 2)
           a2 == a \o g
<1>10. PICK one \in Nat, two \in Nat, five \in Nat :
         one = 1 /\ two = 2 /\ five = 5 /\ five = u + two /\ two <= v /\ two + 1 = 3
  BY <1>4
<1>11. Bytes(g, two) /\ Runs(g, 0, r, two)
  <2>1. \A i \in 1 .. 2 : r[i] \in Int
    BY <1>3, <1>4, ElementOfSeq
  <2>2. /\ g \in Seq(Int) /\ Len(g) = (IF 1 <= 2 THEN 2 - 1 + 1 ELSE 0)
        /\ \A i \in 1 .. 2 - 1 + 1 : g[i] = r[1 + i - 1]
    BY <2>1, SubSeqProperties
  <2> HIDE DEF g
  <2>3. Len(g) = two
    BY <1>10, <2>2
  <2>4. ASSUME NEW i \in 1 .. two PROVE g[0 + i] = r[i]
    <3>1. i \in 1 .. 2 - 1 + 1 /\ 1 + i - 1 = i /\ 0 + i = i
      BY <1>10
    <3>2. QED
      BY <2>2, <3>1
  <2>5. QED
    BY <2>2, <2>3, <2>4 DEF Bytes, Runs
<1> HIDE DEF g
<1>12. Bytes(a2, five) /\ Runs(a2, 0, a, u) /\ Runs(a2, u, g, two)
  <2>1. Bytes(a, u)
    BY <1>3, <1>4 DEF Bytes
  <2>2. QED
    BY <1>10, <1>11, <2>1, BytesJoined
<1> HIDE DEF a2
<1>13. Longer(a2, a, r, two)
  <2>1. \A i \in 1 .. u : a2[i] = a[i]
    <3>1. ASSUME NEW i \in 1 .. u PROVE a2[i] = a[i]
      <4>1. 0 + i = i
        OBVIOUS
      <4>2. QED
        BY <1>12, <4>1 DEF Runs
    <3>2. QED
      BY <3>1
  <2>2. ASSUME NEW i \in 1 .. two PROVE a2[u + i] = r[i]
    <3>1. 0 + i = i
      OBVIOUS
    <3>2. a2[u + i] = g[i] /\ g[i] = r[i]
      BY <1>11, <1>12, <3>1 DEF Runs
    <3>3. QED
      BY <3>2
  <2>3. a2 \in Seq(Int) /\ Len(a2) = u + two
    BY <1>10, <1>12 DEF Bytes
  <2>4. QED
    BY <1>4, <2>1, <2>2, <2>3 DEF Longer, Runs
<1>14. Stream(x, n, a2, SubSeq(r, two + 1, Len(r)))
  BY <1>2, <1>4, <1>10, <1>13, StreamKept
<1>15. Stream(x, n, a2, SubSeq(r, 3, Len(r)))
  BY <1>10, <1>14
<1>16. Reading(a2, c, tr, b, off[0])
  <2>1. c # -1 /\ Len(a2) = 5
    BY <1>10, <1>12 DEF Bytes
  <2>2. QED
    BY <1>5, <1>6, <1>8, <2>1 DEF Reading
<1>17. OnTheWay(SubSeq(r, 3, Len(r)), a2, c, s, tr, got, w)
  BY <1>2, <1>15, <1>16 DEF OnTheWay
<1>18. QED
  BY <1>8, <1>9, <1>17, Zenon DEF a2, g, CountFound

Numbered(tr) == \A k \in 1 .. Len(tr) : tr[k].line[1] = k

Assembled(object, a, r, count) == object = a \o SubSeq(r, 1, count)

\* The rest of the frame is taken, and the trace comes out of it.
LEMMA ContentTaken ==
  ASSUME NEW r, NEW a, NEW count \in Int, NEW s \in 0 .. 1, NEW tr, NEW S, NEW got \in Seq(S), NEW w,
         Traced(tr), Numbered(tr), \A k \in 1 .. Len(tr) : tr[k] \in S,
         OnTheWay(r, a, count, s, tr, got, w), count # -1, count <= Len(r),
         NEW object, Assembled(object, a, r, count)
  PROVE  /\ Parses(object) /\ Parsed(object) \in S
         /\ OnTheWay(SubSeq(r, count + 1, Len(r)), <<>>, -1, s, tr, Append(got, Parsed(object)), w)
<1>1. PICK n \in Nat, b \in Nat, p \in Nat : \E x, off :
        /\ Stream(x, n, a, r) /\ Layout(x, n, tr, s, b, p, off) /\ Reading(a, count, tr, b, off[0])
        /\ GotThese(got, tr, b) /\ w = Len(got) + p
  BY DEF OnTheWay
<1>2. PICK x, off :
        /\ Stream(x, n, a, r) /\ Layout(x, n, tr, s, b, p, off) /\ Reading(a, count, tr, b, off[0])
        /\ GotThese(got, tr, b) /\ w = Len(got) + p
  BY <1>1
<1>3. /\ a \in Seq(Int) /\ r \in Seq(Int) /\ n = Len(a) + Len(r)
      /\ Runs(x, 0, a, Len(a)) /\ Runs(x, Len(a), r, Len(r))
  BY <1>2 DEF Stream
<1>4. /\ Len(a) = 5 /\ off[0] = 0 /\ b + 1 \in 1 .. Len(tr) /\ count = FrameLength(tr, b + 1) - 5
  BY <1>2 DEF Reading
<1>5. PICK d \in Nat : d = FrameLength(tr, b + 1) /\ d >= 6
  <2>1. LongFrame(tr, b + 1)
    BY <1>4, FrameIsLong
  <2>2. QED
    BY <2>1 DEF LongFrame
<1>6. PICK u \in Nat, v \in Nat, m \in Nat :
        /\ u = Len(a) /\ v = Len(r) /\ m = count /\ d = u + m /\ m <= v /\ n = u + v /\ d <= n /\ m >= 1
  <2>1. PICK u \in Nat, v \in Nat : u = Len(a) /\ v = Len(r)
    BY <1>3
  <2>2. n = u + v /\ u = 5
    BY <1>3, <1>4, <2>1
  <2>3. count = d - 5 /\ count <= v
    BY <1>4, <1>5, <2>1
  <2>4. count \in Nat /\ d = u + count /\ d <= n /\ count >= 1
    BY <1>5, <2>2, <2>3
  <2>5. QED
    BY <2>1, <2>2, <2>3, <2>4
<1>7. p > 0
  BY <1>2, <1>4, <1>5, <1>6, FrameIsThere
<1> DEFINE f == TraceFrame(tr[b + 1])
           t == tr[b + 1]
<1>8. Runs(x, 0, f, d)
  BY <1>2, <1>4, <1>5, <1>7, FrameFits
<1>9. Whole(f, t) /\ d = Len(f)
  BY <1>4, <1>5 DEF Traced, FrameLength
<1> HIDE DEF f, t
<1>10. object = f
  <2> DEFINE g == SubSeq(r, 1, m)
  <2>1. \A i \in 1 .. m : r[i] \in Int
    BY <1>3, <1>6, ElementOfSeq
  <2>2. /\ g \in Seq(Int) /\ Len(g) = (IF 1 <= m THEN m - 1 + 1 ELSE 0)
        /\ \A i \in 1 .. m - 1 + 1 : g[i] = r[1 + i - 1]
    BY <2>1, SubSeqProperties
  <2>3. object = a \o g
    BY <1>6 DEF Assembled
  <2> HIDE DEF g
  <2>4. (IF 1 <= m THEN m - 1 + 1 ELSE 0) = m
    BY <1>6
  <2>5. Bytes(g, m) /\ Bytes(a, u)
    BY <1>3, <1>6, <2>2, <2>4 DEF Bytes
  <2>6. Bytes(object, d) /\ Runs(object, 0, a, u) /\ Runs(object, u, g, m)
    <3>1. Bytes(a \o g, d) /\ Runs(a \o g, 0, a, u) /\ Runs(a \o g, u, g, m)
      BY <1>6, <2>5, BytesJoined
    <3>2. QED
      BY <2>3, <3>1
  <2>7. ASSUME NEW i \in 1 .. d PROVE object[i] = f[i]
    <3>1. x[i] = f[i]
      <4>1. 0 + i = i
        OBVIOUS
      <4>2. QED
        BY <1>8, <4>1 DEF Runs
    <3>2. CASE i <= u
      <4>1. i \in 1 .. u /\ 0 + i = i
        BY <3>2
      <4>2. object[i] = a[i] /\ x[i] = a[i]
        BY <1>3, <1>6, <2>6, <4>1 DEF Runs
      <4>3. QED
        BY <3>1, <4>2
    <3>3. CASE ~(i <= u)
      <4>1. PICK k \in 1 .. m : u + k = i /\ k \in 1 .. v /\ k \in 1 .. m - 1 + 1 /\ 1 + k - 1 = k
        <5>1. i - u \in 1 .. m /\ u + (i - u) = i /\ i - u \in 1 .. v /\ i - u \in 1 .. m - 1 + 1
              /\ 1 + (i - u) - 1 = i - u
          BY <1>6, <3>3
        <5>2. QED
          BY <5>1
      <4>2. object[u + k] = g[k]
        BY <2>6 DEF Runs
      <4>3. g[k] = r[k]
        BY <2>2, <4>1
      <4>4. x[u + k] = r[k]
        BY <1>3, <1>6, <4>1 DEF Runs
      <4>5. QED
        BY <3>1, <4>1, <4>2, <4>3, <4>4
    <3>4. QED
      BY <3>2, <3>3
  <2>8. f \in Seq(Int) /\ Len(f) = Len(object) /\ object \in Seq(Int) /\ Len(object) = d
    BY <1>9, <2>6 DEF Whole, Bytes
  <2>9. QED
    BY <2>7, <2>8, SeqEqual
<1>11. Parses(object) /\ Parsed(object) = t
  BY <1>9, <1>10 DEF Whole
<1>12. t \in S /\ t.line[1] = b + 1
  BY <1>4 DEF t, Numbered
<1> DEFINE y == [i \in Nat |-> x[i + d]]
<1>13. Follows(y, x, d)
  BY DEF Follows
<1> HIDE DEF y
<1>14. PICK l \in Int, c \in Nat, q \in Nat : l = n - d /\ c = b + 1 /\ q = p - 1
  BY <1>7
<1>15. Stream(y, l, <<>>, SubSeq(r, m + 1, Len(r)))
  <2>1. Takes(a, r, m, d, n, l)
    BY <1>6, <1>14 DEF Takes
  <2>2. QED
    BY <1>2, <1>13, <2>1, StreamTaken
<1>16. l \in Nat /\ \E o : Layout(y, l, tr, s, c, q, o)
  <2>1. Advances(n, d, l, b, c, p, q)
    BY <1>7, <1>14 DEF Advances
  <2>2. QED
    BY <1>2, <1>4, <1>5, <1>13, <2>1, FrameTaken
<1>17. PICK o : Layout(y, l, tr, s, c, q, o)
  BY <1>16
<1>18. Reading(<<>>, -1, tr, c, o[0])
  BY NothingHeld
<1> DEFINE got2 == Append(got, t)
<1>19. PICK h \in Nat : h = Len(got)
  OBVIOUS
<1>20. Len(got2) = h + 1 /\ (\A i \in 1 .. h : got2[i] = got[i]) /\ got2[h + 1] = t
  BY <1>12, <1>19, AppendProperties
<1> HIDE DEF got2
<1>21. GotThese(got2, tr, c)
  <2>1. \A i \in 1 .. h : got[i].line[1] \in 1 .. b /\ got[i] = tr[got[i].line[1]]
    BY <1>2, <1>19 DEF GotThese
  <2>2. \A i, k \in 1 .. h : i < k => got[i].line[1] < got[k].line[1]
    BY <1>2, <1>19 DEF GotThese
  <2>3. ASSUME NEW i \in 1 .. h + 1
        PROVE  got2[i].line[1] \in 1 .. c /\ got2[i] = tr[got2[i].line[1]]
    <3>1. CASE i \in 1 .. h
      <4>1. got2[i].line[1] \in 1 .. b /\ got2[i] = tr[got2[i].line[1]]
        BY <1>20, <2>1, <3>1, Zenon
      <4>2. \A k \in 1 .. b : k \in 1 .. c
        BY <1>14
      <4>3. QED
        BY <4>1, <4>2, Zenon
    <3>2. CASE i = h + 1
      <4>1. got2[i] = t /\ t.line[1] = c /\ c \in 1 .. c
        BY <1>12, <1>14, <1>20, <3>2
      <4>2. QED
        BY <1>14, <4>1 DEF t
    <3>3. QED
      BY <3>1, <3>2
  <2>4. ASSUME NEW i \in 1 .. h + 1, NEW k \in 1 .. h + 1, i < k
        PROVE  got2[i].line[1] < got2[k].line[1]
    <3>1. i \in 1 .. h
      BY <2>4
    <3>2. CASE k \in 1 .. h
      BY <1>20, <2>2, <2>4, <3>1, <3>2
    <3>3. CASE k = h + 1
      <4>1. got2[k].line[1] = b + 1 /\ got2[i].line[1] \in 1 .. b
        BY <1>12, <1>20, <2>1, <3>1, <3>3
      <4>2. QED
        BY <4>1
    <3>4. QED
      BY <3>2, <3>3
  <2>5. QED
    BY <1>20, <2>3, <2>4 DEF GotThese
<1>22. w = Len(got2) + q
  <2>1. w = h + p
    BY <1>2, <1>19
  <2>2. w = (h + 1) + q
    BY <1>14, <2>1
  <2>3. QED
    BY <1>20, <2>2
<1>23. OnTheWay(SubSeq(r, m + 1, Len(r)), <<>>, -1, s, tr, got2, w)
  BY <1>15, <1>16, <1>17, <1>18, <1>21, <1>22 DEF OnTheWay
<1>24. QED
  BY <1>6, <1>11, <1>12, <1>23 DEF got2

TraceObjects == {Trace(n, p) : n \in Nat, p \in Payload}

AllTraced(tr) ==
  /\ tr \in Seq(TraceObjects) /\ Len(tr) <= MaxTraces
  /\ \A k \in 1 .. Len(tr) : \E p \in Payload : tr[k] = Trace(k, p)

TraceLinkType ==
  /\ silent \in BOOLEAN /\ announced \in Int
  /\ link \in [traced : Seq(TraceObjects), whole : Nat, got : Seq(TraceObjects), restarts : Nat]

Quiet == IF silent THEN 1 ELSE 0

\* What is between the device and the tool: bytes no frame begins in, the frames
\* the tool has still to come to, whole and in order, and what a restart left of
\* one; the tool looks at the first of these bytes.
TraceIInv ==
  /\ TraceLinkType /\ AllTraced(link.traced)
  /\ OnTheWay(rx, raw, announced, Quiet, link.traced, link.got, link.whole)

LEMMA TraceParts ==
  ASSUME NEW n \in Nat, NEW p \in Payload
  PROVE  Trace(n, p) \in TraceObjects /\ Trace(n, p).line[1] = n
<1>1. Trace(n, p).line = <<n, 0>>
  BY DEF Trace
<1>2. QED
  BY <1>1 DEF TraceObjects

LEMMA TracedFacts ==
  ASSUME NEW tr, AllTraced(tr)
  PROVE  /\ Traced(tr) /\ Numbered(tr) /\ \A k \in 1 .. Len(tr) : tr[k] \in TraceObjects
<1>1. Len(tr) \in Nat /\ MaxTraces < HeaderByte /\ MaxTraces \in Nat /\ HeaderByte \in Nat
  BY TraceAssumption DEF AllTraced, HeaderByte
<1>2. ASSUME NEW k \in 1 .. Len(tr)
      PROVE  Whole(TraceFrame(tr[k]), tr[k]) /\ tr[k].line[1] = k
  <2>1. PICK p \in Payload : tr[k] = Trace(k, p)
    BY DEF AllTraced
  <2>2. k \in Nat /\ k < HeaderByte
    <3>1. PICK m \in Nat, c \in Nat, hb \in Nat :
            m = MaxTraces /\ c = Len(tr) /\ hb = HeaderByte /\ m < hb /\ c <= m
      BY <1>1 DEF AllTraced
    <3>2. k \in 1 .. c
      BY <3>1
    <3>3. k \in Nat /\ k < hb
      BY <3>1, <3>2
    <3>4. QED
      BY <3>1, <3>3
  <2>3. QED
    BY <2>1, <2>2, FramesAreWhole, TraceParts
<1>3. \A k \in 1 .. Len(tr) : tr[k] \in TraceObjects
  BY DEF AllTraced
<1>4. QED
  BY <1>1, <1>2, <1>3 DEF Traced, Numbered

\* The tool starts with the rest of a frame, and finds no header in it.
LEMMA RestOfAFrame ==
  ASSUME NEW f, NEW t, Whole(f, t), NEW from \in Nat, NEW l \in Nat,
         from >= 1, from + l = Len(f), NEW r, r \in Seq(Int), Len(r) = l, Runs(f, from, r, l)
  PROVE  OnTheWay(r, <<>>, -1, 0, <<>>, <<>>, 0)
<1>1. PICK zero \in Nat : zero = 0
  OBVIOUS
<1> DEFINE o == [i \in 0 .. zero |-> l]
<1>2. o \in [0 .. zero -> Nat] /\ o[0] = l /\ o[zero] = l /\ \A i \in 0 .. zero : o[i] = l
  BY <1>1
<1> HIDE DEF o
<1>3. <<>> \in Seq(Int) /\ Len(<<>>) = zero /\ l = zero + l
  BY <1>1
<1>4. Stream(r, l, <<>>, r)
  <2>1. Runs(r, 0, <<>>, zero) /\ Runs(r, zero, r, l)
    <3>1. \A i \in 1 .. l : zero + i = i
      BY <1>1
    <3>2. QED
      BY <1>1, <3>1 DEF Runs
  <2>2. QED
    BY <1>3, <2>1 DEF Stream
<1>5. Junk(r, l, o[0], 0)
  <2>1. ASSUME NEW i \in 1 .. l, i + 2 <= l PROVE ~HeaderAt(r, i)
    <3>1. PICK k \in Nat : k = from + i
      OBVIOUS
    <3>2. /\ k \in 2 .. Len(f) /\ k + 2 <= Len(f)
          /\ i + 1 \in 1 .. l /\ i + 2 \in 1 .. l
          /\ from + (i + 1) = k + 1 /\ from + (i + 2) = k + 2
      BY <2>1, <3>1
    <3>3. ~HeaderAt(f, k)
      BY <3>2 DEF Whole
    <3>4. f[k] = r[i] /\ f[k + 1] = r[i + 1] /\ f[k + 2] = r[i + 2]
      BY <3>1, <3>2 DEF Runs
    <3>5. QED
      BY <3>3, <3>4 DEF HeaderAt
  <2>2. l > 0 => r[l] # HeaderByte
    <3>1. l > 0 => f[from + l] = r[l]
      BY DEF Runs
    <3>2. from + l = Len(f)
      OBVIOUS
    <3>3. f[Len(f)] # HeaderByte
      BY Zenon DEF Whole
    <3>4. QED
      BY <3>1, <3>2, <3>3, Zenon
  <2>3. QED
    BY <1>2, <2>1, <2>2 DEF Junk
<1>6. Queued(r, l, <<>>, zero, zero, o)
  BY <1>1, <1>2 DEF Queued
<1>7. Rest(r, l, <<>>, 0, o[zero])
  BY <1>2 DEF Rest
<1>8. Layout(r, l, <<>>, 0, zero, zero, o)
  BY <1>1, <1>3, <1>5, <1>6, <1>7 DEF Layout
<1>9. Reading(<<>>, -1, <<>>, zero, o[0])
  BY NothingHeld
<1>10. GotThese(<<>>, <<>>, zero)
  BY DEF GotThese
<1>11. 0 = Len(<<>>) + zero
  BY <1>1
<1>12. QED
  BY <1>4, <1>8, <1>9, <1>10, <1>11 DEF OnTheWay

LEMMA LinkStarts == TraceInit => TraceIInv
<1> SUFFICES ASSUME TraceInit PROVE TraceIInv
  OBVIOUS
<1>1. PICK p \in Payload : \E n \in 2 .. Len(TraceFrame(Trace(0, p))) + 1 :
        rx = SubSeq(TraceFrame(Trace(0, p)), n, Len(TraceFrame(Trace(0, p))))
  BY DEF TraceInit
<1> DEFINE f == TraceFrame(Trace(0, p))
<1>2. Whole(f, Trace(0, p))
  <2>1. 0 \in Nat /\ 0 < HeaderByte
    BY DEF HeaderByte
  <2>2. QED
    BY <2>1, FramesAreWhole
<1>3. PICK n \in 2 .. Len(f) + 1 : rx = SubSeq(f, n, Len(f))
  BY <1>1
<1> HIDE DEF f
<1>4. PICK fl \in Nat : fl = Len(f) /\ f \in Seq(Int) /\ fl > 5
  BY <1>2 DEF Whole
<1>5. PICK from \in Nat, l \in Nat : n = from + 1 /\ from >= 1 /\ from + l = fl
  <2>1. n - 1 \in Nat /\ fl - (n - 1) \in Nat /\ n = (n - 1) + 1 /\ n - 1 >= 1
        /\ (n - 1) + (fl - (n - 1)) = fl
    BY <1>4
  <2>2. QED
    BY <2>1
<1>6. rx \in Seq(Int) /\ Len(rx) = l /\ Runs(f, from, rx, l)
  <2>1. \A i \in n .. fl : f[i] \in Int
    BY <1>4, <1>5, ElementOfSeq
  <2>2. /\ SubSeq(f, n, fl) \in Seq(Int)
        /\ Len(SubSeq(f, n, fl)) = IF n <= fl THEN fl - n + 1 ELSE 0
        /\ \A i \in 1 .. fl - n + 1 : SubSeq(f, n, fl)[i] = f[n + i - 1]
    BY <2>1, SubSeqProperties
  <2>3. (IF n <= fl THEN fl - n + 1 ELSE 0) = l /\ fl - n + 1 = l
    BY <1>5
  <2>4. rx = SubSeq(f, n, fl)
    BY <1>3, <1>4
  <2>5. ASSUME NEW i \in 1 .. l PROVE f[from + i] = rx[i]
    <3>1. n + i - 1 = from + i /\ i \in 1 .. fl - n + 1
      BY <1>5
    <3>2. QED
      BY <2>2, <2>4, <3>1
  <2>6. QED
    BY <2>2, <2>3, <2>4, <2>5 DEF Runs
<1>7. OnTheWay(rx, <<>>, -1, 0, <<>>, <<>>, 0)
  BY <1>2, <1>4, <1>5, <1>6, RestOfAFrame
<1>8. /\ silent = FALSE /\ raw = <<>> /\ announced = -1
      /\ link = [traced |-> <<>>, whole |-> 0, got |-> <<>>, restarts |-> 0]
  BY DEF TraceInit
<1>9. TraceLinkType
  <2>1. <<>> \in Seq(TraceObjects) /\ 0 \in Nat /\ FALSE \in BOOLEAN /\ -1 \in Int
    OBVIOUS
  <2>2. QED
    BY <1>8, <2>1 DEF TraceLinkType
<1>10. link.traced = <<>> /\ link.got = <<>> /\ link.whole = 0 /\ Quiet = 0
  BY <1>8 DEF Quiet
<1>11. AllTraced(<<>>)
  BY TraceAssumption DEF AllTraced
<1>12. QED
  BY <1>7, <1>8, <1>9, <1>10, <1>11 DEF TraceIInv

\* The invariant gives what was to be shown.
LEMMA LinkDelivers == TraceIInv => TracesArrive
<1> SUFFICES ASSUME TraceIInv PROVE TracesArrive
  OBVIOUS
<1>1. OnTheWay(rx, raw, announced, Quiet, link.traced, link.got, link.whole)
      /\ Traced(link.traced) /\ Quiet \in 0 .. 1
  BY TracedFacts DEF TraceIInv, Quiet
<1>2. PICK n \in Nat, b \in Nat, p \in Nat : \E x, off :
        /\ Stream(x, n, raw, rx) /\ Layout(x, n, link.traced, Quiet, b, p, off)
        /\ Reading(raw, announced, link.traced, b, off[0])
        /\ GotThese(link.got, link.traced, b) /\ link.whole = Len(link.got) + p
  BY <1>1 DEF OnTheWay
<1>3. PICK x, off :
        /\ Stream(x, n, raw, rx) /\ Layout(x, n, link.traced, Quiet, b, p, off)
        /\ GotThese(link.got, link.traced, b) /\ link.whole = Len(link.got) + p
  BY <1>2
<1>4. PICK s \in 0 .. 1, c \in Nat : s = Quiet /\ c = Len(link.traced) /\ c = b + p + s
  BY <1>1, <1>3 DEF Layout, Traced
<1>5. ObjectsAreTraced
  <2>1. \A k : k \in 1 .. b => k \in 1 .. c
    BY <1>4
  <2>2. QED
    BY <1>3, <1>4, <2>1 DEF ObjectsAreTraced, GotThese
<1>6. FindsBack
  <2>1. SUFFICES ASSUME rx = <<>>, raw = <<>> PROVE p = 0
    <3>1. Len(link.got) \in Nat
      BY DEF TraceIInv, TraceLinkType
    <3>2. p = 0 => Len(link.got) = link.whole
      BY <1>3, <3>1
    <3>3. QED
      BY <3>2 DEF FindsBack
  <2>2. n = 0
    BY <1>3, <2>1 DEF Stream
  <2>3. SUFFICES ASSUME p > 0 PROVE FALSE
    OBVIOUS
  <2>4. /\ off[0] \in Nat /\ off[p] \in Nat /\ off[0] <= off[p] /\ off[p] <= n
        /\ \A i \in 1 .. p : b + i \in 1 .. Len(link.traced)
    BY <1>1, <1>3, LayoutTypes
  <2>5. off[0] = 0 /\ b + 1 \in 1 .. Len(link.traced)
    BY <2>2, <2>3, <2>4
  <2>6. LongFrame(link.traced, b + 1)
    BY <1>1, <2>5, FrameIsLong
  <2>7. PICK d \in Nat : d = FrameLength(link.traced, b + 1) /\ d >= 6
    BY <2>6 DEF LongFrame
  <2>8. d <= n
    BY <1>1, <1>3, <2>3, <2>5, <2>7, FrameFits, Zenon
  <2>9. QED
    BY <2>2, <2>7, <2>8
<1>7. QED
  BY <1>5, <1>6 DEF TracesArrive

\* The step of a trace that is sent, whole (s = 0) or cut (s = 1).
LEMMA TraceGoesOut ==
  ASSUME TraceIInv, NEW p \in Payload, MayTrace(p), NEW s \in 0 .. 1,
         NEW g, g \in Seq(Int), NEW m \in Nat, Len(g) = m, Runs(TraceFrame(Traces(p)), 0, g, m),
         NEW w2 \in Nat, s = 0 => m = Len(TraceFrame(Traces(p))) /\ w2 = link.whole + 1,
         s = 1 => m < Len(TraceFrame(Traces(p))) /\ w2 = link.whole
  PROVE  /\ AllTraced(Append(link.traced, Traces(p))) /\ Traces(p) \in TraceObjects
         /\ OnTheWay(rx \o g, raw, announced, s, Append(link.traced, Traces(p)), link.got, w2)
<1> DEFINE tr == link.traced
           t == Traces(p)
           tr2 == Append(tr, t)
           f == TraceFrame(t)
<1>1. /\ tr \in Seq(TraceObjects) /\ AllTraced(tr) /\ Traced(tr)
      /\ OnTheWay(rx, raw, announced, Quiet, tr, link.got, link.whole)
      /\ Len(link.got) \in Nat /\ link.whole \in Nat
  BY TracedFacts DEF TraceIInv, TraceLinkType, AllTraced
<1>2. PICK c \in Nat : c = Len(tr) /\ c < MaxTraces
  BY <1>1 DEF MayTrace
<1>3. t = Trace(c + 1, p) /\ t \in TraceObjects
  <2>1. c + 1 \in Nat
    BY <1>2
  <2>2. Trace(c + 1, p) \in TraceObjects
    BY <2>1, TraceParts
  <2>3. t = Trace(c + 1, p)
    BY <1>2 DEF Traces
  <2>4. QED
    BY <2>2, <2>3
<1>4. Len(tr2) = c + 1 /\ (\A k \in 1 .. c : tr2[k] = tr[k]) /\ tr2[c + 1] = t
      /\ tr2 \in Seq(TraceObjects)
  BY <1>1, <1>2, <1>3, AppendProperties
<1>5. silent => rx = <<>> /\ raw = <<>>
  BY DEF MayTrace
<1>6. \A k \in 1 .. c : \E q \in Payload : tr[k] = Trace(k, q)
  BY <1>1, <1>2 DEF AllTraced
<1> HIDE DEF tr, t, tr2
<1>7. Extends(tr2, tr, t)
  BY <1>2, <1>4 DEF Extends
<1>8. AllTraced(tr2)
  <2>1. ASSUME NEW k \in 1 .. c + 1 PROVE \E q \in Payload : tr2[k] = Trace(k, q)
    <3>1. CASE k \in 1 .. c
      BY <1>4, <1>6, <3>1
    <3>2. CASE k = c + 1
      BY <1>3, <1>4, <3>2
    <3>3. QED
      BY <3>1, <3>2
  <2>2. c + 1 <= MaxTraces
    BY <1>2, TraceAssumption
  <2>3. QED
    BY <1>4, <2>1, <2>2 DEF AllTraced
<1>9. OnTheWay(rx, raw, announced, 0, tr, link.got, link.whole)
  <2>1. Quiet \in 0 .. 1 /\ (Quiet = 1 => rx = <<>> /\ raw = <<>>)
    BY <1>5 DEF Quiet
  <2>2. QED
    BY <1>1, <2>1, Awake
<1>10. OnTheWay(rx \o g, raw, announced, s, tr2, link.got, w2)
  <2>1. PICK h \in Nat, w \in Nat : h = Len(link.got) /\ w = link.whole
    BY <1>1
  <2>2. /\ s = 0 => m = Len(f) /\ w2 = w + 1
        /\ s = 1 => m < Len(f) /\ w2 = w
        /\ Runs(f, 0, g, m)
    BY <2>1 DEF t
  <2> HIDE DEF f
  <2>3. f = TraceFrame(t)
    BY DEF f
  <2>4. QED
    BY <1>1, <1>7, <1>9, <2>1, <2>2, <2>3, FrameSent
<1>11. QED
  BY <1>3, <1>8, <1>10 DEF tr2, tr, t

LEMMA NewFrame ==
  ASSUME TraceIInv, NEW p \in Payload, MayTrace(p)
  PROVE  Whole(TraceFrame(Traces(p)), Traces(p))
<1>1. PICK c \in Nat, m \in Nat : c = Len(link.traced) /\ m = MaxTraces /\ c < m
  BY TraceAssumption DEF MayTrace, TraceIInv, TraceLinkType
<1>2. m < HeaderByte
  BY <1>1, TraceAssumption
<1>3. PICK k \in Nat : k = c + 1 /\ k < HeaderByte
  BY <1>1, <1>2 DEF HeaderByte
<1>4. Traces(p) = Trace(k, p)
  BY <1>1, <1>3 DEF Traces
<1>5. QED
  BY <1>3, <1>4, FramesAreWhole

LEMMA EmitKeeps ==
  ASSUME TraceIInv, NEW p \in Payload, Emit(p)
  PROVE  TraceIInv'
<1> DEFINE t == Traces(p)
           f == TraceFrame(t)
           tr2 == Append(link.traced, t)
<1>1. /\ MayTrace(p) /\ rx' = rx \o f /\ silent' = FALSE /\ raw' = raw /\ announced' = announced
      /\ link' = [link EXCEPT !.traced = tr2, !.whole = link.whole + 1]
  BY DEF Emit
<1>2. TraceLinkType /\ link.whole \in Nat
  BY DEF TraceIInv, TraceLinkType
<1>4. Whole(f, t)
  BY <1>1, NewFrame
<1> HIDE DEF f, t
<1>5. PICK m \in Nat, w \in Nat, s \in 0 .. 1 :
        m = Len(f) /\ f \in Seq(Int) /\ w = link.whole + 1 /\ s = 0
  <2>1. f \in Seq(Int) /\ Len(f) \in Nat
    BY <1>4 DEF Whole
  <2>2. link.whole + 1 \in Nat
    BY <1>2
  <2>3. QED
    BY <2>1, <2>2
<1>6. Runs(f, 0, f, m)
  BY DEF Runs
<1>7. AllTraced(tr2) /\ t \in TraceObjects
      /\ OnTheWay(rx \o f, raw, announced, s, tr2, link.got, w)
  <2>1. /\ s = 0 => m = Len(TraceFrame(Traces(p))) /\ w = link.whole + 1
        /\ s = 1 => m < Len(TraceFrame(Traces(p))) /\ w = link.whole
        /\ Runs(TraceFrame(Traces(p)), 0, f, m)
    BY <1>5, <1>6 DEF f, t
  <2>2. QED
    BY <1>1, <1>5, <2>1, TraceGoesOut DEF t
<1>8. link'.traced = tr2 /\ link'.got = link.got /\ link'.whole = w /\ TraceLinkType'
  <2>1. tr2 \in Seq(TraceObjects)
    BY <1>7 DEF AllTraced
  <2>2. QED
    BY <1>1, <1>2, <1>5, <2>1 DEF TraceLinkType
<1>9. Quiet' = s
  BY <1>1, <1>5 DEF Quiet
<1>10. QED
  BY <1>1, <1>7, <1>8, <1>9 DEF TraceIInv

LEMMA RestartKeeps ==
  ASSUME TraceIInv, NEW p \in Payload, Restart(p)
  PROVE  TraceIInv'
<1> DEFINE t == Traces(p)
           f == TraceFrame(t)
           tr2 == Append(link.traced, t)
<1>1. /\ MayTrace(p) /\ silent' = TRUE /\ raw' = raw /\ announced' = announced
      /\ link' = [link EXCEPT !.traced = tr2, !.restarts = link.restarts + 1]
      /\ \E n \in 1 .. Len(f) - 1 : rx' = rx \o SubSeq(f, 1, n)
  BY DEF Restart
<1>2. TraceLinkType /\ link.whole \in Nat /\ link.restarts \in Nat
  BY DEF TraceIInv, TraceLinkType
<1>4. Whole(f, t)
  BY <1>1, NewFrame
<1>5. PICK n \in 1 .. Len(f) - 1 : rx' = rx \o SubSeq(f, 1, n)
  BY <1>1
<1> HIDE DEF f, t
<1>6. PICK fl \in Nat : fl = Len(f) /\ f \in Seq(Int)
  BY <1>4 DEF Whole
<1>7. PICK m \in Nat, s \in 0 .. 1 : m = n /\ s = 1 /\ m < fl /\ m >= 1
  <2>1. n \in Nat /\ n < fl /\ n >= 1
    BY <1>6
  <2>2. QED
    BY <2>1
<1> DEFINE g == SubSeq(f, 1, m)
<1>8. g \in Seq(Int) /\ Len(g) = m /\ Runs(f, 0, g, m)
  <2>1. \A i \in 1 .. m : f[i] \in Int
    BY <1>6, <1>7, ElementOfSeq
  <2>2. /\ g \in Seq(Int) /\ Len(g) = (IF 1 <= m THEN m - 1 + 1 ELSE 0)
        /\ \A i \in 1 .. m - 1 + 1 : g[i] = f[1 + i - 1]
    BY <2>1, SubSeqProperties
  <2> HIDE DEF g
  <2>3. (IF 1 <= m THEN m - 1 + 1 ELSE 0) = m
    BY <1>7
  <2>4. ASSUME NEW i \in 1 .. m PROVE f[0 + i] = g[i]
    <3>1. i \in 1 .. m - 1 + 1 /\ 1 + i - 1 = 0 + i
      OBVIOUS
    <3>2. QED
      BY <2>2, <3>1
  <2>5. QED
    BY <2>2, <2>3, <2>4 DEF Runs
<1>9. rx' = rx \o g
  BY <1>5, <1>7
<1> HIDE DEF g
<1>10. PICK w \in Nat : w = link.whole
  BY <1>2
<1>11. AllTraced(tr2) /\ t \in TraceObjects
       /\ OnTheWay(rx \o g, raw, announced, s, tr2, link.got, w)
  <2>1. /\ s = 0 => m = Len(TraceFrame(Traces(p))) /\ w = link.whole + 1
        /\ s = 1 => m < Len(TraceFrame(Traces(p))) /\ w = link.whole
        /\ Runs(TraceFrame(Traces(p)), 0, g, m)
    BY <1>6, <1>7, <1>8, <1>10 DEF f, t
  <2>2. QED
    BY <1>1, <1>8, <2>1, TraceGoesOut DEF t
<1>12. link'.traced = tr2 /\ link'.got = link.got /\ link'.whole = w /\ TraceLinkType'
  <2>1. tr2 \in Seq(TraceObjects) /\ link.restarts + 1 \in Nat
    BY <1>2, <1>11 DEF AllTraced
  <2> HIDE DEF tr2
  <2>2. link' \in [traced : Seq(TraceObjects), whole : Nat, got : Seq(TraceObjects), restarts : Nat]
    BY <1>1, <1>2, <2>1 DEF TraceLinkType
  <2>3. link'.traced = tr2 /\ link'.got = link.got /\ link'.whole = link.whole
    BY <1>1, <1>2 DEF TraceLinkType
  <2>4. QED
    BY <1>1, <1>2, <1>10, <2>2, <2>3 DEF TraceLinkType
<1>13. Quiet' = s
  BY <1>1, <1>7 DEF Quiet
<1>14. QED
  BY <1>1, <1>9, <1>11, <1>12, <1>13 DEF TraceIInv

\* What the steps of the reader start from.
LEMMA LinkFacts ==
  ASSUME TraceIInv
  PROVE  /\ TraceLinkType /\ AllTraced(link.traced) /\ Traced(link.traced) /\ Numbered(link.traced)
         /\ \A k \in 1 .. Len(link.traced) : link.traced[k] \in TraceObjects
         /\ OnTheWay(rx, raw, announced, Quiet, link.traced, link.got, link.whole)
         /\ Quiet \in 0 .. 1 /\ raw \in Seq(Int) /\ rx \in Seq(Int)
         /\ Len(raw) \in Nat /\ Len(rx) \in Nat
<1>1. TraceLinkType /\ AllTraced(link.traced)
      /\ OnTheWay(rx, raw, announced, Quiet, link.traced, link.got, link.whole)
  BY DEF TraceIInv
<1>2. raw \in Seq(Int) /\ rx \in Seq(Int)
  BY <1>1 DEF OnTheWay, Stream
<1>3. Quiet \in 0 .. 1 /\ Len(raw) \in Nat /\ Len(rx) \in Nat
  BY <1>2 DEF Quiet
<1>4. QED
  BY <1>1, <1>2, <1>3, TracedFacts

\* A step of the reader alone.
LEMMA LinkReaderKeeps ==
  ASSUME TraceIInv, UNCHANGED <<silent, link>>, announced' \in Int,
         OnTheWay(rx', raw', announced', Quiet, link.traced, link.got, link.whole)
  PROVE  TraceIInv'
<1>1. TraceLinkType' /\ Quiet' = Quiet /\ link' = link
  BY DEF TraceIInv, TraceLinkType, Quiet
<1>2. QED
  BY <1>1 DEF TraceIInv

LEMMA ReadHeaderKeeps ==
  ASSUME TraceIInv, ReadHeader
  PROVE  TraceIInv'
<1>1. /\ Len(raw) < 3 /\ rx # <<>> /\ rx' = SubSeq(rx, 2, Len(rx)) /\ UNCHANGED <<silent, link>>
      /\ IF rx[1] = HeaderByte THEN raw' = Append(raw, rx[1]) /\ announced' = announced
         ELSE raw' = <<>> /\ announced' = -1
  <2>1. Head(rx) = rx[1]
    <3>1. rx \in Seq(Int) /\ rx # <<>>
      BY LinkFacts DEF ReadHeader
    <3>2. QED
      BY <3>1
  <2>2. Len(Header) = 3 /\ 1 + 1 = 2
    BY DEF Header
  <2>3. QED
    BY <2>1, <2>2 DEF ReadHeader, Take, StartOver
<1>2. /\ Traced(link.traced) /\ Quiet \in 0 .. 1 /\ TraceLinkType
      /\ OnTheWay(rx, raw, announced, Quiet, link.traced, link.got, link.whole)
  BY LinkFacts
<1>3. announced' \in Int
  BY <1>1, <1>2 DEF TraceLinkType
<1>4. PICK s \in 0 .. 1 : s = Quiet
  BY <1>2
<1>5. OnTheWay(rx, raw, announced, s, link.traced, link.got, link.whole)
  BY <1>2, <1>4
<1>6. OnTheWay(rx', raw', announced', s, link.traced, link.got, link.whole)
  <2>1. CASE rx[1] = HeaderByte
    BY <1>1, <1>5, <2>1, HeaderByteTaken
  <2>2. CASE rx[1] # HeaderByte
    BY <1>1, <1>2, <1>5, <2>2, ByteSkipped
  <2>3. QED
    BY <2>1, <2>2
<1>7. QED
  BY <1>1, <1>3, <1>4, <1>6, LinkReaderKeeps

LEMMA ReadCountKeeps ==
  ASSUME TraceIInv, ReadCount
  PROVE  TraceIInv'
<1> DEFINE count == rx[1] * 256 + rx[2]
<1>1. /\ Len(raw) = 3 /\ Len(rx) >= 2 /\ rx' = SubSeq(rx, 3, Len(rx)) /\ UNCHANGED <<silent, link>>
      /\ count # 0 => raw' = raw \o SubSeq(rx, 1, 2) /\ announced' = Least(count, 1024 - 5)
  <2>1. Len(Header) = 3 /\ 2 + 1 = 3
    BY DEF Header
  <2>2. QED
    BY <2>1 DEF ReadCount, Take
<1>2. /\ Traced(link.traced) /\ Quiet \in 0 .. 1
      /\ OnTheWay(rx, raw, announced, Quiet, link.traced, link.got, link.whole)
  BY LinkFacts
<1>3. PICK s \in 0 .. 1 : s = Quiet
  BY <1>2
<1>4. OnTheWay(rx, raw, announced, s, link.traced, link.got, link.whole)
  BY <1>2, <1>3
<1> HIDE DEF count
<1>5. PICK c \in Nat : CountFound(c, rx, raw, s, link.traced, link.got, link.whole)
  <2>1. Len(raw) = 3 /\ Len(rx) >= 2 /\ Traced(link.traced)
    BY <1>1, <1>2
  <2>2. QED
    BY <1>4, <2>1, CountTaken
<1>6. /\ c = count /\ c # 0 /\ c <= Longest
      /\ OnTheWay(SubSeq(rx, 3, Len(rx)), raw \o SubSeq(rx, 1, 2), c, s,
                  link.traced, link.got, link.whole)
  BY <1>5 DEF count, CountFound
<1>7. Least(c, 1024 - 5) = c
  BY <1>6 DEF Least, Longest
<1>8. announced' = c /\ raw' = raw \o SubSeq(rx, 1, 2) /\ announced' \in Int
  <2>1. count # 0
    BY <1>6
  <2>2. raw' = raw \o SubSeq(rx, 1, 2) /\ announced' = Least(count, 1024 - 5)
    BY <1>1, <2>1
  <2>3. announced' = c
    BY <1>6, <1>7, <2>2
  <2>4. QED
    BY <2>2, <2>3
<1>9. OnTheWay(rx', raw', announced', Quiet, link.traced, link.got, link.whole)
  BY <1>1, <1>3, <1>6, <1>8
<1>10. QED
  BY <1>1, <1>8, <1>9, LinkReaderKeeps

LEMMA GiveUpKeeps ==
  ASSUME TraceIInv, GiveUp
  PROVE  TraceIInv'
<1>1. /\ \/ Len(raw) < 3 /\ rx = <<>>
         \/ Len(raw) = 3 /\ Len(rx) < 2
         \/ announced # -1 /\ Len(rx) < announced
      /\ raw' = <<>> /\ announced' = -1 /\ rx' = rx /\ UNCHANGED <<silent, link>>
  <2>1. Len(Header) = 3
    BY DEF Header
  <2>2. QED
    BY <2>1 DEF GiveUp, Waits, StartOver
<1>2. /\ Traced(link.traced) /\ Quiet \in 0 .. 1
      /\ OnTheWay(rx, raw, announced, Quiet, link.traced, link.got, link.whole)
  BY LinkFacts
<1>3. PICK s \in 0 .. 1 : s = Quiet
  BY <1>2
<1>4. OnTheWay(rx, raw, announced, s, link.traced, link.got, link.whole)
  BY <1>2, <1>3
<1>5. OnTheWay(rx, <<>>, -1, s, link.traced, link.got, link.whole)
  BY <1>1, <1>2, <1>4, BytesDropped
<1>6. OnTheWay(rx', raw', announced', Quiet, link.traced, link.got, link.whole)
      /\ announced' \in Int
  BY <1>1, <1>3, <1>5
<1>7. QED
  BY <1>1, <1>6, LinkReaderKeeps

LEMMA ReadContentKeeps ==
  ASSUME TraceIInv, ReadContent
  PROVE  TraceIInv'
<1> DEFINE object == raw \o SubSeq(rx, 1, announced)
           got2 == Append(link.got, Parsed(object))
<1>1. /\ announced # -1 /\ announced <= Len(rx) /\ rx' = SubSeq(rx, announced + 1, Len(rx))
      /\ raw' = <<>> /\ announced' = -1 /\ silent' = silent
      /\ Parses(object) => link' = [link EXCEPT !.got = got2]
  <2>1. announced \in Int /\ Len(rx) \in Nat
    BY LinkFacts DEF TraceLinkType
  <2>2. QED
    BY <2>1 DEF ReadContent, Take, StartOver
<1>2. /\ TraceLinkType /\ AllTraced(link.traced) /\ Traced(link.traced) /\ Numbered(link.traced)
      /\ \A k \in 1 .. Len(link.traced) : link.traced[k] \in TraceObjects
      /\ OnTheWay(rx, raw, announced, Quiet, link.traced, link.got, link.whole)
      /\ Quiet \in 0 .. 1
  BY LinkFacts
<1>3. announced \in Int /\ link.got \in Seq(TraceObjects)
  BY <1>2 DEF TraceLinkType
<1>4. PICK s \in 0 .. 1 : s = Quiet
  BY <1>2
<1>5. Assembled(object, raw, rx, announced)
      /\ OnTheWay(rx, raw, announced, s, link.traced, link.got, link.whole)
  BY <1>2, <1>4 DEF Assembled
<1> HIDE DEF object
<1>6. /\ Parses(object) /\ Parsed(object) \in TraceObjects
      /\ OnTheWay(SubSeq(rx, announced + 1, Len(rx)), <<>>, -1, s, link.traced, got2, link.whole)
  BY <1>1, <1>2, <1>3, <1>5, ContentTaken
<1>7. got2 \in Seq(TraceObjects)
  BY <1>3, <1>6, AppendProperties
<1> HIDE DEF got2
<1>8. /\ link'.got = got2 /\ link'.traced = link.traced /\ link'.whole = link.whole
      /\ link' \in [traced : Seq(TraceObjects), whole : Nat, got : Seq(TraceObjects), restarts : Nat]
  BY <1>1, <1>2, <1>6, <1>7 DEF TraceLinkType
<1>9. TraceLinkType' /\ Quiet' = s
  BY <1>1, <1>2, <1>4, <1>8 DEF TraceLinkType, Quiet
<1>10. QED
  BY <1>1, <1>2, <1>6, <1>8, <1>9 DEF TraceIInv

LEMMA LinkKeeps == TraceIInv /\ [TraceNext]_tracevars => TraceIInv'
<1> SUFFICES ASSUME TraceIInv, [TraceNext]_tracevars PROVE TraceIInv'
  OBVIOUS
<1>1. ASSUME NEW p \in Payload, Emit(p) PROVE TraceIInv'
  BY <1>1, EmitKeeps
<1>2. ASSUME NEW p \in Payload, Restart(p) PROVE TraceIInv'
  BY <1>2, RestartKeeps
<1>3. CASE ReadHeader
  BY <1>3, ReadHeaderKeeps
<1>4. CASE ReadCount
  BY <1>4, ReadCountKeeps
<1>5. CASE ReadContent
  BY <1>5, ReadContentKeeps
<1>6. CASE GiveUp
  BY <1>6, GiveUpKeeps
<1>7. CASE UNCHANGED tracevars
  BY <1>7 DEF tracevars, TraceIInv, TraceLinkType, Quiet
<1>8. QED
  BY <1>1, <1>2, <1>3, <1>4, <1>5, <1>6, <1>7 DEF TraceNext

\* Every bytes the tool makes of the bytes is one that was traced, each once and
\* in order, and when it has come to the end of the bytes it has all that were
\* sent whole: for file names of any length, any number of traces and restarts,
\* wherever in a frame the tool is attached or the device restarted
\* (tracer.c, thread_read_trace_object.c, trace_parser.c).
THEOREM TracesDoArrive == TraceSpec => []TracesArrive
<1>1. TraceInit => TraceIInv
  BY LinkStarts
<1>2. TraceIInv /\ [TraceNext]_tracevars => TraceIInv'
  BY LinkKeeps
<1>3. TraceIInv => TracesArrive
  BY LinkDelivers
<1>4. QED
  BY <1>1, <1>2, <1>3, PTL DEF TraceSpec

-----------------------------------------------------------------------------
(* The composition.                                                        *)

\* A step of the composed specification is a step of the one device the image
\* is built with; the variables of the others do not change.
THEOREM DevicesRunAlone ==
  Spec => RingSpec /\ LogSpec /\ SenseSpec /\ IrSpec /\ TraceSpec
<1>1. Init => RingInit /\ LogInit /\ SenseInit /\ IrInit /\ TraceInit
  BY DEF Init
<1>2. ASSUME [Next]_vars
      PROVE  /\ [RingNext]_ringvars /\ [LogNext]_logvars
             /\ [SenseNext]_sensevars /\ [IrNext]_irvars
             /\ [TraceNext]_tracevars
  <2>1. CASE UNCHANGED vars
    BY <2>1 DEF vars
  <2>2. CASE SerialRuns(RingNext)
    BY <2>2 DEF SerialRuns
  <2>3. CASE LogRuns(LogNext)
    BY <2>3 DEF LogRuns
  <2>5. CASE PanelRuns(PanelNext) \/ DetectorRuns(MoveNext) \/ PinsRun(IoNext)
    BY <2>5 DEF PanelRuns, DetectorRuns, PinsRun
  <2>6. CASE SensorRuns(SenseNext)
    BY <2>6 DEF SensorRuns
  <2>7. CASE InfraredRuns(IrNext)
    BY <2>7 DEF InfraredRuns
  <2>8. CASE TracesRun(TraceNext)
    BY <2>8 DEF TracesRun
  <2>9. QED
    BY <1>2, <2>1, <2>2, <2>3, <2>5, <2>6, <2>7, <2>8 DEF Next
<1>3. QED
  BY <1>1, <1>2, PTL DEF Spec, RingSpec, LogSpec, SenseSpec, IrSpec, TraceSpec

\* What holds of the ring, the log, the sensors, the transmitter and the trace link
\* holds of the firmware they are part of.
THEOREM DevicesKeepTheirWord ==
  Spec => [](/\ NoOldBytes /\ LogIsHonest /\ HistoryIsRecent /\ ReadingsInRange
             /\ WaveformIsTheCommands /\ TracesArrive)
BY DevicesRunAlone, TracesDoArrive, NothingOldIsTaken, LogStaysHonest, ReadingsStayInRange, HistoryStaysRecent,
   WaveformStays, PTL

=============================================================================
