------------------------- MODULE SignalSlot_proofs --------------------------
(***************************************************************************)
(* Proofs about the signals for all signals, slots, callbacks and pauses,  *)
(* and every range of the clock: a send is never started inside another    *)
(* one, none starts in the pause of its signal, and each calls every slot  *)
(* that is connected, once and in the order of connection.                 *)
(***************************************************************************)
EXTENDS SignalSlot, SequenceTheorems, WellFoundedInduction, TLAPS

\* The difference of two values n and r of a clock with C values.
LEMMA ElapsedValue ==
  ASSUME NEW C \in Nat \ {0}, NEW n \in 0 .. C - 1, NEW r \in 0 .. C - 1
  PROVE  (n + C - r) % C = IF n >= r THEN n - r ELSE n + C - r
<1> DEFINE x == n + C - r
<1>1. CASE n >= r
  <2>1. x \in C .. 2 * C - 1
    BY <1>1
  <2>2. x % C = x - C
    <3> HIDE DEF x
    <3> QED BY <2>1
  <2>3. QED
    BY <1>1, <2>2
<1>2. CASE ~(n >= r)
  <2>1. x \in 0 .. C - 1
    BY <1>2
  <2>2. x % C = x
    <3> HIDE DEF x
    <3> QED BY <2>1
  <2>3. QED
    BY <1>2, <2>2
<1>3. QED
  BY <1>1, <1>2

\* A tick makes the difference one longer, unless it was the longest there is:
\* then the clock has come round to the reference.
LEMMA ElapsedTick ==
  ASSUME NEW C \in Nat \ {0}, NEW n \in 0 .. C - 1, NEW r \in 0 .. C - 1,
         (n + C - r) % C < C - 1
  PROVE  (((n + 1) % C) + C - r) % C = ((n + C - r) % C) + 1
<1>1. (n + 1) % C = IF n = C - 1 THEN 0 ELSE n + 1
  OBVIOUS
<1>2. (n + 1) % C \in 0 .. C - 1
  BY <1>1
<1> DEFINE m == (n + 1) % C
<1>3. (m + C - r) % C = IF m >= r THEN m - r ELSE m + C - r
  <2> HIDE DEF m
  <2> QED BY <1>2, ElapsedValue DEF m
<1>4. (n + C - r) % C = IF n >= r THEN n - r ELSE n + C - r
  BY ElapsedValue
<1>5. QED
  BY <1>1, <1>3, <1>4

\* A call is put in front of those under way.
LEMMA InFront ==
  ASSUME NEW S, NEW e \in S, NEW t \in Seq(S)
  PROVE  /\ <<e>> \o t \in Seq(S)
         /\ Len(<<e>> \o t) = Len(t) + 1
         /\ Head(<<e>> \o t) = e
         /\ <<e>> \o t # <<>>
<1>1. <<e>> \in Seq(S) /\ Len(<<e>>) = 1 /\ <<e>>[1] = e
  OBVIOUS
<1>2. <<e>> \o t \in Seq(S) /\ Len(<<e>> \o t) = Len(t) + 1 /\ (<<e>> \o t)[1] = e
  BY <1>1, ConcatProperties
<1>3. QED
  BY <1>2

\* What is left when the call on top is taken off.
LEMMA FirstOne ==
  ASSUME NEW S, NEW q \in Seq(S), q # <<>>
  PROVE  Head(q) \in S /\ Tail(q) \in Seq(S) /\ Len(Tail(q)) = Len(q) - 1
BY HeadTailProperties

\* An empty list is a list of anything.
LEMMA NoCalls == ASSUME NEW S PROVE <<>> \in Seq(S)
OBVIOUS

\* The elapsed time without the modulo.
LEMMA ElapsedIs ==
  ASSUME TypeOK, NEW s \in Signal
  PROVE  /\ Elapsed(s) = IF now >= reference[s] THEN now - reference[s]
                         ELSE now + ClockRange - reference[s]
         /\ Elapsed(s) \in 0 .. ClockRange - 1
<1>1. /\ ClockRange \in Nat \ {0} /\ now \in 0 .. ClockRange - 1
      /\ reference[s] \in 0 .. ClockRange - 1
  BY SignalSlotAssumption DEF TypeOK
<1>2. Elapsed(s) = IF now >= reference[s] THEN now - reference[s]
                   ELSE now + ClockRange - reference[s]
  BY <1>1, ElapsedValue DEF Elapsed
<1>3. QED
  BY <1>1, <1>2

\* A send leaves the calls under way as they are, or it is not in its pause, finds
\* the guard open, closes it and puts its own call in front.
LEMMA SendOutcomes ==
  ASSUME NEW s \in Signal, NEW frames, Send(s, frames)
  PROVE  \/ calls' = frames /\ guard' = guard
         \/ /\ ~Paused(s) /\ ~guard /\ guard'
            /\ calls' = <<[signal |-> s, act |-> first[s], heard |-> <<>>]>> \o frames
BY DEF Send

\* What a send keeps within its types.
LEMMA SendRefused ==
  ASSUME TypeOK, NEW s \in Signal, NEW frames, Send(s, frames)
  PROVE  refused' \in [Signal -> 0 .. ClockRange] /\ guard' \in BOOLEAN
<1>1. quiet[s] \in 0 .. ClockRange /\ 0 \in 0 .. ClockRange
  BY SignalSlotAssumption DEF TypeOK
<1>2. QED
  BY <1>1 DEF TypeOK, Send

\* Lists, calls and clocks stay within their types.
THEOREM TypeCorrect == Spec => []TypeOK
<1>1. Init => TypeOK
  <2>1. <<>> \in Seq(Call) /\ <<>> \in Seq(Slot)
    BY NoCalls
  <2>2. 0 \in 0 .. ClockRange - 1 /\ 0 \in 0 .. ClockRange /\ ClockRange \in 0 .. ClockRange
    BY SignalSlotAssumption
  <2>3. QED
    BY <2>1, <2>2 DEF Init, TypeOK
<1>2. TypeOK /\ [Next]_vars => TypeOK'
  <2> SUFFICES ASSUME TypeOK, [Next]_vars PROVE TypeOK'
    OBVIOUS
  <2> USE SignalSlotAssumption
  <2>1. ASSUME NEW s \in Signal, TaskSend(s) PROVE TypeOK'
    <3>1. refused' \in [Signal -> 0 .. ClockRange] /\ guard' \in BOOLEAN
      BY <2>1, SendRefused DEF TaskSend
    <3> DEFINE call == [signal |-> s, act |-> first[s], heard |-> <<>>]
    <3>2. call \in Call
      BY DEF TypeOK, Call
    <3>3. calls' \in Seq(Call)
      <4>1. calls' = <<>> \/ calls' = <<call>> \o <<>>
        BY <2>1, SendOutcomes DEF TaskSend
      <4> HIDE DEF call
      <4>2. <<>> \in Seq(Call)
        BY NoCalls
      <4>3. <<call>> \o <<>> \in Seq(Call)
        BY <3>2, <4>2, InFront, Zenon
      <4>4. QED
        BY <4>1, <4>2, <4>3
    <3>4. QED
      BY <2>1, <3>1, <3>3 DEF TypeOK, TaskSend
  <2>2. ASSUME CallSlot PROVE TypeOK'
    <3> DEFINE act == Head(calls).act
               rest == <<[Head(calls) EXCEPT !.act = next[act],
                                             !.heard = Append(@, act)]>> \o Tail(calls)
    <3>1. calls \in Seq(Call) /\ calls # <<>> /\ Head(calls) \in Call /\ Tail(calls) \in Seq(Call)
      BY <2>2, FirstOne DEF TypeOK, CallSlot
    <3>2. act \in Slot /\ next[act] \in Slot \cup {Nil}
      BY <2>2, <3>1 DEF CallSlot, TypeOK, Call
    <3>3. [Head(calls) EXCEPT !.act = next[act], !.heard = Append(@, act)] \in Call
      <4>1. Head(calls).heard \in Seq(Slot)
        BY <3>1 DEF Call
      <4>2. Append(Head(calls).heard, act) \in Seq(Slot)
        BY <3>2, <4>1, AppendProperties
      <4> HIDE DEF act
      <4>3. QED
        BY <3>1, <3>2, <4>2 DEF Call
    <3>4. rest \in Seq(Call)
      BY <3>1, <3>3, InFront
    <3> HIDE DEF act, rest
    <3>5. CASE Forward[act] = Nil
      BY <2>2, <3>4, <3>5 DEF CallSlot, TypeOK, act, rest
    <3>6. CASE Forward[act] # Nil
      <4> DEFINE s == Forward[act]
      <4>1. s \in Signal /\ Send(s, rest)
        BY <2>2, <3>2, <3>6 DEF CallSlot, act, rest
      <4>2. refused' \in [Signal -> 0 .. ClockRange] /\ guard' \in BOOLEAN
        BY <4>1, SendRefused
      <4> DEFINE call == [signal |-> s, act |-> first[s], heard |-> <<>>]
      <4>3. call \in Call
        BY <4>1 DEF TypeOK, Call
      <4>4. calls' = rest \/ calls' = <<call>> \o rest
        BY <4>1, SendOutcomes
      <4>5. calls' \in Seq(Call)
        <5> HIDE DEF call
        <5>1. <<call>> \o rest \in Seq(Call)
          BY <3>4, <4>3, InFront, Zenon
        <5>2. QED
          BY <3>4, <4>4, <5>1
      <4>6. QED
        BY <2>2, <4>2, <4>5 DEF CallSlot, TypeOK
    <3>7. QED
      BY <3>5, <3>6
  <2>3. ASSUME Finish PROVE TypeOK'
    <3>1. Tail(calls) \in Seq(Call)
      BY <2>3, FirstOne DEF Finish, TypeOK
    <3>2. 0 \in 0 .. ClockRange
      OBVIOUS
    <3>3. QED
      BY <2>3, <3>1, <3>2 DEF Finish, TypeOK
  <2>4. ASSUME NEW l \in Slot, Connect(l) PROVE TypeOK'
    <3>1. Append(joined, l) \in Seq(Slot)
      BY DEF TypeOK
    <3>2. SignalOf[l] \in Signal
      OBVIOUS
    <3>3. next' \in [Slot -> Slot \cup {Nil}] /\ first' \in [Signal -> Slot \cup {Nil}]
      <4> DEFINE s == SignalOf[l]
      <4>1. CASE first[s] = Nil
        <5>1. first' = [first EXCEPT ![s] = l] /\ next' = next
          BY <2>4, <4>1 DEF Connect
        <5>2. QED
          BY <5>1 DEF TypeOK
      <4>2. CASE first[s] # Nil
        <5> DEFINE last == LastFrom(first[s])
        <5>1. next' = [next EXCEPT ![last] = l, ![l] = Nil] /\ first' = first
          BY <2>4, <4>2 DEF Connect
        <5> HIDE DEF last
        <5>2. QED
          BY <5>1 DEF TypeOK
      <4>3. QED
        BY <4>1, <4>2
    <3>4. QED
      BY <2>4, <3>1, <3>3 DEF Connect, TypeOK
  <2>5. ASSUME Tick PROVE TypeOK'
    <3>1. now' \in 0 .. ClockRange - 1
      BY <2>5 DEF Tick, TypeOK
    <3>2. quiet' \in [Signal -> 0 .. ClockRange]
      BY <2>5 DEF Tick, TypeOK
    <3>3. QED
      BY <2>5, <3>1, <3>2 DEF Tick, TypeOK
  <2>6. ASSUME UNCHANGED vars PROVE TypeOK'
    BY <2>6 DEF vars, TypeOK
  <2>7. QED
    BY <2>1, <2>2, <2>3, <2>4, <2>5, <2>6 DEF Next
<1>3. QED
  BY <1>1, <1>2, PTL DEF Spec

-----------------------------------------------------------------------------

\* A slot that sends inside a send finds the guard closed.
LEMMA CallSlotKeepsOne ==
  ASSUME TypeOK, OneSignalAtATime, CallSlot
  PROVE  OneSignalAtATime'
<1> DEFINE act == Head(calls).act
           top == [Head(calls) EXCEPT !.act = next[act], !.heard = Append(@, act)]
           rest == <<top>> \o Tail(calls)
<1>1. calls \in Seq(Call) /\ calls # <<>> /\ Len(calls) = 1 /\ guard
  BY DEF CallSlot, OneSignalAtATime, TypeOK
<1>2. Head(calls) \in Call /\ Tail(calls) \in Seq(Call) /\ Len(Tail(calls)) = 0
  BY <1>1, FirstOne
<1>3. Len(rest) = 1 /\ rest # <<>>
  <2>1. Tail(calls) = <<>>
    BY <1>2, EmptySeq
  <2> HIDE DEF top
  <2>2. Len(<<top>> \o <<>>) = 1 /\ <<top>> \o <<>> # <<>>
    BY InFront, NoCalls
  <2>3. QED
    BY <2>1, <2>2, Zenon
<1>4. calls' = rest /\ guard' = guard
  <2>1. CASE Forward[act] = Nil
    BY <2>1 DEF CallSlot
  <2>2. CASE Forward[act] # Nil
    <3>1. Forward[act] \in Signal
      <4>1. act \in Slot \cup {Nil}
        BY <1>2 DEF Call
      <4>2. act # Nil
        BY DEF CallSlot
      <4>3. QED
        BY <2>2, <4>1, <4>2, SignalSlotAssumption
    <3>2. Send(Forward[act], rest)
      BY <2>2 DEF CallSlot
    <3> HIDE DEF act, rest
    <3>3. QED
      BY <1>1, <3>1, <3>2, SendOutcomes
  <2>3. QED
    BY <2>1, <2>2
<1>5. QED
  BY <1>1, <1>3, <1>4 DEF OneSignalAtATime

\* The guard of signal_slot_send works although slots send: at most one send is
\* under way, and the guard is closed exactly then.
THEOREM OneSendAtATime == Spec => []OneSignalAtATime
<1>1. Init => OneSignalAtATime
  BY DEF Init, OneSignalAtATime
<1>2. TypeOK /\ OneSignalAtATime /\ [Next]_vars => OneSignalAtATime'
  <2> SUFFICES ASSUME TypeOK, OneSignalAtATime, [Next]_vars PROVE OneSignalAtATime'
    OBVIOUS
  <2>1. ASSUME NEW s \in Signal, TaskSend(s) PROVE OneSignalAtATime'
    <3> DEFINE call == [signal |-> s, act |-> first[s], heard |-> <<>>]
    <3>1. calls = <<>> /\ ~guard
      BY <2>1 DEF TaskSend, OneSignalAtATime
    <3>2. (calls' = <<>> /\ guard' = guard) \/ (calls' = <<call>> \o <<>> /\ guard')
      BY <2>1, SendOutcomes DEF TaskSend
    <3>3. <<call>> \o <<>> = <<call>>
      OBVIOUS
    <3> HIDE DEF call
    <3>4. QED
      BY <3>1, <3>2, <3>3 DEF OneSignalAtATime
  <2>2. ASSUME CallSlot PROVE OneSignalAtATime'
    BY <2>2, CallSlotKeepsOne
  <2>3. ASSUME Finish PROVE OneSignalAtATime'
    BY <2>3 DEF Finish, OneSignalAtATime, TypeOK
  <2>4. ASSUME NEW l \in Slot, Connect(l) PROVE OneSignalAtATime'
    BY <2>4 DEF Connect, OneSignalAtATime
  <2>5. ASSUME Tick PROVE OneSignalAtATime'
    BY <2>5 DEF Tick, OneSignalAtATime
  <2>6. ASSUME UNCHANGED vars PROVE OneSignalAtATime'
    BY <2>6 DEF vars, OneSignalAtATime
  <2>7. QED
    BY <2>1, <2>2, <2>3, <2>4, <2>5, <2>6 DEF Next
<1>3. QED
  BY <1>1, <1>2, TypeCorrect, PTL DEF Spec

-----------------------------------------------------------------------------

\* A signal that was sent less than a turn of the clock ago is known to be that
\* old; one sent earlier may look younger, never older.
ClockInv == \A s \in Signal : quiet[s] < ClockRange => Elapsed(s) = quiet[s]

\* The invariant holds through every wrap of the clock.
LEMMA ClockInvHolds == Spec => []ClockInv
<1>1. Init => ClockInv
  BY SignalSlotAssumption DEF Init, ClockInv
<1>2. TypeOK /\ TypeOK' /\ ClockInv /\ [Next]_vars => ClockInv'
  <2> SUFFICES ASSUME TypeOK, TypeOK', ClockInv, [Next]_vars PROVE ClockInv'
    OBVIOUS
  <2>1. ASSUME UNCHANGED <<now, reference, quiet>> PROVE ClockInv'
    BY <2>1 DEF ClockInv, Elapsed
  <2>2. ASSUME NEW s \in Signal, quiet'[s] < ClockRange, Finish \/ Tick
        PROVE  Elapsed(s)' = quiet'[s]
    <3>1. /\ now \in 0 .. ClockRange - 1 /\ reference[s] \in 0 .. ClockRange - 1
          /\ now' \in 0 .. ClockRange - 1 /\ reference'[s] \in 0 .. ClockRange - 1
          /\ quiet[s] \in 0 .. ClockRange /\ ClockRange \in Nat \ {0}
      BY SignalSlotAssumption DEF TypeOK
    <3>2. Elapsed(s)' = IF now' >= reference'[s] THEN now' - reference'[s]
                        ELSE now' + ClockRange - reference'[s]
      BY <3>1, ElapsedValue DEF Elapsed
    <3>3. CASE Tick
      <4>1. /\ quiet[s] < ClockRange - 1 /\ quiet'[s] = quiet[s] + 1
            /\ now' = (now + 1) % ClockRange /\ reference' = reference
        BY <2>2, <3>1, <3>3 DEF Tick, TypeOK
      <4>2. Elapsed(s) = quiet[s]
        BY <3>1, <4>1 DEF ClockInv
      <4>3. Elapsed(s)' = Elapsed(s) + 1
        BY <3>1, <4>1, <4>2, ElapsedTick DEF Elapsed
      <4>4. QED
        BY <4>1, <4>2, <4>3
    <3>4. CASE Finish
      <4>1. now' = now
        BY <3>4 DEF Finish
      <4>2. CASE s = Head(calls).signal
        BY <3>1, <3>2, <3>4, <4>1, <4>2 DEF Finish, TypeOK
      <4>3. CASE s # Head(calls).signal
        <5>1. quiet'[s] = quiet[s] /\ reference'[s] = reference[s]
          BY <3>4, <4>3 DEF Finish, TypeOK
        <5>2. QED
          BY <2>2, <3>1, <3>2, <4>1, <5>1, ElapsedIs DEF ClockInv
      <4>4. QED
        BY <4>2, <4>3
    <3>5. QED
      BY <2>2, <3>3, <3>4
  <2>3. CASE Finish \/ Tick
    BY <2>2, <2>3 DEF ClockInv
  <2>4. QED
    BY <2>1, <2>3 DEF Next, vars, TaskSend, CallSlot, Connect
<1>3. QED
  BY <1>1, <1>2, TypeCorrect, PTL DEF Spec

\* No send starts before the interval of its signal has passed since the end of
\* the last one, how often the clock may have wrapped.
THEOREM PauseKept == Spec => PauseIsKept
<1>1. TypeOK /\ OneSignalAtATime /\ ClockInv /\ [Next]_vars
        => [\A s \in Signal : Len(calls') > Len(calls) /\ Head(calls').signal = s
              => quiet[s] >= Interval[s]]_vars
  <2> SUFFICES ASSUME TypeOK, OneSignalAtATime, ClockInv, [Next]_vars,
                      NEW s \in Signal, Len(calls') > Len(calls), Head(calls').signal = s
               PROVE  quiet[s] >= Interval[s]
    OBVIOUS
  <2>1. calls \in Seq(Call)
    BY DEF TypeOK
  <2>2. ASSUME NEW t \in Signal, TaskSend(t) PROVE quiet[s] >= Interval[s]
    <3> DEFINE call == [signal |-> t, act |-> first[t], heard |-> <<>>]
    <3>1. calls = <<>> /\ calls' # <<>>
      BY <2>2 DEF TaskSend
    <3>2. ~Paused(t) /\ calls' = <<call>> \o <<>>
      BY <2>2, <3>1, SendOutcomes DEF TaskSend
    <3>3. Head(calls') = call
      <4> HIDE DEF call
      <4> QED BY <3>2
    <3>4. s = t
      BY <3>3
    <3>5. /\ Interval[s] \in 0 .. ClockRange - 1 /\ ClockRange \in Nat
          /\ quiet[s] \in 0 .. ClockRange
          /\ Interval[s] = 0 \/ ~(Elapsed(s) < Interval[s])
      BY <3>2, <3>4, SignalSlotAssumption DEF TypeOK, Paused
    <3>6. Elapsed(s) \in 0 .. ClockRange - 1
      BY ElapsedIs
    <3>7. QED
      BY <3>5, <3>6 DEF ClockInv
  <2>3. ASSUME CallSlot PROVE FALSE
    <3>1. calls # <<>> /\ Len(calls) = 1
      BY <2>1, <2>3 DEF CallSlot, OneSignalAtATime
    <3>2. Len(calls') > 1
      BY <3>1
    <3>3. Len(calls') <= 1
      BY <2>3, CallSlotKeepsOne DEF OneSignalAtATime
    <3>4. QED
      BY <3>2, <3>3
  <2>4. ASSUME Finish PROVE FALSE
    BY <2>1, <2>4 DEF Finish
  <2>5. ASSUME NEW l \in Slot, Connect(l) PROVE FALSE
    BY <2>1, <2>5 DEF Connect
  <2>6. ASSUME Tick \/ UNCHANGED vars PROVE FALSE
    BY <2>1, <2>6 DEF Tick, vars
  <2>7. QED
    BY <2>2, <2>3, <2>4, <2>5, <2>6 DEF Next
<1>2. QED
  BY <1>1, TypeCorrect, OneSendAtATime, ClockInvHolds, PTL DEF Spec, PauseIsKept
-----------------------------------------------------------------------------
(***************************************************************************)
(* Every slot is heard.  The lists of slots are the sequence of the slots  *)
(* that have connected, each list those of one signal: the pointers go     *)
(* from each to the next of the same signal.  A send under way has called  *)
(* those in front of the one that it is at.                                *)
(***************************************************************************)

\* A set of numbers that is not empty has a least one,
LEMMA NatOrder ==
  ASSUME NEW T, T \subseteq Nat, T # {}
  PROVE  \E x \in T : \A y \in T : x <= y
<1> DEFINE R == OpToRel(<, Nat)
<1>1. IsWellFoundedOn(R, Nat)
  BY NatLessThanWellFounded
<1>2. \A x, y \in Nat : x < y => <<x, y>> \in R
  BY DEF OpToRel
<1> HIDE DEF R
<1>3. PICK x \in T : \A y \in T : ~(<<y, x>> \in R)
  BY <1>1, WFMin
<1>4. ASSUME NEW y \in T PROVE x <= y
  <2>1. x \in Nat /\ y \in Nat
    OBVIOUS
  <2>2. <<y, x>> \notin R
    BY <1>3
  <2>3. ~(y < x)
    BY <1>2, <2>1, <2>2
  <2>4. QED
    BY <2>1, <2>3
<1>5. QED
  BY <1>4

\* and a greatest one if it is bounded.
LEMMA Greatest ==
  ASSUME NEW n \in Nat, NEW T, T \subseteq 1 .. n, T # {}
  PROVE  \E x \in T : \A y \in T : y <= x
<1> DEFINE U == {n - y : y \in T}
<1>1. U \subseteq Nat /\ U # {}
  <2>1. \A y \in T : n - y \in Nat
    OBVIOUS
  <2>2. QED
    BY <2>1
<1> HIDE DEF U
<1>2. PICK u \in U : \A v \in U : u <= v
  BY <1>1, NatOrder
<1>3. PICK x \in T : u = n - x
  BY DEF U
<1>4. ASSUME NEW y \in T PROVE y <= x
  <2>1. n - y \in U
    BY DEF U
  <2>2. n - x <= n - y
    BY <1>2, <1>3, <2>1
  <2>3. QED
    BY <2>2
<1>5. QED
  BY <1>4

\* No slot connects twice.
Distinct ==
  \A i, j \in 1 .. Len(joined) : joined[i] = joined[j] => i = j

\* l is the slot of signal s that comes first from place i on, or Nil if there
\* is none.
FirstFrom(s, i, l) ==
  \/ l = Nil /\ \A j \in Listeners(s) : j < i
  \/ \E k \in Listeners(s) :
       /\ l = joined[k] /\ i <= k
       /\ \A j \in Listeners(s) : j < i \/ k <= j

Linked ==
  /\ Distinct
  /\ \A s \in Signal : FirstFrom(s, 1, first[s])
  /\ \A i \in 1 .. Len(joined) : FirstFrom(SignalOf[joined[i]], i + 1, next[joined[i]])
  /\ \A l \in Slot : (\A i \in 1 .. Len(joined) : joined[i] # l) => next[l] = Nil

\* What a recursive definition of the end of a list is: every slot leads to the
\* last one of its signal.
Last(s) == CHOOSE i \in Listeners(s) : \A j \in Listeners(s) : j <= i

LEMMA LastIs ==
  ASSUME TypeOK, NEW s \in Signal, Listeners(s) # {}
  PROVE  Last(s) \in Listeners(s) /\ \A j \in Listeners(s) : j <= Last(s)
<1>1. Len(joined) \in Nat /\ Listeners(s) \subseteq 1 .. Len(joined)
  BY DEF TypeOK, Listeners
<1>2. \E i \in Listeners(s) : \A j \in Listeners(s) : j <= i
  BY <1>1, Greatest
<1>3. QED
  BY <1>2 DEF Last

\* The place of a slot that has connected tells what it is linked to.
LEMMA LinkOf ==
  ASSUME TypeOK, Linked, NEW s \in Signal, NEW i \in Listeners(s)
  PROVE  /\ next[joined[i]] = Nil <=> i = Last(s)
         /\ next[joined[i]] # Nil =>
              \E k \in Listeners(s) : next[joined[i]] = joined[k] /\ i < k
<1>1. /\ i \in 1 .. Len(joined) /\ SignalOf[joined[i]] = s
      /\ Listeners(s) \subseteq Nat /\ i \in Nat
      /\ Last(s) \in Listeners(s) /\ \A j \in Listeners(s) : j <= Last(s)
  <2>1. /\ i \in 1 .. Len(joined) /\ SignalOf[joined[i]] = s
        /\ Listeners(s) \subseteq Nat
    BY DEF Listeners
  <2>2. Last(s) \in Listeners(s) /\ \A j \in Listeners(s) : j <= Last(s)
    BY LastIs
  <2>3. QED
    BY <2>1, <2>2
<1>2. FirstFrom(s, i + 1, next[joined[i]])
  BY <1>1 DEF Linked
<1>3. \A k \in Listeners(s) : joined[k] \in Slot /\ joined[k] # Nil
  <2>1. joined \in Seq(Slot) /\ Nil \notin Slot
    BY SignalSlotAssumption DEF TypeOK
  <2>2. \A k \in 1 .. Len(joined) : joined[k] \in Slot
    BY <2>1, ElementOfSeq
  <2>3. QED
    BY <2>1, <2>2 DEF Listeners
<1>4. CASE next[joined[i]] = Nil
  <2>1. \A j \in Listeners(s) : j < i + 1
    BY <1>2, <1>3, <1>4 DEF FirstFrom
  <2>2. Last(s) < i + 1 /\ i <= Last(s) /\ Last(s) \in Nat
    BY <1>1, <2>1
  <2>3. i = Last(s)
    BY <1>1, <2>2
  <2>4. QED
    BY <1>4, <2>3
<1>5. CASE next[joined[i]] # Nil
  <2>1. PICK k \in Listeners(s) : next[joined[i]] = joined[k] /\ i + 1 <= k
    BY <1>2, <1>5 DEF FirstFrom
  <2>2. i < k /\ k <= Last(s) /\ Last(s) \in Nat /\ k \in Nat
    BY <1>1, <2>1
  <2>3. i # Last(s)
    BY <1>1, <2>2
  <2>4. QED
    BY <1>5, <2>1, <2>2, <2>3
<1>6. QED
  BY <1>4, <1>5

\* _get_last_slot follows the pointers to the last slot of the signal: the
\* recursive definition has one solution along a list, since it ends.
LEMMA LastFromIs ==
  ASSUME TypeOK, Linked, NEW s \in Signal, NEW i \in Listeners(s)
  PROVE  LastFrom(joined[i]) = joined[Last(s)]
<1> DEFINE Ends(f) == f = [m \in Slot |-> IF next[m] = Nil THEN m ELSE f[next[m]]]
           g == [m \in Slot |-> IF next[m] = Nil THEN m ELSE joined[Last(SignalOf[m])]]
           f0 == CHOOSE f : Ends(f)
<1>1. LastFrom(joined[i]) = f0[joined[i]]
  BY DEF LastFrom
<1>2. Len(joined) \in Nat /\ joined \in Seq(Slot)
  BY DEF TypeOK
<1>3. \A n \in 1 .. Len(joined) : joined[n] \in Slot /\ n \in Listeners(SignalOf[joined[n]])
                                  /\ SignalOf[joined[n]] \in Signal
  BY <1>2, SignalSlotAssumption DEF Listeners
<1>4. Ends(g)
  <2>1. ASSUME NEW m \in Slot, next[m] # Nil
        PROVE  g[next[m]] = joined[Last(SignalOf[m])] /\ next[m] \in Slot
    <3>1. PICK n \in 1 .. Len(joined) : joined[n] = m
      BY <2>1 DEF Linked
    <3> DEFINE t == SignalOf[m]
    <3>2. t \in Signal /\ n \in Listeners(t)
      BY <1>3, <3>1
    <3>3. PICK k \in Listeners(t) : next[m] = joined[k]
      BY <2>1, <3>1, <3>2, LinkOf
    <3>4. k \in 1 .. Len(joined) /\ SignalOf[joined[k]] = t
      BY <3>3 DEF Listeners
    <3>5. next[joined[k]] = Nil <=> k = Last(t)
      BY <3>2, <3>3, LinkOf
    <3>6. joined[k] \in Slot
      BY <1>3, <3>4
    <3>7. QED
      BY <3>3, <3>4, <3>5, <3>6
  <2>2. \A m \in Slot : g[m] = IF next[m] = Nil THEN m ELSE joined[Last(SignalOf[m])]
    OBVIOUS
  <2> HIDE DEF g
  <2>3. \A m \in Slot : g[m] = IF next[m] = Nil THEN m ELSE g[next[m]]
    BY <2>1, <2>2
  <2>4. g = [m \in Slot |-> g[m]]
    BY DEF g
  <2>5. [m \in Slot |-> g[m]] = [m \in Slot |-> IF next[m] = Nil THEN m ELSE g[next[m]]]
    BY <2>3
  <2>6. QED
    BY <2>4, <2>5
<1>5. Ends(f0)
  <2> HIDE DEF Ends, g
  <2> QED BY <1>4
<1>6. \A m \in Slot : f0[m] = IF next[m] = Nil THEN m ELSE f0[next[m]]
  <2> HIDE DEF f0
  <2> QED BY <1>5
<1> HIDE DEF f0, g
<1> DEFINE bad == {n \in Listeners(s) : f0[joined[n]] # joined[Last(s)]}
<1>7. bad \subseteq 1 .. Len(joined)
  BY DEF Listeners
<1>8. SUFFICES ASSUME bad # {} PROVE FALSE
  BY <1>1
<1>9. PICK n \in bad : \A k \in bad : k <= n
  <2> HIDE DEF bad
  <2> QED BY <1>2, <1>7, <1>8, Greatest
<1>10. n \in Listeners(s) /\ f0[joined[n]] # joined[Last(s)] /\ n \in 1 .. Len(joined)
       /\ joined[n] \in Slot
  BY <1>3, <1>7, <1>9
<1>11. CASE next[joined[n]] = Nil
  BY <1>6, <1>10, <1>11, LinkOf
<1>12. CASE next[joined[n]] # Nil
  <2>1. PICK k \in Listeners(s) : next[joined[n]] = joined[k] /\ n < k
    BY <1>10, <1>12, LinkOf
  <2>2. k \in bad
    BY <1>6, <1>10, <1>12, <2>1
  <2>3. k <= n /\ k \in Nat /\ n \in Nat
    BY <1>7, <1>9, <1>10, <2>2
  <2>4. QED
    BY <2>1, <2>3
<1>13. QED
  BY <1>11, <1>12

\* A slot that connects is the last of its signal, and leaves the order of all
\* others.
LEMMA Joining ==
  ASSUME TypeOK, NEW l \in Slot, joined' = Append(joined, l)
  PROVE  /\ Len(joined) \in Nat /\ Len(joined') = Len(joined) + 1
         /\ joined'[Len(joined) + 1] = l
         /\ \A i \in 1 .. Len(joined) : joined'[i] = joined[i] /\ joined[i] \in Slot
         /\ Listeners(SignalOf[l])' = Listeners(SignalOf[l]) \cup {Len(joined) + 1}
         /\ \A s \in Signal : s # SignalOf[l] => Listeners(s)' = Listeners(s)
<1>1. joined \in Seq(Slot)
  BY DEF TypeOK
<1>2. /\ Len(joined) \in Nat /\ Len(joined') = Len(joined) + 1
      /\ joined'[Len(joined) + 1] = l
      /\ \A i \in 1 .. Len(joined) : joined'[i] = joined[i] /\ joined[i] \in Slot
  BY <1>1, AppendProperties
<1>3. 1 .. Len(joined) + 1 = (1 .. Len(joined)) \cup {Len(joined) + 1}
  BY <1>2
<1>4. ASSUME NEW s \in Signal
      PROVE  Listeners(s)' = {i \in (1 .. Len(joined)) \cup {Len(joined) + 1} :
                                SignalOf[joined'[i]] = s}
  BY <1>2, <1>3 DEF Listeners
<1>5. ASSUME NEW s \in Signal, s # SignalOf[l]
      PROVE  Listeners(s)' = Listeners(s)
  BY <1>2, <1>4, <1>5 DEF Listeners
<1>6. Listeners(SignalOf[l])' = Listeners(SignalOf[l]) \cup {Len(joined) + 1}
  <2>1. SignalOf[l] \in Signal
    BY SignalSlotAssumption
  <2> DEFINE s == SignalOf[l]
  <2>2. \A i \in 1 .. Len(joined) : SignalOf[joined'[i]] = s <=> SignalOf[joined[i]] = s
    BY <1>2
  <2>3. SignalOf[joined'[Len(joined) + 1]] = s
    BY <1>2
  <2>4. Listeners(s)' = {i \in (1 .. Len(joined)) \cup {Len(joined) + 1} :
                                SignalOf[joined'[i]] = s}
    BY <1>4, <2>1
  <2>5. Listeners(s) = {i \in 1 .. Len(joined) : SignalOf[joined[i]] = s}
    BY DEF Listeners
  <2> HIDE DEF s
  <2>6. Listeners(s)' = Listeners(s) \cup {Len(joined) + 1}
    BY <2>2, <2>3, <2>4, <2>5
  <2>7. QED
    BY <2>6 DEF s
<1>7. QED
  BY <1>2, <1>5, <1>6

\* The slots in front of the new one are linked as before, unless it takes the
\* place of nobody.
LEMMA StillFirst ==
  ASSUME TypeOK, NEW l \in Slot, joined' = Append(joined, l),
         NEW s \in Signal, NEW i \in Nat, NEW m \in Slot \cup {Nil},
         FirstFrom(s, i, m), m # Nil \/ s # SignalOf[l]
  PROVE  FirstFrom(s, i, m)'
<1>1. /\ Len(joined) \in Nat
      /\ \A k \in 1 .. Len(joined) : joined'[k] = joined[k]
      /\ Listeners(SignalOf[l])' = Listeners(SignalOf[l]) \cup {Len(joined) + 1}
      /\ s # SignalOf[l] => Listeners(s)' = Listeners(s)
  BY Joining
<1>2. Listeners(s) \subseteq 1 .. Len(joined)
  BY DEF Listeners
<1>3. CASE s # SignalOf[l]
  <2>1. Listeners(s)' = Listeners(s)
    BY <1>1, <1>3
  <2>2. \A k \in Listeners(s) : joined'[k] = joined[k]
    BY <1>1, <1>2
  <2>3. QED
    BY <2>1, <2>2 DEF FirstFrom
<1>4. CASE s = SignalOf[l]
  <2>1. PICK k \in Listeners(s) : m = joined[k] /\ i <= k
                                  /\ \A j \in Listeners(s) : j < i \/ k <= j
    BY <1>4 DEF FirstFrom
  <2>2. Listeners(s)' = Listeners(s) \cup {Len(joined) + 1}
    BY <1>1, <1>4
  <2>3. k \in Listeners(s)' /\ joined'[k] = m
    BY <1>1, <1>2, <2>1, <2>2
  <2>4. k <= Len(joined) + 1
    BY <1>1, <1>2, <2>1
  <2>5. \A j \in Listeners(s)' : j < i \/ k <= j
    BY <2>1, <2>2, <2>4
  <2>6. QED
    BY <2>1, <2>3, <2>5 DEF FirstFrom
<1>5. QED
  BY <1>3, <1>4

LEMMA LinkedStart == ASSUME Init PROVE Linked
<1>1. 1 .. Len(joined) = {}
  <2>1. Len(<<>>) = 0
    OBVIOUS
  <2>2. QED
    BY <2>1 DEF Init
<1>2. \A s : Listeners(s) = {}
  BY <1>1 DEF Listeners
<1>3. \A s \in Signal : first[s] = Nil
  BY DEF Init
<1>4. \A l \in Slot : next[l] = Nil
  BY DEF Init
<1>5. QED
  BY <1>1, <1>2, <1>3, <1>4 DEF Linked, Distinct, FirstFrom

LEMMA LinkedConnect ==
  ASSUME TypeOK, Linked, NEW l \in Slot, Connect(l)
  PROVE  Linked'
<1> DEFINE s == SignalOf[l]
<1>0. PICK n \in Nat : n = Len(joined)
  BY Joining DEF Connect
<1>1. /\ joined' = Append(joined, l)
      /\ \A i \in 1 .. Len(joined) : joined[i] # l
      /\ s \in Signal
  BY SignalSlotAssumption DEF Connect
<1>2. /\ n \in Nat /\ Len(joined') = n + 1 /\ joined'[n + 1] = l
      /\ \A i \in 1 .. n : joined'[i] = joined[i] /\ joined[i] \in Slot
      /\ Listeners(s)' = Listeners(s) \cup {n + 1}
      /\ \A t \in Signal : t # s => Listeners(t)' = Listeners(t)
  BY <1>0, <1>1, Joining
<1>3. Listeners(s) \subseteq 1 .. n /\ \A i \in 1 .. n : i \in Listeners(s) <=> SignalOf[joined[i]] = s
  BY <1>0 DEF Listeners
<1>4. l # Nil /\ next[l] = Nil
  BY <1>1, SignalSlotAssumption DEF Linked
<1>5. Distinct'
  <2>1. ASSUME NEW i \in 1 .. n + 1, NEW j \in 1 .. n + 1, joined'[i] = joined'[j]
        PROVE  i = j
    <3>1. (i \in 1 .. n \/ i = n + 1) /\ (j \in 1 .. n \/ j = n + 1)
      BY <1>2
    <3>2. QED
      BY <1>0, <1>1, <1>2, <2>1, <3>1 DEF Linked, Distinct
  <2>2. QED
    BY <1>0, <1>2, <2>1 DEF Distinct
<1>6. FirstFrom(s, n + 2, Nil)'
  <2>1. \A j \in Listeners(s)' : j < n + 2
    BY <1>2, <1>3
  <2>2. QED
    BY <2>1 DEF FirstFrom
<1>7. CASE first[s] = Nil
  <2>1. first' = [first EXCEPT ![s] = l] /\ next' = next
    BY <1>7 DEF Connect
  <2>2. Listeners(s) = {}
    <3>1. FirstFrom(s, 1, Nil)
      BY <1>1, <1>7 DEF Linked
    <3>2. \A k \in Listeners(s) : joined[k] # Nil /\ ~(k < 1)
      BY <1>2, <1>3, SignalSlotAssumption
    <3>3. QED
      BY <3>1, <3>2 DEF FirstFrom
  <2>3. ASSUME NEW t \in Signal PROVE FirstFrom(t, 1, first[t])' 
    <3>1. CASE t = s
      <4>1. first'[t] = l
        BY <2>1, <3>1 DEF TypeOK
      <4>2. Listeners(t)' = {n + 1}
        BY <1>2, <2>2, <3>1
      <4>3. 1 <= n + 1
        BY <1>2
      <4>4. QED
        BY <1>2, <4>1, <4>2, <4>3 DEF FirstFrom
    <3>2. CASE t # s
      <4>1. first'[t] = first[t] /\ first[t] \in Slot \cup {Nil}
        BY <2>1, <3>2 DEF TypeOK
      <4>2. FirstFrom(t, 1, first[t])
        BY DEF Linked
      <4> DEFINE m == first[t]
      <4> HIDE DEF m
      <4>3. \A e \in Slot \cup {Nil} : FirstFrom(t, 1, e) => FirstFrom(t, 1, e)'
        BY <1>1, <3>2, StillFirst
      <4>4. QED
        BY <4>1, <4>2, <4>3 DEF FirstFrom
    <3>3. QED
      BY <3>1, <3>2
  <2>4. ASSUME NEW i \in 1 .. n + 1
        PROVE  FirstFrom(SignalOf[joined[i]], i + 1, next[joined[i]])'
    <3>1. CASE i = n + 1
      BY <1>2, <1>4, <1>6, <2>1, <3>1 DEF FirstFrom
    <3>2. CASE i # n + 1
      <4>1. i \in 1 .. n /\ joined'[i] = joined[i] /\ joined[i] \in Slot /\ i + 1 \in Nat
        BY <1>2, <3>2
      <4>2. PICK t \in Signal : t = SignalOf[joined[i]] /\ t # s
        BY <1>3, <2>2, <4>1, SignalSlotAssumption
      <4>3. FirstFrom(t, i + 1, next[joined[i]]) /\ next[joined[i]] \in Slot \cup {Nil}
        BY <1>0, <4>1, <4>2 DEF Linked, TypeOK
      <4>4. \A e \in Slot \cup {Nil} : FirstFrom(t, i + 1, e) => FirstFrom(t, i + 1, e)'
        BY <1>1, <4>1, <4>2, StillFirst
      <4>5. next'[joined'[i]] = next[joined[i]] /\ SignalOf[joined'[i]] = t
        BY <2>1, <4>1, <4>2
      <4>6. QED
        BY <4>3, <4>4, <4>5 DEF FirstFrom
    <3>3. QED
      BY <3>1, <3>2
  <2>5. \A m \in Slot : (\A i \in 1 .. n + 1 : joined'[i] # m) => next'[m] = Nil
    <3>1. \A i \in 1 .. n : i \in 1 .. n + 1
      BY <1>2
    <3>2. QED
      BY <1>0, <1>2, <2>1, <3>1 DEF Linked
  <2>6. Len(joined') = n + 1
    BY <1>2
  <2>7. \A i \in 1 .. Len(joined') : FirstFrom(SignalOf[joined[i]], i + 1, next[joined[i]])'
    BY <2>4, <2>6
  <2>8. \A m \in Slot : (\A i \in 1 .. Len(joined') : joined'[i] # m) => next'[m] = Nil
    BY <2>5, <2>6
  <2>9. QED
    BY <1>5, <2>3, <2>7, <2>8 DEF Linked
<1>8. CASE first[s] # Nil
  <2> DEFINE last == joined[Last(s)]
  <2>1. PICK k0 \in Listeners(s) : first[s] = joined[k0]
    BY <1>1, <1>8 DEF Linked, FirstFrom
  <2>2. LastFrom(first[s]) = last
    BY <1>1, <2>1, LastFromIs
  <2>3. Last(s) \in Listeners(s) /\ \A j \in Listeners(s) : j <= Last(s)
    BY <1>1, <2>1, LastIs
  <2>4. Last(s) \in 1 .. n /\ last \in Slot /\ last # l
    BY <1>1, <1>2, <1>3, <2>3
  <2>5. first' = first /\ next' = [next EXCEPT ![last] = l, ![l] = Nil]
    BY <1>8, <2>2 DEF Connect
  <2> HIDE DEF last
  <2>6. /\ next'[last] = l /\ next'[l] = Nil
        /\ \A m \in Slot : m # last /\ m # l => next'[m] = next[m]
    BY <2>4, <2>5 DEF TypeOK
  <2>7. ASSUME NEW t \in Signal PROVE FirstFrom(t, 1, first[t])'
    <3>1. first'[t] = first[t] /\ first[t] \in Slot \cup {Nil}
      BY <2>5 DEF TypeOK
    <3>2. FirstFrom(t, 1, first[t])
      BY DEF Linked
    <3>3. \A e \in Slot \cup {Nil} : e # Nil \/ t # s => (FirstFrom(t, 1, e) => FirstFrom(t, 1, e)')
      BY <1>1, StillFirst
    <3>4. first[t] # Nil \/ t # s
      BY <1>8
    <3>5. QED
      BY <3>1, <3>2, <3>3, <3>4 DEF FirstFrom
  <2>8. ASSUME NEW i \in 1 .. n + 1
        PROVE  FirstFrom(SignalOf[joined[i]], i + 1, next[joined[i]])'
    <3>1. CASE i = n + 1
      BY <1>2, <1>6, <2>6, <3>1 DEF FirstFrom
    <3>2. CASE i = Last(s)
      <4>1. joined'[i] = last /\ SignalOf[last] = s /\ i \in 1 .. n
        BY <1>2, <1>3, <2>3, <2>4, <3>2 DEF last
      <4>2. \A j \in Listeners(s)' : j < i + 1 \/ n + 1 <= j
        BY <1>2, <1>3, <2>3, <2>4, <3>2
      <4>3. n + 1 \in Listeners(s)' /\ joined'[n + 1] = l /\ i + 1 <= n + 1
        BY <1>2, <4>1
      <4>4. FirstFrom(s, i + 1, l)'
        BY <4>2, <4>3 DEF FirstFrom
      <4>5. QED
        BY <2>6, <4>1, <4>4 DEF FirstFrom
    <3>3. CASE i # n + 1 /\ i # Last(s)
      <4>1. i \in 1 .. n /\ joined'[i] = joined[i] /\ joined[i] \in Slot /\ i + 1 \in Nat
        BY <1>2, <3>3
      <4>2. joined[i] # last /\ joined[i] # l
        BY <1>0, <1>1, <2>3, <2>4, <3>3, <4>1 DEF Linked, Distinct, last
      <4>3. next'[joined'[i]] = next[joined[i]]
        BY <2>6, <4>1, <4>2
      <4>4. PICK t \in Signal : t = SignalOf[joined[i]] /\ i \in Listeners(t)
        BY <1>0, <4>1, SignalSlotAssumption DEF Listeners
      <4>5. FirstFrom(t, i + 1, next[joined[i]]) /\ next[joined[i]] \in Slot \cup {Nil}
        BY <1>0, <4>1, <4>4 DEF Linked, TypeOK
      <4>6. next[joined[i]] # Nil \/ t # s
        BY <3>3, <4>4, LinkOf
      <4>7. \A e \in Slot \cup {Nil} :
              e # Nil \/ t # s => (FirstFrom(t, i + 1, e) => FirstFrom(t, i + 1, e)')
        BY <1>1, <4>1, <4>4, StillFirst
      <4>8. QED
        BY <4>1, <4>3, <4>4, <4>5, <4>6, <4>7 DEF FirstFrom
    <3>4. QED
      BY <3>1, <3>2, <3>3
  <2>9. ASSUME NEW m \in Slot, \A i \in 1 .. n + 1 : joined'[i] # m
        PROVE  next'[m] = Nil
    <3>1. m # l
      BY <1>2, <2>9
    <3>2. \A i \in 1 .. n : joined[i] # m
      BY <1>2, <2>9
    <3>3. m # last
      BY <2>4, <3>2 DEF last
    <3>4. QED
      BY <1>0, <2>6, <3>1, <3>2, <3>3 DEF Linked
  <2>10. Len(joined') = n + 1
    BY <1>2
  <2>11. \A i \in 1 .. Len(joined') : FirstFrom(SignalOf[joined[i]], i + 1, next[joined[i]])'
    BY <2>8, <2>10
  <2>12. \A m \in Slot : (\A i \in 1 .. Len(joined') : joined'[i] # m) => next'[m] = Nil
    BY <2>9, <2>10
  <2>13. QED
    BY <1>5, <2>7, <2>11, <2>12 DEF Linked
<1>9. QED
  BY <1>7, <1>8

\* The slots of signal s in front of place p are those in heard, in their order.
HeardTo(s, heard, p) ==
  /\ \A k \in 1 .. Len(heard) : \E i \in Listeners(s) : i < p /\ heard[k] = joined[i]
  /\ \A i \in Listeners(s) : i < p => \E k \in 1 .. Len(heard) : heard[k] = joined[i]
  /\ \A k, m \in 1 .. Len(heard), i, j \in Listeners(s) :
       k < m /\ heard[k] = joined[i] /\ heard[m] = joined[j] => i < j

\* The send under way is at some place of the list.
Underway ==
  calls # <<>> =>
    \E p \in Nat : /\ FirstFrom(Head(calls).signal, p, Head(calls).act)
                   /\ HeardTo(Head(calls).signal, Head(calls).heard, p)

\* The lists of slots change only when a slot connects.
LEMMA SameLists ==
  ASSUME joined' = joined
  PROVE  /\ \A s, p, l : FirstFrom(s, p, l) => FirstFrom(s, p, l)'
         /\ \A s, heard, p : HeardTo(s, heard, p) => HeardTo(s, heard, p)'
<1>1. ASSUME NEW s PROVE Listeners(s)' = Listeners(s)
  BY DEF Listeners
<1>2. ASSUME NEW s, NEW p, NEW l, FirstFrom(s, p, l) PROVE FirstFrom(s, p, l)'
  BY <1>1, <1>2 DEF FirstFrom
<1>3. ASSUME NEW s, NEW heard, NEW p, HeardTo(s, heard, p) PROVE HeardTo(s, heard, p)'
  BY <1>1, <1>3 DEF HeardTo
<1>4. QED
  BY <1>2, <1>3

\* The slot at place n is called when those in front of it have been.
LEMMA HeardNext ==
  ASSUME TypeOK, Distinct, NEW s \in Signal, NEW heard \in Seq(Slot), NEW p \in Nat,
         HeardTo(s, heard, p), NEW n \in Listeners(s), p <= n,
         \A j \in Listeners(s) : j < p \/ n <= j
  PROVE  HeardTo(s, Append(heard, joined[n]), n + 1)
<1> DEFINE h == Append(heard, joined[n])
<1>1. /\ Listeners(s) \subseteq 1 .. Len(joined) /\ Len(joined) \in Nat
      /\ joined[n] \in Slot /\ n \in Nat
  BY DEF Listeners, TypeOK
<1>2. PICK e \in Nat : e = Len(heard)
  OBVIOUS
<1>3. /\ Len(h) = e + 1 /\ h[e + 1] = joined[n]
      /\ \A k \in 1 .. e : h[k] = heard[k]
  BY <1>1, <1>2, AppendProperties
<1> HIDE DEF h
<1>4. \A k \in 1 .. e : \E i \in Listeners(s) : i < p /\ heard[k] = joined[i]
  BY <1>2 DEF HeardTo
<1>5. ASSUME NEW k \in 1 .. e + 1 PROVE k = e + 1 \/ k \in 1 .. e
  OBVIOUS
<1>6. ASSUME NEW k \in 1 .. e + 1
      PROVE  \E i \in Listeners(s) : i < n + 1 /\ h[k] = joined[i]
  <2>1. CASE k = e + 1
    BY <1>1, <1>3, <2>1
  <2>2. CASE k \in 1 .. e
    <3>1. PICK i \in Listeners(s) : i < p /\ heard[k] = joined[i]
      BY <1>4, <2>2
    <3>2. i < n + 1
      BY <1>1, <3>1
    <3>3. QED
      BY <1>3, <2>2, <3>1, <3>2
  <2>3. QED
    BY <1>5, <2>1, <2>2
<1>7. ASSUME NEW i \in Listeners(s), i < n + 1
      PROVE  \E k \in 1 .. e + 1 : h[k] = joined[i]
  <2>1. CASE i < p
    <3>1. PICK k \in 1 .. e : heard[k] = joined[i]
      BY <1>2, <2>1 DEF HeardTo
    <3>2. k \in 1 .. e + 1 /\ h[k] = joined[i]
      BY <1>3, <3>1
    <3>3. QED
      BY <3>2
  <2>2. CASE ~(i < p)
    <3>1. i = n
      BY <1>1, <1>7, <2>2
    <3>2. e + 1 \in 1 .. e + 1
      OBVIOUS
    <3>3. QED
      BY <1>3, <3>1, <3>2
  <2>3. QED
    BY <2>1, <2>2
<1>8. ASSUME NEW k \in 1 .. e + 1, NEW m \in 1 .. e + 1, NEW i \in Listeners(s),
             NEW j \in Listeners(s), k < m, h[k] = joined[i], h[m] = joined[j]
      PROVE  i < j
  <2>1. k \in 1 .. e
    BY <1>8
  <2>2. heard[k] = joined[i]
    BY <1>3, <1>8, <2>1
  <2>3. CASE m \in 1 .. e
    <3>1. heard[m] = joined[j]
      BY <1>3, <1>8, <2>3
    <3>2. QED
      BY <1>2, <1>8, <2>1, <2>2, <2>3, <3>1 DEF HeardTo
  <2>4. CASE m = e + 1
    <3>1. joined[j] = joined[n]
      BY <1>3, <1>8, <2>4
    <3>2. j = n
      BY <1>1, <3>1 DEF Distinct
    <3>3. PICK x \in Listeners(s) : x < p /\ heard[k] = joined[x]
      BY <1>4, <2>1
    <3>4. x = i
      BY <1>1, <2>2, <3>3 DEF Distinct
    <3>5. QED
      BY <1>1, <3>2, <3>3, <3>4
  <2>5. QED
    BY <1>5, <2>3, <2>4
<1>9. HeardTo(s, h, n + 1)
  BY <1>3, <1>6, <1>7, <1>8 DEF HeardTo
<1>10. QED
  BY <1>9 DEF h

\* A round starts at the head of the list: nobody has been called.
LEMMA RoundStarts ==
  ASSUME TypeOK, Linked, Underway, NEW s \in Signal, TaskSend(s)
  PROVE  Underway'
<1> DEFINE call == [signal |-> s, act |-> first[s], heard |-> <<>>]
<1>1. joined' = joined /\ calls = <<>>
  BY DEF TaskSend
<1>2. calls' = <<>> \/ calls' = <<call>> \o <<>>
  BY <1>1, SendOutcomes DEF TaskSend
<1>3. CASE calls' = <<>>
  BY <1>3 DEF Underway
<1>4. CASE calls' = <<call>> \o <<>>
  <2>1. <<call>> \o <<>> = <<call>>
    OBVIOUS
  <2>2. /\ Head(calls').signal = s /\ Head(calls').act = first[s]
        /\ Head(calls').heard = <<>>
    BY <1>4, <2>1
  <2>3. FirstFrom(s, 1, first[s])
    BY DEF Linked
  <2>4. HeardTo(s, <<>>, 1)
    <3>1. Len(<<>>) = 0
      OBVIOUS
    <3>2. \A i \in Listeners(s) : ~(i < 1)
      BY DEF Listeners
    <3>3. QED
      BY <3>1, <3>2 DEF HeardTo
  <2>5. PICK a \in Slot \cup {Nil} : a = first[s]
    BY DEF TypeOK
  <2>6. FirstFrom(s, 1, a)' /\ HeardTo(s, <<>>, 1)'
    BY <1>1, <2>3, <2>4, <2>5, SameLists
  <2>7. Head(calls').act = a
    BY <2>2, <2>5
  <2>8. QED
    BY <2>2, <2>6, <2>7 DEF Underway
<1>5. QED
  BY <1>2, <1>3, <1>4

\* A round goes on with the next slot of the list.
LEMMA RoundGoesOn ==
  ASSUME TypeOK, OneSignalAtATime, Linked, Underway, CallSlot
  PROVE  Underway'
<1>1. calls \in Seq(Call) /\ calls # <<>> /\ Len(calls) = 1 /\ guard
  BY DEF CallSlot, OneSignalAtATime, TypeOK
<1>2. PICK c \in Call : c = Head(calls)
  BY <1>1, FirstOne
<1>3. c.signal \in Signal /\ c.act \in Slot /\ c.heard \in Seq(Slot) /\ joined' = joined
  BY <1>2 DEF Call, CallSlot
<1>4. PICK p \in Nat : FirstFrom(c.signal, p, c.act) /\ HeardTo(c.signal, c.heard, p)
  BY <1>1, <1>2 DEF Underway
<1>5. PICK n \in Listeners(c.signal) :
        /\ c.act = joined[n] /\ p <= n
        /\ \A j \in Listeners(c.signal) : j < p \/ n <= j
  BY <1>3, <1>4, SignalSlotAssumption DEF FirstFrom
<1>6. n \in 1 .. Len(joined) /\ SignalOf[joined[n]] = c.signal /\ n + 1 \in Nat
  BY DEF Listeners
<1>7. PICK a \in Slot \cup {Nil} : a = next[c.act]
  BY <1>3 DEF TypeOK
<1>8. FirstFrom(c.signal, n + 1, a)
  BY <1>5, <1>6, <1>7 DEF Linked
<1>9. PICK h \in Seq(Slot) : h = Append(c.heard, c.act)
  BY <1>3, AppendProperties
<1>10. HeardTo(c.signal, h, n + 1)
  <2>1. Distinct
    BY DEF Linked
  <2>2. QED
    BY <1>3, <1>4, <1>5, <1>9, <2>1, HeardNext
<1>11. Head(calls').signal = c.signal /\ Head(calls').act = a /\ Head(calls').heard = h
  <2> DEFINE top == [c EXCEPT !.act = next[c.act], !.heard = Append(@, c.act)]
             rest == <<top>> \o Tail(calls)
  <2>1. top.signal = c.signal /\ top.act = a /\ top.heard = h
    BY <1>7, <1>9 DEF Call
  <2>2. Tail(calls) \in Seq(Call) /\ Len(Tail(calls)) = 0
    BY <1>1, FirstOne
  <2>3. Head(rest) = top
    <3> HIDE DEF top
    <3>1. Tail(calls) = <<>>
      BY <2>2, EmptySeq
    <3>2. Head(<<top>> \o <<>>) = top
      BY InFront, NoCalls
    <3>3. QED
      BY <3>1, <3>2, Zenon
  <2>4. calls' = rest
    <3>1. CASE Forward[c.act] = Nil
      BY <1>2, <3>1 DEF CallSlot
    <3>2. CASE Forward[c.act] # Nil
      <4>1. Forward[c.act] \in Signal
        BY <1>3, <3>2, SignalSlotAssumption
      <4>2. Send(Forward[c.act], rest)
        BY <1>2, <3>2 DEF CallSlot
      <4> HIDE DEF rest
      <4>3. QED
        BY <1>1, <4>1, <4>2, SendOutcomes
    <3>3. QED
      BY <3>1, <3>2
  <2> HIDE DEF top, rest
  <2>5. QED
    BY <2>1, <2>3, <2>4
<1>12. FirstFrom(c.signal, n + 1, a)' /\ HeardTo(c.signal, h, n + 1)'
  BY <1>3, <1>8, <1>10, SameLists
<1>13. QED
  BY <1>6, <1>11, <1>12 DEF Underway

\* The lists and the send under way go together through every step.
LEMMA ListsHold == Spec => [](Linked /\ Underway)
<1>1. Init => Linked /\ Underway
  BY LinkedStart DEF Init, Underway
<1>2. TypeOK /\ OneSignalAtATime /\ OneSignalAtATime' /\ Linked /\ Underway /\ [Next]_vars
        => Linked' /\ Underway'
  <2> SUFFICES ASSUME TypeOK, OneSignalAtATime, OneSignalAtATime', Linked, Underway,
                      [Next]_vars
               PROVE  Linked' /\ Underway'
    OBVIOUS
  <2>1. ASSUME UNCHANGED <<first, next, joined>> PROVE Linked'
    <3>1. ASSUME NEW s PROVE Listeners(s)' = Listeners(s)
      BY <2>1 DEF Listeners
    <3>2. QED
      BY <2>1, <3>1 DEF Linked, Distinct, FirstFrom
  <2>2. ASSUME UNCHANGED <<calls, joined>> PROVE Underway'
    <3> SUFFICES ASSUME calls # <<>> PROVE Underway'
      BY <2>2 DEF Underway
    <3>1. PICK c \in Call : c = Head(calls)
      BY FirstOne DEF TypeOK
    <3>2. PICK p \in Nat : FirstFrom(c.signal, p, c.act) /\ HeardTo(c.signal, c.heard, p)
      BY <3>1 DEF Underway
    <3>3. FirstFrom(c.signal, p, c.act)' /\ HeardTo(c.signal, c.heard, p)'
      BY <2>2, <3>2, SameLists
    <3>4. QED
      BY <2>2, <3>1, <3>3 DEF Underway
  <2>3. ASSUME NEW s \in Signal, TaskSend(s) PROVE Linked' /\ Underway'
    BY <2>1, <2>3, RoundStarts DEF TaskSend
  <2>4. ASSUME CallSlot PROVE Linked' /\ Underway'
    BY <2>1, <2>4, RoundGoesOn DEF CallSlot
  <2>5. ASSUME Finish PROVE Linked' /\ Underway'
    <3>1. calls' = <<>>
      <4>1. Len(Tail(calls)) = 0 /\ Tail(calls) \in Seq(Call)
        BY <2>5, FirstOne DEF Finish, OneSignalAtATime, TypeOK
      <4>2. QED
        BY <2>5, <4>1, EmptySeq DEF Finish
    <3>2. QED
      BY <2>1, <2>5, <3>1 DEF Finish, Underway
  <2>6. ASSUME NEW l \in Slot, Connect(l) PROVE Linked' /\ Underway'
    <3>1. Underway'
      BY <2>6 DEF Connect, Underway
    <3>2. QED
      BY <2>6, <3>1, LinkedConnect
  <2>7. ASSUME Tick \/ UNCHANGED vars PROVE Linked' /\ Underway'
    BY <2>1, <2>2, <2>7 DEF Tick, vars
  <2>8. QED
    BY <2>3, <2>4, <2>5, <2>6, <2>7 DEF Next
<1>3. QED
  BY <1>1, <1>2, TypeCorrect, OneSendAtATime, PTL DEF Spec

\* When a send ends, every slot that was connected to its signal has been called,
\* and they were called in the order in which they connected.
THEOREM EverySlotIsHeard == Spec => []AllSlotsHeard
<1>1. TypeOK /\ Linked /\ Underway => AllSlotsHeard
  <2> SUFFICES ASSUME TypeOK, Underway, calls # <<>>, Head(calls).act = Nil
               PROVE  AllSlotsHeard
    BY DEF AllSlotsHeard
  <2>1. PICK c \in Call : c = Head(calls)
    BY FirstOne DEF TypeOK
  <2>2. PICK p \in Nat : FirstFrom(c.signal, p, Nil) /\ HeardTo(c.signal, c.heard, p)
    BY <2>1 DEF Underway
  <2> DEFINE own == Listeners(c.signal)
  <2>3. \A i \in own : i < p
    <3>1. \A i \in own : joined[i] # Nil
      BY SignalSlotAssumption DEF Listeners, TypeOK
    <3>2. QED
      BY <2>2, <3>1 DEF FirstFrom
  <2>4. {c.heard[k] : k \in 1 .. Len(c.heard)} = {joined[i] : i \in own}
    <3>1. \A k \in 1 .. Len(c.heard) : \E i \in own : c.heard[k] = joined[i]
      BY <2>2 DEF HeardTo
    <3>2. \A i \in own : \E k \in 1 .. Len(c.heard) : c.heard[k] = joined[i]
      BY <2>2, <2>3 DEF HeardTo
    <3> HIDE DEF own
    <3>3. QED
      BY <3>1, <3>2
  <2>5. \A k, m \in 1 .. Len(c.heard), i, j \in own :
          k < m /\ c.heard[k] = joined[i] /\ c.heard[m] = joined[j] => i < j
    BY <2>2 DEF HeardTo
  <2>6. QED
    BY <2>1, <2>4, <2>5 DEF AllSlotsHeard
<1>2. QED
  BY <1>1, TypeCorrect, ListsHold, PTL

=============================================================================
