----------------------------- MODULE SignalSlot -----------------------------
(***************************************************************************)
(* common/signal_slot_interface.c: signals with their linked lists of      *)
(* slots, the send that calls every slot, the one guard that keeps a slot  *)
(* from sending a second signal, and the pause of a signal, measured with  *)
(* the u16 clock of time_management.c.                                     *)
(*                                                                         *)
(* A send runs in the main loop and is a call for every slot; the clock    *)
(* moves on while the slots run.  What a callback does to this module is   *)
(* to send another signal: Forward says which.                             *)
(***************************************************************************)
EXTENDS Naturals, Sequences

CONSTANTS
  Signal, Slot,
  SignalOf,    \* [Slot -> Signal]: the signal named in CREATE_SLOT
  Forward,     \* [Slot -> Signal \cup {Nil}]: what the callback sends
  Nil,         \* the null pointer
  Interval,    \* [Signal -> Nat]: time_interval_ms of the signal
  ClockRange   \* values of the clock, 2^16 in the code

ASSUME SignalSlotAssumption ==
  /\ Nil \notin Signal \cup Slot
  /\ SignalOf \in [Slot -> Signal]
  /\ Forward \in [Slot -> Signal \cup {Nil}]
  /\ ClockRange \in Nat \ {0}
  /\ Interval \in [Signal -> 0 .. ClockRange - 1]

VARIABLES
  first,      \* p_first_element of each signal
  next,       \* p_next of each slot
  reference,  \* time_reference_ms of each signal
  now,        \* time_mgmnt_gettime_u16()
  guard,      \* is_in_signal_context_guard
  calls,      \* the sends under way, the innermost first
  joined,     \* the slots that have connected, in that order
  quiet,      \* ticks since a signal was sent last; ClockRange: never, or long ago
  refused     \* quiet at the last send that was refused for the pause, or 0

vars == <<first, next, reference, now, guard, calls, joined, quiet, refused>>

\* heard are the slots this send has called so far.
Call == [signal : Signal, act : Slot \cup {Nil}, heard : Seq(Slot)]

\* Bound of the model: how deep sends may nest if nothing stopped them.
MaxDepth == 3

TypeOK ==
  /\ first \in [Signal -> Slot \cup {Nil}]
  /\ next \in [Slot -> Slot \cup {Nil}]
  /\ reference \in [Signal -> 0 .. ClockRange - 1]
  /\ now \in 0 .. ClockRange - 1
  /\ guard \in BOOLEAN
  /\ calls \in Seq(Call)
  /\ joined \in Seq(Slot)
  /\ quiet \in [Signal -> 0 .. ClockRange]
  /\ refused \in [Signal -> 0 .. ClockRange]

\* signal_slot_init leaves the list alone and sets the reference to 0.
Init ==
  /\ first = [s \in Signal |-> Nil]
  /\ next = [l \in Slot |-> Nil]
  /\ reference = [s \in Signal |-> 0]
  /\ now = 0
  /\ guard = FALSE
  /\ calls = <<>>
  /\ joined = <<>>
  /\ quiet = [s \in Signal |-> ClockRange]
  /\ refused = [s \in Signal |-> 0]

-----------------------------------------------------------------------------

\* time_mgmnt_istimeup_raw_u16: the elapsed time modulo the clock's range.
Elapsed(s) == (now + ClockRange - reference[s]) % ClockRange
Paused(s) == Interval[s] # 0 /\ Elapsed(s) < Interval[s]

\* The two tests of signal_slot_send and what follows; frames are the sends that
\* are under way already.
Send(s, frames) ==
  IF Paused(s)
  THEN /\ refused' = [refused EXCEPT ![s] = quiet[s]]
       /\ calls' = frames
       /\ UNCHANGED guard
  ELSE IF guard
  THEN /\ calls' = frames
       /\ UNCHANGED <<guard, refused>>
  ELSE /\ guard' = TRUE
       /\ calls' = <<[signal |-> s, act |-> first[s], heard |-> <<>>]>> \o frames
       /\ refused' = [refused EXCEPT ![s] = 0]

\* A task of the main loop sends a signal.
TaskSend(s) ==
  /\ calls = <<>>
  /\ Send(s, <<>>)
  /\ UNCHANGED <<first, next, reference, now, joined, quiet>>

\* The body of the loop over the slots: the callback, then p_act->p_next.
CallSlot ==
  /\ calls # <<>>
  /\ Len(calls) < MaxDepth
  /\ LET act == Head(calls).act
         rest == <<[Head(calls) EXCEPT !.act = next[act],
                                       !.heard = Append(@, act)]>> \o Tail(calls)
     IN /\ act # Nil
        /\ IF Forward[act] = Nil
           THEN calls' = rest /\ UNCHANGED <<guard, refused>>
           ELSE Send(Forward[act], rest)
  /\ UNCHANGED <<first, next, reference, now, joined, quiet>>

\* The end of signal_slot_send: the pause starts, the guard is opened.
Finish ==
  /\ calls # <<>>
  /\ Head(calls).act = Nil
  /\ reference' = [reference EXCEPT ![Head(calls).signal] = now]
  /\ quiet' = [quiet EXCEPT ![Head(calls).signal] = 0]
  /\ guard' = FALSE
  /\ calls' = Tail(calls)
  /\ UNCHANGED <<first, next, now, joined, refused>>

\* The slot at the end of a list.
LastFrom(l) ==
  LET last[m \in Slot] == IF next[m] = Nil THEN m ELSE last[next[m]] IN last[l]

\* Each slot connects once, in the init of its task.

\* Variant: the new slot is put behind the first one.
WrongConnect(l) ==
  /\ calls = <<>>
  /\ \A i \in 1 .. Len(joined) : joined[i] # l
  /\ joined' = Append(joined, l)
  /\ LET s == SignalOf[l] IN
       IF first[s] = Nil
       THEN first' = [first EXCEPT ![s] = l] /\ UNCHANGED next
       ELSE /\ next' = [next EXCEPT ![first[s]] = l, ![l] = Nil]
            /\ UNCHANGED first
  /\ UNCHANGED <<reference, now, guard, calls, quiet, refused>>

Connect(l) ==
  /\ calls = <<>>
  /\ \A i \in 1 .. Len(joined) : joined[i] # l
  /\ joined' = Append(joined, l)
  /\ LET s == SignalOf[l] IN
       IF first[s] = Nil
       THEN first' = [first EXCEPT ![s] = l] /\ UNCHANGED next
       ELSE /\ next' = [next EXCEPT ![LastFrom(first[s])] = l, ![l] = Nil]
            /\ UNCHANGED first
  /\ UNCHANGED <<reference, now, guard, calls, quiet, refused>>

Tick ==
  /\ now' = (now + 1) % ClockRange
  /\ quiet' = [s \in Signal |-> IF quiet[s] < ClockRange THEN quiet[s] + 1
                                ELSE quiet[s]]
  /\ UNCHANGED <<first, next, reference, guard, calls, joined, refused>>

Next ==
  \/ \E s \in Signal : TaskSend(s)
  \/ CallSlot
  \/ Finish
  \/ \E l \in Slot : Connect(l)
  \/ Tick

Spec == Init /\ [][Next]_vars

-----------------------------------------------------------------------------

\* "There must always be one signal active at a time": a slot that sends a
\* signal never starts a second round of calls inside the first, and the guard
\* is closed exactly while a send is under way.
OneSignalAtATime == Len(calls) <= 1 /\ (guard <=> calls # <<>>)

\* A send lets the pause of the signal pass since the end of the last one,
\* even though the clock wraps.
PauseIsKept ==
  [][\A s \in Signal :
       Len(calls') > Len(calls) /\ Head(calls').signal = s
         => quiet[s] >= Interval[s]]_vars

\* When a send ends, every slot that was connected to the signal has been
\* called, once, in the order of connection.
Listeners(s) == {i \in 1 .. Len(joined) : SignalOf[joined[i]] = s}

AllSlotsHeard ==
  calls # <<>> /\ Head(calls).act = Nil =>
    LET heard == Head(calls).heard
        own == Listeners(Head(calls).signal)
    IN /\ {heard[k] : k \in 1 .. Len(heard)} = {joined[i] : i \in own}
       /\ \A k, m \in 1 .. Len(heard), i, j \in own :
            k < m /\ heard[k] = joined[i] /\ heard[m] = joined[j] => i < j

\* "The signal is only send if the timeout of the last time the signal was
\* send is already over": a send is refused for the pause only during a pause.
RefusedOnlyInPause ==
  \A s \in Signal : refused[s] = 0 \/ refused[s] < Interval[s]

=============================================================================
