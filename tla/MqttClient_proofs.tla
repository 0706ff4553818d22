-------------------------- MODULE MqttClient_proofs --------------------------
(***************************************************************************)
(* Proofs about the MQTT client for all texts, lengths of the queues and   *)
(* numbers of messages and losses, whatever the broker and the connection  *)
(* do: that every message goes one way and no other, which of its own      *)
(* messages the client hands on, and when it is told of a loss.            *)
(***************************************************************************)
EXTENDS MqttClient, SequenceTheorems, TLAPS

-----------------------------------------------------------------------------
(* Each message goes one way.  The queue holds the messages taken in last, *)
(* without a gap, since it is read in order; so what was taken out of it   *)
(* is all that came before.                                                *)

Taken == sent - Len(tx)
Done == IF inside = "publish" THEN Taken - 1 ELSE Taken
Delivered == {delivered[i] : i \in 1 .. Len(delivered)}

Ways ==
  /\ Len(tx) <= sent
  /\ \A i \in 1 .. Len(tx) : tx[i].own = Taken + i
  /\ inside = "publish" => last_msg_send.own = Taken /\ Taken >= 1
  /\ Delivered \cup given_up = 1 .. Done
  /\ Delivered \cap given_up = {}
  /\ \A i \in 1 .. Len(delivered) : i > 1 => delivered[i - 1] < delivered[i]

\* The own messages of a queue come in the order of their numbers, and those
\* of a second one after all of a first.
Ascends(q) ==
  \A i \in 1 .. Len(q) : \A j \in 1 .. i - 1 : q[i].own # 0 => q[j].own < q[i].own
Before(q, r) ==
  \A i \in 1 .. Len(q) : \A j \in 1 .. Len(r) : r[j].own # 0 => q[i].own < r[j].own

InOrder ==
  /\ Ascends(handled) /\ Ascends(rx) /\ Ascends(inflight)
  /\ Before(handled, rx) /\ Before(handled, inflight) /\ Before(rx, inflight)

\* An own message that the client let in is older than the last one it took,
\* because the echo of that one has its text.
Late(q) == \A i \in 1 .. Len(q) : q[i].own = 0 \/ q[i].own < Taken

Echo ==
  /\ last_msg_send.own = Taken
  /\ Late(handled) /\ Late(rx)
  /\ \A i \in 1 .. Len(inflight) :
       /\ inflight[i].own <= Done
       /\ inflight[i].own # 0 /\ inflight[i].own = Taken => inflight[i] = last_msg_send

\* Of a connection that is down the client was told, until it ends, or it
\* broke inside the mqtt_connect that made it.
Noticed ==
  /\ state = "terminated" => inside = "nothing"
  /\ state # "terminated" => link \/ connection_lost \/ overwritten
  /\ state = "close" => connection_lost
  /\ inside = "connect" => link \/ overwritten
-----------------------------------------------------------------------------
(* Facts about the queues.                                                 *)

\* The library's laws in the form they are needed in here.
LEMMA Appended ==
  ASSUME NEW S, NEW q \in Seq(S), NEW e \in S
  PROVE  /\ Append(q, e) \in Seq(S)
         /\ Len(Append(q, e)) = Len(q) + 1
         /\ \A i \in 1 .. Len(q) : Append(q, e)[i] = q[i]
         /\ Append(q, e)[Len(q) + 1] = e
BY AppendProperties

LEMMA Removed ==
  ASSUME NEW S, NEW q \in Seq(S), q # <<>>
  PROVE  /\ Head(q) \in S /\ Head(q) = q[1] /\ Len(q) >= 1
         /\ Tail(q) \in Seq(S)
         /\ Len(Tail(q)) = Len(q) - 1
         /\ \A i \in 1 .. Len(q) - 1 : Tail(q)[i] = q[i + 1]
<1>1. Len(q) \in Nat \ {0}
  BY EmptySeq
<1>2. QED
  BY <1>1, HeadTailProperties

-----------------------------------------------------------------------------
(* Types.                                                                  *)

LEMMA TypesStart == ASSUME Init PROVE TypeOK
<1>1. /\ state \in State /\ inside \in {"nothing", "connect", "publish", "wait"}
      /\ retry_timer \in {"stopped", "active", "up"}
      /\ user_cfg \in BOOLEAN /\ is_connected \in BOOLEAN /\ enqueue_failed \in BOOLEAN
      /\ connection_lost \in BOOLEAN /\ link \in BOOLEAN /\ overwritten \in BOOLEAN
      /\ last_msg_send \in {[text |-> NoText, own |-> 0]}
  BY DEF Init, State
<1>2. /\ sent \in 0 .. MaxSent /\ foreign \in 0 .. MaxForeign /\ losses \in 0 .. MaxLosses
      /\ given_up \subseteq 1 .. MaxSent
  BY MqttAssumption DEF Init
<1>3. \A S : <<>> \in Seq(S)
  OBVIOUS
<1>4. Len(<<>>) <= TxSize /\ Len(<<>>) <= RxSize
  BY MqttAssumption
<1>5. /\ tx \in Seq(Message) /\ rx \in Seq(Message) /\ inflight \in Seq(Message)
      /\ delivered \in Seq(1 .. MaxSent) /\ handled \in Seq(Message)
      /\ Len(tx) <= TxSize /\ Len(rx) <= RxSize
  BY <1>3, <1>4 DEF Init
<1>6. QED
  BY <1>1, <1>2, <1>5 DEF TypeOK

LEMMA Accepted ==
  ASSUME TypeOK, sent < MaxSent, NEW text \in Text \cup {Welcome}, EnqueueMessage(text)
  PROVE  /\ tx' \in Seq(Message) /\ Len(tx') <= TxSize
         /\ sent' \in 0 .. MaxSent
         /\ \/ UNCHANGED <<tx, sent>>
            \/ /\ sent' = sent + 1 /\ Len(tx') = Len(tx) + 1
               /\ \A i \in 1 .. Len(tx) : tx'[i] = tx[i]
               /\ tx'[Len(tx) + 1].own = sent + 1
<1>1. MaxSent \in Nat /\ TxSize \in 1 .. 255 /\ sent \in Nat /\ tx \in Seq(Message)
      /\ Len(tx) \in Nat
  BY MqttAssumption DEF TypeOK
<1>2. CASE Len(tx) < TxSize
  <2> DEFINE m == [text |-> text, own |-> sent + 1]
  <2>1. m \in Message /\ m.own = sent + 1
    BY <1>1 DEF TypeOK, Message
  <2>2. tx' = Append(tx, m) /\ sent' = sent + 1
    BY <1>2 DEF EnqueueMessage
  <2> HIDE DEF m
  <2>3. /\ Append(tx, m) \in Seq(Message) /\ Len(Append(tx, m)) = Len(tx) + 1
        /\ \A i \in 1 .. Len(tx) : Append(tx, m)[i] = tx[i]
        /\ Append(tx, m)[Len(tx) + 1] = m
    BY <1>1, <2>1, Appended
  <2>4. QED
    BY <1>1, <1>2, <2>1, <2>2, <2>3
<1>3. CASE ~(Len(tx) < TxSize)
  BY <1>3 DEF EnqueueMessage, TypeOK
<1>4. QED
  BY <1>2, <1>3

LEMMA TypesRun ==
  ASSUME TypeOK, Ways, Run
  PROVE  TypeOK'
<1> USE DEF wireVars, logVars
<1>1. CASE Configured \/ Close \/ Connect \/ ConnectFails \/ Idle \/ Completed
  <2>1. /\ UNCHANGED <<user_cfg, last_msg_send, tx, rx, sent, foreign, losses, logVars,
                       connection_lost>>
        /\ enqueue_failed' \in BOOLEAN
        /\ is_connected' \in BOOLEAN /\ link' \in BOOLEAN /\ overwritten' \in BOOLEAN
        /\ inflight' \in {inflight, <<>>}
        /\ retry_timer' \in {"stopped", "active", "up"}
        /\ state' \in State
        /\ inside' \in {"nothing", "connect", "publish", "wait"}
    BY <1>1 DEF TypeOK, Configured, Close, Connect, ConnectFails, Idle, Completed, State, Runs
  <2>2. <<>> \in Seq(Message)
    OBVIOUS
  <2>3. QED
    BY <2>1, <2>2 DEF TypeOK
<1>2. CASE Connected
  <2>1. /\ tx' \in Seq(Message) /\ Len(tx') <= TxSize /\ sent' \in 0 .. MaxSent
    BY <1>2, Accepted DEF Connected
  <2>2. QED
    BY <1>2, <2>1 DEF Connected, TypeOK, State
<1>3. CASE Process
  <2>1. /\ UNCHANGED <<inside, user_cfg, is_connected, retry_timer, enqueue_failed,
                       connection_lost, last_msg_send, tx, sent, wireVars,
                       delivered, given_up>>
        /\ state' = "idle"
    BY <1>3 DEF Process
  <2>2. rx' \in Seq(Message) /\ Len(rx') <= RxSize /\ handled' \in Seq(Message)
    <3>1. CASE rx = <<>>
      BY <1>3, <3>1 DEF Process, TypeOK
    <3>2. CASE rx # <<>>
      <4>1. rx' = Tail(rx) /\ handled' = Append(handled, Head(rx))
        BY <1>3, <3>2 DEF Process
      <4>2. rx \in Seq(Message) /\ handled \in Seq(Message) /\ Len(rx) <= RxSize
            /\ RxSize \in Nat /\ Len(rx) \in Nat
        BY MqttAssumption DEF TypeOK
      <4>3. Tail(rx) \in Seq(Message) /\ Len(Tail(rx)) = Len(rx) - 1 /\ Head(rx) \in Message
        BY <3>2, <4>2, Removed
      <4>4. QED
        BY <4>1, <4>2, <4>3, Appended
    <3>3. QED
      BY <3>1, <3>2
  <2>3. QED
    BY <2>1, <2>2 DEF TypeOK, State
<1>4. CASE SendTake
  <2>1. /\ UNCHANGED <<user_cfg, is_connected, retry_timer, enqueue_failed,
                       connection_lost, rx, sent, wireVars, logVars>>
        /\ state' \in {state, "idle"}
        /\ inside' \in {inside, "publish"}
    BY <1>4 DEF SendTake
  <2>2. /\ tx' \in Seq(Message) /\ Len(tx') <= TxSize
        /\ last_msg_send' \in Message \cup {[text |-> NoText, own |-> 0]}
    <3>1. CASE tx = <<>>
      BY <1>4, <3>1 DEF SendTake, TypeOK
    <3>2. CASE tx # <<>>
      <4>1. tx' = Tail(tx) /\ last_msg_send' = Head(tx)
        BY <1>4, <3>2 DEF SendTake
      <4>2. tx \in Seq(Message) /\ Len(tx) <= TxSize /\ TxSize \in Nat /\ Len(tx) \in Nat
        BY MqttAssumption DEF TypeOK
      <4>3. Tail(tx) \in Seq(Message) /\ Len(Tail(tx)) = Len(tx) - 1 /\ Head(tx) \in Message
        BY <3>2, <4>2, Removed
      <4>4. QED
        BY <4>1, <4>2, <4>3
    <3>3. QED
      BY <3>1, <3>2
  <2>3. QED
    BY <2>1, <2>2 DEF TypeOK, State
<1>5. CASE Publish
  <2>1. /\ UNCHANGED <<user_cfg, is_connected, retry_timer, enqueue_failed, link,
                       connection_lost, last_msg_send, tx, rx, sent, foreign, losses,
                       overwritten, handled>>
        /\ state' \in {state, "idle"}
        /\ inside' \in {"nothing", "wait"}
        /\ inside = "publish"
    BY <1>5 DEF Publish
  <2>2. last_msg_send.own \in 1 .. MaxSent
    <3>1. last_msg_send.own = sent - Len(tx) /\ sent - Len(tx) >= 1
      BY <2>1 DEF Ways, Taken
    <3>2. sent \in 0 .. MaxSent /\ Len(tx) \in Nat /\ MaxSent \in Nat
      BY MqttAssumption DEF TypeOK
    <3>3. QED
      BY <3>1, <3>2
  <2>3. last_msg_send \in Message
    BY <2>2 DEF TypeOK
  <2>4. /\ delivered' \in Seq(1 .. MaxSent) /\ given_up' \subseteq 1 .. MaxSent
        /\ inflight' \in Seq(Message)
    <3>1. delivered \in Seq(1 .. MaxSent) /\ given_up \subseteq 1 .. MaxSent
          /\ inflight \in Seq(Message)
      BY DEF TypeOK
    <3>2. /\ Append(delivered, last_msg_send.own) \in Seq(1 .. MaxSent)
          /\ Append(inflight, last_msg_send) \in Seq(Message)
      BY <2>2, <2>3, <3>1, Appended
    <3>3. QED
      BY <1>5, <2>2, <3>1, <3>2 DEF Publish
  <2>5. QED
    BY <2>1, <2>4 DEF TypeOK, State
<1>6. QED
  BY <1>1, <1>2, <1>3, <1>4, <1>5 DEF Run

LEMMA TypesStep ==
  ASSUME TypeOK, Ways, [Next]_vars
  PROVE  TypeOK'
<1> USE DEF wireVars, logVars, mainVars
<1>1. CASE Run
  BY <1>1, TypesRun
<1>2. CASE CfgComplete \/ RetryTimer \/ Terminate \/ UNCHANGED vars
  <2>1. /\ UNCHANGED <<inside, is_connected, enqueue_failed, connection_lost,
                       last_msg_send, tx, rx, sent, foreign, losses, overwritten,
                       logVars>>
        /\ user_cfg' \in BOOLEAN /\ link' \in BOOLEAN
        /\ inflight' \in {inflight, <<>>}
        /\ retry_timer' \in {"stopped", "active", "up"}
        /\ state' \in State
    BY <1>2 DEF TypeOK, CfgComplete, RetryTimer, Terminate, vars, State
  <2>2. <<>> \in Seq(Message)
    OBVIOUS
  <2>3. QED
    BY <2>1, <2>2 DEF TypeOK
<1>3. CASE ConnectionLost
  <2>1. <<>> \in Seq(Message)
    OBVIOUS
  <2>2. losses' \in 0 .. MaxLosses /\ overwritten' \in BOOLEAN
    BY <1>3, MqttAssumption DEF ConnectionLost, TypeOK
  <2>3. QED
    BY <1>3, <2>1, <2>2 DEF ConnectionLost, TypeOK
<1>4. CASE MessageArrived
  <2>1. inflight \in Seq(Message) /\ rx \in Seq(Message) /\ inflight # <<>>
        /\ Len(rx) <= RxSize /\ RxSize \in Nat /\ Len(rx) \in Nat
    BY <1>4, MqttAssumption DEF MessageArrived, TypeOK
  <2>2. Tail(inflight) \in Seq(Message) /\ Head(inflight) \in Message
    BY <2>1, Removed
  <2>3. Append(rx, Head(inflight)) \in Seq(Message)
        /\ Len(Append(rx, Head(inflight))) = Len(rx) + 1
    BY <2>1, <2>2, Appended
  <2>4. rx' \in Seq(Message) /\ Len(rx') <= RxSize
    BY <1>4, <2>1, <2>3 DEF MessageArrived
  <2>5. QED
    BY <1>4, <2>2, <2>4 DEF MessageArrived, TypeOK
<1>5. ASSUME NEW text \in Text, MessageToSend(text)
      PROVE  TypeOK'
  <2>1. sent < MaxSent
    BY <1>5, MqttAssumption DEF MessageToSend, TypeOK
  <2>2. /\ tx' \in Seq(Message) /\ Len(tx') <= TxSize /\ sent' \in 0 .. MaxSent
    BY <1>5, <2>1, Accepted DEF MessageToSend
  <2>3. enqueue_failed' \in BOOLEAN
    BY <1>5 DEF MessageToSend
  <2>4. QED
    BY <1>5, <2>2, <2>3 DEF MessageToSend, TypeOK
<1>6. ASSUME NEW text \in Text, ForeignMessage(text)
      PROVE  TypeOK'
  <2> DEFINE m == [text |-> text, own |-> 0]
  <2>1. m \in Message
    BY MqttAssumption DEF Message
  <2>2. inflight' = Append(inflight, m) /\ inflight \in Seq(Message)
    BY <1>6 DEF ForeignMessage, TypeOK
  <2> HIDE DEF m
  <2>3. inflight' \in Seq(Message)
    BY <2>1, <2>2, Appended
  <2>4. foreign' \in 0 .. MaxForeign
    BY <1>6, MqttAssumption DEF ForeignMessage, TypeOK
  <2>5. QED
    BY <1>6, <2>3, <2>4 DEF ForeignMessage, TypeOK
<1>7. QED
  BY <1>1, <1>2, <1>3, <1>4, <1>5, <1>6 DEF Next

-----------------------------------------------------------------------------
(* Each message goes one way.                                              *)

LEMMA WaysStart == ASSUME Init PROVE Ways
<1>0. Len(<<>>) = 0 /\ 0 - 0 = 0
  OBVIOUS
<1>1. Taken = 0 /\ Done = 0 /\ Len(tx) = 0 /\ sent = 0 /\ Len(delivered) = 0
  BY <1>0 DEF Init, Taken, Done
<1>2. Delivered = {} /\ given_up = {} /\ 1 .. 0 = {}
  BY <1>1 DEF Delivered, Init
<1>3. inside = "nothing"
  BY DEF Init
<1>4. QED
  BY <1>1, <1>2, <1>3 DEF Ways

\* Steps that move no message.
LEMMA WaysKept ==
  ASSUME Ways, UNCHANGED <<tx, sent, last_msg_send, delivered, given_up>>,
         inside' = inside \/ {inside, inside'} \cap {"publish"} = {}
  PROVE  Ways'
<1>1. Taken' = Taken /\ Delivered' = Delivered
  BY DEF Taken, Delivered
<1>2. (inside' = "publish") <=> (inside = "publish")
  OBVIOUS
<1>3. Done' = Done
  BY <1>1, <1>2 DEF Done
<1>4. QED
  BY <1>1, <1>2, <1>3 DEF Ways

\* A message that is accepted is the next one of the queue.
LEMMA WaysAccepted ==
  ASSUME TypeOK, Ways, sent < MaxSent, NEW text \in Text \cup {Welcome},
         EnqueueMessage(text), UNCHANGED <<last_msg_send, delivered, given_up>>,
         inside # "publish", inside' # "publish"
  PROVE  Ways'
<1>1. sent \in Nat /\ Len(tx) \in Nat /\ Len(tx) <= sent
  BY MqttAssumption DEF TypeOK, Ways
<1>2. CASE UNCHANGED <<tx, sent>>
  BY <1>2, WaysKept
<1>3. CASE /\ sent' = sent + 1 /\ Len(tx') = Len(tx) + 1
           /\ \A i \in 1 .. Len(tx) : tx'[i] = tx[i]
           /\ tx'[Len(tx) + 1].own = sent + 1
  <2>1. Taken' = Taken /\ Delivered' = Delivered /\ Done' = Taken /\ Done = Taken
    BY <1>1, <1>3 DEF Taken, Delivered, Done
  <2>2. Taken + (Len(tx) + 1) = sent + 1
    BY <1>1 DEF Taken
  <2>3. ASSUME NEW i \in 1 .. Len(tx) + 1
        PROVE  tx'[i].own = Taken + i
    <3>1. CASE i = Len(tx) + 1
      BY <1>3, <2>2, <3>1
    <3>2. CASE i # Len(tx) + 1
      <4>1. i \in 1 .. Len(tx)
        BY <1>1, <3>2
      <4>2. QED
        BY <1>3, <4>1 DEF Ways
    <3>3. QED
      BY <3>1, <3>2
  <2>4. Len(tx') <= sent'
    BY <1>1, <1>3
  <2>5. /\ Delivered \cup given_up = 1 .. Taken
        /\ Delivered \cap given_up = {}
        /\ \A i \in 1 .. Len(delivered) : i > 1 => delivered[i - 1] < delivered[i]
    BY <2>1 DEF Ways
  <2>6. QED
    BY <1>3, <2>1, <2>3, <2>4, <2>5 DEF Ways
<1>4. QED
  BY <1>2, <1>3, Accepted

\* The oldest message is taken out of the queue.
LEMMA WaysTaken ==
  ASSUME TypeOK, Ways, SendTake
  PROVE  Ways'
<1>1. UNCHANGED <<sent, delivered, given_up>> /\ inside = "nothing"
  BY DEF SendTake, Runs, logVars
<1>2. CASE tx = <<>>
  BY <1>1, <1>2, WaysKept DEF SendTake
<1>3. CASE tx # <<>>
  <2>1. tx' = Tail(tx) /\ last_msg_send' = Head(tx) /\ inside' = "publish"
    BY <1>3 DEF SendTake
  <2>2. tx \in Seq(Message) /\ sent \in Nat /\ Len(tx) \in Nat /\ Len(tx) <= sent
    BY MqttAssumption DEF TypeOK, Ways
  <2>3. /\ Head(tx) = tx[1] /\ Len(tx) >= 1
        /\ Len(Tail(tx)) = Len(tx) - 1
        /\ \A i \in 1 .. Len(tx) - 1 : Tail(tx)[i] = tx[i + 1]
    BY <1>3, <2>2, Removed
  <2>4. /\ Taken' = Taken + 1 /\ Delivered' = Delivered
        /\ Done' = Taken /\ Done = Taken /\ Taken \in Nat
    <3>1. Taken \in Nat /\ Delivered' = Delivered
      BY <1>1, <2>2 DEF Taken, Delivered
    <3>2. Taken' = sent - (Len(tx) - 1)
      BY <1>1, <2>1, <2>3 DEF Taken
    <3>3. sent - (Len(tx) - 1) = Taken + 1
      BY <2>2 DEF Taken
    <3>4. Done' = Taken' - 1 /\ Done = Taken
      BY <1>1, <2>1 DEF Done
    <3>5. QED
      BY <3>1, <3>2, <3>3, <3>4
  <2>5. last_msg_send'.own = Taken + 1
    BY <2>1, <2>3 DEF Ways
  <2>6. ASSUME NEW i \in 1 .. Len(tx) - 1
        PROVE  tx'[i].own = Taken + 1 + i
    <3>1. i + 1 \in 1 .. Len(tx)
      BY <2>2
    <3>2. tx[i + 1].own = Taken + (i + 1)
      BY <3>1 DEF Ways
    <3>3. QED
      BY <2>1, <2>3, <2>4, <3>2
  <2>7. Len(tx') <= sent' /\ Len(tx') = Len(tx) - 1
    BY <1>1, <2>1, <2>2, <2>3
  <2>8. /\ Delivered \cup given_up = 1 .. Taken
        /\ Delivered \cap given_up = {}
        /\ \A i \in 1 .. Len(delivered) : i > 1 => delivered[i - 1] < delivered[i]
    BY <2>4 DEF Ways
  <2>9. QED
    BY <1>1, <2>4, <2>5, <2>6, <2>7, <2>8 DEF Ways
<1>4. QED
  BY <1>2, <1>3

\* The message in hand is delivered or given up: the next after all others.
LEMMA WaysPublished ==
  ASSUME TypeOK, Ways, Publish
  PROVE  Ways'
<1>1. /\ inside = "publish" /\ inside' # "publish"
      /\ UNCHANGED <<tx, sent, last_msg_send>>
  BY DEF Publish
<1>2. last_msg_send.own = Taken /\ Taken >= 1 /\ Taken \in Nat
  BY <1>1, MqttAssumption DEF Ways, Taken, TypeOK
<1>3. Taken' = Taken /\ Done = Taken - 1 /\ Done' = Taken
  BY <1>1 DEF Taken, Done
<1>4. /\ Delivered \cup given_up = 1 .. Taken - 1
      /\ Delivered \cap given_up = {}
      /\ \A i \in 1 .. Len(delivered) : i > 1 => delivered[i - 1] < delivered[i]
  BY <1>3 DEF Ways
<1>5. 1 .. Taken = (1 .. Taken - 1) \cup {Taken} /\ Taken \notin 1 .. Taken - 1
  BY <1>2
<1>6. Len(tx') <= sent' /\ \A i \in 1 .. Len(tx') : tx'[i].own = Taken' + i
  BY <1>1, <1>3 DEF Ways
<1>7. CASE link
  <2>1. delivered' = Append(delivered, Taken) /\ given_up' = given_up
    BY <1>2, <1>7 DEF Publish
  <2>2. delivered \in Seq(1 .. MaxSent) /\ Len(delivered) \in Nat /\ Taken \in 1 .. MaxSent
    BY <1>2, MqttAssumption DEF TypeOK, Taken
  <2>3. /\ Len(delivered') = Len(delivered) + 1
        /\ \A i \in 1 .. Len(delivered) : delivered'[i] = delivered[i]
        /\ delivered'[Len(delivered) + 1] = Taken
    BY <1>2, <2>1, <2>2, Appended
  <2>4. Delivered' = Delivered \cup {Taken}
    <3>1. 1 .. Len(delivered) + 1 = (1 .. Len(delivered)) \cup {Len(delivered) + 1}
      BY <2>2
    <3>2. QED
      BY <2>3, <3>1 DEF Delivered
  <2>5. ASSUME NEW i \in 1 .. Len(delivered'), i > 1
        PROVE  delivered'[i - 1] < delivered'[i]
    <3>1. i - 1 \in 1 .. Len(delivered) /\ delivered'[i - 1] = delivered[i - 1]
      BY <2>2, <2>3, <2>5
    <3>2. CASE i = Len(delivered) + 1
      <4>1. delivered[i - 1] \in 1 .. Taken - 1
        BY <1>4, <3>1 DEF Delivered
      <4>2. QED
        BY <1>2, <2>3, <3>1, <3>2, <4>1
    <3>3. CASE i # Len(delivered) + 1
      <4>1. i \in 1 .. Len(delivered)
        BY <2>2, <2>3, <3>3
      <4>2. QED
        BY <1>4, <2>3, <2>5, <3>1, <4>1
    <3>4. QED
      BY <3>2, <3>3
  <2>6. Delivered' \cup given_up' = 1 .. Done' /\ Delivered' \cap given_up' = {}
    BY <1>3, <1>4, <1>5, <2>1, <2>4
  <2>7. QED
    BY <1>1, <1>6, <2>5, <2>6 DEF Ways
<1>8. CASE ~link
  <2>1. delivered' = delivered /\ given_up' = given_up \cup {Taken}
    BY <1>2, <1>8 DEF Publish
  <2>2. Delivered' = Delivered
    BY <2>1 DEF Delivered
  <2>3. Delivered' \cup given_up' = 1 .. Done' /\ Delivered' \cap given_up' = {}
    BY <1>3, <1>4, <1>5, <2>1, <2>2
  <2>4. QED
    BY <1>1, <1>4, <1>6, <2>1, <2>3 DEF Ways
<1>9. QED
  BY <1>7, <1>8

LEMMA WaysStep ==
  ASSUME TypeOK, Ways, [Next]_vars
  PROVE  Ways'
<1> USE DEF wireVars, logVars, mainVars, Runs
<1>1. CASE Configured \/ Close \/ Connect \/ ConnectFails \/ Idle \/ Process \/ Completed
  BY <1>1, WaysKept DEF Configured, Close, Connect, ConnectFails, Idle, Process, Completed,
     MayConnect
<1>2. CASE Connected
  <2>1. /\ sent < MaxSent /\ EnqueueMessage(Welcome)
        /\ UNCHANGED <<last_msg_send, delivered, given_up>>
        /\ inside = "connect" /\ inside' = "nothing"
    BY <1>2 DEF Connected
  <2>2. QED
    BY <2>1, WaysAccepted
<1>3. CASE SendTake
  BY <1>3, WaysTaken
<1>4. CASE Publish
  BY <1>4, WaysPublished
<1>5. CASE CfgComplete \/ RetryTimer \/ ConnectionLost \/ MessageArrived \/ Terminate
           \/ UNCHANGED vars
  BY <1>5, WaysKept DEF CfgComplete, RetryTimer, ConnectionLost, MessageArrived, Terminate,
     vars
<1>6. ASSUME NEW text \in Text, MessageToSend(text)
      PROVE  Ways'
  <2>1. sent < MaxSent
    BY <1>6, MqttAssumption DEF MessageToSend, TypeOK
  <2>2. /\ EnqueueMessage(text)
        /\ UNCHANGED <<last_msg_send, delivered, given_up, inside>>
        /\ inside = "nothing"
    BY <1>6 DEF MessageToSend
  <2>3. QED
    BY <2>1, <2>2, WaysAccepted
<1>7. ASSUME NEW text \in Text, ForeignMessage(text)
      PROVE  Ways'
  BY <1>7, WaysKept DEF ForeignMessage
<1>8. QED
  BY <1>1, <1>2, <1>3, <1>4, <1>5, <1>6, <1>7 DEF Next, Run

\* The variables keep their types for all bounds and queues.
THEOREM TypeCorrect == Spec => []TypeOK
<1>1. Init => TypeOK /\ Ways
  BY TypesStart, WaysStart
<1>2. TypeOK /\ Ways /\ [Next]_vars => (TypeOK /\ Ways)'
  BY TypesStep, WaysStep
<1>3. QED
  BY <1>1, <1>2, PTL DEF Spec

LEMMA AllWays == Spec => [](TypeOK /\ Ways)
<1>1. Init => TypeOK /\ Ways
  BY TypesStart, WaysStart
<1>2. TypeOK /\ Ways /\ [Next]_vars => (TypeOK /\ Ways)'
  BY TypesStep, WaysStep
<1>3. QED
  BY <1>1, <1>2, PTL DEF Spec

\* No accepted message is lost, sent twice or out of order, whatever breaks.
THEOREM EachMessageOnce == Spec => []SentOnce
<1>1. ASSUME TypeOK, Ways PROVE SentOnce
  <2>1. /\ sent \in Nat /\ Len(tx) \in Nat /\ Len(tx) <= sent
        /\ Taken \in Nat /\ sent = Taken + Len(tx)
    BY <1>1, MqttAssumption DEF TypeOK, Ways, Taken
  <2>2. InQueue = Taken + 1 .. sent
    <3>1. ASSUME NEW n \in Taken + 1 .. sent PROVE n \in InQueue
      <4>1. n - Taken \in 1 .. Len(tx) /\ n = Taken + (n - Taken)
        BY <2>1
      <4>2. QED
        BY <1>1, <4>1 DEF Ways, InQueue
    <3>2. ASSUME NEW i \in 1 .. Len(tx) PROVE tx[i].own \in Taken + 1 .. sent
      <4>1. tx[i].own = Taken + i
        BY <1>1 DEF Ways
      <4>2. QED
        BY <2>1, <4>1
    <3>3. QED
      BY <3>1, <3>2 DEF InQueue
  <2>3. InHand = Done + 1 .. Taken
    <3>1. CASE inside = "publish"
      <4>1. InHand = {Taken} /\ Done = Taken - 1
        BY <1>1, <3>1 DEF InHand, Done, Ways
      <4>2. QED
        BY <2>1, <4>1
    <3>2. CASE inside # "publish"
      <4>1. InHand = {} /\ Done = Taken
        BY <3>2 DEF InHand, Done
      <4>2. QED
        BY <2>1, <4>1
    <3>3. QED
      BY <3>1, <3>2
  <2>4. Done \in 0 .. Taken
    BY <1>1, <2>1 DEF Done, Ways
  <2>5. 1 .. sent = (1 .. Done) \cup (Done + 1 .. Taken) \cup (Taken + 1 .. sent)
    BY <2>1, <2>4
  <2>6. 1 .. sent = InQueue \cup InHand \cup given_up \cup Delivered
    BY <1>1, <2>2, <2>3, <2>5 DEF Ways
  <2>7. ASSUME NEW i \in 1 .. Len(delivered)
        PROVE  delivered[i] \notin InQueue \cup InHand \cup given_up
    <3>1. delivered[i] \in Delivered
      BY DEF Delivered
    <3>2. delivered[i] \in 1 .. Done /\ delivered[i] \notin given_up
      BY <1>1, <3>1 DEF Ways
    <3>3. QED
      BY <2>1, <2>2, <2>3, <2>4, <3>2
  <2>8. \A i \in 1 .. Len(delivered) : i > 1 => delivered[i - 1] < delivered[i]
    BY <1>1 DEF Ways
  <2>9. QED
    BY <2>6, <2>7, <2>8 DEF SentOnce, Delivered
<1>2. QED
  BY <1>1, AllWays, PTL

-----------------------------------------------------------------------------
(* Messages on their way keep their order.                                 *)

\* A message that comes after all others is appended.
LEMMA Joined ==
  ASSUME NEW q \in Seq(Message), NEW e \in Message,
         Ascends(q), Before(q, <<e>>)
  PROVE  Ascends(Append(q, e))
<1>1. /\ Len(q) \in Nat /\ Len(Append(q, e)) = Len(q) + 1
      /\ \A i \in 1 .. Len(q) : Append(q, e)[i] = q[i]
      /\ Append(q, e)[Len(q) + 1] = e
  BY Appended
<1>2. \A i \in 1 .. Len(q) : e.own # 0 => q[i].own < e.own
  BY DEF Before
<1>3. ASSUME NEW i \in 1 .. Len(q) + 1, NEW j \in 1 .. i - 1, Append(q, e)[i].own # 0
      PROVE  Append(q, e)[j].own < Append(q, e)[i].own
  <2>1. j \in 1 .. Len(q)
    BY <1>1
  <2>2. CASE i = Len(q) + 1
    BY <1>1, <1>2, <1>3, <2>1, <2>2
  <2>3. CASE i \in 1 .. Len(q)
    BY <1>1, <1>3, <2>1, <2>3 DEF Ascends
  <2>4. QED
    BY <1>1, <2>2, <2>3
<1>4. QED
  BY <1>1, <1>3 DEF Ascends

LEMMA JoinedLater ==
  ASSUME NEW q \in Seq(Message), NEW r \in Seq(Message), NEW e \in Message,
         Before(q, r), Before(q, <<e>>)
  PROVE  Before(q, Append(r, e))
<1>1. /\ Len(r) \in Nat /\ Len(Append(r, e)) = Len(r) + 1
      /\ \A i \in 1 .. Len(r) : Append(r, e)[i] = r[i]
      /\ Append(r, e)[Len(r) + 1] = e
  BY Appended
<1>2. \A i \in 1 .. Len(q) : e.own # 0 => q[i].own < e.own
  BY DEF Before
<1>3. ASSUME NEW i \in 1 .. Len(q), NEW j \in 1 .. Len(r) + 1, Append(r, e)[j].own # 0
      PROVE  q[i].own < Append(r, e)[j].own
  <2>1. CASE j = Len(r) + 1
    BY <1>1, <1>2, <1>3, <2>1
  <2>2. CASE j \in 1 .. Len(r)
    BY <1>1, <1>3, <2>2 DEF Before
  <2>3. QED
    BY <1>1, <2>1, <2>2
<1>4. QED
  BY <1>1, <1>3 DEF Before

LEMMA JoinedEarlier ==
  ASSUME NEW q \in Seq(Message), NEW r \in Seq(Message), NEW e \in Message,
         Before(q, r), Before(<<e>>, r)
  PROVE  Before(Append(q, e), r)
<1>1. /\ Len(q) \in Nat /\ Len(Append(q, e)) = Len(q) + 1
      /\ \A i \in 1 .. Len(q) : Append(q, e)[i] = q[i]
      /\ Append(q, e)[Len(q) + 1] = e
  BY Appended
<1>2. \A j \in 1 .. Len(r) : r[j].own # 0 => e.own < r[j].own
  BY DEF Before
<1>3. ASSUME NEW i \in 1 .. Len(q) + 1, NEW j \in 1 .. Len(r), r[j].own # 0
      PROVE  Append(q, e)[i].own < r[j].own
  <2>1. CASE i = Len(q) + 1
    BY <1>1, <1>2, <1>3, <2>1
  <2>2. CASE i \in 1 .. Len(q)
    BY <1>1, <1>3, <2>2 DEF Before
  <2>3. QED
    BY <1>1, <2>1, <2>2
<1>4. QED
  BY <1>1, <1>3 DEF Before

\* The first message of a queue leaves it.
LEMMA Left ==
  ASSUME NEW q \in Seq(Message), q # <<>>, Ascends(q)
  PROVE  Ascends(Tail(q)) /\ Before(<<Head(q)>>, Tail(q))
<1>1. /\ Len(q) \in Nat /\ Head(q) = q[1] /\ Len(q) >= 1
      /\ Len(Tail(q)) = Len(q) - 1
      /\ \A i \in 1 .. Len(q) - 1 : Tail(q)[i] = q[i + 1]
  BY Removed
<1>2. ASSUME NEW i \in 1 .. Len(q) - 1, NEW j \in 1 .. i - 1, Tail(q)[i].own # 0
      PROVE  Tail(q)[j].own < Tail(q)[i].own
  <2>1. /\ j \in 1 .. Len(q) - 1 /\ i + 1 \in 1 .. Len(q)
        /\ j + 1 \in 1 .. (i + 1) - 1
    BY <1>1
  <2>2. QED
    BY <1>1, <1>2, <2>1 DEF Ascends
<1>3. ASSUME NEW j \in 1 .. Len(q) - 1, Tail(q)[j].own # 0
      PROVE  q[1].own < Tail(q)[j].own
  <2>1. j + 1 \in 1 .. Len(q) /\ 1 \in 1 .. (j + 1) - 1
    BY <1>1
  <2>2. QED
    BY <1>1, <1>3, <2>1 DEF Ascends
<1>4. Ascends(Tail(q))
  BY <1>1, <1>2 DEF Ascends
<1>5. Before(<<Head(q)>>, Tail(q))
  BY <1>1, <1>3 DEF Before
<1>6. QED
  BY <1>4, <1>5

LEMMA LeftLater ==
  ASSUME NEW q \in Seq(Message), NEW r \in Seq(Message), r # <<>>, Before(q, r)
  PROVE  Before(q, Tail(r)) /\ Before(q, <<Head(r)>>)
<1>1. /\ Len(r) \in Nat /\ Head(r) = r[1] /\ Len(r) >= 1
      /\ Len(Tail(r)) = Len(r) - 1
      /\ \A i \in 1 .. Len(r) - 1 : Tail(r)[i] = r[i + 1]
  BY Removed
<1>2. \A j \in 1 .. Len(r) - 1 : j + 1 \in 1 .. Len(r)
  BY <1>1
<1>3. Before(q, Tail(r))
  BY <1>1, <1>2 DEF Before
<1>4. Before(q, <<Head(r)>>)
  BY <1>1 DEF Before
<1>5. QED
  BY <1>3, <1>4

LEMMA LeftEarlier ==
  ASSUME NEW q \in Seq(Message), NEW r \in Seq(Message), q # <<>>, Before(q, r)
  PROVE  Before(Tail(q), r) /\ Before(<<Head(q)>>, r)
<1>1. /\ Len(q) \in Nat /\ Head(q) = q[1] /\ Len(q) >= 1
      /\ Len(Tail(q)) = Len(q) - 1
      /\ \A i \in 1 .. Len(q) - 1 : Tail(q)[i] = q[i + 1]
  BY Removed
<1>2. \A i \in 1 .. Len(q) - 1 : i + 1 \in 1 .. Len(q)
  BY <1>1
<1>3. Before(Tail(q), r)
  BY <1>1, <1>2 DEF Before
<1>4. Before(<<Head(q)>>, r)
  BY <1>1 DEF Before
<1>5. QED
  BY <1>3, <1>4

LEMMA OrderEmpty == Ascends(<<>>) /\ (\A q : Before(q, <<>>))
<1>1. Len(<<>>) = 0
  OBVIOUS
<1>2. 1 .. 0 = {}
  OBVIOUS
<1>3. QED
  BY <1>1, <1>2 DEF Ascends, Before

\* The number of the last message taken out is the count of those taken out.
Counts ==
  /\ sent \in Nat /\ Taken \in Nat /\ Done \in {Taken, Taken - 1}
  /\ inside = "publish" => Done = Taken - 1 /\ Taken >= 1
  /\ inside # "publish" => Done = Taken

LEMMA Counted == ASSUME TypeOK, Ways PROVE Counts
<1>1. sent \in Nat /\ Len(tx) \in Nat /\ Len(tx) <= sent
  BY MqttAssumption DEF TypeOK, Ways
<1>2. Taken \in Nat
  BY <1>1 DEF Taken
<1>3. QED
  BY <1>1, <1>2 DEF Counts, Done, Ways

-----------------------------------------------------------------------------
(* Which own messages the client hands on.                                 *)

LEMMA EchoStart == ASSUME Init PROVE Echo /\ InOrder
<1>1. Len(<<>>) = 0 /\ 0 - 0 = 0 /\ 1 .. 0 = {}
  OBVIOUS
<1>2. handled = <<>> /\ rx = <<>> /\ inflight = <<>>
  BY DEF Init
<1>3. last_msg_send.own = 0 /\ Taken = 0
  BY <1>1 DEF Init, Taken
<1>4. Echo
  BY <1>1, <1>2, <1>3 DEF Echo, Late
<1>5. InOrder
  BY <1>2, OrderEmpty DEF InOrder
<1>6. QED
  BY <1>4, <1>5

\* Steps that bring no message and take none for sending.
LEMMA EchoKept ==
  ASSUME TypeOK, Counts, Counts', Echo, InOrder, Taken' = Taken, Done' >= Done,
         UNCHANGED <<last_msg_send, rx, handled>>,
         inflight' = inflight \/ inflight' = <<>>
  PROVE  Echo' /\ InOrder'
<1>1. last_msg_send'.own = Taken' /\ Late(handled)' /\ Late(rx)'
  BY DEF Echo, Late
<1>2. CASE inflight' = inflight
  <2>1. ASSUME NEW i \in 1 .. Len(inflight)
        PROVE  /\ inflight[i].own <= Done'
               /\ inflight[i].own # 0 /\ inflight[i].own = Taken => inflight[i] = last_msg_send
    <3>1. inflight[i] \in Message
      BY DEF TypeOK
    <3>2. inflight[i].own \in Nat /\ Done \in Int /\ Done' \in Int
      BY <3>1, MqttAssumption DEF Message, Counts
    <3>3. /\ inflight[i].own <= Done
          /\ inflight[i].own # 0 /\ inflight[i].own = Taken => inflight[i] = last_msg_send
      BY DEF Echo
    <3>4. QED
      BY <3>2, <3>3
  <2>2. Echo'
    BY <1>1, <1>2, <2>1 DEF Echo
  <2>3. InOrder'
    BY <1>2 DEF InOrder, Ascends, Before
  <2>4. QED
    BY <2>2, <2>3
<1>3. CASE inflight' = <<>>
  <2>1. Len(inflight') = 0 /\ 1 .. 0 = {}
    BY <1>3
  <2>2. Echo'
    BY <1>1, <2>1 DEF Echo
  <2>3. /\ Ascends(handled') /\ Ascends(rx') /\ Before(handled', rx')
    BY DEF InOrder
  <2>4. Ascends(inflight') /\ Before(handled', inflight') /\ Before(rx', inflight')
    BY <1>3, OrderEmpty
  <2>5. InOrder'
    BY <2>3, <2>4 DEF InOrder
  <2>6. QED
    BY <2>2, <2>5
<1>4. QED
  BY <1>2, <1>3

\* A message goes on its way behind all others, an own one as the last taken.
LEMMA EchoSent ==
  ASSUME TypeOK, Counts, Counts', Echo, InOrder, Taken' = Taken, Done' >= Done,
         UNCHANGED <<last_msg_send, rx, handled>>,
         NEW e \in Message, inflight' = Append(inflight, e),
         e.own = 0 \/ (e = last_msg_send /\ Done < Taken /\ Done' = Taken)
  PROVE  Echo' /\ InOrder'
<1>1. rx \in Seq(Message) /\ handled \in Seq(Message) /\ inflight \in Seq(Message)
      /\ \A i \in 1 .. Len(inflight) : inflight[i] \in Message
  BY DEF TypeOK
<1>2. /\ Len(inflight) \in Nat /\ Len(inflight') = Len(inflight) + 1
      /\ \A i \in 1 .. Len(inflight) : inflight'[i] = inflight[i]
      /\ inflight'[Len(inflight) + 1] = e
  BY <1>1, Appended
<1>3. e.own \in Nat /\ Done \in Int /\ Done' \in Int /\ Taken \in Nat
      /\ \A i \in 1 .. Len(inflight) : inflight[i].own \in Nat
  BY <1>1, MqttAssumption DEF Message, Counts
<1>4. e.own # 0 => e.own = Taken /\ Taken >= 1
  BY <1>3 DEF Echo
<1>5. ASSUME NEW q \in Seq(Message), Late(q)
      PROVE  Before(q, <<e>>)
  <2>1. \A i \in 1 .. Len(q) : e.own # 0 => q[i].own < e.own
    BY <1>3, <1>4, <1>5 DEF Late
  <2>2. QED
    BY <2>1 DEF Before
<1>6. Before(inflight, <<e>>)
  <2>1. \A i \in 1 .. Len(inflight) : e.own # 0 => inflight[i].own < e.own
    BY <1>3, <1>4 DEF Echo
  <2>2. QED
    BY <2>1 DEF Before
<1>7. Before(rx, <<e>>) /\ Before(handled, <<e>>)
  BY <1>1, <1>5 DEF Echo
<1>8. /\ Ascends(inflight') /\ Before(rx, inflight') /\ Before(handled, inflight')
  BY <1>1, <1>6, <1>7, Joined, JoinedLater DEF InOrder
<1>9. InOrder'
  BY <1>8 DEF InOrder
<1>10. last_msg_send'.own = Taken' /\ Late(handled)' /\ Late(rx)'
  BY DEF Echo, Late
<1>11. ASSUME NEW i \in 1 .. Len(inflight) + 1
       PROVE  /\ inflight'[i].own <= Done'
              /\ inflight'[i].own # 0 /\ inflight'[i].own = Taken =>
                   inflight'[i] = last_msg_send
  <2>1. CASE i \in 1 .. Len(inflight)
    <3>1. /\ inflight[i].own <= Done
          /\ inflight[i].own # 0 /\ inflight[i].own = Taken => inflight[i] = last_msg_send
      BY <2>1 DEF Echo
    <3>2. QED
      BY <1>2, <1>3, <2>1, <3>1
  <2>2. CASE i = Len(inflight) + 1
    <3>1. inflight'[i] = e
      BY <1>2, <2>2
    <3>2. e.own <= Done'
      <4>1. Done' >= 0 \/ Done' = Taken
        BY DEF Counts
      <4>2. QED
        BY <1>3, <1>4, <4>1 DEF Counts
    <3>3. QED
      BY <3>1, <3>2
  <2>3. QED
    BY <1>2, <2>1, <2>2
<1>12. Echo'
  BY <1>2, <1>10, <1>11 DEF Echo
<1>13. QED
  BY <1>9, <1>12

LEMMA EchoStep ==
  ASSUME TypeOK, Counts, Counts', Echo, InOrder, Ways, Ways', [Next]_vars
  PROVE  Echo' /\ InOrder'
<1> USE DEF wireVars, logVars, mainVars, Runs
<1>1. CASE Configured \/ Close \/ Connect \/ ConnectFails \/ Idle \/ Completed
           \/ CfgComplete \/ RetryTimer \/ ConnectionLost \/ Terminate \/ UNCHANGED vars
  <2>1. /\ UNCHANGED <<rx, handled, last_msg_send, tx, sent>>
        /\ inflight' = <<>> \/ inflight' = inflight
        /\ inside' = inside \/ {inside, inside'} \cap {"publish"} = {}
    BY <1>1 DEF Configured, Close, Connect, ConnectFails, Idle, MayConnect, Completed,
       CfgComplete, RetryTimer, ConnectionLost, Terminate, vars
  <2>2. (inside' = "publish") <=> (inside = "publish")
    BY <2>1
  <2>3. Taken' = Taken /\ Done' = Done
    BY <2>1, <2>2 DEF Taken, Done
  <2>4. Done' >= Done
    BY <2>3 DEF Counts
  <2>5. QED
    BY <2>1, <2>3, <2>4, EchoKept
<1>2. ASSUME Connected \/ (\E text \in Text : MessageToSend(text))
      PROVE  Echo' /\ InOrder'
  <2>1. PICK text \in Text \cup {Welcome} : EnqueueMessage(text) /\ sent < MaxSent
    BY <1>2, MqttAssumption DEF Connected, MessageToSend, TypeOK
  <2>2. UNCHANGED <<rx, handled, last_msg_send, inflight>>
        /\ inside # "publish" /\ inside' # "publish"
    BY <1>2 DEF Connected, MessageToSend
  <2>3. UNCHANGED <<tx, sent>> \/ (sent' = sent + 1 /\ Len(tx') = Len(tx) + 1)
    BY <2>1, Accepted
  <2>4. sent \in Nat /\ Len(tx) \in Nat
    BY DEF TypeOK, Counts
  <2>5. Taken' = Taken
    BY <2>3, <2>4 DEF Taken
  <2>6. Done' >= Done
    BY <2>2, <2>5 DEF Counts
  <2>7. QED
    BY <2>2, <2>5, <2>6, EchoKept
<1>3. CASE SendTake
  <2>1. inside = "nothing" /\ UNCHANGED <<rx, handled, inflight, sent>>
    BY <1>3 DEF SendTake
  <2>2. CASE tx = <<>>
    <3>1. UNCHANGED <<tx, last_msg_send, inside>>
      BY <1>3, <2>2 DEF SendTake
    <3>2. Taken' = Taken /\ Done' = Done
      BY <2>1, <3>1 DEF Taken, Done
    <3>3. Done' >= Done
      BY <3>2 DEF Counts
    <3>4. QED
      BY <2>1, <3>1, <3>2, <3>3, EchoKept
  <2>3. CASE tx # <<>>
    <3>1. tx' = Tail(tx) /\ last_msg_send' = Head(tx) /\ inside' = "publish"
      BY <1>3, <2>3 DEF SendTake
    <3>2. tx \in Seq(Message)
      BY DEF TypeOK
    <3>3. /\ Len(Tail(tx)) = Len(tx) - 1 /\ Len(tx) \in Nat /\ sent \in Nat
      BY <2>3, <3>2, Removed DEF Counts
    <3>4. Taken' = Taken + 1 /\ last_msg_send'.own = Taken'
      <4>1. Taken' = Taken + 1
        <5>1. sent' = sent /\ Len(tx') = Len(tx) - 1
          BY <2>1, <3>1, <3>3
        <5>2. sent - (Len(tx) - 1) = (sent - Len(tx)) + 1
          BY <3>3
        <5>3. QED
          BY <5>1, <5>2 DEF Taken
      <4>2. last_msg_send'.own = Taken'
        BY <3>1 DEF Ways
      <4>3. QED
        BY <4>1, <4>2
    <3>5. Done = Taken /\ Done' = Taken /\ Taken \in Nat
      BY <2>1, <3>1, <3>4 DEF Counts
    <3>6. \A i \in 1 .. Len(inflight) : inflight[i] \in Message
      BY DEF TypeOK
    <3>7. \A i \in 1 .. Len(inflight) : inflight[i].own \in Nat /\ inflight[i].own <= Taken
      BY <3>5, <3>6, MqttAssumption DEF Message, Echo
    <3>8. \A i \in 1 .. Len(inflight) : inflight[i].own <= Done' /\ inflight[i].own # Taken'
      BY <3>4, <3>5, <3>7
    <3>9. rx \in Seq(Message) /\ handled \in Seq(Message)
      BY DEF TypeOK
    <3>10. ASSUME NEW q \in Seq(Message), Late(q)
           PROVE  \A i \in 1 .. Len(q) : q[i].own = 0 \/ q[i].own < Taken'
      <4>1. \A i \in 1 .. Len(q) : q[i] \in Message
        OBVIOUS
      <4>2. \A i \in 1 .. Len(q) : q[i].own \in Nat
        BY <4>1, MqttAssumption DEF Message
      <4>3. QED
        BY <3>4, <3>5, <3>10, <4>2 DEF Late
    <3>11. Late(rx)' /\ Late(handled)'
      BY <2>1, <3>9, <3>10 DEF Late, Echo
    <3>12. Echo'
      BY <2>1, <3>4, <3>8, <3>11 DEF Echo
    <3>13. InOrder'
      BY <2>1 DEF InOrder
    <3>14. QED
      BY <3>12, <3>13
  <2>4. QED
    BY <2>2, <2>3
<1>4. CASE Publish
  <2>1. inside = "publish" /\ inside' # "publish"
        /\ UNCHANGED <<rx, handled, last_msg_send, tx, sent>>
        /\ (inflight' = inflight \/ inflight' = Append(inflight, last_msg_send))
    BY <1>4 DEF Publish
  <2>2. Taken' = Taken /\ Taken >= 1
    BY <2>1 DEF Taken, Counts
  <2>3. Done = Taken - 1 /\ Done' = Taken /\ Taken \in Nat
    BY <2>1, <2>2 DEF Counts
  <2>4. Done < Taken /\ Done' >= Done
    BY <2>3
  <2>5. CASE inflight' = inflight
    BY <2>1, <2>2, <2>4, <2>5, EchoKept
  <2>6. CASE inflight' = Append(inflight, last_msg_send)
    <3>1. last_msg_send.own # 0
      BY <2>2 DEF Echo, Counts
    <3>2. last_msg_send \in Message
      BY <3>1 DEF TypeOK
    <3>3. QED
      BY <2>1, <2>2, <2>3, <2>4, <2>6, <3>2, EchoSent
  <2>7. QED
    BY <2>1, <2>5, <2>6
<1>5. CASE Process
  <2>1. UNCHANGED <<inside, last_msg_send, inflight, tx, sent>>
    BY <1>5 DEF Process
  <2>2. Taken' = Taken /\ Done' = Done /\ Done' >= Done
    BY <2>1 DEF Taken, Done, Counts
  <2>3. CASE rx = <<>>
    BY <1>5, <2>1, <2>2, <2>3, EchoKept DEF Process
  <2>4. CASE rx # <<>>
    <3>1. rx' = Tail(rx) /\ handled' = Append(handled, Head(rx))
      BY <1>5, <2>4 DEF Process
    <3>2. rx \in Seq(Message) /\ handled \in Seq(Message) /\ inflight \in Seq(Message)
      BY DEF TypeOK
    <3>3. /\ Len(rx) \in Nat /\ Head(rx) \in Message /\ Head(rx) = rx[1] /\ Len(rx) >= 1
          /\ Tail(rx) \in Seq(Message) /\ Len(Tail(rx)) = Len(rx) - 1
          /\ \A i \in 1 .. Len(rx) - 1 : Tail(rx)[i] = rx[i + 1]
      BY <2>4, <3>2, Removed
    <3>4. /\ Len(handled) \in Nat /\ Len(handled') = Len(handled) + 1
          /\ \A i \in 1 .. Len(handled) : handled'[i] = handled[i]
          /\ handled'[Len(handled) + 1] = rx[1]
      BY <3>1, <3>2, <3>3, Appended
    <3>5. Before(handled, <<Head(rx)>>) /\ Before(handled, Tail(rx))
      BY <2>4, <3>2, LeftLater DEF InOrder
    <3>6. Ascends(Tail(rx)) /\ Before(<<Head(rx)>>, Tail(rx))
      BY <2>4, <3>2, Left DEF InOrder
    <3>7. Before(Tail(rx), inflight) /\ Before(<<Head(rx)>>, inflight)
      BY <2>4, <3>2, LeftEarlier DEF InOrder
    <3>8. Ascends(handled')
      BY <3>1, <3>2, <3>3, <3>5, Joined DEF InOrder
    <3>9. Before(handled', rx') /\ Before(handled', inflight)
      BY <3>1, <3>2, <3>3, <3>5, <3>6, <3>7, JoinedEarlier DEF InOrder
    <3>10. InOrder'
      BY <2>1, <3>1, <3>6, <3>7, <3>8, <3>9 DEF InOrder
    <3>11. Late(rx)'
      <4>1. \A i \in 1 .. Len(rx) - 1 : i + 1 \in 1 .. Len(rx)
        BY <3>3
      <4>2. QED
        BY <2>2, <3>1, <3>3, <4>1 DEF Late, Echo
    <3>12. Late(handled)'
      <4>1. \A i \in 1 .. Len(handled) + 1 : i = Len(handled) + 1 \/ i \in 1 .. Len(handled)
        BY <3>4
      <4>2. 1 \in 1 .. Len(rx)
        BY <3>3
      <4>3. QED
        BY <2>2, <3>4, <4>1, <4>2 DEF Late, Echo
    <3>13. Echo'
      BY <2>1, <2>2, <3>11, <3>12 DEF Echo
    <3>14. QED
      BY <3>10, <3>13
  <2>5. QED
    BY <2>3, <2>4
<1>6. CASE MessageArrived
  <2>1. /\ UNCHANGED <<inside, last_msg_send, handled, tx, sent>>
        /\ inflight # <<>> /\ inflight' = Tail(inflight)
        /\ \/ rx' = rx
           \/ Head(inflight).text # last_msg_send.text /\ rx' = Append(rx, Head(inflight))
    BY <1>6 DEF MessageArrived
  <2>2. Taken' = Taken /\ Done' = Done
    BY <2>1 DEF Taken, Done
  <2>3. rx \in Seq(Message) /\ handled \in Seq(Message) /\ inflight \in Seq(Message)
    BY DEF TypeOK
  <2>4. /\ Len(inflight) \in Nat /\ Head(inflight) \in Message
        /\ Head(inflight) = inflight[1] /\ Len(inflight) >= 1
        /\ Tail(inflight) \in Seq(Message) /\ Len(Tail(inflight)) = Len(inflight) - 1
        /\ \A i \in 1 .. Len(inflight) - 1 : Tail(inflight)[i] = inflight[i + 1]
    BY <2>1, <2>3, Removed
  <2>5. \A i \in 1 .. Len(inflight) - 1 : i + 1 \in 1 .. Len(inflight)
    BY <2>4
  <2>6. \A i \in 1 .. Len(inflight') :
          /\ inflight'[i].own <= Done'
          /\ inflight'[i].own # 0 /\ inflight'[i].own = Taken' =>
               inflight'[i] = last_msg_send'
    BY <2>1, <2>2, <2>4, <2>5 DEF Echo
  <2>7. last_msg_send'.own = Taken' /\ Late(handled)'
    BY <2>1, <2>2 DEF Echo, Late
  <2>8. /\ Ascends(inflight') /\ Before(<<Head(inflight)>>, inflight')
        /\ Before(handled, inflight') /\ Before(handled, <<Head(inflight)>>)
        /\ Before(rx, inflight') /\ Before(rx, <<Head(inflight)>>)
    BY <2>1, <2>3, Left, LeftLater DEF InOrder
  <2>9. CASE rx' = rx
    <3>1. Echo'
      BY <2>2, <2>6, <2>7, <2>9 DEF Echo, Late
    <3>2. InOrder'
      BY <2>1, <2>8, <2>9 DEF InOrder
    <3>3. QED
      BY <3>1, <3>2
  <2>10. CASE Head(inflight).text # last_msg_send.text /\ rx' = Append(rx, Head(inflight))
    <3>1. /\ Len(rx) \in Nat /\ Len(rx') = Len(rx) + 1
          /\ \A j \in 1 .. Len(rx) : rx'[j] = rx[j]
          /\ rx'[Len(rx) + 1] = inflight[1]
      BY <2>3, <2>4, <2>10, Appended
    <3>2. 1 \in 1 .. Len(inflight)
      BY <2>4
    <3>3. inflight[1].own = 0 \/ inflight[1].own < Taken
      <4>1. inflight[1] # last_msg_send
        BY <2>4, <2>10
      <4>2. inflight[1].own <= Done /\ (inflight[1].own = 0 \/ inflight[1].own # Taken)
        BY <3>2, <4>1 DEF Echo
      <4>3. inflight[1].own \in Nat
        BY <2>4, MqttAssumption DEF Message
      <4>4. QED
        BY <4>2, <4>3 DEF Counts
    <3>4. Late(rx)'
      <4>1. \A i \in 1 .. Len(rx) + 1 : i = Len(rx) + 1 \/ i \in 1 .. Len(rx)
        BY <3>1
      <4>2. QED
        BY <2>2, <3>1, <3>3, <4>1 DEF Late, Echo
    <3>5. Echo'
      BY <2>6, <2>7, <3>4 DEF Echo
    <3>6. Ascends(rx')
      BY <2>3, <2>4, <2>8, <2>10, Joined DEF InOrder
    <3>7. Before(rx', inflight')
      BY <2>1, <2>3, <2>4, <2>8, <2>10, JoinedEarlier
    <3>8. Before(handled, rx')
      BY <2>3, <2>4, <2>8, <2>10, JoinedLater DEF InOrder
    <3>9. InOrder'
      BY <2>1, <2>8, <3>6, <3>7, <3>8 DEF InOrder
    <3>10. QED
      BY <3>5, <3>9
  <2>11. QED
    BY <2>1, <2>9, <2>10
<1>7. ASSUME NEW text \in Text, ForeignMessage(text)
      PROVE  Echo' /\ InOrder'
  <2> DEFINE m == [text |-> text, own |-> 0]
  <2>1. m \in Message /\ m.own = 0
    BY MqttAssumption DEF Message
  <2>2. /\ UNCHANGED <<inside, last_msg_send, rx, handled, tx, sent>>
        /\ inflight' = Append(inflight, m)
    BY <1>7 DEF ForeignMessage
  <2> HIDE DEF m
  <2>3. Taken' = Taken /\ Done' = Done
    BY <2>2 DEF Taken, Done
  <2>4. Done' >= Done
    BY <2>3 DEF Counts
  <2>5. QED
    BY <2>1, <2>2, <2>3, <2>4, EchoSent
<1>8. QED
  BY <1>1, <1>2, <1>3, <1>4, <1>5, <1>6, <1>7 DEF Next, Run

\* However late the broker echoes and wherever the connection breaks, the client
\* hands on a message of its own only when it has taken a newer one for sending,
\* and its own messages in the order they had, each once.
THEOREM LateEchoesOnly == Spec => []OnlyLateEchoesHandled
<1>1. Init => Echo /\ InOrder
  BY EchoStart
<1>2. ASSUME TypeOK /\ Ways, (TypeOK /\ Ways)', Echo /\ InOrder, [Next]_vars
      PROVE  (Echo /\ InOrder)'
  <2>1. Counts /\ Counts'
    BY <1>2, Counted, PTL
  <2>2. QED
    BY <1>2, <2>1, EchoStep
<1>3. Echo /\ InOrder => OnlyLateEchoesHandled
  BY DEF Echo, InOrder, Late, Ascends, OnlyLateEchoesHandled
<1>4. QED
  BY <1>1, <1>2, <1>3, AllWays, PTL DEF Spec

-----------------------------------------------------------------------------
\* A client that is idle without a connection was told, except of a loss inside
\* the mqtt_connect that made it.
THEOREM LossesAreNoticed == Spec => []LossIsNoticed
<1>1. Init => Noticed
  BY DEF Init, Noticed
<1>2. ASSUME TypeOK, Noticed, [Next]_vars
      PROVE  Noticed'
  <2> USE DEF wireVars, logVars, mainVars, Runs
  <2>1. CASE Configured \/ Close \/ Connect \/ ConnectFails
    BY <1>2, <2>1 DEF Noticed, Configured, Close, Connect, ConnectFails, MayConnect
  <2>2. CASE Connected
    BY <1>2, <2>2 DEF Noticed, Connected, TypeOK
  <2>3. CASE Idle
    <3>1. /\ inside' = inside /\ inside = "nothing" /\ state = "idle"
          /\ UNCHANGED <<connection_lost, link, overwritten>>
          /\ state' \in {"idle", "close", "process", "send"}
          /\ state' = "close" => connection_lost
      <4> USE DEF TypeOK
      <4>1. CASE enqueue_failed
        BY <1>2, <2>3, <4>1 DEF Idle
      <4>2. CASE ~enqueue_failed /\ connection_lost
        BY <1>2, <2>3, <4>2 DEF Idle
      <4>3. CASE ~enqueue_failed /\ ~connection_lost
        BY <1>2, <2>3, <4>3 DEF Idle
      <4>4. QED
        BY <4>1, <4>2, <4>3
    <3>2. QED
      BY <1>2, <3>1 DEF Noticed
  <2>4. CASE Process \/ SendTake \/ Publish \/ Completed
    BY <1>2, <2>4 DEF Noticed, Process, SendTake, Publish, Completed
  <2>5. CASE CfgComplete \/ RetryTimer \/ MessageArrived \/ UNCHANGED vars
    BY <1>2, <2>5 DEF Noticed, CfgComplete, RetryTimer, MessageArrived, vars
  <2>6. CASE ConnectionLost \/ Terminate
    BY <1>2, <2>6 DEF Noticed, ConnectionLost, Terminate
  <2>7. CASE \E text \in Text : MessageToSend(text) \/ ForeignMessage(text)
    BY <1>2, <2>7 DEF Noticed, MessageToSend, ForeignMessage
  <2>8. QED
    BY <1>2, <2>1, <2>2, <2>3, <2>4, <2>5, <2>6, <2>7 DEF Next, Run
<1>3. Noticed => LossIsNoticed
  BY DEF Noticed, LossIsNoticed
<1>4. QED
  BY <1>1, <1>2, <1>3, AllWays, PTL DEF Spec

=============================================================================
