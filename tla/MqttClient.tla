----------------------------- MODULE MqttClient -----------------------------
(***************************************************************************)
(* protocol_management/mqtt: the task of mqtt_application.c over the       *)
(* client of mqtt_interface.c, the MQTT library's thread that calls back   *)
(* into it, and the broker behind the library.                             *)
(*                                                                         *)
(* The task runs in the main loop; a step is one run(), except that        *)
(* MQTTClient_connect and MQTTClient_waitForCompletion block, so that the  *)
(* library's thread gets its turn inside mqtt_connect and                  *)
(* mqtt_send_next_message.  The queues are sequences here: Qeue shows what *)
(* one does under its mutex, QeueRace what happens without.                *)
(*                                                                         *)
(* A message is a record of its text and a number that only the model      *)
(* knows: 0 if another client of the topic sent it, the position among the *)
(* messages of this client otherwise.                                      *)
(***************************************************************************)
EXTENDS Naturals, Sequences

CONSTANTS
  Text,           \* texts the rest of the program or other clients send
  Welcome,        \* mqtt_task_welcome_message
  TxSize, RxSize, \* MQTT_APPLICATION_TX_QEUE_SIZE and .._RX_..
  MaxSent,        \* bound: messages this client queues, welcomes included
  MaxOthers,      \* bound: no text is queued after that many messages
  MaxForeign,     \* bound: messages of other clients
  MaxLosses       \* bound: losses of the connection

ASSUME MqttAssumption ==
  /\ Welcome \notin Text
  /\ TxSize \in 1 .. 255 /\ RxSize \in 1 .. 255
  /\ MaxOthers \in Nat /\ MaxSent >= MaxOthers + MaxLosses + 1
  /\ MaxSent \in Nat /\ MaxForeign \in Nat /\ MaxLosses \in Nat

VARIABLES
  state,           \* mqtt_task_state
  inside,          \* where the main loop is when it is inside a library call
  user_cfg,        \* MQTT_STATUS_USER_CFG_SET
  is_connected,    \* MQTT_STATUS_IS_CONNECTED
  enqueue_failed,  \* MQTT_STATUS_ENQEUE_TX_MESSAGE_FAILED
  retry_timer,     \* MQTT_CONNECT_INTERVAL_TIMER
  connection_lost, \* of the MQTT_INTERFACE
  last_msg_send,
  tx, rx,
  link,            \* the connection to the broker is up
  inflight,        \* messages on their way from the broker
  sent,            \* messages this client has queued so far
  foreign, losses, \* what happened of the bounded events
  overwritten,     \* the connection was lost inside mqtt_connect that made it
  delivered,       \* what the broker got of this client, in that order
  given_up,        \* own messages taken from tx that did not get through
  handled          \* messages MQTT_MESSAGE_RECEIVED_SIGNAL was sent for

mainVars == <<state, inside, user_cfg, is_connected, retry_timer>>
wireVars == <<link, inflight, foreign, losses, overwritten>>
logVars == <<delivered, given_up, handled>>
vars == <<mainVars, wireVars, logVars, enqueue_failed, connection_lost,
          last_msg_send, tx, rx, sent>>

State == {"wait_cfg", "close", "connect", "idle", "process", "send", "terminated"}
Message == [text : Text \cup {Welcome}, own : 0 .. MaxSent]
NoText == "no text"

TypeOK ==
  /\ state \in State
  /\ inside \in {"nothing", "connect", "publish", "wait"}
  /\ user_cfg \in BOOLEAN /\ is_connected \in BOOLEAN
  /\ enqueue_failed \in BOOLEAN
  /\ retry_timer \in {"stopped", "active", "up"}
  /\ connection_lost \in BOOLEAN
  /\ last_msg_send \in Message \cup {[text |-> NoText, own |-> 0]}
  /\ tx \in Seq(Message) /\ Len(tx) <= TxSize
  /\ rx \in Seq(Message) /\ Len(rx) <= RxSize
  /\ link \in BOOLEAN
  /\ inflight \in Seq(Message)
  /\ sent \in 0 .. MaxSent /\ foreign \in 0 .. MaxForeign
  /\ losses \in 0 .. MaxLosses /\ overwritten \in BOOLEAN
  /\ delivered \in Seq(1 .. MaxSent) /\ given_up \subseteq 1 .. MaxSent
  /\ handled \in Seq(Message)

\* mqtt_interface_init: connection_lost is 1 until the first connect.
Init ==
  /\ state = "wait_cfg" /\ inside = "nothing"
  /\ user_cfg = FALSE /\ is_connected = FALSE /\ enqueue_failed = FALSE
  /\ retry_timer = "stopped"
  /\ connection_lost = TRUE
  /\ last_msg_send = [text |-> NoText, own |-> 0]
  /\ tx = <<>> /\ rx = <<>>
  /\ link = FALSE /\ inflight = <<>>
  /\ sent = 0 /\ foreign = 0 /\ losses = 0 /\ overwritten = FALSE
  /\ delivered = <<>> /\ given_up = {} /\ handled = <<>>

\* mqtt_enqeue_message: 0 if the queue is full.
EnqueueMessage(text) ==
  IF Len(tx) < TxSize
  THEN /\ tx' = Append(tx, [text |-> text, own |-> sent + 1])
       /\ sent' = sent + 1
  ELSE UNCHANGED <<tx, sent>>

-----------------------------------------------------------------------------
(* mqtt_interface_task_run, case by case                                   *)

Runs(s) == state = s /\ inside = "nothing"

\* The configuration is complete: break of the wait, falls through to "close".
Configured ==
  /\ Runs("wait_cfg") /\ user_cfg
  /\ state' = "connect"
  /\ retry_timer' = "stopped"
  /\ UNCHANGED <<inside, user_cfg, is_connected, enqueue_failed, connection_lost,
                 last_msg_send, tx, rx, sent, wireVars, logVars>>

Close ==
  /\ Runs("close")
  /\ IF is_connected THEN link' = FALSE /\ inflight' = <<>>
                     ELSE UNCHANGED <<link, inflight>>
  /\ is_connected' = FALSE
  /\ state' = "connect"
  /\ UNCHANGED <<inside, user_cfg, retry_timer, enqueue_failed, connection_lost,
                 last_msg_send, tx, rx, sent, foreign, losses, overwritten, logVars>>

MayConnect == Runs("connect") /\ retry_timer # "active"

\* MQTTClient_connect and _subscribe succeed ...
Connect ==
  /\ MayConnect
  /\ link' = TRUE /\ inflight' = <<>>
  /\ inside' = "connect"
  /\ overwritten' = FALSE
  /\ UNCHANGED <<state, user_cfg, is_connected, retry_timer, enqueue_failed,
                 connection_lost, last_msg_send, tx, rx, sent, foreign, losses, logVars>>

\* ... then mqtt_connect clears connection_lost, and the task goes on.  MaxSent
\* leaves room for the welcome of every connection the losses ask for.
Connected ==
  /\ inside = "connect"
  /\ connection_lost' = FALSE
  /\ sent < MaxSent
  /\ EnqueueMessage(Welcome)
  /\ is_connected' = TRUE
  /\ state' = "send" /\ inside' = "nothing"
  /\ UNCHANGED <<user_cfg, retry_timer, enqueue_failed, last_msg_send, rx,
                 wireVars, logVars>>

\* Variant: the task goes on as if it were connected.
WrongConnectFails ==
  /\ MayConnect
  /\ retry_timer' = "active"
  /\ state' = "idle"
  /\ connection_lost' = FALSE
  /\ UNCHANGED <<inside, user_cfg, is_connected, enqueue_failed,
                 last_msg_send, tx, rx, sent, wireVars, logVars>>

ConnectFails ==
  /\ MayConnect
  /\ retry_timer' = "active"
  /\ UNCHANGED <<state, inside, user_cfg, is_connected, enqueue_failed,
                 connection_lost, last_msg_send, tx, rx, sent, wireVars, logVars>>

\* What the case "idle" finds to do, the first of the list.
Idle ==
  /\ Runs("idle")
  /\ enqueue_failed \/ connection_lost \/ rx # <<>> \/ tx # <<>>
  /\ enqueue_failed' = FALSE
  /\ state' = CASE enqueue_failed -> "idle"
                [] connection_lost -> "close"
                [] rx # <<>> -> "process"
                [] OTHER -> "send"
  /\ UNCHANGED <<inside, user_cfg, is_connected, retry_timer, connection_lost,
                 last_msg_send, tx, rx, sent, wireVars, logVars>>

\* mqtt_process_msg: the slots are called with the message.
Process ==
  /\ Runs("process")
  /\ IF rx = <<>> THEN UNCHANGED <<rx, handled>>
     ELSE handled' = Append(handled, Head(rx)) /\ rx' = Tail(rx)
  /\ state' = "idle"
  /\ UNCHANGED <<inside, user_cfg, is_connected, retry_timer, enqueue_failed,
                 connection_lost, last_msg_send, tx, sent, wireVars,
                 delivered, given_up>>

\* mqtt_send_next_message: the message leaves the queue for last_msg_send ...
SendTake ==
  /\ Runs("send")
  /\ IF tx = <<>>
     THEN state' = "idle" /\ UNCHANGED <<tx, last_msg_send, inside>>
     ELSE /\ last_msg_send' = Head(tx)
          /\ tx' = Tail(tx)
          /\ inside' = "publish"
          /\ UNCHANGED state
  /\ UNCHANGED <<user_cfg, is_connected, retry_timer, enqueue_failed,
                 connection_lost, rx, sent, wireVars, logVars>>

\* ... and is published.  The broker sends it to every client of the topic.
Publish ==
  /\ inside = "publish"
  /\ IF link
     THEN /\ delivered' = Append(delivered, last_msg_send.own)
          /\ inflight' = Append(inflight, last_msg_send)
          /\ inside' = "wait"
          /\ UNCHANGED <<given_up, state>>
     ELSE /\ given_up' = given_up \cup {last_msg_send.own}
          /\ state' = "idle" /\ inside' = "nothing"
          /\ UNCHANGED <<delivered, inflight>>
  /\ UNCHANGED <<user_cfg, is_connected, retry_timer, enqueue_failed, link,
                 connection_lost, last_msg_send, tx, rx, sent, foreign, losses,
                 overwritten, handled>>

\* Variant: a message that was not acknowledged is put back.
WrongCompleted ==
  /\ inside = "wait"
  /\ state' = "idle" /\ inside' = "nothing"
  /\ tx' = IF link \/ Len(tx) = TxSize THEN tx ELSE <<last_msg_send>> \o tx
  /\ UNCHANGED <<user_cfg, is_connected, retry_timer, enqueue_failed,
                 connection_lost, last_msg_send, rx, sent, wireVars, logVars>>

\* MQTTClient_waitForCompletion returns, in time or not; the task signals the
\* result and does not try again.
Completed ==
  /\ inside = "wait"
  /\ state' = "idle" /\ inside' = "nothing"
  /\ UNCHANGED <<user_cfg, is_connected, retry_timer, enqueue_failed,
                 connection_lost, last_msg_send, tx, rx, sent, wireVars, logVars>>

Run ==
  \/ Configured \/ Close \/ Connect \/ Connected \/ ConnectFails \/ Idle
  \/ Process \/ SendTake \/ Publish \/ Completed

-----------------------------------------------------------------------------
(* Slots, timers, the library's thread, other clients                      *)

\* mqtt_cfg_complete_CALLBACK
CfgComplete ==
  /\ ~user_cfg
  /\ user_cfg' = TRUE
  /\ UNCHANGED <<state, inside, is_connected, retry_timer, enqueue_failed,
                 connection_lost, last_msg_send, tx, rx, sent, wireVars, logVars>>

\* mqtt_message_to_send_CALLBACK, called in the main loop by another task.
MessageToSend(text) ==
  /\ inside = "nothing"
  /\ sent < MaxOthers
  /\ EnqueueMessage(text)
  /\ enqueue_failed' = (enqueue_failed \/ Len(tx) = TxSize)
  /\ UNCHANGED <<mainVars, connection_lost, last_msg_send, rx, wireVars, logVars>>

RetryTimer ==
  /\ retry_timer = "active"
  /\ retry_timer' = "up"
  /\ UNCHANGED <<state, inside, user_cfg, is_connected, enqueue_failed,
                 connection_lost, last_msg_send, tx, rx, sent, wireVars, logVars>>

\* The connection breaks and connectionLost_Callback is called.
ConnectionLost ==
  /\ link /\ losses < MaxLosses
  /\ link' = FALSE /\ inflight' = <<>>
  /\ losses' = losses + 1
  /\ connection_lost' = TRUE
  /\ overwritten' = (inside = "connect")
  /\ UNCHANGED <<mainVars, enqueue_failed, last_msg_send, tx, rx, sent, foreign, logVars>>

\* Variant: every message is taken for one of another client.
WrongMessageArrived ==
  /\ inflight # <<>>
  /\ inflight' = Tail(inflight)
  /\ rx' = IF Len(rx) = RxSize THEN rx ELSE Append(rx, Head(inflight))
  /\ UNCHANGED <<mainVars, enqueue_failed, connection_lost, last_msg_send, tx,
                 sent, link, foreign, losses, overwritten, logVars>>

\* messageArrived_Callback: not my last message, not beyond the queue.
MessageArrived ==
  /\ inflight # <<>>
  /\ inflight' = Tail(inflight)
  /\ rx' = IF Head(inflight).text = last_msg_send.text \/ Len(rx) = RxSize
           THEN rx ELSE Append(rx, Head(inflight))
  /\ UNCHANGED <<mainVars, enqueue_failed, connection_lost, last_msg_send, tx,
                 sent, link, foreign, losses, overwritten, logVars>>

\* Another client of the topic publishes a message.
ForeignMessage(text) ==
  /\ link /\ foreign < MaxForeign
  /\ foreign' = foreign + 1
  /\ inflight' = Append(inflight, [text |-> text, own |-> 0])
  /\ UNCHANGED <<mainVars, enqueue_failed, connection_lost, last_msg_send, tx,
                 rx, sent, link, losses, overwritten, logVars>>

\* mqtt_interface_task_terminate
Terminate ==
  /\ inside = "nothing" /\ state # "terminated"
  /\ state' = "terminated"
  /\ link' = FALSE /\ inflight' = <<>>
  /\ UNCHANGED <<inside, user_cfg, is_connected, retry_timer, enqueue_failed,
                 connection_lost, last_msg_send, tx, rx, sent, foreign, losses,
                 overwritten, logVars>>

Next ==
  \/ Run
  \/ CfgComplete \/ RetryTimer \/ ConnectionLost \/ MessageArrived \/ Terminate
  \/ \E text \in Text : MessageToSend(text) \/ ForeignMessage(text)

Spec == Init /\ [][Next]_vars

\* The main loop comes back to the task (TaskController!ReadyTasksRun), the
\* configuration file is read, time passes, the library delivers what it got,
\* and a broker that is asked often enough answers.
FairSpec ==
  /\ Spec
  /\ WF_vars(Run) /\ SF_vars(Connect)
  /\ WF_vars(CfgComplete) /\ WF_vars(RetryTimer) /\ WF_vars(MessageArrived)

-----------------------------------------------------------------------------

InQueue == {tx[i].own : i \in 1 .. Len(tx)}
InHand == IF inside = "publish" THEN {last_msg_send.own} ELSE {}

\* A message that was accepted is delivered, in the queue, in hand or was
\* signalled as failed, never two of these, across any losses of the
\* connection (mqtt_send_next_message takes it out before it is published).
SentOnce ==
  /\ 1 .. sent = InQueue \cup InHand \cup given_up
                   \cup {delivered[i] : i \in 1 .. Len(delivered)}
  /\ \A i \in 1 .. Len(delivered) :
       /\ delivered[i] \notin InQueue \cup InHand \cup given_up
       /\ i > 1 => delivered[i - 1] < delivered[i]

\* "Comparing the received msg with the last message sent will avoid incorrect
\* message handling" (mqtt_interface.c:54-60). The code does not keep it: an
\* echo that comes after the next message was taken for sending is compared
\* with that one and handled.
OwnMessagesIgnored == \A i \in 1 .. Len(handled) : handled[i].own = 0

\* What the comparison does achieve, however late the broker echoes and
\* wherever the connection breaks: a message of its own is handled by the
\* program only when a newer one has been taken for sending, once at most, and
\* in the order in which they were sent.
OnlyLateEchoesHandled ==
  \A i \in 1 .. Len(handled) : handled[i].own # 0 =>
    /\ handled[i].own < last_msg_send.own
    /\ \A j \in 1 .. i - 1 : handled[j].own < handled[i].own

\* "return 1 the connection to the MQTT-broker has been lost, 0 otherwise"
\* (mqtt_interface.h:388): a task that is idle without a connection is told.
\* The code does not keep it either.
LossIsReported == state = "idle" /\ ~link => connection_lost

\* The same with the one exception there is: a connection that is lost inside
\* the mqtt_connect that made it, before the flag is cleared at
\* mqtt_interface.c:142.
LossIsNoticed == state = "idle" /\ ~link => connection_lost \/ overwritten

\* A lost connection is made again, unless the task was terminated, through
\* any further losses. With the exception of LossIsNoticed, after which
\* nothing makes the client connect again.
BackOnline == []<>(link \/ state = "terminated" \/ overwritten)
=============================================================================
