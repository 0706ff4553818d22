------------------------------ MODULE RpiLink -------------------------------
(***************************************************************************)
(* The two ends of the SPI link together: the host task on the Raspberry   *)
(* Pi (RpiHost), the client task with its slave and the command controller *)
(* (RpiClient) and the routing to a co-processor (CoproRouting) on the     *)
(* micro controller.  Between them are the request line, which the host    *)
(* pulls low, and transfers that only the host starts.                     *)
(*                                                                         *)
(* A tick (some 50 ms) is long for the main loops: both ends have done all *)
(* there was to do when it ends.  But the loop of the micro controller may *)
(* be held up for MaxStall ticks by a task that blocks (the waits for the  *)
(* co-processor, for a sensor).  A run of a task that finds nothing to do  *)
(* changes nothing.  The next command is issued after the outcome of the   *)
(* last one, as the message executer does.                                 *)
(***************************************************************************)
EXTENDS RpiHost, CoproRouting

CONSTANTS
  Kinds,           \* kinds of commands that are issued
  MaxStall,        \* bound: ticks the board's main loop is held up for
  MaxCommands      \* bound: commands

\* The longest a routed command takes: each wait of the routing may end a
\* stall late, and so may the client when it receives and when it answers.
CallTime == PowerTime + TransmitTime + ProcessTime + PollTime + 5 * MaxStall

ASSUME LinkAssumption ==
  /\ Kinds \subseteq Kind
  /\ MaxStall \in Nat
  /\ MaxCommands \in Nat
  /\ CallTime < WaitTime

VARIABLES
  call,            \* the command issued last: its kind, outcome and answer
  executed,        \* commands executed since it was issued
  unheard,         \* the co-processor did not take it
  stall,           \* ticks the board's main loop is held up for so far
  commands         \* commands so far

boardvars == <<client, spi, routing, power, copro, fault>>
linkvars == <<host, boardvars, call, executed, unheard, stall, commands>>

Outcome == {"none", "open", "answered", "refused", "given_up"}

LinkTypeOK ==
  /\ host \in HostType
  /\ client \in ClientType /\ spi \in SpiType
  /\ routing \in RoutingType
  /\ power \in {"off", "rising", "on"} /\ copro \in Owner
  /\ fault \in {"silent", "deaf"}
  /\ call \in [kind : Kind, outcome : Outcome, answer : Frame]
  /\ executed \in Nat /\ unheard \in BOOLEAN
  /\ stall \in 0 .. MaxStall /\ commands \in 0 .. MaxCommands

\* Both ends are set up.
LinkInit ==
  /\ host = [HostInit EXCEPT !.configured = TRUE, !.state = "sleep"]
  /\ client = ClientInit /\ spi = SpiInit
  /\ routing = RoutingInit /\ power = "off" /\ copro = "none"
  /\ fault \in {"silent", "deaf"}
  /\ call = [kind |-> "local", outcome |-> "none", answer |-> <<>>]
  /\ executed = 0 /\ unheard = FALSE /\ stall = 0 /\ commands = 0

-----------------------------------------------------------------------------
Low == host.request

\* RPI_HOST_COMMAND_RECEIVED_SIGNAL
IssueCommand(k) ==
  /\ commands < MaxCommands /\ call.outcome # "open"
  /\ commands' = commands + 1
  /\ call' = [kind |-> k, outcome |-> "open", answer |-> <<>>]
  /\ executed' = 0 /\ unheard' = FALSE
  /\ host' = HostCommand(HostAged(host))
  /\ client' = ClientAged(client) /\ spi' = SpiAged(spi)
  /\ routing' = RoutingAged(routing) /\ copro' = Age(copro)
  /\ UNCHANGED <<power, fault, stall>>

NobodyHears == UNCHANGED <<boardvars, call>>

Outgoing ==
  /\ HostSends
  /\ SpiHears([own |-> host'.sent, kind |-> call.kind])
  /\ UNCHANGED <<client, routing, power, copro, fault, call>>

\* A poll that finds a response ends the call.
Incoming ==
  /\ HostReceives /\ spi.tx # <<>>
  /\ spi' = SpiEmptied
  /\ call' = [call EXCEPT !.outcome = IF spi.ok THEN "answered" ELSE "refused",
                          !.answer = spi.tx]
  /\ UNCHANGED <<client, routing, power, copro, fault>>

\* RPI_HOST_RESPONSE_TIMEOUT_SIGNAL
TimesOut ==
  /\ HostTimesOut
  /\ call' = [call EXCEPT !.outcome = "given_up"]
  /\ UNCHANGED boardvars

HostTurn ==
  /\ \/ (HostWakes \/ HostFinishes) /\ NobodyHears
     \/ Outgoing
     \/ Incoming
     \/ TimesOut
  /\ UNCHANGED <<executed, unheard, stall, commands>>

-----------------------------------------------------------------------------
ClientTurn ==
  /\ \/ ClientServes(Low)
     \/ ClientReleased(Low)
     \/ ClientCalledAgain(Low)
     \/ ClientSleeps(Low)
  /\ UNCHANGED <<host, routing, power, copro, fault, call, executed, unheard,
                 stall, commands>>

ControllerTurn ==
  /\ \/ /\ \E n \in 0 .. HandlerSize : Handles(n)
        /\ executed' = executed + 1
        /\ UNCHANGED <<routing, power>>
     \/ HandlerRefuses /\ UNCHANGED <<routing, power, executed>>
     \/ HandsOver /\ UNCHANGED executed
  /\ UNCHANGED <<host, spi, copro, fault, call, unheard, stall, commands>>

\* Whose bytes may be on the stack of the routing.
OnStack == IF commands > 1 THEN {"none", "earlier"} ELSE {"none"}

\* A co-processor with an answer is asked in vain only when it is silent.
RoutingTurn ==
  /\ \/ /\ \/ RoutingPowers \/ RoutingSends \/ RoutingProceeds \/ RoutingTimesOut
           \/ RoutingFindsNothing \/ RoutingFails \/ RoutingFinishes
           \/ \E left \in OnStack : RoutingResponds(left)
           \/ RoutingPollsInVain /\ (copro = "none" \/ fault = "silent")
        /\ UNCHANGED copro
     \/ /\ copro # "none"
        /\ \E late \in BOOLEAN : RoutingPollsAnswer(late)
        /\ copro' = "none"
  /\ UNCHANGED <<host, spi, fault, call, executed, unheard, stall, commands>>

Bus ==
  /\ \/ /\ CoproHears
        /\ executed' = executed + (IF routing.data = "none" THEN 0 ELSE 1)
        /\ UNCHANGED unheard
     \/ CoproMisses /\ unheard' = TRUE /\ UNCHANGED executed
  /\ UNCHANGED <<host, client, spi, power, fault, call, stall, commands>>

PowerUp ==
  /\ power = "rising"
  /\ power' = "on"
  /\ UNCHANGED <<host, client, spi, routing, copro, fault, call, executed,
                 unheard, stall, commands>>

-----------------------------------------------------------------------------
\* There is something to do at once.
HostDue ==
  \/ host.state = "sleep" /\ host.pending
  \/ host.state = "wait_command" /\ host.age >= RequestTime
  \/ /\ host.state = "wait_response"
     /\ host.age >= WaitTime \/ (host.age >= PollTime /\ spi.tx # <<>>)
  \/ host.state = "finish"

BoardDue == ClientDue(Low) \/ client.requested \/ RoutingDue

LinkTick ==
  /\ ~HostDue
  /\ \/ ~BoardDue /\ stall' = 0
     \/ BoardDue /\ stall < MaxStall /\ stall' = stall + 1
  /\ power = "rising" => routing.age < PowerTime
  /\ host' = HostTick(host)
  /\ client' = ClientTick(client)
  /\ routing' = RoutingTick(routing)
  /\ UNCHANGED <<spi, power, copro, fault, call, executed, unheard, commands>>

LinkNext ==
  \/ \E k \in Kinds : IssueCommand(k)
  \/ HostTurn \/ ClientTurn \/ ControllerTurn \/ RoutingTurn
  \/ Bus \/ PowerUp \/ LinkTick

LinkSpec == LinkInit /\ [][LinkNext]_linkvars

\* The main loops run and the clock goes on.  The bus and the power unit are
\* bound by the clock, or not at all.
FairLinkSpec ==
  /\ LinkSpec
  /\ WF_linkvars(HostTurn) /\ WF_linkvars(ClientTurn) /\ WF_linkvars(ControllerTurn)
  /\ WF_linkvars(RoutingTurn) /\ WF_linkvars(PowerUp) /\ WF_linkvars(LinkTick)

-----------------------------------------------------------------------------
HasResponse == call.outcome \in {"answered", "refused"}

\* Nothing in a response names its command (rpi_host_receive_response), and
\* yet it would be for the host to hand on no data of an earlier one.  The
\* routing does not keep this: a co-processor that did not take the command
\* may give the answer to an earlier one, and more bytes go into the answer
\* than were read (copro_routing_mcu_task.c:441).
AllIsOfThisCommand ==
  HasResponse => \A i \in DOMAIN call.answer : call.answer[i] # "earlier"

\* What does hold: the response the host reports is that to the command it
\* sent.  Of a command that the micro controller answers itself no data of an
\* earlier one is in it, and of one that a co-processor took and answers what
\* comes first, the data read, is not.
AnswersBelong ==
  HasResponse =>
    /\ Head(call.answer) = "this"
    /\ \A i \in DOMAIN call.answer :
         call.answer[i] = "earlier" => call.kind = "routed" /\ (i > 2 \/ unheard)

\* When a command has its outcome nothing of it is left on the micro
\* controller that could answer the next one: no request, no answer that
\* waits, no frame, no routing that has yet to report.
NothingLeftBehind ==
  call.outcome # "open" =>
    /\ ~client.pending /\ ~client.response /\ ~client.requested
    /\ spi.rx = <<>> /\ spi.tx = <<>>
    /\ routing.state \in {"idle", "finish"} /\ ~routing.queued

\* Once no command comes any more the client shuts the slave down and sleeps.
ClientRests ==
  <>[](client.state = "idle" /\ ~spi.on /\ routing.state = "idle")

\* The link implements the remote call: one outcome for each command, the
\* command executed at most once and never late.
Remote == INSTANCE RemoteCall WITH outcome <- call.outcome
ImplementsRemoteCall == Remote!Spec

=============================================================================
