---------------------------- MODULE MCSignalSlot ----------------------------
(***************************************************************************)
(* Two signals: "command" with three slots, the first of which answers with  *)
(* the signal "response" while it is being called, and "response" with one *)
(* slot that sends "command" again.                                        *)
(***************************************************************************)
EXTENDS SignalSlot

MCSignal == {"command", "response"}
MCSlot == {"executer", "logger", "tracer", "reporter"}
MCSignalOf ==
  [l \in MCSlot |-> IF l = "reporter" THEN "response" ELSE "command"]
MCForward ==
  [l \in MCSlot |-> CASE l = "executer" -> "response"
                      [] l = "reporter" -> "command"
                      [] OTHER -> "nil"]
MCInterval == [s \in MCSignal |-> IF s = "command" THEN 2 ELSE 0]

=============================================================================
