---------------------------- MODULE MCTelemetry ----------------------------
(***************************************************************************)
(* The telemetry link for TLC: a meter that may be restarted once, three   *)
(* messages between its two lives, inputs of up to a message and a half,   *)
(* and socket buffers for two messages, so that the third may block.       *)
(***************************************************************************)
EXTENDS Telemetry
=============================================================================
