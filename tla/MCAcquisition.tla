--------------------------- MODULE MCAcquisition ---------------------------
(***************************************************************************)
(* Acquisition for TLC, in place of the 3840 packets a message of the      *)
(* program: without deadlines two packets a message and three messages, so *)
(* that the first buffer is overwritten; on time three packets a message   *)
(* and more than six messages.                                             *)
(***************************************************************************)
EXTENDS Acquisition
=============================================================================
