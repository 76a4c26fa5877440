--------------------------- MODULE MessageStream ---------------------------
(***************************************************************************)
(* What the acquisition chain promises the metrology code: the packets the *)
(* ADC side produces (numbered 1, 2, 3, ...) reach it as messages of       *)
(* LoopsPerMsg consecutive packets, none lost, none repeated, none mixed   *)
(* with another message's, in the order of acquisition.  Acquisition.tla   *)
(* is shown to implement this module while every deadline is met.          *)
(***************************************************************************)
EXTENDS Integers

CONSTANTS LoopsPerMsg,   \* packets in a message
          MaxPackets     \* bound on the packets acquired in a behaviour

VARIABLES acquired,      \* number of the newest packet
          message        \* the message the metrology code works on

streamVars == <<acquired, message>>

Slots == 0 .. LoopsPerMsg - 1

(* The number of the last packet that was delivered. *)
delivered == message[LoopsPerMsg - 1]

StreamInit ==
    /\ acquired = 0
    /\ message = [i \in Slots |-> 0]

Acquire ==
    /\ acquired < MaxPackets
    /\ acquired' = acquired + 1
    /\ UNCHANGED message

Deliver ==
    /\ delivered + LoopsPerMsg <= acquired
    /\ message' = [i \in Slots |-> delivered + 1 + i]
    /\ UNCHANGED acquired

StreamNext == Acquire \/ Deliver

StreamSpec == StreamInit /\ [][StreamNext]_streamVars

FairStreamSpec == StreamSpec /\ WF_streamVars(Deliver)
=============================================================================
