---------------------------- MODULE MCLifecycle ----------------------------
(***************************************************************************)
(* What uses the PRUs from start to end, for TLC: the host program of the  *)
(* meter, and each of the example programs; one of them runs in a          *)
(* behaviour.                                                              *)
(*                                                                         *)
(* Lifecycle has three processes, so that one can inherit from a           *)
(* predecessor that itself inherited.                                      *)
(***************************************************************************)
EXTENDS Lifecycle, PruExamples

VARIABLE part

MCExamples == DOMAIN Programs

(* An example ends, or waits for what a failed call has left undone. *)
ExampleEnds == (fault # "none" \/ at.host > Len(Code("host"))) /\ UNCHANGED exVars

UsesInit ==
    /\ part \in {"lifecycle", "examples"} /\ LifeInit /\ ExamplesInit
    /\ part = "lifecycle" => example = CHOOSE e \in Examples : TRUE

UsesNext ==
    /\ UNCHANGED part
    /\ \/ part = "lifecycle" /\ LifeNext /\ UNCHANGED exVars
       \/ part = "examples" /\ (ExamplesNext \/ ExampleEnds) /\ UNCHANGED lifeVars

(* The fairness of LifeSpec and of ExamplesSpec, each for its part. *)
UsesFairness ==
    /\ WF_lifeVars(part = "lifecycle" /\ (Startup \/ Cleanup))
    /\ WF_exVars(part = "examples" /\ Host)
    /\ WF_exVars(part = "examples" /\ Pru("pru0"))
    /\ WF_exVars(part = "examples" /\ Pru("pru1"))
    /\ WF_exVars(part = "examples" /\ Device)
    /\ WF_exVars(part = "examples" /\ Isr)

UsesSpec == UsesInit /\ [][UsesNext]_<<part, lifeVars, exVars>> /\ UsesFairness

(* Every example of the package ends and passes unless a call fails.       *)
EveryExamplePasses == part = "examples" => ExamplesPass
=============================================================================
