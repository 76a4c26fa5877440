--------------------------- MODULE SlidingWindow ---------------------------
(***************************************************************************)
(* What a moving average promises: its output is computed from the sum of  *)
(* the last Length inputs (zeros before the first), and from nothing else. *)
(***************************************************************************)
EXTENDS Integers, Sequences

CONSTANTS Length, Inputs, MaxUpdates

VARIABLES window,   \* the last Length inputs, oldest first
          sum,      \* what the mean is computed from
          updates

windowVars == <<window, sum, updates>>

Total(w) ==
    LET upTo[i \in 0 .. Len(w)] == IF i = 0 THEN 0 ELSE upTo[i - 1] + w[i]
    IN  upTo[Len(w)]

WindowInit ==
    /\ window = [i \in 1 .. Length |-> 0]
    /\ sum = 0
    /\ updates = 0

Slide(x) ==
    /\ updates < MaxUpdates
    /\ updates' = updates + 1
    /\ window' = Append(Tail(window), x)
    /\ sum' = Total(window')

WindowNext == \E x \in Inputs : Slide(x)

WindowSpec == WindowInit /\ [][WindowNext]_windowVars
=============================================================================
