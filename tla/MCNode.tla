------------------------------- MODULE MCNode -------------------------------
(* A node that declares no ladder meets every fault; a node that does      *)
(* starts with most of both budgets spent, so that the two state spaces    *)
(* add up instead of multiplying.                                          *)
EXTENDS Node

CONSTANTS LadderFaults, LadderFlips

MCInit == \E mode \in Modes :
            /\ host = [mode |-> mode, allowed |-> TRUE, busy |-> FALSE,
                       flips |-> IF mode = "off" THEN 0 ELSE MaxFlips - LadderFlips]
            /\ ses \in Start(NewSource(FALSE, "none",
                               IF mode = "off" THEN 0 ELSE MaxFaults - LadderFaults))
            /\ ing = Idle /\ yield = NoYield /\ ladder = Serving
            /\ aud = NoAudit /\ pub = Unaudited /\ quiet = 0
MCSpec == MCInit /\ [][Next]_vars /\ Fairness
=============================================================================
