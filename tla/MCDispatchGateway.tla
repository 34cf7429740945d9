------------------------- MODULE MCDispatchGateway -------------------------
(* The instances of DispatchGateway that TLC explores. *)
EXTENDS DispatchGateway

CONSTANTS o1, o2, place1, cancel1, amend1, place2

MCOrderOf == [c \in Command |-> IF c = place2 THEN o2 ELSE o1]
MCOpOf == [c \in Command |-> IF c = cancel1 THEN "cancel"
                             ELSE IF c = amend1 THEN "amend" ELSE "place"]
MCIncreasing == Command \ {cancel1}
=============================================================================
