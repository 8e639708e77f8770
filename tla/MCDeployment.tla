--------------------------- MODULE MCDeployment ---------------------------
(***************************************************************************)
(* A small instance of Deployment for TLC: one feedback step of the        *)
(* general category leads from its base to a bound, the others stay put.   *)
(***************************************************************************)
EXTENDS Deployment

MCPolicy ==
    [c \in Category |->
        [base |-> 950, minimum |-> 920, maximum |-> 980,
         step |-> IF c = "general" THEN 60 ELSE 0]]
=============================================================================
