-------------------------- MODULE MCMemoryLearning --------------------------
(***************************************************************************)
(* Three feedbacks about overlapping actions of two campaigns with low     *)
(* ROI: a pause is rejected by one and accepted by another, which also     *)
(* observes a loss.  Eight facts for a profile of four, and a clock with   *)
(* three values, so that requests tie and overtake each other and facts of *)
(* one feedback are cut apart.                                             *)
(***************************************************************************)
EXTENDS MemoryLearning, TLC

CONSTANTS f1, f2, f3, c1, c2, c3

MCCampaigns ==
    <<[id |-> c1, active |-> TRUE, roi |-> 90],
      [id |-> c2, active |-> TRUE, roi |-> 140],
      [id |-> c3, active |-> FALSE, roi |-> 50]>>

About(operation, target) == [operation |-> operation, target |-> target]

MCContent ==
    f1 :> [accepted |-> <<>>, rejected |-> <<About(Pause, c1)>>, observed |-> "none"] @@
    f2 :> [accepted |-> <<About(Pause, c1)>>, rejected |-> <<>>, observed |-> "loss"] @@
    f3 :> [accepted |-> <<About(Pause, c2)>>, rejected |-> <<About(Pause, c1)>>,
           observed |-> "none"]

=============================================================================
