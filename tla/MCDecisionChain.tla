----------------------------- MODULE MCDecisionChain -----------------------------
(* Up to two people near the thresholds of the commander, three of the   *)
(* priors, and an engine that is missing at first.                          *)
EXTENDS DecisionChain

MCPeople ==
  {[distance |-> 6, predicted |-> 2], [distance |-> 3, predicted |-> 2],
   [distance |-> 3, predicted |-> 6], [distance |-> 0, predicted |-> 2]}

MCRows ==
  {[statistical |-> 4, learned |-> 4, temporal |-> 2, activity |-> "falling"],
   [statistical |-> 2, learned |-> 3, temporal |-> 1, activity |-> "loitering"],
   [statistical |-> 0, learned |-> 1, temporal |-> 0, activity |-> "other"]}

MCReadings ==
  {[ram |-> 60, temp |-> 75, util |-> NotReported],
   [ram |-> 60, temp |-> 76, util |-> NotReported]}

MCShipped == {"gru", "attention", "gnn", "fusion"}
================================================================================
