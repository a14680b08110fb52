------------------------------ MODULE MCProxy ------------------------------
(* An oblast (1) and a raion in it (2), which the device watches.  There is a  *)
(* yellow alert in the oblast; it turns red or ends, and another type begins.  *)
EXTENDS Proxy, TLC

MCParent == (1 :> 0) @@ (2 :> 1)
MCCatalog ==
  {[uid |-> 1, oblast |-> 0, raion |-> 0], [uid |-> 2, oblast |-> 1, raion |-> 0]}
MCTypes == {"AIR", "ARTILLERY"}
MCLevels == {{"Yellow"}, {"Red"}, {"Yellow", "Red"}}
MCBegin == {[region |-> 1, type |-> "AIR", levels |-> {"Yellow"}]}
MCEvents ==
  {[region |-> 1, type |-> "AIR", levels |-> {"Yellow", "Red"}],
   [region |-> 1, type |-> "AIR", levels |-> {}],
   [region |-> 1, type |-> "ARTILLERY", levels |-> {"Red"}]}
MCIds == {2}
=============================================================================
