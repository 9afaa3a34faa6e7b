---------------------------- MODULE MCTrainState ----------------------------
(* Small instances of TrainState for TLC. *)
EXTENDS TrainState

MCDist == <<0, 30, 54>>
MCTime == <<70, 80, 0>>
MCSpeeds == {0, 7}

At(s, jump) == [id |-> s, dis |-> Dist[s], jump |-> jump]
MCPlans ==
  {[direction |-> "down", stops |-> <<At(1, FALSE), At(2, TRUE), At(3, FALSE)>>],
   [direction |-> "up", stops |-> <<At(1, FALSE), At(2, FALSE)>>]}
=============================================================================
