--------------------------- MODULE MCStagedRollout --------------------------
(***************************************************************************)
(* TLC instance of StagedRollout: stage lists that are cumulative, that    *)
(* stop short of 100, that exceed it, that repeat, that fall, and that go  *)
(* below zero; device lists of several lengths, and lists that name a      *)
(* device twice, side by side and in different batches.                    *)
(***************************************************************************)
EXTENDS StagedRollout

MCDevices == 1 .. 7
MCDeviceLists ==
  {[i \in 1 .. n |-> i] : n \in {0, 1, 2, 3, 7}} \cup {<<1, 2, 1>>, <<2, 2>>}
MCStageLists ==
  {<<100>>, <<10, 50, 100>>, <<30, 60>>, <<0, 34, 34, 150>>, <<50, 20, 100>>,
   <<100, 40>>,
   <<-40, 20, 100>>, <<>>}
=============================================================================
