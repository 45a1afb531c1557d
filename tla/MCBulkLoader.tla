---------------------------- MODULE MCBulkLoader ----------------------------
(* Instances of BulkLoader for TLC: one to three trajectories, up to eight *)
(* boxes, so up to three leaves and three levels.                          *)
EXTENDS BulkLoader

SmallWorlds ==
  {<< <<0, 1>> >>,
   << <<2>>, <<0>> >>,
   << <<0, 1, 2>>, <<1>> >>,
   << <<5>>, <<0, 1>>, <<3, 9>> >>,
   << <<0, 4>>, <<1, 2, 3>>, <<9>> >>,
   << <<0, 1, 2, 3>>, <<2, 2, 6, 7>> >>}
=============================================================================
