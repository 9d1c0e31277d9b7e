---------------------- MODULE MCOpenSpacePathPartition ----------------------
(***************************************************************************)
(* The routes of the path partition that TLC checks: one that begins       *)
(* forward and turns into the lot in reverse, and one that only backs in.  *)
(***************************************************************************)
EXTENDS OpenSpacePathPartition

MCRoutes == {<<[points |-> 3, gear |-> "D"], [points |-> 2, gear |-> "R"]>>,
             <<[points |-> 2, gear |-> "R"]>>}

=============================================================================
