------------------------ MODULE MCValetParkingComponent ------------------------
(* A small instance: a parking command with a reset.                       *)
EXTENDS ValetParkingComponent

PublishedCommands == {[mode |-> "in", reset_history |-> TRUE]}

NoPublishedCommands == {}

=============================================================================
