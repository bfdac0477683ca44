------------------------- MODULE MCCommandHandler -------------------------
(***************************************************************************)
(* The command server of gateway "gw0" (instance "0") with two terminals  *)
(* "st1" and "st2" in its spot, for TLC.                                  *)
(***************************************************************************)
EXTENDS CommandHandler, TLC

MCHosts == {"gw0", "st1", "st2"}
MCHostId == "gw0" :> "0" @@ "st1" :> "1" @@ "st2" :> "2"

\* topology.conf: one gateway "0" serving terminals 1 and 2.
OneSpot == [tal |-> "0" :> "0" @@ "1" :> "0" @@ "2" :> "0", dflt |-> "0"]
MCOneSpot == {OneSpot}
\* The same, and a DEPLOY that installs a topology with no gw_table: the
\* value OpenSandRoutes names NoGwIds, written out so that the constant
\* TOPOLOGIES does not depend on the instance it parameterises.
NoGwTable == [tal |-> [id \in {} |-> "none"], dflt |-> "none"]
MCOneSpotNoGw == {OneSpot, NoGwTable}

\* Every command the manager sends and a line it does not know; the
\* commands a reply may be missing for: START, STOP and the unknown line.
MCLines == {"DEPLOY", "CONFIGURE", "START", "STOP", "TEST", "RESTART"}
MCNoReply == {"START", "STOP", "RESTART"}

=============================================================================
