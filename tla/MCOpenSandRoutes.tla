-------------------------- MODULE MCOpenSandRoutes --------------------------
(***************************************************************************)
(* Instances of the route manager for TLC: a gateway "gw0" of instance    *)
(* "0" and two terminals "st1" and "st2" whose names carry terminal ids.  *)
(***************************************************************************)
EXTENDS OpenSandRoutes, TLC

MCHosts == {"gw0", "st1", "st2"}
MCHostId == "gw0" :> "0" @@ "st1" :> "1" @@ "st2" :> "2"

\* topology.conf with one gateway "0" serving terminals 1 and 2.
OneSpot == [tal |-> "0" :> "0" @@ "1" :> "0" @@ "2" :> "0", dflt |-> "0"]

\* Two gateways: terminal 1 behind gateway 0, terminal 2 behind gateway 3.
TwoSpots == [tal |-> "0" :> "0" @@ "1" :> "0" @@ "3" :> "3" @@ "2" :> "3",
             dflt |-> "0"]

\* The same spot after a DEPLOY that drops terminal 2 from the table: it
\* is then served by the default gateway, which is gateway 0.
ByDefault == [tal |-> "0" :> "0" @@ "1" :> "0", dflt |-> "0"]

MCOneSpot == {OneSpot}
MCRedeployed == {OneSpot, ByDefault}
MCTwoSpots == {TwoSpots}
\* One spot, and a DEPLOY that installs a topology with no gw_table.
MCOneSpotNoGw == {OneSpot, NoGwIds}

=============================================================================
