------------------------- MODULE MCAdvancedDialog -------------------------
(***************************************************************************)
(* The advanced window of a platform with a gateway and a terminal.      *)
(***************************************************************************)
EXTENDS AdvancedDialog, TLC

MCHosts == {"gw0", "st1"}
MCInitHosts == {"gw0", "st1"}

=============================================================================
