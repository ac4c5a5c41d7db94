-------------------------- MODULE MCScenarioPersist --------------------------
(***************************************************************************)
(* Two slots and a short queue, so that it fills up.                       *)
(***************************************************************************)
EXTENDS ScenarioPersist

NoFaults    == {}
QuickDrain  == {"nvs_error", "power_loss"}
DeadDrain   == {"stall", "nvs_error"}

=============================================================================
