---------------------------- MODULE MCGamepadSlot ----------------------------
(* The bounds are in GamepadSlot.cfg.                                       *)
EXTENDS GamepadSlot
=============================================================================
