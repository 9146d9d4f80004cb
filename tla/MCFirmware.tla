----------------------------- MODULE MCFirmware -----------------------------
(* A small sensor node for TLC.                                              *)
EXTENDS Firmware
=============================================================================
