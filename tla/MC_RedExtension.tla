-------------------------- MODULE MC_RedExtension --------------------------
(* Two extension positions, as on the RED Brick, and at most two RS485    *)
(* slaves per configuration, so that both a full slave list and one       *)
(* longer than the array are read.                                         *)
EXTENDS RedExtension
=============================================================================
