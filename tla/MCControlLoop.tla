--------------------------- MODULE MCControlLoop ---------------------------
(* COMs on both edges of the dead zone and at both edges of the image.       *)
EXTENDS ControlLoop

MCComs == {-239, -50, 49, 50, 239}
=============================================================================
