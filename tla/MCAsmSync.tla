------------------------------ MODULE MCAsmSync ------------------------------
(* Values of AsmSync's constants for TLC that a cfg cannot express. *)
EXTENDS AsmSync

\* Three bytes stand for the four of 1ACFFC1D; like those they have no border.
MCMarker == <<1, 2, 2>>
=============================================================================
