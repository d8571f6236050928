--------------------------- MODULE MCControlPlane ---------------------------
(* Instances of ControlPlane for TLC.                                       *)
EXTENDS ControlPlane

\* One sequence of one exposure, one of two.
ShortSequences == <<2, 1>>
OneExposure == <<1>>
TwoExposures == <<2>>
TwoSingles == <<1, 1>>

\* A polarimetric and a spectroscopic sequence.
TwoModes == <<"SPECTRAL", "POL_V">>
OneMode == <<"SPECTRAL">>
=============================================================================
