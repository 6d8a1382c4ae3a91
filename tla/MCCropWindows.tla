--------------------------- MODULE MCCropWindows ---------------------------
\* Instances of CropWindows for TLC.
EXTENDS CropWindows
CONSTANTS c1, c2
OneName == {c1}
TwoNames == {c1, c2}
=============================================================================
