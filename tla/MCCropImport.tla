--------------------------- MODULE MCCropImport ---------------------------
\* An instance of CropImport for TLC.
EXTENDS CropImport
CONSTANTS c1
OneName == {c1}
=============================================================================
