--------------------------- MODULE MCSourceAdmission ---------------------------
(* SourceAdmission for TLC: four events in every mix, over every choice of the *)
(* user and two log folders.                                                   *)
EXTENDS SourceAdmission

Switches == {TRUE, FALSE}
================================================================================
