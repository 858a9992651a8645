--------------------------- MODULE MCCaptureSetup ---------------------------
(* The setup of a capture while frames arrive on two interfaces.  The      *)
(* configurations differ in the functions they run.                        *)
EXTENDS CaptureSetup
=============================================================================
