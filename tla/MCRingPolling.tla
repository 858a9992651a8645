---------------------------- MODULE MCRingPolling ----------------------------
(* The polling loop on a small ring.  The configurations differ in the     *)
(* number of CPUs that fill slots: two can complete slots out of order,    *)
(* one cannot.                                                             *)
EXTENDS RingPolling
=============================================================================
