--------------------------- MODULE MCRingNoPolling ---------------------------
(* The loop without poll(), on a small ring that two CPUs fill out of      *)
(* order.                                                                  *)
EXTENDS RingNoPolling
=============================================================================
