----------------------------- MODULE MCRecvPoll -----------------------------
(* `sniff_packet poll` with a receive buffer of two frames, so that it     *)
(* fills, drops and drains several times.                                  *)
EXTENDS RecvPoll
=============================================================================
