---------------------------- MODULE CaptureQueue ----------------------------
(***************************************************************************)
(* What a capture path promises, whatever it is built from: a FIFO of at   *)
(* most Capacity frames between the kernel and ProcessPacket.  Frames are  *)
(* numbered 1, 2, ... in the order in which the kernel accepts them.       *)
(* Every accepted frame is handed over at most once and in that order; a   *)
(* frame is lost only while every place is taken.  The frame in hand still *)
(* takes a place when it is processed inside the buffer (a ring slot), and *)
(* takes none when it was copied out first (recvfrom).                     *)
(***************************************************************************)
EXTENDS Naturals, Sequences

CONSTANT Capacity    \* places in the buffer

VARIABLES
    queue,      \* accepted frames that were not handled yet
    inHand,     \* is a frame being processed inside its place?
    handled,    \* the frames given to ProcessPacket, in order
    lost        \* frames refused because every place was taken

vars == <<queue, inHand, handled, lost>>

Taken == Len(queue) + (IF inHand THEN 1 ELSE 0)

Init ==
    /\ queue = <<>>
    /\ inHand = FALSE
    /\ handled = <<>>
    /\ lost = 0

Accept ==
    /\ Taken < Capacity
    /\ queue' = Append(queue, Len(handled) + Len(queue) + 1)
    /\ UNCHANGED <<inHand, handled, lost>>

Lose ==
    /\ Taken = Capacity
    /\ lost' = lost + 1
    /\ UNCHANGED <<queue, inHand, handled>>

Handle(keepsPlace) ==
    /\ ~inHand
    /\ queue # <<>>
    /\ handled' = Append(handled, Head(queue))
    /\ queue' = Tail(queue)
    /\ inHand' = keepsPlace
    /\ UNCHANGED lost

FreePlace ==
    /\ inHand
    /\ inHand' = FALSE
    /\ UNCHANGED <<queue, handled, lost>>

Next ==
    \/ Accept
    \/ Lose
    \/ \E keepsPlace \in BOOLEAN : Handle(keepsPlace)
    \/ FreePlace

Spec == Init /\ [][Next]_vars
=============================================================================
