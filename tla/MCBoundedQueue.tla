--------------------------- MODULE MCBoundedQueue ---------------------------
(***************************************************************************)
(* Small instances of the queue: the ring wraps round, and more tasks want *)
(* to push or to pop than there are slots or items.                        *)
(***************************************************************************)
EXTENDS BoundedQueue

CONSTANTS p1, p2, c1, c2, x1, x2
=============================================================================
