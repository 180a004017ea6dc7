--------------------------- MODULE MC_EventQueue ---------------------------
(* A ring of three cells and two distinguishable events: head and tail     *)
(* wrap, and the queue is full, empty and half-full at every rotation.     *)
EXTENDS EventQueue

CONSTANTS e1, e2

MCItems == {e1, e2}
=============================================================================
