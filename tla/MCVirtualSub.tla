---------------------------- MODULE MCVirtualSub ----------------------------
(* Constants of the TLC models of VirtualSub. *)
EXTENDS VirtualSub

CONSTANTS t1, t2, t3

\* Two loops share one handle, a third has its own.
MCHandle == [t \in Thread |-> IF t = t3 THEN 2 ELSE 1]

=============================================================================
