------------------------------ MODULE Delivery ------------------------------
(***************************************************************************)
(* What a subscription promises the PHP program that polls it, without a   *)
(* word about threads, locks or wake-ups: messages arrive, in an order     *)
(* that is never changed, and leave from the oldest on.  A poll takes the  *)
(* oldest ones that wait; an arrival may push out the oldest one, which is *)
(* counted as lost.  Messages are their arrival numbers.                   *)
(***************************************************************************)
EXTENDS Integers

VARIABLES
    arrived,    \* how many messages have arrived
    left,       \* how many of them wait no longer
    delivered,  \* those a poll has returned
    lost        \* those an overflow has dropped

deliveryVars == <<arrived, left, delivered, lost>>

DeliveryInit == arrived = 0 /\ left = 0 /\ delivered = {} /\ lost = {}

Arrive ==
    /\ arrived' = arrived + 1
    /\ UNCHANGED <<left, delivered, lost>>

ArriveAtLimit ==
    /\ left < arrived
    /\ arrived' = arrived + 1
    /\ left' = left + 1
    /\ lost' = lost \cup {left + 1}
    /\ UNCHANGED delivered

Deliver(k) ==
    /\ left + k <= arrived
    /\ left' = left + k
    /\ delivered' = delivered \cup (left + 1 .. left + k)
    /\ UNCHANGED <<arrived, lost>>

DeliveryNext == Arrive \/ ArriveAtLimit \/ \E k \in 1 .. arrived - left : Deliver(k)

DeliverySpec == DeliveryInit /\ [][DeliveryNext]_deliveryVars

=============================================================================
