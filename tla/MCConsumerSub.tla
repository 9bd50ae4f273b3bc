--------------------------- MODULE MCConsumerSub ---------------------------
(* Constants of the TLC models of ConsumerSub. *)
EXTENDS ConsumerSub

\* Small messages, which overrun the buffer by their number.
MCLogSize == [t \in Partition |-> <<1, 1, 2, 1>>]

\* A small message and then a larger one: with two bytes of room the small one
\* fits twice (a seek reads it again), and the larger one overruns the buffer
\* by bytes when the small one is still there.
GrowingLogSize == [t \in Partition |-> <<1, 2>>]

\* Either all partitions are assigned or, during a rebalance, none.
AllPartitions == {Partition}

============================================================================
