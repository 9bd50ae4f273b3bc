------------------------------- MODULE MCWire -------------------------------
(* Requests and batches of the TLC model of Wire. *)
EXTENDS Wire, Codec

C1 == <<1>>
C2 == <<2>>
T == <<3>>
Tp == << <<T, 0>> >>
Offsets == << <<T, 0, 5>>, <<T, 1, 6>> >>

Msg(value) == <<C1, T, <<>>, value, -1, 8, << << <<4>>, <<6>> >> >> >>
Req(op, vals) == [op |-> op, vals |-> vals]

MCSample == {
    Req("produce_fnf", Msg(<<5>>)),
    Req("produce_sync", Msg(<<5, 5>>)),
    Req("produce_sync", Msg([i \in 1 .. 20 |-> 5])),    \* over PRODUCE_MAX
    Req("produce_sync", Msg([i \in 1 .. 60 |-> 5])),    \* over MAX_PAYLOAD_LEN
    Req("subscribe", <<C1, <<9>>, << <<T>> >>, << << <<7>>, <<8>> >> >> >>),
    Req("subscribe", <<C2, <<9>>, << <<T>>, <<T>>, <<T>>, <<T>>, <<T>> >>, <<>> >>),  \* u16
    Req("poll", <<1, 10, 0>>),
    Req("commit", <<1>>),
    Req("unsubscribe", <<1>>),
    Req("register_cluster", <<C1, << << <<7>>, <<8>> >> >> >>),
    Req("register_cluster", <<C2, << << <<8>>, <<8>> >> >> >>),
    Req("register_cluster", <<[i \in 1 .. 5 |-> 1], <<>> >>),            \* u16
    Req("txn", <<C1, 2>>),
    Req("poll_rebalance", <<1, 4>>),
    Req("seek", <<1, <<0, <<Offsets>> >> >>),
    Req("seek", <<1, <<1, <<77, Tp>> >> >>),
    Req("send_offsets", <<C1, 1, <<9>>, << <<T, 0, 5>> >> >>),
    Req("pause_resume", <<1, 1, Tp>>),
    Req("set_oauth", <<C1, <<6, 6>>, 99, <<8>>, << << <<7>>, <<8>> >> >> >>)}

Message(value) == <<T, 0, 5, 8, <<>>, value, <<>> >>

\* The last one is over MAX_PAYLOAD_LEN.
MCBatch == {<<>>, <<Message(<<5>>)>>, <<Message([i \in 1 .. 60 |-> 5])>>}

MCBootstrap == <<7>>

=============================================================================
