------------------------------ MODULE Payloads ------------------------------
(***************************************************************************)
(* The payloads of the IPC protocol (proto/src): for every payload what    *)
(* its encode() writes and, separately, what its decode() checks and       *)
(* reads, as sequences of items, with what a buffer is and how encode()    *)
(* and decode() fail.  Codec interprets the items in both directions.      *)
(***************************************************************************)
EXTENDS Integers, Sequences, TLC

\* What is left of a string or list too long for its u16 length: an error.
FieldTooLarge == <<0, -1, 0>>

\* encode() has failed.
Failed(bytes) == \E i \in DOMAIN bytes : bytes[i] = FieldTooLarge

\* A decoder: the bytes left, what has been read, "" or an error.  "panic" is
\* a get_uN past the end, "garbled" one across the fields that were written.
Decoder(bytes) == [buf |-> bytes, out |-> <<>>, err |-> ""]

----------------------------------------------------------------------------
(* Items                                                                   *)

U(w) == [k |-> "int", w |-> w]             \* put_uN / get_uN, unchecked
Str16 == [k |-> "str", w |-> 2]            \* write_str_u16 / read_str_u16
Bytes32 == [k |-> "str", w |-> 4]          \* write_bytes_u32 / read_bytes_u32
List(w, of) == [k |-> "list", w |-> w, of |-> of]   \* count and elements
Alt(of) == [k |-> "alt", of |-> of]        \* a tag byte selects the rest
Op(max) == [k |-> "op", max |-> max]       \* from_u8 of an enumeration
Kind == [k |-> "kind"]                     \* ErrorKind::from_u16
Flag == [k |-> "flag"]                     \* get_u8() != 0
Need(n) == [k |-> "need", n |-> n]         \* remaining() < n is Truncated

----------------------------------------------------------------------------
(* Payloads: <X>_out is what encode() of X writes, <X>_in what decode()    *)
(* checks and reads.                                                       *)

Pairs == <<Str16, Str16>>
TopicPartition_out == <<Str16, U(4)>>
TopicPartition_in  == <<Str16, Need(4), U(4)>>
Offset_out == <<Str16, U(4), U(8)>>
Offset_in  == <<Str16, Need(12), U(4), U(8)>>
Headers_out == <<List(4, <<Str16, Bytes32>>)>>
Headers_in  == <<Need(4), List(4, <<Str16, Bytes32>>)>>

Hello_out == <<U(1)>>
Hello_in  == <<Need(1), U(1)>>

Produce_out == <<Str16, Str16, Bytes32, Bytes32, U(4), U(8)>> \o Headers_out

\* Mutant: the check before partition and timestamp covers the partition only.
Produce_in_ShortCheck ==
    <<Str16, Str16, Bytes32, Bytes32, Need(4), U(4), U(8)>> \o Headers_in

Produce_in  == <<Str16, Str16, Bytes32, Bytes32, Need(12), U(4), U(8)>> \o Headers_in

ProduceResp_out == <<Alt(0 :> <<U(4), U(8)>> @@ 1 :> <<U(2), Str16, Flag>>)>>
ProduceResp_in  == <<Need(1), Alt(0 :> <<Need(12), U(4), U(8)>>
                                  @@ 1 :> <<Need(2), U(2), Str16, Need(1), Flag>>)>>

Subscribe_out == <<Str16, Str16, List(2, <<Str16>>), List(2, Pairs)>>
Subscribe_in  == <<Str16, Str16, Need(2), List(2, <<Str16>>), Need(2), List(2, Pairs)>>

SubscribeResp_out == <<Alt(0 :> <<U(8)>> @@ 1 :> <<Str16>>)>>
SubscribeResp_in  == <<Need(1), Alt(0 :> <<Need(8), U(8)>> @@ 1 :> <<Str16>>)>>

Poll_out == <<U(8), U(4), U(4)>>
Poll_in  == <<Need(16), U(8), U(4), U(4)>>

Message_out == <<Str16, U(4), U(8), U(8), Bytes32, Bytes32>> \o Headers_out
Message_in  == <<Str16, Need(20), U(4), U(8), U(8), Bytes32, Bytes32>> \o Headers_in

PollResp_out == <<Alt(0 :> <<List(4, Message_out)>> @@ 1 :> <<Str16>>)>>
PollResp_in  == <<Need(1), Alt(0 :> <<Need(4), List(4, Message_in)>> @@ 1 :> <<Str16>>)>>

\* CommitReq and UnsubscribeReq.
Sub_out == <<U(8)>>
Sub_in  == <<Need(8), U(8)>>

\* The responses without a result: Commit, RegisterCluster, Txn, Seek,
\* SendOffsets, PauseResume, SetOAuthBearerToken.
Status_out == <<Alt(0 :> <<>> @@ 1 :> <<Str16>>)>>
Status_in  == <<Need(1), Alt(0 :> <<>> @@ 1 :> <<Str16>>)>>

Register_out == <<Str16, List(2, Pairs)>>
Register_in  == <<Str16, Need(2), List(2, Pairs)>>

Txn_out == <<Str16, Op(2)>>
Txn_in  == <<Str16, Need(1), Op(2)>>

PollRebalance_out == <<U(8), U(4)>>
PollRebalance_in  == <<Need(12), U(8), U(4)>>

Event_out == <<Alt([tag \in 0 .. 1 |-> <<List(4, TopicPartition_out)>>] @@ 2 :> <<Str16>>)>>
Event_in  == <<Need(1), Alt([tag \in 0 .. 1 |-> <<Need(4), List(4, TopicPartition_in)>>]
                            @@ 2 :> <<Str16>>)>>

RebalanceResp_out == <<Alt(0 :> <<List(4, Event_out)>> @@ 1 :> <<Str16>>)>>
RebalanceResp_in  == <<Need(1), Alt(0 :> <<Need(4), List(4, Event_in)>> @@ 1 :> <<Str16>>)>>

Seek_out == <<U(8), Alt(0 :> <<List(4, Offset_out)>>
                        @@ 1 :> <<U(8), List(4, TopicPartition_out)>>)>>
Seek_in  == <<Need(9), U(8), Alt(0 :> <<Need(4), List(4, Offset_in)>>
                                 @@ 1 :> <<Need(12), U(8), List(4, TopicPartition_in)>>)>>

SendOffsets_out == <<Str16, U(8), Str16, List(4, Offset_out)>>
SendOffsets_in  == <<Str16, Need(8), U(8), Str16, Need(4), List(4, Offset_in)>>

PauseResume_out == <<U(8), Op(1), List(4, TopicPartition_out)>>
PauseResume_in  == <<Need(9), U(8), Op(1), Need(4), List(4, TopicPartition_in)>>

OAuth_out == <<Str16, Bytes32, U(8), Str16, List(4, Pairs)>>
OAuth_in  == <<Str16, Bytes32, Need(8), U(8), Str16, Need(4), List(4, Pairs)>>

Error_out == <<Kind, Flag, U(4), Str16>>
Error_in  == <<Need(7), Kind, Flag, U(4), Str16>>

==============================================================================
