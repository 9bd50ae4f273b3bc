-------------------------------- MODULE Codec --------------------------------
(***************************************************************************)
(* encode() and decode() of every payload (proto/src): one interpreter of  *)
(* the items of Payloads for each direction.                               *)
(*                                                                         *)
(* A buffer is a sequence of bytes.  What an integer's bytes are is left   *)
(* out, which field they belong to is not: a byte is <<value, place,       *)
(* width>>, so that an integer read where none of that width was written   *)
(* is seen.  A character is a byte of place 0.                             *)
(***************************************************************************)
EXTENDS Payloads, SequencesExt

CONSTANTS
    StrMax       \* u16::MAX, the longest string and list with a u16 length

ASSUME StrAssumption == StrMax \in Nat

Put(v, w) == [i \in 1 .. w |-> <<v, i, w>>]

Chars(s) == [i \in DOMAIN s |-> <<s[i], 0, 1>>]

RECURSIVE EncodeItem(_, _)

\* The values, one for each item, written one after the other.
Encode(items, vals) ==
    FlattenSeq([i \in DOMAIN items |-> EncodeItem(items[i], vals[i])])

EncodeItem(it, v) ==
    CASE it.k = "int" -> Put(v, it.w)
      [] it.k = "str" -> IF it.w = 2 /\ Len(v) > StrMax THEN <<FieldTooLarge>>
                         ELSE Put(Len(v), it.w) \o Chars(v)
      [] it.k = "list" -> IF it.w = 2 /\ Len(v) > StrMax THEN <<FieldTooLarge>>
                          ELSE Put(Len(v), it.w) \o
                               FlattenSeq([i \in DOMAIN v |-> Encode(it.of, v[i])])
      [] it.k = "alt" -> Put(v[1], 1) \o Encode(it.of[v[1]], v[2])
      [] it.k \in {"op", "flag"} -> Put(v, 1)
      [] it.k = "kind" -> Put(v, 2)

Fail(st, e) == [st EXCEPT !.err = e]

Read(st, v, n) == [buf |-> SubSeq(st.buf, n + 1, Len(st.buf)),
                   out |-> Append(st.out, v), err |-> ""]

IntAt(buf, w) ==
    /\ \A i \in 1 .. w : buf[i][2] = i /\ buf[i][3] = w /\ buf[i][1] = buf[1][1]

ReadInt(st, w) ==
    IF Len(st.buf) < w THEN Fail(st, "panic")
    ELSE IF ~IntAt(st.buf, w) THEN Fail(st, "garbled")
    ELSE Read(st, st.buf[1][1], w)

ReadStr(st, w) ==
    IF Len(st.buf) < w THEN Fail(st, "Truncated")
    ELSE LET s == ReadInt(st, w) IN
         IF s.err # "" THEN s
         ELSE LET n == Last(s.out) IN
              IF Len(s.buf) < n THEN Fail(st, "Truncated")
              ELSE IF \E i \in 1 .. n : s.buf[i][2] # 0 THEN Fail(st, "garbled")
              ELSE Read([s EXCEPT !.out = st.out], [i \in 1 .. n |-> s.buf[i][1]], n)

RECURSIVE Decode(_, _)

\* n elements of a list.
RECURSIVE ReadList(_, _, _)
ReadList(of, n, st) ==
    IF n = 0 \/ st.err # "" THEN st
    ELSE LET e == Decode(of, [st EXCEPT !.out = <<>>]) IN
         ReadList(of, n - 1, [e EXCEPT !.out = Append(st.out, e.out)])

ReadItem(st, it) ==
    CASE it.k = "need" -> IF Len(st.buf) < it.n THEN Fail(st, "Truncated") ELSE st
      [] it.k = "int" -> ReadInt(st, it.w)
      [] it.k = "str" -> ReadStr(st, it.w)
      [] it.k = "list" ->
           LET s == ReadInt(st, it.w) IN
           IF s.err # "" THEN s
           ELSE LET l == ReadList(it.of, Last(s.out), [s EXCEPT !.out = <<>>])
                IN  [l EXCEPT !.out = Append(st.out, l.out)]
      [] it.k = "alt" ->
           LET s == ReadInt(st, 1) IN
           IF s.err # "" THEN s
           ELSE LET tag == Last(s.out) IN
                IF tag \notin DOMAIN it.of THEN Fail(st, "InvalidTag")
                ELSE LET r == Decode(it.of[tag], [s EXCEPT !.out = <<>>])
                     IN  [r EXCEPT !.out = Append(st.out, <<tag, r.out>>)]
      [] it.k = "op" ->
           LET s == ReadInt(st, 1) IN
           IF s.err = "" /\ Last(s.out) > it.max THEN Fail(st, "InvalidTag") ELSE s
      [] it.k = "flag" ->
           LET s == ReadInt(st, 1) IN
           IF s.err # "" THEN s
           ELSE [s EXCEPT !.out = Append(st.out, IF Last(s.out) = 0 THEN 0 ELSE 1)]
      [] it.k = "kind" ->
           LET s == ReadInt(st, 2) IN
           IF s.err # "" THEN s
           ELSE [s EXCEPT !.out = Append(st.out, IF Last(s.out) \in 1 .. 14 THEN Last(s.out)
                                                 ELSE 0)]

\* The items in turn, up to the first error; bytes that are left are ignored.
Decode(items, st) ==
    IF items = <<>> \/ st.err # "" THEN st
    ELSE Decode(Tail(items), ReadItem(st, Head(items)))

==============================================================================
