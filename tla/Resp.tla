-------------------------------- MODULE Resp --------------------------------
(***************************************************************************)
(* src/src/resp.rs: the request parser and the encoding of replies.        *)
(*                                                                         *)
(* A byte is a symbol; a decimal number is one symbol as well, since the   *)
(* parser looks at no digit before the end of its line has come.  White    *)
(* space is " " and, in inline commands, a \r that does not end the line.  *)
(***************************************************************************)
EXTENDS Integers, SequencesExt

Numbers == [s \in {"-1", "0", "1", "2", "3"} |->
               CASE s = "-1" -> -1 [] s = "0" -> 0 [] s = "1" -> 1 [] s = "2" -> 2 [] s = "3" -> 3]

-----------------------------------------------------------------------------
(* Parsing.  A result is complete, incomplete or a protocol error; pos is   *)
(* how much of the buffer it has used.                                      *)

Parsed(args, pos) == [kind |-> "ok", args |-> args, pos |-> pos]
Incomplete == [kind |-> "incomplete", args |-> <<>>, pos |-> 0]
Protocol == [kind |-> "protocol", args |-> <<>>, pos |-> 0]

\* The next line feed at or after start, 0 when there is none.
find_newline(buf, start) == SelectInSubSeq(buf, start, Len(buf), LAMBDA b : b = "\n")

trim_cr(line) == IF line # <<>> /\ Last(line) = "\r" THEN Front(line) ELSE line

IsNumber(text) == Len(text) = 1 /\ text[1] \in DOMAIN Numbers

\* Fault: the line end after a payload is checked and left in the buffer.
bulk_string_unended(buf, p) ==
    LET nl == find_newline(buf, p.pos + 1)
        text == trim_cr(SubSeq(buf, p.pos + 2, nl - 1))
        len == Numbers[text[1]]
        end == nl + len + 2
    IN  IF p.pos >= Len(buf) \/ nl = 0 THEN Incomplete
        ELSE IF buf[p.pos + 1] # "$" \/ ~IsNumber(text) THEN Protocol
        ELSE IF len < 0 THEN Parsed(Append(p.args, <<>>), nl)
        ELSE IF Len(buf) < end THEN Incomplete
        ELSE IF SubSeq(buf, end - 1, end) # <<"\r", "\n">> THEN Protocol
        ELSE Parsed(Append(p.args, SubSeq(buf, nl + 1, nl + len)), nl + len)

\* One argument of an array, after the ones in p.  A negative length is an empty
\* argument; a payload may hold anything, line ends and markers included.
bulk_string(buf, p) ==
    LET nl == find_newline(buf, p.pos + 1)
        text == trim_cr(SubSeq(buf, p.pos + 2, nl - 1))
        len == Numbers[text[1]]
        end == nl + len + 2
    IN  IF p.pos >= Len(buf) THEN Incomplete
        ELSE IF buf[p.pos + 1] # "$" THEN Protocol
        ELSE IF nl = 0 THEN Incomplete
        ELSE IF ~IsNumber(text) THEN Protocol
        ELSE IF len < 0 THEN Parsed(Append(p.args, <<>>), nl)
        ELSE IF Len(buf) < end THEN Incomplete
        ELSE IF SubSeq(buf, end - 1, end) # <<"\r", "\n">> THEN Protocol
        ELSE Parsed(Append(p.args, SubSeq(buf, nl + 1, nl + len)), end)

parse_array(buf) ==
    LET nl == find_newline(buf, 1)
        text == trim_cr(SubSeq(buf, 2, nl - 1))
        after[n \in 0 .. Numbers[text[1]]] ==
            IF n = 0 THEN Parsed(<<>>, nl)
            ELSE LET p == after[n - 1]
                 IN  IF p.kind = "ok" THEN bulk_string(buf, p) ELSE p
    IN  IF nl = 0 THEN Incomplete
        ELSE IF ~IsNumber(text) THEN Protocol
        ELSE IF Numbers[text[1]] <= 0 THEN Parsed(<<>>, nl)
        ELSE after[Numbers[text[1]]]

Whitespace == {" ", "\r"}

\* "\\n" and "\\r" stand for line ends; any other escaped byte for itself.
Unescaped(b) == CASE b = "n" -> "\n" [] b = "r" -> "\r" [] OTHER -> b

\* split_inline byte by byte: mode says what surrounds the byte at i, escaped
\* that the byte before it was a backslash that counts.
Splitting(line, s, i) ==
    LET b == line[i]
        more == i < Len(line)
        Add(x) == [s EXCEPT !.cur = Append(@, x), !.escaped = FALSE]
        Close == [s EXCEPT !.mode = "gap", !.args = Append(@, s.cur), !.cur = <<>>]
    IN  CASE s.mode = "gap" /\ b \in Whitespace -> s
          [] s.mode = "gap" /\ b = "\"" -> [s EXCEPT !.mode = "double"]
          [] s.mode = "gap" /\ b = "'" -> [s EXCEPT !.mode = "single"]
          [] s.mode = "gap" /\ b \notin Whitespace \cup {"\"", "'"} -> [Add(b) EXCEPT !.mode = "word"]
          [] s.mode = "word" /\ b \in Whitespace -> Close
          [] s.mode = "word" /\ b \notin Whitespace -> Add(b)
          [] s.mode = "double" /\ s.escaped -> Add(Unescaped(b))
          [] s.mode = "double" /\ ~s.escaped /\ b = "\"" -> Close
          [] s.mode = "double" /\ ~s.escaped /\ b = "\\" /\ more -> [s EXCEPT !.escaped = TRUE]
          [] s.mode = "single" /\ s.escaped -> Add(b)
          [] s.mode = "single" /\ ~s.escaped /\ b = "'" -> Close
          [] s.mode = "single" /\ ~s.escaped /\ b = "\\" /\ more /\ line[i + 1] = "'" ->
                [s EXCEPT !.escaped = TRUE]
          [] OTHER -> Add(b)

split_inline(line) ==
    LET after[i \in 0 .. Len(line)] ==
            IF i = 0 THEN [mode |-> "gap", args |-> <<>>, cur |-> <<>>, escaped |-> FALSE]
            ELSE LET s == after[i - 1] IN Splitting(line, s, i)
        end == after[Len(line)]
    IN  CASE end.mode = "gap" -> Parsed(end.args, 0)
          [] end.mode = "word" -> Parsed(Append(end.args, end.cur), 0)
          [] OTHER -> Protocol

parse_inline(buf) ==
    LET nl == find_newline(buf, 1)
        split == split_inline(trim_cr(SubSeq(buf, 1, nl - 1)))
    IN  IF nl = 0 THEN Incomplete
        ELSE IF split.kind = "ok" THEN [split EXCEPT !.pos = nl]
        ELSE split

\* The caller advances the buffer by pos: nothing goes unless all of it is there.
parse_command(buf) ==
    IF buf = <<>> THEN Incomplete
    ELSE IF buf[1] = "*" THEN parse_array(buf)
    ELSE parse_inline(buf)

-----------------------------------------------------------------------------
(* Encoding.  A token is what the peer reads at a time: the header of an    *)
(* aggregate with the number it announces, or a scalar (line or bulk).      *)

Header(marker, n) == [marker |-> marker, count |-> n]
Scalar(marker) == [marker |-> marker, count |-> 0]

Simple == [type |-> "simple", items |-> <<>>]
ErrorFrame == [type |-> "error", items |-> <<>>]
BulkFrame == [type |-> "bulk", items |-> <<>>]
NullFrame == [type |-> "null", items |-> <<>>]
NullArrayFrame == [type |-> "nullarray", items |-> <<>>]
DoubleFrame == [type |-> "double", items |-> <<>>]
Aggregate(type, items) == [type |-> type, items |-> items]

Scalars == {"simple", "error", "int", "bulk", "null", "nullarray", "double"}

\* Double is a bulk in RESP2; both nulls are one token in RESP3, and in RESP2
\* "$-1" and "*-1".
encode_scalar(f, resp3) ==
    <<Scalar(CASE f.type = "simple" -> "+"
               [] f.type = "error" -> "-"
               [] f.type = "int" -> ":"
               [] f.type = "bulk" -> "$"
               [] f.type = "double" -> IF resp3 THEN "," ELSE "$"
               [] f.type = "null" -> IF resp3 THEN "_" ELSE "$-1"
               [] f.type = "nullarray" -> IF resp3 THEN "_" ELSE "*-1")>>

\* Items are frames, or pairs of frames for map, pairs and xread.
encode_aggregate(Enc(_, _), f, resp3) ==
    LET n == Len(f.items)
        Flat(s) == FlattenSeq([i \in DOMAIN s |-> Enc(s[i], resp3)])
        Side == FlattenSeq([i \in 1 .. n |-> Flat(f.items[i])])
        Nested == FlattenSeq([i \in 1 .. n |-> <<Header("*", 2)>> \o Flat(f.items[i])])
    IN  CASE f.type = "array" -> <<Header("*", n)>> \o Flat(f.items)
          [] f.type = "set" -> <<Header(IF resp3 THEN "~" ELSE "*", n)>> \o Flat(f.items)
          [] f.type = "push" -> <<Header(IF resp3 THEN ">" ELSE "*", n)>> \o Flat(f.items)
          [] f.type = "map" -> <<IF resp3 THEN Header("%", n) ELSE Header("*", 2 * n)>> \o Side
          [] f.type = "pairs" -> IF resp3 THEN <<Header("*", n)>> \o Nested
                                          ELSE <<Header("*", 2 * n)>> \o Side
          [] f.type = "xread" -> IF resp3 THEN <<Header("%", n)>> \o Side
                                          ELSE <<Header("*", n)>> \o Nested

\* encode() calls itself for the items; replies are at most three deep here.
encode(f, resp3) ==
    LET E1(g, r) == encode_scalar(g, r)
        E2(g, r) == IF g.type \in Scalars THEN encode_scalar(g, r) ELSE encode_aggregate(E1, g, r)
    IN  IF f.type \in Scalars THEN encode_scalar(f, resp3) ELSE encode_aggregate(E2, f, resp3)

=============================================================================
