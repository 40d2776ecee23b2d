-------------------------------- MODULE Wire --------------------------------
(***************************************************************************)
(* The loop of handle_connection in src/src/main.rs: bytes come in chunks  *)
(* of any size, commands are taken from the buffer one at a time, replies  *)
(* are gathered and written, blocking commands park the connection, and    *)
(* messages published elsewhere are written when it is back at its read.   *)
(*                                                                         *)
(* script is what the peer sends: requests with the bytes it spells them   *)
(* with and the arguments it means.  The runtime has one thread, so other  *)
(* tasks run only while this one awaits; what a command does elsewhere is  *)
(* the subject of the other modules, here it only has replies.             *)
(***************************************************************************)
EXTENDS Resp, FiniteSets

CONSTANTS
    Requests,      \* [bytes, args]: args is Malformed for bytes that are no request
    Malformed,
    Replies,       \* the frame each plain command is answered with, by name
    MaxRequests,   \* bound on requests per connection
    MaxMessages    \* bound on messages published to the connection

VARIABLES
    script,        \* the requests the peer sends
    taken,         \* how many of its bytes have been read
    buf,           \* BytesMut of the connection
    out,           \* replies encoded and not yet written
    wire,          \* what has been written
    phase,         \* where the task is
    closing,       \* the local `close`
    resp3,         \* conn.resp3
    subscribed,    \* conn.channels: what the connection is subscribed to
    inbox,         \* rx: messages waiting to be delivered
    executed,      \* the commands handled so far, or Malformed
    published      \* messages published to this connection so far

vars == <<script, taken, buf, out, wire, phase, closing, resp3, subscribed, inbox, executed, published>>

Bytes(requests) == FlattenSeq([i \in DOMAIN requests |-> requests[i].bytes])

Init ==
    /\ script \in UNION {[1 .. n -> Requests] : n \in 1 .. MaxRequests}
    /\ taken = 0 /\ published = 0
    /\ buf = <<>> /\ out = <<>> /\ wire = <<>> /\ inbox = <<>> /\ executed = <<>>
    /\ phase = "reading"
    /\ closing = FALSE /\ resp3 = FALSE /\ subscribed = {}

-----------------------------------------------------------------------------
(* handle(): which replies a command has.  A packet is an encoded frame.   *)

Packet(source, n, frame, r3) == [source |-> source, n |-> n, tokens |-> encode(frame, r3)]

Name(args) == args[1]

Confirmation == Aggregate("push", <<BulkFrame, BulkFrame, [type |-> "int", items |-> <<>>]>>)

Message == Aggregate("push", <<BulkFrame, BulkFrame, BulkFrame>>)

\* Commands a RESP2 connection may use while it is subscribed.
Refused(args) == subscribed # {} /\ ~resp3 /\ Name(args) \notin {<<"S">>, <<"U">>, <<"Q">>}

\* HELLO 3 (H), SUBSCRIBE (S), UNSUBSCRIBE (U), QUIT (Q) and any other command.
Frames(args) ==
    IF args = <<>> THEN <<>>
    ELSE IF Refused(args) THEN <<ErrorFrame>>
    ELSE IF Name(args) \in {<<"S">>, <<"U">>} THEN [i \in 1 .. Len(args) - 1 |-> Confirmation]
    ELSE IF Name(args) = <<"Q">> THEN <<Simple>>
    ELSE IF Name(args) = <<"H">> THEN <<Aggregate("map", <<<<BulkFrame, BulkFrame>>>>)>>
    ELSE <<Replies[Name(args)]>>

\* BZPOPMIN or XREAD BLOCK (B) that finds nothing.
Blocks(args) == args # <<>> /\ Name(args) = <<"B">> /\ ~Refused(args)

Channels(args) == {args[i] : i \in 2 .. Len(args)}

Named(args, name) == args # <<>> /\ Name(args) = name /\ ~Refused(args)

-----------------------------------------------------------------------------
(* The loop *)

\* stream.read_buf: whatever is there, at least one byte.
Read ==
    /\ phase = "reading"
    /\ \E n \in taken + 1 .. Len(Bytes(script)) :
        /\ buf' = buf \o SubSeq(Bytes(script), taken + 1, n)
        /\ taken' = n
    /\ out' = <<>>
    /\ phase' = "parsing"
    /\ UNCHANGED <<script, wire, closing, resp3, subscribed, inbox, executed, published>>

\* read_buf gives 0: the peer has closed, perhaps in the middle of a request.
Eof ==
    /\ phase = "reading"
    /\ phase' = "closed"
    /\ UNCHANGED <<script, taken, buf, out, wire, closing, resp3, subscribed, inbox, executed, published>>

\* What the buffer begins with.
Upcoming == parse_command(buf)

\* A whole command: it is consumed, handled, and its replies are encoded in the
\* protocol it leaves the connection in.
TakeCommand ==
    LET args == Upcoming.args
        r3 == resp3 \/ Named(args, <<"H">>)
        frames == Frames(args)
    IN  /\ phase = "parsing"
        /\ Upcoming.kind = "ok"
        /\ ~Blocks(args)
        /\ buf' = SubSeq(buf, Upcoming.pos + 1, Len(buf))
        /\ executed' = Append(executed, args)
        /\ out' = out \o [i \in DOMAIN frames |-> Packet("reply", Len(executed) + 1, frames[i], r3)]
        /\ resp3' = r3
        /\ subscribed' = CASE Named(args, <<"S">>) -> subscribed \cup Channels(args)
                           [] Named(args, <<"U">>) -> subscribed \ Channels(args)
                           [] OTHER -> subscribed
        /\ closing' = Named(args, <<"Q">>)
        /\ phase' = IF Named(args, <<"Q">>) THEN "writing" ELSE "parsing"
        /\ UNCHANGED <<script, taken, wire, inbox, published>>


\* Reply::Block: replies gathered so far are written first.
TakeBlocking ==
    /\ phase = "parsing"
    /\ Upcoming.kind = "ok"
    /\ Blocks(Upcoming.args)
    /\ buf' = SubSeq(buf, Upcoming.pos + 1, Len(buf))
    /\ executed' = Append(executed, Upcoming.args)
    /\ phase' = IF out = <<>> THEN "blocked" ELSE "flushing"
    /\ UNCHANGED <<script, taken, out, wire, closing, resp3, subscribed, inbox, published>>

\* ParseError::Protocol: one error, and the connection closes.
ProtocolError ==
    /\ phase = "parsing"
    /\ Upcoming.kind = "protocol"
    /\ executed' = Append(executed, Malformed)
    /\ out' = Append(out, Packet("reply", Len(executed) + 1, ErrorFrame, resp3))
    /\ closing' = TRUE
    /\ phase' = "writing"
    /\ UNCHANGED <<script, taken, buf, wire, resp3, subscribed, inbox, published>>

\* No whole command is left.
NeedMore ==
    /\ phase = "parsing"
    /\ Upcoming.kind = "incomplete"
    /\ phase' = IF out = <<>> THEN "reading" ELSE "writing"
    /\ UNCHANGED <<script, taken, buf, out, wire, closing, resp3, subscribed, inbox, executed, published>>

\* stream.write_all
Write ==
    /\ phase \in {"writing", "flushing"}
    /\ wire' = wire \o out
    /\ out' = <<>>
    /\ phase' = CASE phase = "flushing" -> "blocked"
                  [] closing -> "closed"
                  [] OTHER -> "reading"
    /\ UNCHANGED <<script, taken, buf, closing, resp3, subscribed, inbox, executed, published>>

\* block_until_ready returns, with data or at the deadline.
Unblock ==
    /\ phase = "blocked"
    /\ out' = Append(out, Packet("reply", Len(executed), NullArrayFrame, resp3))
    /\ phase' = "parsing"
    /\ UNCHANGED <<script, taken, buf, wire, closing, resp3, subscribed, inbox, executed, published>>

\* rx.recv: all that waits goes out in one write.
Deliver ==
    /\ phase = "reading"
    /\ inbox # <<>>
    /\ out' = [i \in DOMAIN inbox |-> Packet("message", inbox[i], Message, resp3)]
    /\ inbox' = <<>>
    /\ phase' = "writing"
    /\ UNCHANGED <<script, taken, buf, wire, closing, resp3, subscribed, executed, published>>

\* `read?` or a `write_all(..).await?` fails.
IoError ==
    /\ phase \in {"reading", "writing", "flushing"}
    /\ phase' = "failed"
    /\ UNCHANGED <<script, taken, buf, out, wire, closing, resp3, subscribed, inbox, executed, published>>

\* Another connection publishes while this one awaits.
Publish ==
    /\ phase \in {"reading", "writing", "flushing", "blocked"}
    /\ subscribed # {}
    /\ published < MaxMessages
    /\ published' = published + 1
    /\ inbox' = Append(inbox, published + 1)
    /\ UNCHANGED <<script, taken, buf, out, wire, phase, closing, resp3, subscribed, executed>>

Terminated == phase \in {"closed", "failed"} /\ UNCHANGED vars

Next ==
    \/ Read \/ Eof \/ TakeCommand \/ TakeBlocking \/ ProtocolError \/ NeedMore
    \/ Write \/ Unblock \/ Deliver \/ IoError \/ Publish
    \/ Terminated

Spec == Init /\ [][Next]_vars

-----------------------------------------------------------------------------
(* Properties *)

\* How many requests have been read to their last byte.
Arrived == Cardinality({n \in DOMAIN script : Len(Bytes(SubSeq(script, 1, n))) <= taken})

Intended == [i \in DOMAIN script |-> script[i].args]

\* However the bytes are cut into reads, the commands handled are the ones the
\* peer meant, in order, none made up from parts of others; when the connection
\* waits for more, every request that has arrived whole has been handled.
FramingExact ==
    /\ IsPrefix(executed, Intended)
    /\ phase = "reading" => Len(executed) = Arrived

\* What the peer still has to read when it reads token by token.
AsRead(tokens) ==
    LET read[i \in 0 .. Len(tokens)] ==
            IF i = 0 THEN [need |-> 1, ends |-> <<>>]
            ELSE LET prev == read[i - 1]
                     t == tokens[i]
                     need == prev.need - 1 + (IF t.marker = "%" THEN 2 * t.count ELSE t.count)
                 IN  IF need = 0 THEN [need |-> 1, ends |-> Append(prev.ends, i)]
                                 ELSE [need |-> need, ends |-> prev.ends]
    IN  read[Len(tokens)].ends

Sourced(packets, source) ==
    LET mine == SelectSeq(packets, LAMBDA p : p.source = source)
    IN  [i \in DOMAIN mine |-> mine[i].n]

Subscribes(args) == args \notin {Malformed, <<>>} /\ Name(args) \in {<<"S">>, <<"U">>}

\* The requests whose replies are due, one entry per frame: none for an empty
\* request, one per channel for a subscription, one for any other.
Due(n) ==
    FlattenSeq([i \in 1 .. n |->
        IF executed[i] = <<>> THEN <<>>
        ELSE IF Subscribes(executed[i]) THEN [j \in 1 .. Len(executed[i]) - 1 |-> i]
        ELSE <<i>>])


=============================================================================
