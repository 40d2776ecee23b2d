------------------------------- MODULE MCWire -------------------------------
(* Requests in every spelling the parser takes, and ones it refuses. *)
EXTENDS Wire

Eol == <<"\r", "\n">>

\* A client library's encoding of a command.
Encoded(args) ==
    <<"*", ToString(Len(args))>> \o Eol
    \o FlattenSeq([i \in DOMAIN args |-> <<"$", ToString(Len(args[i]))>> \o Eol \o args[i] \o Eol])

Array(args) == [bytes |-> Encoded(args), args |-> args]

Raw(bytes, args) == [bytes |-> bytes, args |-> args]

MCRequests ==
    {Array(args) : args \in {<<<<"G">>, <<"\r", "\n", "*">>>>, <<<<"M">>, <<>>>>, <<<<"X">>>>, <<<<"B">>>>,
                             <<<<"S">>, <<"c">>, <<"d">>>>, <<<<"U">>, <<"c">>>>, <<<<"H">>>>, <<<<"Q">>>>}}
    \cup {Raw(<<"*", "0">> \o Eol, <<>>), Raw(<<"*", "-1", "\n">>, <<>>), Raw(Eol, <<>>),
          Raw(<<"*", "2">> \o Eol \o <<"$", "-1">> \o Eol \o <<"$", "1">> \o Eol \o <<"G">> \o Eol, <<<<>>, <<"G">>>>),
          Raw(<<"P", " ", "\"", "\\", "n", " ", "\"", " ", "'", "\\", "'", "\\", "a", "'", "\n">>,
              <<<<"P">>, <<"\n", " ">>, <<"'", "\\", "a">>>>)}
    \cup {Raw(b, Malformed) : b \in {<<"*", "x">> \o Eol, <<"*", "1">> \o Eol \o <<":">>,
                                     <<"*", "1">> \o Eol \o <<"$", "1">> \o Eol \o <<"G", "G", "\r", "\n">>,
                                     <<"P", " ", "\"", "a", "\n">>}}

Entry == Aggregate("array", <<BulkFrame, DoubleFrame>>)

MCReplies == [name \in {<<"G">>, <<"M">>, <<"X">>, <<"P">>, <<>>} |->
    CASE name = <<"G">> -> NullFrame
      [] name = <<"M">> -> Aggregate("map", <<<<BulkFrame, Entry>>, <<BulkFrame, NullFrame>>>>)
      [] name = <<"X">> -> Aggregate("xread", <<<<BulkFrame, Aggregate("set", <<BulkFrame>>)>>, <<BulkFrame, Entry>>>>)
      [] name = <<"P">> -> Aggregate("pairs", <<<<BulkFrame, DoubleFrame>>, <<BulkFrame, DoubleFrame>>>>)
      [] OTHER -> ErrorFrame]

=============================================================================
