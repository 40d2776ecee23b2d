----------------------------- MODULE MCSession ------------------------------
(* Small instances of Session. *)
EXTENDS Scripting

CONSTANTS ch, pat

MCGlob == {<<pat, ch>>}

HelloWith(proto, opts) == [op |-> "HELLO", proto |-> proto, opts |-> opts]

\* Every command, in forms that succeed, fail and fail half way.
MCRequests ==
    {HelloWith("3", <<"auth", "junk">>), HelloWith("2", <<"wrongauth", "auth">>),
     [op |-> "PUBLISH", channel |-> ch]}
    \cup [op : {"AUTH"}, good : {TRUE}]
    \cup [op : {"SELECT"}, db : {1}]

\* A script that leaves another database selected, fails to select a third, and
\* leaves another protocol.
MCScripts == {<<[op |-> "SELECT", db |-> 1], [op |-> "SELECT", db |-> 2], [op |-> "SUBSCRIBE"],
                HelloWith("3", <<>>)>>}

=============================================================================
