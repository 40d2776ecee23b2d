---------------------------- MODULE MCDataTypes -----------------------------
(* The commands of each family, with arguments on both sides of every bound. *)
EXTENDS DataTypes

One == <<1>>
Text3 == <<3>>
Vals == {One, Text3}
Empty == <<>>

Generic ==
    {[op |-> "SET", key |-> k, val |-> One, opts |-> {}, keepttl |-> FALSE, px |-> NoTtl,
      absolute |-> FALSE] : k \in Keys}
    \cup [op : {"DEL"}, keys : {{"a"}, {"b"}}]
    \cup [op : {"EXPIRE"}, key : {"a"}, n : {1}, relative : {TRUE}, opts : {{}}]
    \cup [op : {"RELOAD", "MALFORMED"}]

ListInputs ==
    [op : {"PUSH"}, key : Keys, vals : {<<One>>, <<One, Text3>>}, left : BOOLEAN, xx : BOOLEAN]
    \cup [op : {"POP"}, key : Keys, left : BOOLEAN, count : {<<>>, <<0>>, <<2>>}]
    \cup [op : {"POP"}, key : {"a"}, left : {TRUE}, count : {<<-1>>}]
    \cup [op : {"LLEN"}, key : {"a"}]
    \cup [op : {"LRANGE", "LTRIM"}, key : {"a"}, start : {-4, -1, 0, 1}, stop : {-4, -1, 0, 5}]
    \cup [op : {"LINDEX"}, key : {"a"}, index : {-3, -1, 0, 3}]
    \cup [op : {"LSET"}, key : Keys, index : {-3, -1, 1}, val : {Text3}]
    \cup [op : {"LREM"}, key : Keys, count : {-2, -1, 0, 1, 2}, val : Vals]
    \cup [op : {"LINSERT"}, key : Keys, before : BOOLEAN, pivot : Vals, val : {One}]
    \cup [op : {"LPOS"}, key : {"a"}, val : {One}, rank : {-2, -1, 0, 1, 2},
          count : {<<>>, <<0>>, <<1>>}, maxlen : {0, 1}]
    \cup [op : {"LPOS"}, key : {"a"}, val : {One}, rank : {1}, count : {<<>>, <<-1>>}, maxlen : {-1, 0}]
    \cup [op : {"LMOVE"}, key : Keys, dst : Keys, from_left : BOOLEAN, to_left : BOOLEAN]

SetInputs ==
    [op : {"SADD", "SREM"}, key : Keys, members : {{One}, Vals}]
    \cup [op : {"SMEMBERS", "SCARD"}, key : {"a"}]
    \cup [op : {"SMISMEMBER"}, key : {"a"}, asked : {<<One, Text3>>}]
    \cup [op : {"SPOP"}, key : Keys, count : {<<>>, <<-1>>, <<0>>, <<2>>}]
    \cup [op : {"SRANDMEMBER"}, key : {"a"}, count : {<<>>, <<-2>>, <<0>>, <<3>>}]
    \cup [op : {"SMOVE"}, key : Keys, dst : Keys, member : Vals]
    \cup [op : {"SETOP"}, keys : {<<"a", "b">>, <<"b", "a">>}, kind : {"union", "inter", "diff"},
          dst : {<<>>, <<"a">>}]
    \cup [op : {"SINTERCARD"}, keys : {<<"a", "b">>}, limit : {-1, 0, 1}]
    \cup [op : {"SSCAN"}, key : {"a"}, pattern : {{One}}]

HashInputs ==
    [op : {"HSET"}, key : {"a"}, pairs : {[f \in {One} |-> One], [f \in {One, Text3} |-> Text3]},
     hmset : BOOLEAN]
    \cup [op : {"HSETNX"}, key : {"a"}, field : {One}, val : {Empty, <<1, 1>>}]
    \cup [op : {"HMGET"}, key : {"a"}, asked : {<<One, Text3>>}]
    \cup [op : {"HDEL"}, key : {"a"}, fields : {{One}, {One, Text3}}]
    \cup [op : {"HGETALL"}, key : {"a"}, pattern : {{One}, {One, Text3}}]
    \cup [op : {"HLEN"}, key : {"a"}]
    \cup [op : {"HEXISTS", "HSTRLEN"}, key : {"a"}, field : {One}]
    \cup [op : {"HINCRBY"}, key : {"a"}, field : {One, Text3}, incr : {-2, 1, MaxInt}]
    \cup [op : {"HINCRBYFLOAT"}, key : {"a"}, field : {One}, incr : {1, -1, Inf}]
    \cup [op : {"HRANDFIELD"}, key : {"a"}, count : {<<>>, <<-2>>, <<0>>, <<3>>}]

Bound(v, e) == [value |-> v, excl |-> e]

ScoreBounds == {Bound(-Inf, FALSE), Bound(1, FALSE), Bound(1, TRUE), Bound(Inf, FALSE)}

ZsetInputs ==
    [op : {"ZADD"}, key : {"a"}, pairs : {<<<<1, 1>>>>, <<<<0, 1>>, <<1, 2>>>>}, opts : {{}}]
    \cup [op : {"ZADD"}, key : {"a"}, pairs : {<<<<1, 1>>>>, <<<<Inf, 2>>>>, <<<<-Inf, 2>>>>},
          opts : {{"NX"}, {"XX"}, {"GT", "CH"}, {"LT"}, {"INCR"}, {"INCR", "XX"}, {"NX", "GT"}}]
    \cup [op : {"ZINCRBY"}, key : {"a"}, incr : {1, -Inf, Inf}, member : {1}]
    \cup [op : {"ZREM"}, key : {"a"}, members : {{1}, {1, 2}}]
    \cup [op : {"ZMSCORE"}, key : {"a"}, asked : {<<1, 2>>}]
    \cup [op : {"ZCARD"}, key : {"a"}]
    \cup [op : {"ZRANK"}, key : {"a"}, member : {1, 2}, rev : BOOLEAN]
    \cup [op : {"ZCOUNT", "ZREMRANGEBYSCORE"}, key : {"a"}, min : ScoreBounds, max : ScoreBounds]
    \cup [op : {"ZLEXCOUNT"}, key : {"a"}, min : {Bound(0, FALSE), Bound(1, TRUE)},
          max : {Bound(1, FALSE), Bound(3, FALSE)}]
    \cup [op : {"ZRANGE"}, key : {"a"}, by : {"index"}, start : {-3, -1, 0, 1}, stop : {-4, -1, 0, 5},
          rev : BOOLEAN, limit : {<<>>}, withscores : BOOLEAN]
    \cup [op : {"ZRANGE"}, key : {"a"}, by : {"score", "lex"}, lo : {Bound(0, FALSE)},
          hi : {Bound(1, TRUE), Bound(3, FALSE)}, rev : BOOLEAN, limit : {<<>>, <<1, -1>>, <<0, 1>>},
          withscores : {FALSE, TRUE}]
    \cup [op : {"ZRANGEBYSCORE", "ZRANGEBYLEX"}, key : {"a"}, lo : {Bound(0, FALSE)},
          hi : {Bound(1, FALSE)}, rev : BOOLEAN, limit : {<<>>, <<-1, 1>>}, withscores : {FALSE}]
    \cup [op : {"ZSCAN"}, key : {"a"}, pattern : {{1}}]
    \cup [op : {"ZRANDMEMBER"}, key : {"a"}, count : {<<>>, <<-2>>, <<3>>}]
    \cup [op : {"ZPOP"}, key : {"a"}, min : BOOLEAN, count : {<<>>, <<-1>>, <<0>>, <<2>>}]
    \cup [op : {"ZREMRANGEBYRANK"}, key : {"a"}, start : {-3, -1, 0, 1}, stop : {-4, -1, 0, 5}]

GetExOpts == {<<>>, <<[kind |-> "PERSIST"]>>, <<[kind |-> "PX", n |-> -1]>>,
              <<[kind |-> "PXAT", n |-> 2], [kind |-> "UNKNOWN"]>>}

StringInputs ==
    [op : {"GET", "GETDEL", "STRLEN"}, key : {"a"}]
    \cup [op : {"SETNX", "GETSET", "APPEND"}, key : {"a"}, val : {Empty, One, Text3}]
    \cup [op : {"SETEX"}, key : {"a"}, n : {0, 1}, val : {One}]
    \cup [op : {"GETEX"}, key : {"a"}, opts : GetExOpts]
    \cup [op : {"INCR"}, key : {"a"}, incr : {-2, 1, MaxInt, -(MaxInt + 1)}, negate : BOOLEAN]
    \cup [op : {"INCRBYFLOAT"}, key : {"a"}, incr : {1, -1, Inf}]
    \cup [op : {"MGET"}, keys : {<<"a", "b">>}]
    \cup [op : {"MSET", "MSETNX"}, pairs : {<<<<"a", One>>, <<"b", Empty>>>>,
                                            <<<<"a", One>>, <<"a", Text3>>>>}]
    \cup [op : {"GETRANGE"}, key : {"a"}, start : {-4, -1, 0, 1}, stop : {-4, -1, 0, 5}]
    \cup [op : {"SETRANGE"}, key : {"a"}, offset : {-1, 0, 1}, val : {Empty, One}]
    \cup [op : {"SETBIT"}, key : {"a"}, offset : {-1, 0, 3, MAX_BIT_OFFSET}, bit : {0, 1}]
    \cup [op : {"GETBIT"}, key : {"a"}, offset : {-1, 1, 5}]
    \cup [op : {"BITCOUNT"}, key : {"a"}, start : {-5, 0, 1}, stop : {-5, -1, 5},
          unit : {"BIT", "BYTE"}]
    \cup [op : {"BITCOUNT"}, key : {"a"}, start : {0}, stop : {0}, unit : {"NONE"}]
    \cup [op : {"BITPOS"}, key : {"a"}, bit : {0, 1}, start : {-1, 0, 1}, stop : {<<>>, <<-1>>, <<0>>},
          unit : {"BIT", "BYTE"}]
    \cup [op : {"BITPOS"}, key : {"a"}, bit : {0, 1}, start : {0}, stop : {<<>>}, unit : {"NONE"}]
    \cup [op : {"BITOP"}, kind : {"AND", "OR", "XOR", "NOT"}, keys : {<<"a">>, <<"a", "b">>}, dst : {"a"}]

F1 == <<<<Text3, One>>>>
F2 == <<<<Text3, Text3>>, <<One, One>>>>

Full(id) == [kind |-> "full", id |-> id]

StreamInputs ==
    [op : {"XADD"}, key : {"a"}, id : {[kind |-> "auto"], [kind |-> "msauto", ms |-> 1],
                                       Full(0), Full(1), Full(2), Full(MaxStreamId)},
     nomkstream : BOOLEAN, fields : {F1, F2}, trim : {<<>>}]
    \cup [op : {"XADD"}, key : {"a"}, id : {[kind |-> "auto"]}, nomkstream : {FALSE}, fields : {F1},
          trim : {<<[kind |-> "MAXLEN", n |-> 1, limit |-> <<>>]>>,
                  <<[kind |-> "MINID", n |-> 3, limit |-> <<-1>>]>>}]
    \cup [op : {"XLEN"}, key : {"a"}]
    \cup [op : {"XRANGE"}, key : {"a"}, start : {0, 2}, stop : {1, MaxStreamId}, start_excl : BOOLEAN,
          stop_excl : BOOLEAN, rev : BOOLEAN, count : {<<>>}]
    \cup [op : {"XRANGE"}, key : {"a"}, start : {0, 2}, stop : {1, MaxStreamId}, start_excl : {FALSE},
          stop_excl : {FALSE}, rev : BOOLEAN, count : {<<0>>, <<1>>}]
    \cup [op : {"XREAD"}, keys : {<<"a", "b">>}, from : {<<0, 1>>, <<1, MaxStreamId>>},
          count : {<<>>, <<1>>}]
    \cup [op : {"XDEL"}, key : {"a"}, ids : {{1}, {2, MaxStreamId}}]
    \cup [op : {"XTRIM"}, key : {"a"}, trim : {[kind |-> "MAXLEN", n |-> 1, limit |-> <<-1>>],
                                               [kind |-> "MAXLEN", n |-> 0, limit |-> <<1>>],
                                               [kind |-> "MINID", n |-> 3, limit |-> <<>>]}]

MCInputs ==
    [lists |-> ListInputs \cup Generic, sets |-> SetInputs \cup Generic,
     hashes |-> HashInputs \cup Generic, zsets |-> ZsetInputs \cup Generic,
     strings |-> StringInputs \cup Generic, streams |-> StreamInputs \cup Generic]

=============================================================================
