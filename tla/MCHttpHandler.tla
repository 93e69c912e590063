--------------------------- MODULE MCHttpHandler ---------------------------
(* Instances of HttpHandler: two workers and two clients, one of which may leave. *)
EXTENDS HttpHandler

CONSTANTS c, d, w1, w2

MCWorkers == {w1, w2}
OneClient == {c}
TwoClients == {c, d}
Nobody == {}

Root == <<"/", "www">>
OneFile == {<<"/", "www", "/", "a.html">>}
Api(name) == <<"/", "api", "/", name>>
Form == <<"username=", "ann", "&", "password=", "x">>
SampleRequests ==
    {[method |-> "GET", path |-> <<"/", "status">>, connection |-> <<" ", "close">>,
      body |-> <<>>, route |-> "status"],
     [method |-> "GET", path |-> <<"/", "a.html">>, connection |-> <<" ", "keep-alive">>,
      body |-> <<>>, route |-> "file"],
     [method |-> "GET", path |-> <<"/", "x", "/", "..", "/", "a.html">>, connection |-> <<>>,
      body |-> <<>>, route |-> "file"],
     [method |-> "GET", path |-> <<"/", "..", "/", "a.html">>, connection |-> <<>>,
      body |-> <<>>, route |-> "forbidden"],
     [method |-> "GET", path |-> <<"/", "b..c">>, connection |-> <<"Close", " ">>,
      body |-> <<>>, route |-> "nofile"],
     [method |-> "POST", path |-> Api("register"), connection |-> <<>>,
      body |-> Form, route |-> "api"],
     [method |-> "POST", path |-> Api("login"), connection |-> <<" ", "close", "\t">>,
      body |-> <<"Content-Length: ", "9", "\r", "\n", "\r", "\n">>, route |-> "api"],
     [method |-> "POST", path |-> <<"/">>, connection |-> <<>>,
      body |-> <<"\r", "\n">>, route |-> "dynamic"]}
Tokens == {"\r", "\n", "Content-Length: ", "7", "-"}
Lengths == {<<"-", "7">>, <<" ", "+", "7">>, <<"\t", "-", " ", "7">>}
Field(l) == <<"Content-Length: ">> \o l \o <<"\r", "\n", "\r", "\n">>
SomeStreams ==
    BoundedSeq(Tokens, 5)
        \cup {s \o Field(l) \o t : s, t \in BoundedSeq(Tokens \ {"-"}, 2), l \in Lengths}
=============================================================================
