------------------------------- MODULE MCWrk -------------------------------
(* An instance of Wrk. *)
EXTENDS Wrk

-----------------------------------------------------------------------------
(* Messages as a server sends them.                                        *)

Epoll == INSTANCE HttpText WITH Limit <- 64, StaticRoot <- <<>>, Files <- {},
                                 Samples <- {}, Streams <- {}

Line(minor, end) == <<"HTTP/", "1", ".", minor, " ">> \o end \o Epoll!CRLF
Sent(headers) ==
    FlattenSeq([n \in DOMAIN headers |->
                    headers[n][1] \o <<":", " ">> \o headers[n][2] \o Epoll!CRLF])
Shown(headers) ==
    FlattenSeq([n \in DOMAIN headers |-> <<<<"field", headers[n][1]>>, <<"value", headers[n][2]>>>>])
Response(text, shown, code, keeps) ==
    [text |-> text, shown |-> Append(shown, <<"complete", code>>), keeps |-> keeps, eof |-> FALSE]

Plain(minor, code, headers, body, keeps) ==
    Response(Line(minor, code[1]) \o Sent(headers) \o Epoll!CRLF \o body,
             Append(Shown(headers), <<"body", body>>), code[2], keeps)
Chunk(data) == <<ToString(Len(data))>> \o Epoll!CRLF \o data \o Epoll!CRLF
Chunked(headers, a, b, trailer, keeps) ==
    Response(Line("1", <<"2", "0", "0">>) \o Sent(headers) \o Epoll!CRLF \o Chunk(a) \o Chunk(b)
                \o <<"0", ";", "w">> \o Epoll!CRLF \o Sent(trailer) \o Epoll!CRLF,
             Append(Shown(headers), <<"body", a \o b>>) \o Shown(trailer), 200, keeps)

Ok == <<<<"2", "0", "0", " ", "v">>, 200>>
NotModified == <<<<"3", "0", "4">>, 304>>
ContentLength(n) == <<<<"Content-", "length">>, n>>
Coding == <<<<"transfer-", "encoding">>, <<"chunk", "ed", " ">>>>
Connection(value) == <<<<"connection">>, value>>
Two == <<"v", "\r">>
FromServer(keep) ==
    Response(Epoll!build_http_response(200, "2", keep) \o Two,
             Shown(<<<<<<"x">>, <<"v">>>>, ContentLength(<<"2">>),
                     Connection(IF keep THEN <<"keep-", "alive">> ELSE <<"close">>)>>)
                \o (IF keep THEN Shown(<<<<<<"x">>, <<"v">>>>>>) ELSE <<>>) \o <<<<"body", Two>>>>,
             200, keep)

SomeResponses ==
    {FromServer(TRUE), FromServer(FALSE),
     Plain("1", Ok, <<ContentLength(<<"1", "2">>), Connection(<<"close", "w">>)>>,
           Two \o Two \o Two \o Two \o Two \o Two, TRUE),
     Plain("1", NotModified, <<<<<<"content-">>, <<>>>>, Connection(<<"w", " ", "close">>)>>, <<>>, TRUE),
     Plain("0", NotModified, <<Connection(<<"keep-", "alive">>)>>, <<>>, TRUE),
     Plain("0", Ok, <<ContentLength(<<"1">>)>>, <<"v">>, FALSE),
     Plain("1", NotModified, <<Connection(<<"w", ",", " ", "Close", ",", "up", "grade">>)>>, <<>>, FALSE),
     Chunked(<<Coding>>, Two, <<"0">>, <<<<<<"w">>, <<"v">>>>>>, TRUE),
     Chunked(<<Coding, Connection(<<"keep-", "alive", ",", "close">>)>>, <<"\n">>, Two, <<>>, FALSE),
     [Plain("1", Ok, <<Connection(<<"keep-", "alive">>)>>, <<"v", "\r", "\n", "v">>, FALSE)
        EXCEPT !.eof = TRUE]}

Request(line, headers, body, keeps) ==
    [text |-> line \o <<" ", "HTTP/", "1", ".", "1">> \o Epoll!CRLF \o Sent(headers) \o Epoll!CRLF
                \o body, keeps |-> keeps]
SomeRequests ==
    {Request(<<"GET", " ", "/", "w", "?", "a">>, <<>>, <<>>, TRUE),
     Request(<<"GET", " ", "http", ":", "/", "/", "w", "/", "#">>, <<Connection(<<"close">>)>>, <<>>, FALSE),
     Request(<<"POST", " ", "*">>, <<ContentLength(<<"2">>)>>, Two, TRUE)}

Digits(n) == IF n = 0 THEN <<>> ELSE IF n = 8080 THEN <<"8", "0", "8", "0">>
             ELSE <<"6", "5", "5", "3", ToString(n - 65530)>>
Parts(n) ==
    [schema : {<<>>, <<"http">>}, userinfo : {<<>>, <<"w", ":", "1">>},
     host : {<<>>, <<"w", ".", "w">>, <<"1", ":", ":", "a">>, <<"a", ":", "%", "w">>},
     port : {Digits(n)}, path : {<<"/">>, <<"/", "w", "/">>},
     query : {<<>>, <<"w", "?", "a">>}, fragment : {<<>>, <<"w", "?", "#">>}]
SomeUrls == UNION {[parts : Parts(n), number : {n}] : n \in {0, 8080, 65535, 65536}}
=============================================================================
