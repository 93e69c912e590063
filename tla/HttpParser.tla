----------------------------- MODULE HttpParser -----------------------------
(***************************************************************************)
(* The HTTP parser of wrk, the load generator the server is measured with  *)
(* (wrk/src/http_parser.c), as wrk uses it: on the responses it reads      *)
(* (wrk.c:320-360, 426-448), on the request a script makes (script.c:      *)
(* 262-301), and on the URL it is called with.  Pure functions: a parser   *)
(* is a record, and http_parser_execute maps it and the data of one read   *)
(* to a parser.                                                            *)
(*                                                                         *)
(* A token stands for a character, or for a run of characters the parser   *)
(* treats alike: "HTTP/", a method, the pieces of a header's name or value *)
(* that it knows.  Data can be cut between any two tokens, as reads cut it.*)
(* Strict mode is on (http_parser.h:51).  The callbacks are those wrk sets,*)
(* so marks of URLs and status texts, and the events nobody listens to,    *)
(* are left out, as is HTTP_BOTH, which wrk never asks for.                *)
(***************************************************************************)
EXTENDS Naturals, FiniteSets, SequencesExt, TLC

CONSTANTS
    MaxHeader,   \* HTTP_MAX_HEADER_SIZE, in tokens
    MaxLength,   \* ULLONG_MAX
    MaxPort,     \* 0xffff
    Responses,   \* responses to check with: [text, shown, keeps, eof]
    Requests,    \* requests to check with: [text, keeps]
    Urls         \* URLs to check with, as records of their parts

ASSUME ParserAssumption == MaxHeader \in Nat /\ MaxLength \in Nat /\ MaxPort \in Nat

CR == "\r"
LF == "\n"
Blank == {" ", "\t"}
EndOfLine == {CR, LF}

Value == [d \in {"0", "1", "2", "3", "4", "5", "6", "7", "8", "9", "a"} |->
            IF d = "a" THEN 10 ELSE CHOOSE n \in 0 .. 9 : ToString(n) = d]
Num == DOMAIN Value \ {"a"}
Hex == DOMAIN Value
Methods == {"GET", "POST", "CONNECT"}

\* Character classes.  "w" is a letter, "v" any other text of a header or a body.
TokenChar(t) == t \notin {":", "/", ",", ";", "?", "@", "[", "]", CR, LF, " ", "\t", "NUL"}
HeaderChar(t) == t # "NUL"
Alpha == {"w", "http", "a"}
UrlChar(t) == t \notin {"?", "#", " ", "\t", CR, LF, "NUL"}
UserInfo == Alpha \cup Num \cup {"-", ".", "%", ";", ":", "&"}
HostChar == Alpha \cup Num \cup {".", "-"}

NoLength == MaxLength

\* http_parser_init
New(type) ==
    [type |-> type, state |-> IF type = "request" THEN "s_start_req" ELSE "s_start_res",
     header_state |-> "h_general", word |-> <<>>, flags |-> {}, nread |-> 0,
     content_length |-> 0, major |-> 0, minor |-> 0, status_code |-> 0,
     method |-> "DELETE", upgrade |-> FALSE, http_errno |-> "OK"]

\* One execute: the data mark that is set and what it has seen, the tokens parsed, the
\* state before the last of them, an early return, and the callbacks made.
Execution == 
    [mark |-> "none", seen |-> <<>>, parsed |-> 0, from |-> "", left |-> FALSE, shown |-> <<>>]
Parser(type) == New(type) @@ Execution

Go(p, s) == [p EXCEPT !.state = s]
Fail(p, e) == [p EXCEPT !.http_errno = e]
Mark(p, kind) == IF p.mark = kind THEN p ELSE [p EXCEPT !.mark = kind, !.seen = <<>>]
CallbackData(p, more) ==
    IF p.mark = "none" THEN p
    ELSE [p EXCEPT !.shown = Append(@, <<p.mark, p.seen \o more>>), !.mark = "none"]

-----------------------------------------------------------------------------
(* How long a message is, and whether another may follow.                  *)

http_message_needs_eof(p) ==
    /\ p.type = "response"
    /\ p.status_code \div 100 # 1 /\ p.status_code \notin {204, 304}
    /\ "CHUNKED" \notin p.flags /\ p.content_length = NoLength

http_should_keep_alive(p) ==
    /\ IF p.major > 0 /\ p.minor > 0 THEN "CLOSE" \notin p.flags ELSE "KEEP_ALIVE" \in p.flags
    /\ ~http_message_needs_eof(p)

NewMessage(p) ==
    Go(p, IF http_should_keep_alive(p) THEN New(p.type).state ELSE "s_dead")

\* The callback: verify_request counts; response_complete starts the parser afresh,
\* unless the connection is given up.
MessageComplete(p) ==
    LET q == [p EXCEPT !.shown = Append(@, <<"complete", p.status_code>>)]
    IN  IF p.type = "response" /\ http_should_keep_alive(p) THEN New(p.type) @@ q ELSE q

-----------------------------------------------------------------------------
(* The first line.                                                         *)

\* s_start_res
StartResponse(p, t) ==
    LET q == [p EXCEPT !.flags = {}, !.content_length = NoLength]
    IN  IF t = "HTTP/" THEN Go(q, "s_http_major")
        ELSE IF t \in EndOfLine THEN q ELSE Fail(q, "INVALID_CONSTANT")

\* s_res_http_major to s_res_http_minor, and the same of a request.
Version(p, t) ==
    CASE p.state = "s_http_major" /\ t \in Num -> Go([p EXCEPT !.major = Value[t]], "s_http_dot")
      [] p.state = "s_http_dot" /\ t = "." -> Go(p, "s_http_minor")
      [] p.state = "s_http_minor" /\ t \in Num -> Go([p EXCEPT !.minor = Value[t]], "s_http_end")
      [] p.state = "s_http_end" /\ p.type = "response" /\ t = " " ->
            Go(p, "s_res_first_status_code")
      [] p.state = "s_http_end" /\ p.type = "request" /\ t = CR -> Go(p, "s_req_line_almost_done")
      [] p.state = "s_http_end" /\ p.type = "request" /\ t = LF -> Go(p, "s_header_field_start")
      [] OTHER -> Fail(p, "INVALID_VERSION")

StatusText(p, t) ==
    CASE t = CR -> Go(p, "s_res_line_almost_done")
      [] t = LF -> Go(p, "s_header_field_start")
      [] OTHER  -> Go(p, "s_res_status")

\* s_res_first_status_code, s_res_status_code
StatusCode(p, t) ==
    LET first == p.state = "s_res_first_status_code"
        code == IF first THEN Value[t] ELSE 10 * p.status_code + Value[t]
    IN  CASE t \in Num -> IF code > 999 THEN Fail(p, "INVALID_STATUS")
                          ELSE Go([p EXCEPT !.status_code = code], "s_res_status_code")
          [] t = " " -> IF first THEN p ELSE Go(p, "s_res_status_start")
          [] t \in EndOfLine /\ ~first -> StatusText(p, t)
          [] OTHER -> Fail(p, "INVALID_STATUS")

\* s_start_req and s_req_method: a method is one token.
RequestMethod(p, t) ==
    CASE p.state = "s_start_req" /\ t \in EndOfLine -> p
      [] p.state = "s_start_req" /\ t \in Methods ->
            Go([p EXCEPT !.flags = {}, !.content_length = NoLength, !.method = t], "s_req_method")
      [] p.state = "s_req_method" /\ t = " " -> Go(p, "s_req_spaces_before_url")
      [] OTHER -> Fail(p, "INVALID_METHOD")

parse_url_char(s, t) ==
    CASE t \in Blank \cup EndOfLine -> "s_dead"
      [] s = "s_req_spaces_before_url" /\ t \in {"/", "*"} -> "s_req_path"
      [] s \in {"s_req_spaces_before_url", "s_req_schema"} /\ t \in Alpha -> "s_req_schema"
      [] s = "s_req_schema" /\ t = ":" -> "s_req_schema_slash"
      [] s = "s_req_schema_slash" /\ t = "/" -> "s_req_schema_slash_slash"
      [] s = "s_req_schema_slash_slash" /\ t = "/" -> "s_req_server_start"
      [] s \in {"s_req_server_start", "s_req_server", "s_req_server_with_at"} ->
            CASE t = "/" -> "s_req_path"
              [] t = "?" -> "s_req_query_string_start"
              [] t = "@" /\ s # "s_req_server_with_at" -> "s_req_server_with_at"
              [] t \in UserInfo \cup {"[", "]"} -> "s_req_server"
              [] OTHER -> "s_dead"
      [] s = "s_req_path" /\ UrlChar(t) -> "s_req_path"
      [] s = "s_req_path" /\ t = "?" -> "s_req_query_string_start"
      [] s \in {"s_req_query_string_start", "s_req_query_string"} /\ (UrlChar(t) \/ t = "?") ->
            "s_req_query_string"
      [] s \in {"s_req_path", "s_req_query_string_start", "s_req_query_string"} /\ t = "#" ->
            "s_req_fragment_start"
      [] s = "s_req_fragment_start" /\ t = "#" -> s
      [] s \in {"s_req_fragment_start", "s_req_fragment"} /\ (UrlChar(t) \/ t \in {"?", "#"}) ->
            "s_req_fragment"
      [] OTHER -> "s_dead"

SchemaStates ==
    {"s_req_schema", "s_req_schema_slash", "s_req_schema_slash_slash", "s_req_server_start"}
UrlStates ==
    {"s_req_server", "s_req_server_with_at", "s_req_path", "s_req_query_string_start",
     "s_req_query_string", "s_req_fragment_start", "s_req_fragment"}

\* s_req_spaces_before_url to s_req_fragment
RequestUrl(p, t) ==
    LET s == IF p.state = "s_req_spaces_before_url" /\ p.method = "CONNECT"
             THEN "s_req_server_start" ELSE p.state
        next == parse_url_char(s, t)
        old == [p EXCEPT !.major = 0, !.minor = 9]
    IN  CASE p.state = "s_req_spaces_before_url" /\ t = " " -> p
          [] p.state \in UrlStates /\ t = " " -> Go(p, "s_req_http_start")
          [] p.state \in UrlStates /\ t = CR -> Go(old, "s_req_line_almost_done")
          [] p.state \in UrlStates /\ t = LF -> Go(old, "s_header_field_start")
          [] OTHER -> IF next = "s_dead" THEN Fail(p, "INVALID_URL") ELSE Go(p, next)

\* s_req_http_start, s_req_line_almost_done, s_res_line_almost_done
RequestVersion(p, t) ==
    CASE t = "HTTP/" -> Go(p, "s_http_major")
      [] t = " " -> p
      [] OTHER -> Fail(p, "INVALID_CONSTANT")
LineAlmostDone(p, t) ==
    IF t = LF THEN Go(p, "s_header_field_start")
    ELSE Fail(p, IF p.type = "request" THEN "LF_EXPECTED" ELSE "STRICT")

-----------------------------------------------------------------------------
(* The end of the header, and the body.                                    *)

\* s_message_done
MessageDone(p) ==
    LET q == MessageComplete(NewMessage(p)) IN [q EXCEPT !.left = q.upgrade]

\* s_headers_done
HeadersDone(p, t) ==
    LET q == [p EXCEPT !.nread = 0]
        length == p.content_length
        hasBody == "CHUNKED" \in p.flags \/ length \notin {0, NoLength}
    IN  CASE t # LF -> Fail(p, "STRICT")
          [] t = LF /\ p.upgrade /\ (p.method = "CONNECT" \/ ~hasBody) ->
                [MessageComplete(NewMessage(q)) EXCEPT !.left = TRUE]
          [] OTHER ->
                CASE "CHUNKED" \in p.flags -> Go(q, "s_chunk_size_start")
                  [] length = 0 \/ (length = NoLength /\ ~http_message_needs_eof(p)) ->
                        MessageComplete(NewMessage(q))
                  [] length # NoLength -> Go(q, "s_body_identity")
                  [] OTHER -> Go(q, "s_body_identity_eof")

\* s_headers_almost_done
HeadersAlmostDone(p, t) ==
    LET upgrades == {"UPGRADE", "CONNECTION_UPGRADE"} \subseteq p.flags
    IN  CASE t # LF -> Fail(p, "STRICT")
          [] t = LF /\ "TRAILING" \in p.flags -> MessageDone(p)
          [] t = LF /\ {"CHUNKED", "CONTENTLENGTH"} \subseteq p.flags ->
                Fail(p, "UNEXPECTED_CONTENT_LENGTH")
          [] OTHER ->
                HeadersDone([p EXCEPT !.state = "s_headers_done", !.upgrade =
                    IF upgrades THEN p.type = "request" \/ p.status_code = 101
                    ELSE p.method = "CONNECT"], t)

\* s_body_identity, s_body_identity_eof: one token of the run they read at once.
Body(p, t) ==
    LET q == Mark(p, "body")
    IN  IF p.state = "s_body_identity_eof" THEN q
        ELSE IF p.content_length > 1 THEN [q EXCEPT !.content_length = @ - 1]
        ELSE MessageDone(CallbackData([q EXCEPT !.content_length = 0], <<t>>))

\* s_chunk_size_start to s_chunk_size_almost_done
ChunkHead(p, t) ==
    CASE p.state = "s_chunk_size_start" ->
            IF t \in Hex THEN Go([p EXCEPT !.content_length = Value[t]], "s_chunk_size")
            ELSE Fail(p, "INVALID_CHUNK_SIZE")
      [] p.state = "s_chunk_size_almost_done" ->
            IF t # LF THEN Fail(p, "STRICT")
            ELSE IF p.content_length = 0
            THEN [p EXCEPT !.nread = 0, !.flags = @ \cup {"TRAILING"},
                           !.state = "s_header_field_start"]
            ELSE [p EXCEPT !.nread = 0, !.state = "s_chunk_data"]
      [] t = CR -> Go(p, "s_chunk_size_almost_done")
      [] p.state = "s_chunk_parameters" /\ t # CR -> p
      [] OTHER ->
            CASE t \in Hex -> IF (MaxLength - 16) \div 16 < p.content_length
                              THEN Fail(p, "INVALID_CONTENT_LENGTH")
                              ELSE [p EXCEPT !.content_length = 16 * @ + Value[t]]
              [] t \in {";", " "} -> Go(p, "s_chunk_parameters")
              [] OTHER -> Fail(p, "INVALID_CHUNK_SIZE")

\* s_chunk_data to s_chunk_data_done
ChunkData(p, t) ==
    CASE p.state = "s_chunk_data" ->
            [Mark(p, "body") EXCEPT !.content_length = @ - 1,
                !.state = IF p.content_length = 1 THEN "s_chunk_data_almost_done" ELSE @]
      [] p.state = "s_chunk_data_almost_done" /\ t = CR ->
            CallbackData(Go(p, "s_chunk_data_done"), <<>>)
      [] p.state = "s_chunk_data_done" /\ t = LF ->
            [p EXCEPT !.nread = 0, !.state = "s_chunk_size_start"]
      [] OTHER -> Fail(p, "STRICT")

-----------------------------------------------------------------------------
(* A header: the name, its value, and what the parser takes from them.     *)

\* TOKEN and LOWER, on the pieces below.
Lower(t) == CASE t = "Content-" -> "content-" [] t = "Close" -> "close" [] OTHER -> t

Names ==
    (<<"connection">> :> "h_connection") @@ (<<"proxy-", "connection">> :> "h_connection") @@
    (<<"content-", "length">> :> "h_content_length") @@ (<<"upgrade">> :> "h_upgrade") @@
    (<<"transfer-", "encoding">> :> "h_transfer_encoding")
Codings == <<"chunk", "ed">> :> "h_transfer_encoding_chunked"
Options ==
    (<<"keep-", "alive">> :> "h_connection_keep_alive") @@
    (<<"close">> :> "h_connection_close") @@ (<<"up", "grade">> :> "h_connection_upgrade")
Flag ==
    [h_transfer_encoding_chunked |-> "CHUNKED", h_connection_keep_alive |-> "KEEP_ALIVE",
     h_connection_close |-> "CLOSE", h_connection_upgrade |-> "CONNECTION_UPGRADE"]

\* A word read so far, among those a header may have; other is the state without one.
Match(p, words, word, matching, other) ==
    CASE word \in DOMAIN words -> [p EXCEPT !.header_state = words[word], !.word = <<>>]
      [] word \notin DOMAIN words /\ \E w \in DOMAIN words : IsPrefix(word, w) ->
            [p EXCEPT !.header_state = matching, !.word = word]
      [] OTHER -> [p EXCEPT !.header_state = other, !.word = <<>>]
MatchCoding(p, word) ==
    Match(p, Codings, word, "h_matching_transfer_encoding_chunked", "h_general")
MatchOption(p, word) ==
    Match(p, Options, word, "h_matching_connection", "h_matching_connection_token")

\* s_header_field_start
FieldStart(p, t) ==
    CASE t = CR -> Go(p, "s_headers_almost_done")
      [] t = LF -> HeadersAlmostDone(p, t)
      [] TokenChar(t) -> Mark([p EXCEPT !.state = "s_header_field", !.word = <<Lower(t)>>], "field")
      [] OTHER -> Fail(p, "INVALID_HEADER_TOKEN")

\* s_header_field; which header it is, is settled with the name's last piece.
Field(p, t) ==
    CASE TokenChar(t) -> [p EXCEPT !.word = Append(@, Lower(t))]
      [] t = ":" -> CallbackData([p EXCEPT !.state = "s_header_value_discard_ws", !.word = <<>>,
            !.header_state = IF p.word \in DOMAIN Names THEN Names[p.word] ELSE "h_general"], <<>>)
      [] OTHER -> Fail(p, "INVALID_HEADER_TOKEN")

\* s_header_value_start
ValueStart(p, t) ==
    LET q == Mark(Go(p, "s_header_value"), "value")
        general == [q EXCEPT !.header_state = "h_general"]
    IN  CASE p.header_state = "h_upgrade" -> [general EXCEPT !.flags = @ \cup {"UPGRADE"}]
          [] p.header_state = "h_transfer_encoding" -> MatchCoding(q, <<Lower(t)>>)
          [] p.header_state = "h_connection" -> MatchOption(q, <<Lower(t)>>)
          [] p.header_state = "h_content_length" ->
                CASE t \notin Num -> Fail(p, "INVALID_CONTENT_LENGTH")
                  [] t \in Num /\ "CONTENTLENGTH" \in p.flags -> Fail(p, "UNEXPECTED_CONTENT_LENGTH")
                  [] OTHER -> [q EXCEPT !.flags = @ \cup {"CONTENTLENGTH"},
                                        !.content_length = Value[t]]
          [] p.header_state = "h_matching_connection_token_start" -> q
          [] OTHER -> general

FlagOf(p) ==
    IF p.header_state \in DOMAIN Flag THEN [p EXCEPT !.flags = @ \cup {Flag[p.header_state]}] ELSE p

\* s_header_value_lws: the line is folded, or the header is finished.
ValueLws(p, t) ==
    IF t \in Blank THEN ValueStart(p, t) ELSE FieldStart(Go(FlagOf(p), "s_header_field_start"), t)

\* A further piece of a value that means something.
ValueMore(p, t) ==
    LET h == p.header_state
        to(s) == [p EXCEPT !.header_state = s]
    IN  CASE h = "h_content_length" /\ t # " " ->
                CASE t \notin Num \/ (MaxLength - 10) \div 10 < p.content_length ->
                        Fail(p, "INVALID_CONTENT_LENGTH")
                  [] OTHER -> [p EXCEPT !.content_length = 10 * @ + Value[t]]
          [] h = "h_matching_transfer_encoding_chunked" -> MatchCoding(p, Append(p.word, Lower(t)))
          [] h = "h_matching_connection" -> MatchOption(p, Append(p.word, Lower(t)))
          [] h = "h_matching_connection_token_start" ->
                CASE TokenChar(t) -> MatchOption(p, <<Lower(t)>>)
                  [] t \in Blank -> p
                  [] OTHER -> to("h_general")
          [] h = "h_matching_connection_token" /\ t = "," -> to("h_matching_connection_token_start")
          [] h = "h_transfer_encoding_chunked" /\ t # " " -> to("h_general")
          [] h \in {"h_connection_keep_alive", "h_connection_close", "h_connection_upgrade"} ->
                CASE t = "," -> [FlagOf(p) EXCEPT !.header_state = "h_matching_connection_token_start"]
                  [] t = " " -> p
                  [] OTHER -> to("h_matching_connection_token")
          [] OTHER -> p

\* s_header_value
HeaderValue(p, t) ==
    CASE t = CR -> CallbackData(Go(p, "s_header_almost_done"), <<>>)
      [] t = LF -> CallbackData(Go(p, "s_header_value_lws"), <<>>)
      [] t \notin EndOfLine /\ HeaderChar(t) -> ValueMore(p, t)
      [] OTHER -> Fail(p, "INVALID_HEADER_TOKEN")

\* s_header_value_discard_ws to s_header_value_discard_lws, s_header_almost_done
ValueEdge(p, t) ==
    CASE p.state = "s_header_value_discard_ws" ->
            CASE t \in Blank -> p
              [] t = CR -> Go(p, "s_header_value_discard_ws_almost_done")
              [] t = LF -> Go(p, "s_header_value_discard_lws")
              [] OTHER -> ValueStart(p, t)
      [] p.state = "s_header_value_discard_ws_almost_done" ->
            IF t = LF THEN Go(p, "s_header_value_discard_lws") ELSE Fail(p, "STRICT")
      [] p.state = "s_header_value_discard_lws" ->
            IF t \in Blank THEN Go(p, "s_header_value_discard_ws")
            ELSE LET q == CallbackData(Mark(Go(FlagOf(p), "s_header_field_start"), "value"), <<>>)
                 IN  FieldStart(q, t)
      [] OTHER -> IF t = LF THEN Go(p, "s_header_value_lws") ELSE Fail(p, "LF_EXPECTED")

-----------------------------------------------------------------------------
(* http_parser_execute.                                                    *)

BodyStates == {"s_body_identity", "s_body_identity_eof", "s_chunk_data",
               "s_chunk_data_almost_done", "s_chunk_data_done"}

\* COUNT_HEADER_SIZE
Counted(p) ==
    CASE p.state \in BodyStates -> p
      [] p.nread >= MaxHeader -> Fail(p, "HEADER_OVERFLOW")
      [] OTHER -> [p EXCEPT !.nread = @ + 1]

Dispatch(p, t) ==
    CASE p.state = "s_dead" -> IF t \in EndOfLine THEN p ELSE Fail(p, "CLOSED_CONNECTION")
      [] p.state = "s_start_res" -> StartResponse(p, t)
      [] p.state \in {"s_http_major", "s_http_dot", "s_http_minor", "s_http_end"} -> Version(p, t)
      [] p.state \in {"s_res_first_status_code", "s_res_status_code"} -> StatusCode(p, t)
      [] p.state \in {"s_res_status_start", "s_res_status"} -> StatusText(p, t)
      [] p.state \in {"s_res_line_almost_done", "s_req_line_almost_done"} -> LineAlmostDone(p, t)
      [] p.state \in {"s_start_req", "s_req_method"} -> RequestMethod(p, t)
      [] p.state \in SchemaStates \cup UrlStates \cup {"s_req_spaces_before_url"} ->
            RequestUrl(p, t)
      [] p.state = "s_req_http_start" -> RequestVersion(p, t)
      [] p.state = "s_header_field_start" -> FieldStart(p, t)
      [] p.state = "s_header_field" -> Field(p, t)
      [] p.state = "s_header_value" -> HeaderValue(p, t)
      [] p.state = "s_header_value_lws" -> ValueLws(p, t)
      [] p.state = "s_headers_almost_done" -> HeadersAlmostDone(p, t)
      [] p.state \in {"s_body_identity", "s_body_identity_eof"} -> Body(p, t)
      [] p.state \in {"s_chunk_size_start", "s_chunk_size", "s_chunk_parameters",
                      "s_chunk_size_almost_done"} -> ChunkHead(p, t)
      [] p.state \in BodyStates -> ChunkData(p, t)
      [] OTHER -> ValueEdge(p, t)

\* One token: stop at an error, before it; otherwise pass it, and let the mark see it.
Step(p, t) ==
    LET c == Counted(p)
        q == IF c.http_errno = "OK" THEN Dispatch(c, t) ELSE c
    IN  IF p.http_errno # "OK" \/ p.left THEN p
        ELSE IF q.http_errno # "OK" THEN q
        ELSE [q EXCEPT !.parsed = @ + 1, !.from = p.state,
                       !.seen = IF q.mark = "none" THEN <<>> ELSE Append(@, t)]

\* Mutant of Marked: a name or value that goes on from the last read is not marked.
NotMarked(p) == Execution @@ p

\* What a new call picks up: a name or a value goes on with the data.
Marked(p) ==
    LET q == Execution @@ p
    IN  CASE p.state = "s_header_field" -> Mark(q, "field")
          [] p.state = "s_header_value" -> Mark(q, "value")
          [] OTHER -> q

\* The end of the data.  A name or value that is cut here was counted once too often.
Leftover(p) ==
    LET q == IF p.state \in {"s_header_field", "s_header_value"} /\ p.from = p.state
             THEN Counted(p) ELSE p
    IN  IF q.http_errno # "OK" \/ q.left THEN q ELSE CallbackData(q, <<>>)

AtEof(p) ==
    CASE p.state = "s_body_identity_eof" -> MessageComplete(p)
      [] p.state \in {"s_dead", "s_start_res", "s_start_req"} -> p
      [] OTHER -> [Fail(p, "INVALID_EOF_STATE") EXCEPT !.parsed = 1]

http_parser_execute(p, data) ==
    CASE p.http_errno # "OK" -> Execution @@ p
      [] p.http_errno = "OK" /\ data = <<>> -> AtEof(Execution @@ p)
      [] OTHER -> Leftover(FoldLeft(Step, Marked(p), data))

\* script_verify_request: how many requests a script's text holds, 0 to refuse it.
script_verify_request(request) ==
    LET p == http_parser_execute(Parser("request"), request)
        complete == {n \in DOMAIN p.shown : p.shown[n][1] = "complete"}
    IN  IF p.parsed # Len(request) THEN 0 ELSE Cardinality(complete)

-----------------------------------------------------------------------------
(* The URL wrk is called with.                                             *)

http_parse_host_char(s, t) ==
    CASE s \in {"userinfo_start", "userinfo"} /\ t = "@" -> "host_start"
      [] s \in {"userinfo_start", "userinfo"} /\ t \in UserInfo -> "userinfo"
      [] s = "host_start" /\ t = "[" -> "v6_start"
      [] s \in {"host_start", "host"} /\ t \in HostChar -> "host"
      [] s \in {"host", "v6_end"} /\ t = ":" -> "port_start"
      [] s \in {"v6", "v6_zone"} /\ t = "]" -> "v6_end"
      [] s \in {"v6_start", "v6"} /\ t \in Hex \cup {":", "."} -> "v6"
      [] s = "v6" /\ t = "%" -> "v6_zone_start"
      [] s \in {"v6_zone", "v6_zone_start"} /\ t \in Alpha \cup Num \cup {"%", ".", "-"} -> "v6_zone"
      [] s \in {"port_start", "port"} /\ t \in Num -> "port"
      [] OTHER -> "dead"

NoParts == [schema |-> <<>>, host |-> <<>>, port |-> <<>>, path |-> <<>>,
            query |-> <<>>, fragment |-> <<>>, userinfo |-> <<>>]
Add(parts, field, t) == [parts EXCEPT ![field] = Append(@, t)]

\* The parts, or <<>> for a host that makes no sense.
http_parse_host(parts, found_at) ==
    LET FieldOf(s) == CASE s \in {"host", "v6", "v6_zone_start", "v6_zone"} -> "host"
                        [] s \in {"port", "userinfo"} -> s
                        [] OTHER -> "none"
        Next(a, t) ==
            LET s == http_parse_host_char(a.s, t)
            IN  [s |-> s, parts |-> IF FieldOf(s) = "none" THEN a.parts
                                    ELSE Add(a.parts, FieldOf(s), t)]
        end == FoldLeft(Next, [s |-> IF found_at THEN "userinfo_start" ELSE "host_start",
                               parts |-> [parts EXCEPT !.host = <<>>]], parts.host)
    IN  IF end.s \in {"host", "v6_end", "port"} THEN end.parts ELSE <<>>

FieldOfUrl(s) ==
    CASE s = "s_req_schema" -> "schema"
      [] s \in {"s_req_server", "s_req_server_with_at"} -> "host"
      [] s = "s_req_path" -> "path"
      [] s = "s_req_query_string" -> "query"
      [] s = "s_req_fragment" -> "fragment"
      [] OTHER -> "none"

\* Mutant of strtoul: the port is read into the sixteen bits it is kept in.
PortNarrowed(s) == FoldLeft(LAMBDA n, d : (10 * n + Value[d]) % (MaxPort + 1), 0, s)

strtoul(s) == FoldLeft(LAMBDA n, d : 10 * n + Value[d], 0, s)

\* The parts of a URL, or <<>> if it is refused.
http_parser_parse_url(url) ==
    LET Next(a, t) ==
            LET s == parse_url_char(a.s, t)
            IN  [s |-> s, at |-> a.at \/ s = "s_req_server_with_at",
                 parts |-> IF FieldOfUrl(s) = "none" THEN a.parts ELSE Add(a.parts, FieldOfUrl(s), t)]
        end == FoldLeft(Next, [s |-> "s_req_spaces_before_url", at |-> FALSE, parts |-> NoParts], url)
        parts == IF end.parts.host = <<>> THEN end.parts ELSE http_parse_host(end.parts, end.at)
    IN  IF \/ end.s = "s_dead"
           \/ end.parts.schema # <<>> /\ end.parts.host = <<>>
           \/ parts = <<>>
        THEN <<>>
        ELSE IF strtoul(parts.port) > MaxPort THEN <<>> ELSE parts

script_parse_url(url) ==
    LET parts == http_parser_parse_url(url)
    IN  parts # <<>> /\ parts.schema # <<>> /\ parts.host # <<>>

-----------------------------------------------------------------------------
(* Properties.                                                             *)

\* Reading data in pieces, as socket_readable does: until a call does not take its
\* piece.  shown collects what the calls have shown.
Read(p, pieces) ==
    LET Next(a, piece) ==
            LET q == http_parser_execute(a.p, piece)
            IN  IF ~a.going THEN a
                ELSE [p |-> [q EXCEPT !.shown = a.p.shown \o @], going |-> q.parsed = Len(piece)]
    IN  FoldLeft(Next, [p |-> p, going |-> TRUE], pieces).p

\* What was shown, without the places where reads cut it.
Flat(shown) ==
    FlattenSeq([n \in DOMAIN shown |->
        IF shown[n][1] = "complete" THEN <<shown[n]>>
        ELSE [k \in DOMAIN shown[n][2] |-> <<shown[n][1], shown[n][2][k]>>]])

Pieces(s, cuts) ==
    LET edge == <<0>> \o cuts \o <<Len(s)>>
    IN  [n \in 1 .. Len(edge) - 1 |-> SubSeq(s, edge[n] + 1, edge[n + 1])]

\* All of s in pieces cut at cuts: the callbacks and the error that come out of it.
Outcome(s, cuts) ==
    LET p == Read(Parser("response"), Pieces(s, cuts))
    IN  [shown |-> Flat(p.shown), error |-> p.http_errno]

OneByOne(s) == [n \in 1 .. Len(s) - 1 |-> n]

\* What reading one response and then the other has to show wrk.
Shows(q, r) ==
    IF q.keeps THEN [shown |-> Flat(q.shown \o r.shown), error |-> "OK"]
    ELSE [shown |-> Flat(q.shown), error |-> "CLOSED_CONNECTION"]

\* However reads cut the two, the parser shows exactly the names, values and bodies the
\* server sent, each message complete once, with Content-Length, chunks or neither; and
\* takes nothing from after a response that closes the connection.
Followed(q, r) ==
    LET s == q.text \o r.text
    IN  \A cuts \in {OneByOne(s)} \cup {<<n>> : n \in 1 .. Len(q.text)} :
            Outcome(s, cuts) = Shows(q, r)

\* ... or with the end of the connection as its end.
EofEnds(q) ==
    \A n \in 1 .. Len(q.text) - 1 :
        LET p == Read(Parser("response"), Pieces(q.text, <<n>>) \o <<<<>>>>)
        IN  Flat(p.shown) = Flat(q.shown) /\ p.http_errno = "OK"

Understood ==
    {r \in Responses :
        IF r.eof THEN EofEnds(r)
        ELSE \A q \in Responses : q.eof \/ Followed(r, q)}

\* A header that does not end is given up, however it is cut.
HeadersBounded ==
    \A n \in 1 .. 3 :
        LET long == <<"HTTP/", "1", ".", "1", " ", "2", "0", "0", CR, LF, "w", ":">>
                        \o [k \in 1 .. MaxHeader - 11 |-> "w"]
        IN  Outcome(long, SelectSeq(OneByOne(long), LAMBDA k : k % n = 0)).error = "HEADER_OVERFLOW"

\* wrk counts the requests a script pipelines as the server will see them, and takes no
\* part of one, nor one behind a closing one, for a request (script.c:262-301).
RequestsCounted ==
    \A q, r \in Requests :
        /\ script_verify_request(q.text) = 1
        /\ script_verify_request(q.text \o r.text) = (IF q.keeps THEN 2 ELSE 0)
        /\ \A n \in 1 .. Len(q.text) - 1 : script_verify_request(SubSeq(q.text, 1, n)) = 0

UrlText(u) ==
    u.schema \o (IF u.schema = <<>> THEN <<>> ELSE <<":", "/", "/">>)
        \o (IF u.userinfo = <<>> THEN <<>> ELSE u.userinfo \o <<"@">>)
        \o (IF ":" \in ToSet(u.host) THEN <<"[">> \o u.host \o <<"]">> ELSE u.host)
        \o (IF u.port = <<>> THEN <<>> ELSE <<":">> \o u.port) \o u.path
        \o (IF u.query = <<>> THEN <<>> ELSE <<"?">> \o u.query)
        \o (IF u.fragment = <<>> THEN <<>> ELSE <<"#">> \o u.fragment)

\* A URL is split into the parts it was made of, userinfo, addresses in brackets and
\* ports at their limit included, and one that wrk could not connect to is refused.
UrlsSplit ==
    \A given \in Urls :
        LET u == given.parts
            whole == IF u.schema = <<>> THEN <<>> = u.host \o u.userinfo \o u.port ELSE u.host # <<>>
        IN  /\ whole => http_parser_parse_url(UrlText(u)) =
                            (IF given.number > MaxPort THEN <<>> ELSE u)
            /\ script_parse_url(UrlText(u)) =>
                    whole /\ u.host # <<>> /\ given.number <= MaxPort
=============================================================================
