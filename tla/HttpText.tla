------------------------------ MODULE HttpText ------------------------------
(***************************************************************************)
(* What the server does with the text of a request: where one ends and the *)
(* next begins (TcpServer.cpp:280-302, HttpHandler.cpp:554-582), what is   *)
(* asked for (424-488), and which file a path names (15-50, 342-354); and  *)
(* the head of its answers (358-403).  Pure functions of sequences of      *)
(* tokens.                                                                 *)
(*                                                                         *)
(* A token stands for the text it shows, or for a piece of text no search  *)
(* of the code looks into.  CR and LF are tokens each, so a stream can be  *)
(* cut inside the end of a header; lengths count tokens.                   *)
(***************************************************************************)
EXTENDS Naturals, FiniteSets, SequencesExt, TLC

CONSTANTS
    Limit,       \* one more than the greatest size_t
    StaticRoot,  \* static_root, normalised
    Files,       \* the paths of files that can be opened
    Samples,     \* requests [method, path, connection, body, route]
    Streams      \* sequences of tokens, requests or not, to check with

CR == "\r"
LF == "\n"
LengthField == "Content-Length: "

\* The last conjunct is what the provers do not know about strings.
ASSUME TextAssumption ==
    /\ Limit \in Nat \ {0}
    /\ StaticRoot \in Seq(STRING)
    /\ Streams \subseteq Seq(STRING)
    /\ {CR, LF, LengthField} \subseteq STRING

CRLF == <<CR, LF>>
EndOfHeader == CRLF \o CRLF

\* std::string::find: the first place at or after from where pat occurs; 0 for npos.
Find(s, pat, from) ==
    LET places == {n \in from .. Len(s) - Len(pat) + 1 : SubSeq(s, n, n + Len(pat) - 1) = pat}
    IN  IF places = {} THEN 0 ELSE CHOOSE n \in places : \A k \in places : n <= k

\* From position a up to the next pat, or to the end.
UpTo(s, a, pat) ==
    LET e == Find(s, pat, a) IN SubSeq(s, a, IF e = 0 THEN Len(s) ELSE e - 1)

-----------------------------------------------------------------------------
(* Splitting the stream.                                                   *)

Digits == <<"0", "1", "2", "3", "4", "5", "6", "7", "8", "9">>
Digit == [d \in Range(Digits) |-> (CHOOSE n \in 1 .. 10 : Digits[n] = d) - 1]

\* The number that a sequence of digits stands for.
Decimal(s) ==
    LET upTo[n \in 0 .. Len(s)] == IF n = 0 THEN 0 ELSE 10 * upTo[n - 1] + Digit[s[n]]
    IN  upTo[Len(s)]

\* How many tokens at the front of s are in T.
Leading(s, T) ==
    CHOOSE n \in 0 .. Len(s) : /\ \A k \in 1 .. n : s[k] \in T
                               /\ n < Len(s) => s[n + 1] \notin T

\* std::stoull on the text of the field, with the catch: white space and a sign are
\* taken, and what has no digit or does not fit counts as 0.
Stoull(s) ==
    LET text == SubSeq(s, Leading(s, {" ", "\t", CR, LF}) + 1, Len(s))
        signed == text # <<>> /\ text[1] \in {"+", "-"}
        rest == IF signed THEN Tail(text) ELSE text
        n == Decimal(SubSeq(rest, 1, Leading(rest, DOMAIN Digit)))
    IN  IF n >= Limit THEN 0 ELSE IF signed /\ text[1] = "-" THEN (Limit - n) % Limit ELSE n

\* Mutant of ContentLength: the field is looked for in the body as well.
ContentLengthAnywhere(data, header_end) ==
    LET found == Find(data, <<LengthField>>, 1)
    IN  IF found # 0 THEN Stoull(UpTo(data, found + 1, CRLF)) ELSE 0

ContentLength(data, header_end) ==
    LET found == Find(data, <<LengthField>>, 1)
    IN  IF found # 0 /\ found < header_end THEN Stoull(UpTo(data, found + 1, CRLF)) ELSE 0

getFullRequestLength(data, header_end) ==
    (header_end - 1 + 4 + ContentLength(data, header_end)) % Limit

\* The length of the request at the front, or 0 to wait.
FirstRequest(data) ==
    LET header_end == Find(data, EndOfHeader, 1)
        total_len == IF header_end = 0 THEN 0 ELSE getFullRequestLength(data, header_end)
    IN  IF total_len > Len(data) THEN 0 ELSE total_len

\* A connection: the requests handed over and the buffer.
Connection == [requests : Seq(Seq(STRING)), buffer : Seq(STRING)]

\* What a round of the loop does if a request is at the front.
Round(s) ==
    LET n == FirstRequest(s.buffer)
    IN  [requests |-> Append(s.requests, SubSeq(s.buffer, 1, n)),
         buffer |-> SubSeq(s.buffer, n + 1, Len(s.buffer))]

\* The loop, on the state of a connection.
SplitAll[s \in Connection] ==
    IF FirstRequest(s.buffer) = 0 THEN s ELSE SplitAll[Round(s)]

Arrive(s, data) == SplitAll[[requests |-> s.requests, buffer |-> s.buffer \o data]]
Untouched == [requests |-> <<>>, buffer |-> <<>>]

-----------------------------------------------------------------------------
(* Reading a request.                                                      *)

isRequestComplete(request) == Find(request, EndOfHeader, 1) # 0

\* Between the first two blanks of the first line, if there are two.
parse_http_path(request) ==
    LET line == UpTo(request, 1, CRLF)
        a == Find(line, <<" ">>, 1) + 1
        b == Find(line, <<" ">>, a)
    IN  IF Find(request, CRLF, 1) = 0 \/ a = 1 \/ b = 0 THEN <<"/">> ELSE SubSeq(line, a, b - 1)

parse_http_method(request) ==
    IF Find(request, <<" ">>, 1) = 0 THEN <<"GET">> ELSE UpTo(request, 1, <<" ">>)

parse_http_body(request) ==
    LET e == Find(request, EndOfHeader, 1)
    IN  IF e = 0 THEN <<>> ELSE SubSeq(request, e + 4, Len(request))

getPostParam(body, key) ==
    LET found == Find(body, <<key>>, 1)
    IN  IF found = 0 THEN <<>> ELSE UpTo(body, found + 1, <<"&">>)

\* find_first_not_of, find_last_not_of, tolower.
Trimmed(s) ==
    LET ink == {n \in 1 .. Len(s) : s[n] \notin {" ", "\t"}}
    IN  IF ink = {} THEN <<>>
        ELSE SubSeq(s, CHOOSE n \in ink : \A k \in ink : n <= k,
                       CHOOSE n \in ink : \A k \in ink : n >= k)
Lower(s) == [n \in 1 .. Len(s) |-> IF s[n] = "Close" THEN "close" ELSE s[n]]

shouldKeepAlive(request) ==
    LET found == Find(request, <<"Connection:">>, 1)
    IN  found # 0 => Lower(Trimmed(UpTo(request, found + 1, CRLF))) # <<"close">>

-----------------------------------------------------------------------------
(* From a path to a file, and from a request to a route of HttpHandler.    *)

\* The parts between slashes, each a sequence of tokens; the last may be empty.
PathParts(path) ==
    FoldLeft(LAMBDA parts, t : IF t = "/" THEN Append(parts, <<>>)
                             ELSE [parts EXCEPT ![Len(parts)] = Append(@, t)],
           <<<<>>>>, path)

\* Mutant of NextPart: ".." at the top is kept.
NextPartKeeping(parts, part) ==
    IF part \in {<<>>, <<".">>} THEN parts
    ELSE IF part = <<"..">> /\ parts # <<>> THEN Front(parts)
    ELSE Append(parts, part)

NextPart(parts, part) ==
    IF part \in {<<>>, <<".">>} THEN parts
    ELSE IF part = <<"..">> THEN (IF parts = <<>> THEN parts ELSE Front(parts))
    ELSE Append(parts, part)

normalizePath(path) ==
    LET parts == FoldLeft(NextPart, <<>>, PathParts(path))
        text == FoldLeft(LAMBDA s, p : s \o <<"/">> \o p, <<>>, parts)
    IN  IF text = <<>> THEN <<"/">> ELSE text

\* normalized_path.find(static_root) == 0
isPathWithinRoot(path) == IsPrefix(StaticRoot, path)

Dotted == {".", "..", "a.html", "b..c"}
HasDots(path) == \E n \in DOMAIN path : path[n] \in {"..", "b..c"}

\* The file serverStaticFile opens, if it gets that far.
SafePath(path) == normalizePath(StaticRoot \o path)

\* The route of handleRequest, as a member of HttpHandler's Routes.
RouteOf(request) ==
    LET path == parse_http_path(request)
        method == parse_http_method(request)
        dotted == \E n \in DOMAIN path : path[n] \in Dotted
    IN  IF ~isRequestComplete(request) THEN "incomplete"
        ELSE IF dotted /\ ~isPathWithinRoot(SafePath(path)) THEN "forbidden"
        ELSE IF dotted /\ ~HasDots(SafePath(path)) /\ SafePath(path) \in Files THEN "file"
        ELSE IF dotted THEN "nofile"
        ELSE IF method = <<"POST">> /\ path \in {<<"/", "api", "/", "register">>,
                                                 <<"/", "api", "/", "login">>} THEN "api"
        ELSE IF method = <<"GET">> /\ path = <<"/", "status">> THEN "status"
        ELSE "dynamic"

-----------------------------------------------------------------------------
(* The head of an answer, in the tokens of HttpParser.                     *)

StatusText(code) ==
    CASE code = 200 -> <<"2", "0", "0", " ", "OK">>
      [] code = 404 -> <<"4", "0", "4", " ", "Not", " ", "Found">>
      [] OTHER      -> <<"5", "0", "0", " ", "Internal", " ", "Error">>

KeepAliveLines(keep_alive) ==
    IF keep_alive
    THEN <<"connection", ":", " ", "keep-", "alive">> \o CRLF \o <<"x", ":", " ", "v">> \o CRLF
    ELSE <<"connection", ":", " ", "close">> \o CRLF

\* build_http_response, and the header handleStaticFileCore writes; length is the
\* digit that stands for the length of the body.
build_http_response(code, length, keep_alive) ==
    <<"HTTP/", "1", ".", "1", " ">> \o StatusText(code) \o CRLF
        \o <<"x", ":", " ", "v">> \o CRLF
        \o <<"Content-", "length", ":", " ", length>> \o CRLF
        \o KeepAliveLines(keep_alive) \o CRLF

-----------------------------------------------------------------------------
(* Properties: the functions against what they are meant to compute.       *)

\* A request as a client writes it.
Text(r) ==
    <<r.method, " ">> \o r.path \o <<" ", "HTTP/1.1">> \o CRLF
        \o (IF r.connection = <<>> THEN <<>> ELSE <<"Connection:">> \o r.connection \o CRLF)
        \o (IF r.body = <<>> THEN <<>>
            ELSE <<LengthField, ToString(Len(r.body))>> \o CRLF)
        \o CRLF \o r.body

Cuts(s) == {<<SubSeq(s, 1, n), SubSeq(s, n + 1, Len(s))>> : n \in 0 .. Len(s)}

\* The requests handed over as they were sent, behind whichever other, however the
\* bytes of the two arrive, cut inside the end of a header or a body included.
WellSplit ==
    {r \in Samples : \A q \in Samples : \A c \in Cuts(Text(q) \o Text(r)) :
        Arrive(Arrive(Untouched, c[1]), c[2]) =
            [requests |-> <<Text(q), Text(r)>>, buffer |-> <<>>]}

\* Of any stream whatever, well formed or not, nothing is lost, repeated or reordered,
\* and what is handed over depends on the stream alone, not on its arrival.
NothingLost ==
    \A s \in Streams :
        LET whole == Arrive(Untouched, s)
        IN  /\ FlattenSeq(whole.requests) \o whole.buffer = s
            /\ \A c \in Cuts(s) : Arrive(Arrive(Untouched, c[1]), c[2]) = whole

\* The parts of a path that name something: not undone by a ".." that comes later,
\* as a closing parenthesis undoes the opening one it matches.
Names(parts) == {n \in DOMAIN parts : parts[n] \notin {<<>>, <<".">>, <<"..">>}}
Undone(parts, n) ==
    \E m \in n + 1 .. Len(parts) :
        Cardinality({k \in n + 1 .. m : parts[k] = <<"..">>})
            > Cardinality({k \in n + 1 .. m : k \in Names(parts)})
Canonical(path) ==
    LET parts == PathParts(path)
        kept == {n \in Names(parts) : ~Undone(parts, n)}
        nth(k) == CHOOSE n \in kept : Cardinality({m \in kept : m <= n}) = k
    IN  FlattenSeq([k \in 1 .. Cardinality(kept) |-> <<"/">> \o parts[nth(k)]])

\* The requests that say to the server what their client meant, whatever the case and
\* the blanks of their Connection value.
Understood ==
    {r \in Samples :
        /\ isRequestComplete(Text(r))
        /\ parse_http_method(Text(r)) = <<r.method>>
        /\ parse_http_path(Text(r)) = r.path
        /\ parse_http_body(Text(r)) = r.body
        /\ shouldKeepAlive(Text(r)) =
              (\A n \in DOMAIN r.connection : r.connection[n] \notin {"close", "Close"})
        /\ RouteOf(Text(r)) = r.route}

\* normalizePath resolves "." and ".." as a stack of directories does, also above the root.
PathsResolved ==
    \A path \in BoundedSeq({"/", ".", "..", "x"}, 6) :
        normalizePath(path) = (IF Canonical(path) = <<>> THEN <<"/">> ELSE Canonical(path))
=============================================================================
