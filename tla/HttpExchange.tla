------------------------------- MODULE HttpExchange -------------------------------
(***************************************************************************)
(* One connection of the HTTP library (src/lib/httplib.h), call by call of *)
(* its streams: what a client writes, what the server makes of as much of  *)
(* it as has come when its patience ends, and what the client makes of the *)
(* answer.  Every read and every write may time out, every write may send  *)
(* only a part, and either process may end or be suspended at any moment.  *)
(*                                                                         *)
(* Text is a sequence of words: a line without its end is one word, as is  *)
(* a byte of a body, so that a line is cut either before its word or       *)
(* before its end.                                                         *)
(***************************************************************************)
EXTENDS Integers, Sequences

CONSTANTS Command,      \* the body of a POST
          Answer,       \* what the handler of each kind of request answers
          KeepAliveMax  \* CPPHTTPLIB_KEEPALIVE_MAX_COUNT

ASSUME ExchangeAssumption == KeepAliveMax \in Nat \ {0}

VARIABLES kind,     \* the request the client makes: POST or GET
          end,      \* the two ends of the connection
          handled,  \* the bodies the handler was called with
          result,   \* what the client's call returned
          closing,  \* connection_closed of the server's current request
          count     \* requests process_server_socket_core still takes
serverVars == <<handled, closing, count>>
vars == <<kind, end, handled, result, closing, count>>

Kinds == {"POST", "GET"}
Sides == {"client", "server"}
Peer(s) == IF s = "client" THEN "server" ELSE "client"

\* An end: its step, what it still has to write, what has come and is not read,
\* and of what it reads the line, the status, the headers, the body and how much
\* of it is still to come.
Idle == [at |-> "idle", open |-> FALSE, out |-> <<>>, wire |-> <<>>, line |-> <<>>,
         status |-> 0, headers |-> {}, body |-> <<>>, left |-> 0]
-----------------------------------------------------------------------------
(* The text of requests and responses *)

Word(name, n) == [name |-> name, n |-> n]
Crlf == Word("crlf", 0)
Newline == Word("newline", 0)   \* a byte of a body that is a line feed
Length(n) == Word("Content-Length", n)
Close == Word("Connection:close", 0)

\* A byte of a body is a "byte" or a newline.
Names == Kinds \cup {"HTTP", "Connection", "Connection:close", "Content-Length",
                     "crlf", "newline", "byte"}
Words == [name : Names, n : Nat]

\* A command is a line the client has read, without its end (client.cpp:14).
ASSUME CommandAssumption ==
  Command \in Seq(Words) /\ \A i \in DOMAIN Command : Command[i] \notin {Crlf, Newline}

\* The handlers answer an id, or text whose lines end with a line feed alone.
ASSUME AnswerAssumption ==
  /\ Answer \in [Kinds -> Seq(Words)]
  /\ \A k \in Kinds : \A i \in DOMAIN Answer[k] : Answer[k][i] # Crlf

Body(k) == IF k = "POST" THEN Command ELSE <<>>

\* A body that is empty has no length in a GET.
RequestHead(k) ==
  <<Word(k, 0), Crlf, Close, Crlf>>
  \o (IF k = "POST" THEN <<Length(Len(Command)), Crlf>> ELSE <<>>) \o <<Crlf>>

\* Connection is close or Keep-Alive: to this client they are the same.
ResponseHead(status, body) ==
  <<Word("HTTP", status), Crlf, Word("Connection", 0), Crlf, Length(Len(body)), Crlf, Crlf>>

Response(status) == IF status = 200 THEN Answer[kind] ELSE <<>>

\* The length the headers give, or none.
Unknown == -1
ContentLength(headers) ==
  IF \E h \in headers : h.name = "Content-Length"
  THEN (CHOOSE h \in headers : h.name = "Content-Length").n ELSE Unknown
-----------------------------------------------------------------------------
Init == /\ kind \in Kinds
        /\ end = [s \in Sides |-> IF s = "client" THEN [Idle EXCEPT !.at = "connect"] ELSE Idle]
        /\ handled = <<>> /\ result = "none" /\ closing = FALSE /\ count = KeepAliveMax

At(s, step) == end[s].at = step
Become(s, e) == end' = [end EXCEPT ![s] = e]

\* Shutdown and close, by this side.
Closed(e) == [e EXCEPT !.at = "ended", !.open = FALSE]

\* The client's call returns an error and no response.
Fail(e, error) == Become("client", Closed(e)) /\ result' = error /\ UNCHANGED serverVars
-----------------------------------------------------------------------------
(* The client connects *)

Connect ==
  /\ At("client", "connect")
  /\ end' = [s \in Sides |->
       [Idle EXCEPT !.at = IF s = "client" THEN "write_head" ELSE "keep_alive",
                    !.open = TRUE, !.out = IF s = "client" THEN RequestHead(kind) ELSE <<>>]]
  /\ UNCHANGED <<kind, result, serverVars>>

\* Nobody listens, or the connection is not made in time.
ConnectErrors == {"Connection", "ConnectionTimeout"}

ConnectFails ==
  /\ At("client", "connect")
  /\ \E error \in ConnectErrors : Fail(end["client"], error)
  /\ UNCHANGED kind
-----------------------------------------------------------------------------
(* Writing: write_data on a SocketStream *)

Writing(s) == end[s].at \in {"write_head", "write_body"}

\* One send takes as much as it likes; what is sent to a closed socket is lost.
Write(s) ==
  /\ Writing(s)
  /\ \E n \in 1..Len(end[s].out) :
       end' = [end EXCEPT ![s].out = SubSeq(@, n + 1, Len(@)),
                          ![Peer(s)].wire = IF end[Peer(s)].open
                                            THEN @ \o SubSeq(end[s].out, 1, n) ELSE @]
  /\ UNCHANGED <<kind, result, serverVars>>

ToWriteBody(e, body) ==
  [e EXCEPT !.at = "write_body", !.out = body]

\* The response is written: the connection ends with the request that asked for
\* that, or another request may come.
Responded ==
  /\ IF closing \/ count = 1
     THEN Become("server", Closed(end["server"]))
     ELSE Become("server", [end["server"] EXCEPT !.at = "keep_alive"])
  /\ count' = count - 1
  /\ UNCHANGED <<handled, result, closing>>

\* The head is out.
HeadWritten(s) ==
  /\ At(s, "write_head") /\ end[s].out = <<>>
  /\ Become(s, ToWriteBody(end[s], IF s = "client" THEN Body(kind) ELSE Response(end[s].status)))
  /\ UNCHANGED <<kind, result, serverVars>>

BodyWritten(s) ==
  /\ At(s, "write_body") /\ end[s].out = <<>>
  /\ IF s = "server" THEN Responded
     ELSE /\ Become(s, [end[s] EXCEPT !.at = "first_line"])
          /\ UNCHANGED <<result, serverVars>>
  /\ UNCHANGED kind

\* is_writable says no in time, or send fails.  The client gives up.  The server
\* does not look at what became of the head, and goes on to the body.
WriteFails(s) ==
  /\ Writing(s) /\ end[s].out # <<>>
  /\ \/ s = "client" /\ Fail(end[s], "Write")
     \/ /\ s = "server"
        /\ IF At(s, "write_head") THEN Become(s, ToWriteBody(end[s], Response(end[s].status)))
           ELSE Become(s, Closed(end[s]))
        /\ UNCHANGED <<result, serverVars>>
  /\ UNCHANGED kind
-----------------------------------------------------------------------------
(* Reading: SocketStream::read *)

Readable(s) == end[s].wire # <<>>

\* The other side has closed and all it sent is read: recv gives 0.
AtEnd(s) == ~Readable(s) /\ ~end[Peer(s)].open

\* Fault: a read waits as long as the connection is there.
BreaksOnlyWithPeer(s) == ~end[Peer(s)].open

\* Nothing came in time, or the other side closed without having read all, and
\* what it sent is lost.
Breaks(s) == ~Readable(s) \/ ~end[Peer(s)].open

\* What is left of an end when it has read a word.
Rest(s) == [end[s] EXCEPT !.wire = Tail(@)]
-----------------------------------------------------------------------------
(* What the ends make of what they read *)

\* write_response with a status of an error.
BadRequest(e) ==
  [e EXCEPT !.at = "write_head", !.status = 400, !.out = ResponseHead(400, <<>>), !.line = <<>>]

\* Fault: a line feed alone ends a line (CPPHTTPLIB_ALLOW_LF_AS_LINE_TERMINATOR).
EndsWithNewline(line) == line # <<>> /\ line[Len(line)] \in {Crlf, Newline}

EndsWithCrlf(line) == line # <<>> /\ line[Len(line)] = Crlf

ParseRequestLine(line) == Len(line) = 2 /\ EndsWithCrlf(line) /\ line[1].name \in Kinds

ParseStatusLine(line) == Len(line) = 2 /\ EndsWithCrlf(line) /\ line[1].name = "HTTP"

RequestLine(e) ==
  IF ParseRequestLine(e.line) THEN [e EXCEPT !.at = "headers", !.line = <<>>] ELSE BadRequest(e)

StatusLine(e) == [e EXCEPT !.at = "headers", !.status = e.line[1].n, !.line = <<>>]

\* A line that does not end as it should is skipped.
HeaderLine(e) ==
  [e EXCEPT !.headers = IF EndsWithCrlf(e.line) THEN @ \cup {e.line[1]} ELSE @, !.line = <<>>]

HeadersEnd(e) == e.at = "headers" /\ EndsWithCrlf(e.line) /\ Len(e.line) = 1

ToContent(e) == [e EXCEPT !.at = "content", !.left = ContentLength(e.headers), !.line = <<>>]

ExpectContent == kind = "POST"

Routing(e) == IF ExpectContent THEN ToContent(e) ELSE [e EXCEPT !.at = "handle", !.line = <<>>]

\* A line is read, by the end e that has it.
ServerLine(e) ==
  /\ Become("server", IF e.at = "first_line" THEN RequestLine(e)
                      ELSE IF HeadersEnd(e) THEN Routing(e) ELSE HeaderLine(e))
  /\ closing' = (closing \/ (HeadersEnd(e) /\ Close \in e.headers))
  /\ UNCHANGED <<result, handled, count>>

ClientLine(e) ==
  IF e.at = "first_line" /\ ~ParseStatusLine(e.line) THEN Fail(e, "Read")
  ELSE /\ Become("client", IF e.at = "first_line" THEN StatusLine(e)
                           ELSE IF HeadersEnd(e) THEN ToContent(e) ELSE HeaderLine(e))
       /\ UNCHANGED <<result, serverVars>>

LineRead(s, e) == IF s = "server" THEN ServerLine(e) ELSE ClientLine(e)

\* No line could be read.  A connection that ends before a request is closed.
NoLine(s) ==
  IF s = "client" THEN Fail(end[s], "Read")
  ELSE /\ Become(s, IF At(s, "headers") THEN BadRequest(end[s]) ELSE Closed(end[s]))
       /\ UNCHANGED <<result, serverVars>>
-----------------------------------------------------------------------------
(* getline, byte by byte *)

Reading(s) == end[s].at \in {"first_line", "headers"}

GetWord(s) ==
  /\ Reading(s) /\ Readable(s)
  /\ LET word == Head(end[s].wire)
         e == [Rest(s) EXCEPT !.line = Append(@, word)]
     IN IF word \in {Crlf, Newline} THEN LineRead(s, e)
        ELSE Become(s, e) /\ UNCHANGED <<result, serverVars>>
  /\ UNCHANGED kind

\* The end of what there is to read ends the line that was begun.
LineAtEnd(s) ==
  /\ Reading(s) /\ AtEnd(s) /\ end[s].line # <<>>
  /\ LineRead(s, end[s])
  /\ UNCHANGED kind

LineBreaks(s) ==
  /\ Reading(s) /\ Breaks(s)
  /\ NoLine(s)
  /\ UNCHANGED kind
-----------------------------------------------------------------------------
(* read_content *)

ContentRead(s) == At(s, "content") /\ end[s].left = 0

\* The receivers append what they are given.
Received(e, byte) == [e EXCEPT !.body = Append(@, byte)]

GetContent(s) ==
  /\ At(s, "content") /\ end[s].left # 0 /\ Readable(s)
  /\ Become(s, [Received(Rest(s), Head(end[s].wire)) EXCEPT !.left = IF @ = Unknown THEN @ ELSE @ - 1])
  /\ UNCHANGED <<kind, result, serverVars>>

\* Fault: the body that came is taken for the whole, as it is without a length.
ContentBreaksOff(s) ==
  /\ At(s, "content") /\ end[s].left # 0 /\ Breaks(s)
  /\ Become(s, [end[s] EXCEPT !.left = 0])
  /\ UNCHANGED <<kind, result, serverVars>>

\* Without a length the body goes on until nothing comes.
ContentBreaks(s) ==
  /\ At(s, "content") /\ end[s].left # 0 /\ Breaks(s)
  /\ IF end[s].left = Unknown
     THEN Become(s, [end[s] EXCEPT !.left = 0]) /\ UNCHANGED <<result, serverVars>>
     ELSE IF s = "client" THEN Fail(end[s], "Read")
     ELSE Become(s, BadRequest(end[s])) /\ UNCHANGED <<result, serverVars>>
  /\ UNCHANGED kind

\* The client's call returns with the response it has read.
Return ==
  /\ ContentRead("client")
  /\ Become("client", Closed(end["client"])) /\ result' = "response"
  /\ UNCHANGED <<kind, serverVars>>
-----------------------------------------------------------------------------
(* The server: keep_alive, and the handler *)

\* A new stream for each request: what the last one had in its buffer is lost.
NextRequest ==
  /\ At("server", "keep_alive") /\ (Readable("server") \/ AtEnd("server"))
  /\ \E n \in 0..(IF count = KeepAliveMax THEN 0 ELSE Len(end["server"].wire)) :
       Become("server", [end["server"] EXCEPT !.at = "first_line", !.wire = SubSeq(@, n + 1, Len(@)),
                           !.line = <<>>, !.headers = {}, !.body = <<>>, !.status = 0])
  /\ closing' = FALSE
  /\ UNCHANGED <<kind, result, handled, count>>

\* Nothing came for keep_alive_timeout_sec, or another handler stopped the server.
KeepAliveEnds ==
  /\ At("server", "keep_alive")
  /\ Become("server", Closed(end["server"]))
  /\ UNCHANGED <<kind, result, serverVars>>

\* The handler runs, and set_content has its answer.
Handle ==
  /\ At("server", "handle") \/ ContentRead("server")
  /\ handled' = Append(handled, end["server"].body)
  /\ Become("server", [end["server"] EXCEPT !.at = "write_head", !.status = 200,
                                            !.out = ResponseHead(200, Answer[kind])])
  /\ UNCHANGED <<kind, result, closing, count>>
-----------------------------------------------------------------------------
Busy(s) == end[s].at \notin {"idle", "ended", "suspended"}

\* The process of one side ends, or is suspended for good.
Dies(s) == /\ Busy(s) /\ Become(s, Closed(end[s])) /\ UNCHANGED <<kind, result, serverVars>>
Suspends(s) == /\ Busy(s) /\ Become(s, [end[s] EXCEPT !.at = "suspended"])
               /\ UNCHANGED <<kind, result, serverVars>>

Stream(s) == \/ Write(s) \/ HeadWritten(s) \/ BodyWritten(s) \/ WriteFails(s)
             \/ GetWord(s) \/ LineAtEnd(s) \/ LineBreaks(s)
             \/ GetContent(s) \/ ContentBreaks(s)

ClientSteps == Connect \/ ConnectFails \/ Stream("client") \/ Return
ServerSteps == NextRequest \/ KeepAliveEnds \/ Stream("server") \/ Handle

Next == ClientSteps \/ ServerSteps \/ \E s \in Sides : Dies(s) \/ Suspends(s)

\* Both run until they end or are suspended; a read or a write that is not
\* possible times out.
Spec == Init /\ [][Next]_vars /\ WF_vars(ClientSteps) /\ WF_vars(ServerSteps)
-----------------------------------------------------------------------------
(* Properties *)

\* The handler is called at most once for a request, and never with a part of
\* its body, however the connection was cut (server.cpp:210-234 runs the command
\* it is given).
HandledWhole == handled \in {<<>>, <<Body(kind)>>}

\* What the client's call returns is true (client.cpp:20): a response is the whole
\* answer of a handler that ran, or an error without a body of a request that no
\* handler runs for; and without a response only an error in reading leaves it
\* open whether the handler runs, so that after any other one it may be tried again.
ResultIsTrue ==
  /\ result = "response" =>
       \/ end["client"].status = 200 /\ handled = <<Body(kind)>> /\ end["client"].body = Answer[kind]
       \/ end["client"].status = 400 /\ handled = <<>> /\ end["client"].body = <<>>
  /\ result \in ConnectErrors \cup {"Write"} => handled = <<>>

\* Neither side waits for ever for the other: whichever is suspended or ends,
\* the other one comes to its end.
SidesEnd == \A s \in Sides : Busy(s) ~> ~Busy(s)
=============================================================================
