-------------------------- MODULE HttpExchangeProofs -----------------------------
(***************************************************************************)
(* Proofs about HttpExchange: whatever is cut, lost or late on a           *)
(* connection, the handler is called at most once and with the whole body, *)
(* and what the client's call returns is true; for every command, every    *)
(* answer and every number of requests of a connection.                    *)
(***************************************************************************)
EXTENDS HttpExchange, TLAPS
-----------------------------------------------------------------------------
client == end["client"]
server == end["server"]

ClientAts == {"connect", "write_head", "write_body", "first_line", "headers", "content",
              "ended", "suspended"}
ServerAts == {"idle", "keep_alive", "first_line", "headers", "content", "handle",
              "write_head", "write_body", "ended", "suspended"}

Ends == [at : ClientAts \cup ServerAts, open : BOOLEAN, out : Seq(Words), wire : Seq(Words), line : Seq(Words),
         status : Nat, headers : SUBSET Words, body : Seq(Words), left : Int]

TypeInv ==
  /\ kind \in Kinds
  /\ end \in [Sides -> Ends]
  /\ client.at \in ClientAts /\ server.at \in ServerAts
  /\ \A s \in Sides :
       /\ end[s].at \in {"idle", "connect", "ended"} => ~end[s].open
       /\ ~end[s].open => end[s].at \in {"idle", "connect", "ended", "suspended"}
  /\ closing \in BOOLEAN
  /\ count \in Int /\ count <= KeepAliveMax
-----------------------------------------------------------------------------
(* The request *)

\* The handler was called.
Called == handled # <<>>

\* All that the client writes, and what is left of it.
Text == RequestHead(kind) \o Body(kind)
ToSend == CASE client.at = "write_head" -> client.out \o Body(kind)
            [] client.at = "write_body" -> client.out
            [] OTHER -> <<>>

\* The first p words are read or dropped by the server, the first q are sent.
Sent(p, q) ==
  /\ p <= q
  /\ Len(server.wire) = q - p /\ \A i \in 1..q - p : server.wire[i] = Text[p + i]
  /\ Writing("client") => /\ Len(ToSend) = Len(Text) - q
                          /\ \A i \in 1..Len(Text) - q : ToSend[i] = Text[q + i]
  /\ result = "Write" => q < Len(Text)

\* What the server has made of the first p words when it reads headers.
HeadersTo(p) ==
  \/ p = 2 /\ server.line = <<>> /\ server.headers = {}
  \/ p = 3 /\ server.line = <<Close>> /\ server.headers = {}
  \/ p = 4 /\ server.line = <<>> /\ server.headers = {Close}
  \/ kind = "POST" /\ p = 5 /\ server.line = <<Length(Len(Command))>> /\ server.headers = {Close}
  \/ kind = "POST" /\ p = 6 /\ server.line = <<>> /\ server.headers = {Close, Length(Len(Command))}

\* The client has ended in the middle of the headers, and with it the line begun.
CutOff == server.wire = <<>> /\ server.line = <<>> /\ ~client.open

\* What it has made of them at any step: a first request is read as it was
\* written, and of what was left of one that was cut no request is made.
KeepsAlive(p) == IF count = KeepAliveMax THEN p = 0 ELSE p >= 1

LineFrom(b, p) ==
  Len(server.line) = p - b /\ \A i \in 1..p - b : server.line[i] = Text[b + i]

ReadsLine(p) ==
  /\ server.headers = {} /\ server.body = <<>>
  /\ IF count = KeepAliveMax THEN p <= 1 /\ LineFrom(0, p) ELSE \E b \in 1..p : LineFrom(b, p)

ReadsHeaders(p) == /\ count = KeepAliveMax /\ server.body = <<>> /\ p >= 2
                   /\ CutOff \/ HeadersTo(p)

ReadsContent(p) == /\ kind = "POST" /\ closing /\ count = KeepAliveMax
                   /\ p = 7 + Len(server.body)
                   /\ server.left = Len(Command) - Len(server.body)
                   /\ \A i \in 1..Len(server.body) : server.body[i] = Command[i]

HandlesGet(p) == /\ kind = "GET" /\ closing /\ count = KeepAliveMax
                 /\ server.body = <<>> /\ p = Len(Text)

Read(p) == /\ server.at = "keep_alive" => KeepsAlive(p)
           /\ server.at = "first_line" => ReadsLine(p)
           /\ server.at = "headers" => ReadsHeaders(p)
           /\ server.at = "content" => ReadsContent(p)
           /\ server.at = "handle" => HandlesGet(p)
           /\ server.at \in {"write_head", "write_body"} => server.status = 400 /\ p >= 1

RequestInv == Busy("server") /\ ~Called => \E p, q \in 0..Len(Text) : Sent(p, q) /\ Read(p)

\* The handler was called: the server answers that request, and then closes.
HandledInv ==
  /\ HandledWhole
  /\ Called =>
       /\ Busy("server") => server.at \in {"write_head", "write_body"} /\ server.status = 200 /\ closing
       /\ client.at # "connect" /\ ToSend = <<>>
  /\ client.at = "connect" => server = Idle /\ count = KeepAliveMax /\ ~closing /\ result = "none"
  /\ server.at = "idle" => client.at \in {"connect", "ended", "suspended"} /\ ~Called
-----------------------------------------------------------------------------
(* The response *)

\* Nothing was answered yet.
Unanswered == \/ server.at \in {"idle", "headers", "content", "handle"}
              \/ server.at \in {"keep_alive", "first_line"} /\ count = KeepAliveMax

\* The status of all responses so far, and the length they give.
Status == IF Called THEN 200 ELSE 400
Size == IF Called THEN Len(Answer[kind]) ELSE 0
HeadWords == {Word("HTTP", Status), Crlf, Word("Connection", 0), Length(Size)}

\* What the client has not made anything of yet, and of what is to come the head
\* that is being written.
HeadOut == IF server.at = "write_head" THEN server.out ELSE <<>>
Unread == client.line \o client.wire \o HeadOut

\* In z a line without text ends at i.
EmptyLine(z, at, i) == z[i] = Crlf /\ ((i = 1 /\ at = "headers") \/ (i >= 2 /\ z[i - 1] = Crlf))

\* Before the end of a line there are only words of heads; before an empty line
\* of all there is the length, in a line of its own.
Heads(z) ==
  /\ \A i \in 1..Len(z) : z[i] = Crlf => \A j \in 1..i : z[j] \in HeadWords
  /\ \A i \in 2..Len(z) : z[i] = Crlf /\ z[i - 1] = Crlf =>
       i >= 3 /\ z[i - 2] = Length(Size) /\ (i = 3 \/ z[i - 3] = Crlf)

\* Behind i, z goes on with the answer from its m-th byte.
Answers(z, i, m) ==
  /\ m + Len(z) - i <= Size
  /\ \A j \in 1..Len(z) - i : z[i + j] = Answer[kind][m + j]
  /\ server.at = "write_head" => Len(z) = i /\ m = 0
  /\ server.at = "write_body" => /\ m + Len(z) - i + Len(server.out) = Size
                                 /\ \A j \in 1..Len(server.out) :
                                      server.out[j] = Answer[kind][m + Len(z) - i + j]

HeadAts == {"write_head", "write_body", "first_line", "headers"}

\* What the client has made of the heads so far.
HeadRead ==
  /\ client.body = <<>>
  /\ Unanswered => client.line = <<>> /\ client.wire = <<>> /\ client.at # "headers"
  /\ \A i \in 1..Len(client.line) : client.line[i] \notin {Crlf, Newline}
  /\ client.at # "headers" => client.headers = {}
  /\ \A h \in client.headers : h.name = "Content-Length" => h = Length(Size)
  /\ client.at = "headers" => client.status = Status

\* What it will make of z.
HeadComes(z) ==
  /\ Heads(z)
  /\ ~Called => \A i \in 1..Len(z) : z[i] \in HeadWords
  /\ client.at = "headers" /\ Len(z) >= 1 /\ z[1] = Crlf => Length(Size) \in client.headers
  /\ Called => \A i \in 1..Len(z) : EmptyLine(z, client.at, i) => Answers(z, i, 0)

HeadInv == client.at \in HeadAts => HeadRead /\ HeadComes(Unread)

ContentInv ==
  client.at = "content" =>
    /\ ~Unanswered
    /\ client.status = Status /\ client.left = Size - Len(client.body)
    /\ ~Called => client.body = <<>>
    /\ Called => /\ \A j \in 1..Len(client.body) : client.body[j] = Answer[kind][j]
                 /\ Answers(client.wire \o HeadOut, 0, Len(client.body))

ServerInv ==
  server.at = "write_body" =>
    IF Called THEN \A i \in 1..Len(server.out) : server.out[i] # Crlf
    ELSE server.out = <<>>

ResultInv ==
  /\ ResultIsTrue
  /\ result # "none" => client.at = "ended"
  /\ result = "response" => ~Unanswered
  /\ result \in ConnectErrors => server.at = "idle"

ExchangeInv == /\ TypeInv /\ RequestInv /\ HandledInv /\ ServerInv
               /\ HeadInv /\ ContentInv /\ ResultInv
-----------------------------------------------------------------------------
(* The text *)

LEMMA WordTypes ==
  /\ \A name \in Names, n \in Nat : Word(name, n) \in Words
  /\ Crlf \in Words /\ Newline \in Words /\ Close \in Words
  /\ \A n \in Nat : Length(n) \in Words
<1>1. \A name \in Names, n \in Nat : Word(name, n) \in Words
  BY DEF Word, Words
<1>2. Crlf \in Words /\ Newline \in Words /\ Close \in Words
  BY DEF Crlf, Newline, Close, Word, Words, Names
<1>3. \A n \in Nat : Length(n) \in Words
  BY DEF Length, Word, Words, Names
<1> QED
  BY <1>1, <1>2, <1>3

\* Words with different names are different.
LEMMA WordNames ==
  /\ \A name, n : Word(name, n).name = name /\ Word(name, n).n = n
  /\ Crlf.name = "crlf" /\ Newline.name = "newline" /\ Close.name = "Connection:close"
  /\ \A name \in Names : Word(name, 0).name = name
  /\ \A n : Length(n).name = "Content-Length" /\ Length(n).n = n
<1>1. \A name, n : Word(name, n).name = name /\ Word(name, n).n = n
  BY DEF Word
<1> QED
  BY <1>1 DEF Crlf, Newline, Close, Length

LEMMA CommandType == Command \in Seq(Words) /\ Len(Command) \in Nat
                     /\ \A i \in 1..Len(Command) : /\ Command[i] \in Words
                                                     /\ Command[i] # Crlf /\ Command[i] # Newline
BY CommandAssumption

LEMMA AnswerType ==
  \A k \in Kinds : /\ Answer[k] \in Seq(Words) /\ Len(Answer[k]) \in Nat
                    /\ \A i \in 1..Len(Answer[k]) : Answer[k][i] # Crlf
BY AnswerAssumption

LEMMA ConcatShape ==
  ASSUME NEW S, NEW a \in Seq(S), NEW b \in Seq(S)
  PROVE  /\ a \o b \in Seq(S) /\ Len(a \o b) = Len(a) + Len(b)
         /\ Len(a) \in Nat /\ Len(b) \in Nat
         /\ \A i \in 1..Len(a) : (a \o b)[i] = a[i]
         /\ \A i \in 1..Len(b) : (a \o b)[Len(a) + i] = b[i]
OBVIOUS

LEMMA PostHead ==
  RequestHead("POST") = <<Word("POST", 0), Crlf, Close, Crlf, Length(Len(Command)), Crlf, Crlf>>
<1> DEFINE a == <<Word("POST", 0), Crlf, Close, Crlf>>
           b == <<Length(Len(Command)), Crlf>>
           c == <<Crlf>>
<1>1. RequestHead("POST") = a \o b \o c
  BY DEF RequestHead
<1> QED
  BY <1>1

LEMMA GetHead ==
  RequestHead("GET") = <<Word("GET", 0), Crlf, Close, Crlf, Crlf>>
<1>1. RequestHead("GET") = <<Word("GET", 0), Crlf, Close, Crlf>> \o <<>> \o <<Crlf>>
  BY DEF RequestHead
<1> QED
  BY <1>1

-----------------------------------------------------------------------------
(* Types *)

LEMMA NoWords == <<>> \in Seq(Words)
OBVIOUS

LEMMA Heads57 ==
  ASSUME NEW a \in Words, NEW b \in Words, NEW c \in Words, NEW d \in Words, NEW e \in Words,
         NEW f \in Words, NEW g \in Words
  PROVE  <<a, b, c, d, e>> \in Seq(Words) /\ <<a, b, c, d, e, f, g>> \in Seq(Words)
OBVIOUS

LEMMA RequestTypes ==
  \A k \in Kinds : RequestHead(k) \in Seq(Words) /\ Body(k) \in Seq(Words)
<1>1. /\ Word("POST", 0) \in Words /\ Word("GET", 0) \in Words
      /\ Crlf \in Words /\ Close \in Words /\ Length(Len(Command)) \in Words
  BY WordTypes, CommandType DEF Names, Kinds
<1>2. RequestHead("POST") \in Seq(Words)
  <2>1. <<Word("POST", 0), Crlf, Close, Crlf, Length(Len(Command)), Crlf, Crlf>> \in Seq(Words)
    BY <1>1, Heads57
  <2> QED
    BY <2>1, PostHead
<1>3. RequestHead("GET") \in Seq(Words)
  <2>1. <<Word("GET", 0), Crlf, Close, Crlf, Crlf>> \in Seq(Words)
    BY <1>1, Heads57
  <2> QED
    BY <2>1, GetHead
<1>4. \A k \in Kinds : Body(k) \in Seq(Words)
  BY CommandType, NoWords DEF Body
<1> QED
  BY <1>2, <1>3, <1>4 DEF Kinds

LEMMA ResponseHeadShape ==
  ASSUME NEW status \in Nat, NEW body \in Seq(Words)
  PROVE  ResponseHead(status, body) =
           <<Word("HTTP", status), Crlf, Word("Connection", 0), Crlf, Length(Len(body)), Crlf, Crlf>>
BY DEF ResponseHead

LEMMA ResponseHeadType ==
  ASSUME NEW status \in Nat, NEW body \in Seq(Words)
  PROVE  ResponseHead(status, body) \in Seq(Words)
<1>1. Len(body) \in Nat
  OBVIOUS
<1>2. /\ Word("HTTP", status) \in Words /\ Word("Connection", 0) \in Words
      /\ Crlf \in Words /\ Length(Len(body)) \in Words
  BY <1>1, WordTypes DEF Names
<1>3. <<Word("HTTP", status), Crlf, Word("Connection", 0), Crlf, Length(Len(body)), Crlf, Crlf>>
        \in Seq(Words)
  BY <1>2, Heads57
<1> QED
  BY <1>3, ResponseHeadShape

LEMMA Becomes ==
  ASSUME TypeInv, NEW s \in Sides, NEW e, Become(s, e)
  PROVE  /\ end'[s] = e
         /\ \A t \in Sides : t # s => end'[t] = end[t]
         /\ e \in Ends => end' \in [Sides -> Ends]
BY DEF TypeInv, Become

\* The steps of the ends keep their types.
LEMMA ResponseType == TypeInv => \A status \in Nat : Response(status) \in Seq(Words)
BY AnswerType DEF Response, TypeInv

LEMMA LengthType ==
  ASSUME NEW headers \in SUBSET Words
  PROVE  ContentLength(headers) \in Int
<1>1. CASE \E h \in headers : h.name = "Content-Length"
  <2>1. (CHOOSE h \in headers : h.name = "Content-Length") \in headers
    BY <1>1
  <2> QED
    BY <1>1, <2>1 DEF ContentLength, Words
<1>2. CASE ~\E h \in headers : h.name = "Content-Length"
  BY <1>2 DEF ContentLength, Unknown
<1> QED
  BY <1>1, <1>2

LEMMA EndTypes ==
  ASSUME TypeInv, NEW e \in Ends
  PROVE  /\ Closed(e) \in Ends
         /\ BadRequest(e) \in Ends
         /\ RequestLine(e) \in Ends
         /\ e.line # <<>> => StatusLine(e) \in Ends
         /\ HeaderLine(e) \in Ends
         /\ ToContent(e) \in Ends
         /\ Routing(e) \in Ends
         /\ \A body \in Seq(Words) : ToWriteBody(e, body) \in Ends
<1>1. Closed(e) \in Ends
  BY DEF Closed, Ends, ClientAts
<1>2. BadRequest(e) \in Ends
  <2> DEFINE h == ResponseHead(400, <<>>)
  <2>1. 400 \in Nat
    OBVIOUS
  <2>2. h \in Seq(Words)
    BY <2>1, ResponseHeadType, NoWords, Zenon
  <2> DEFINE none == <<>>
  <2>3. BadRequest(e) = [e EXCEPT !.at = "write_head", !.status = 400, !.out = h, !.line = none]
    BY DEF BadRequest
  <2>4. none \in Seq(Words) /\ "write_head" \in ClientAts \cup ServerAts
    BY NoWords DEF ClientAts
  <2> HIDE DEF h, none
  <2> QED
    BY ZenonT(40), <2>1, <2>2, <2>3, <2>4 DEF Ends
<1>3. RequestLine(e) \in Ends
  BY <1>2, NoWords DEF RequestLine, Ends, ClientAts
<1>4. ASSUME e.line # <<>> PROVE StatusLine(e) \in Ends
  <2>1. e.line[1] \in Words
    BY <1>4 DEF Ends
  <2>2. e.line[1].n \in Nat
    BY <2>1 DEF Words
  <2> QED
    BY <2>2, NoWords DEF StatusLine, Ends, ClientAts
<1>5. HeaderLine(e) \in Ends
  <2>1. EndsWithCrlf(e.line) => e.line[1] \in Words
    BY DEF Ends, EndsWithCrlf
  <2> QED
    BY <2>1, NoWords DEF HeaderLine, Ends
<1>6. ToContent(e) \in Ends
  <2>1. ContentLength(e.headers) \in Int
    BY LengthType DEF Ends
  <2> QED
    BY <2>1, NoWords DEF ToContent, Ends, ClientAts
<1>7. Routing(e) \in Ends
  BY <1>6, NoWords DEF Routing, Ends, ClientAts, ServerAts
<1>8. \A body \in Seq(Words) : ToWriteBody(e, body) \in Ends
  BY DEF ToWriteBody, Ends, ClientAts
<1> QED
  BY <1>1, <1>2, <1>3, <1>4, <1>5, <1>6, <1>7, <1>8

\* What each of these steps makes of an end, field by field.
LEMMA ClosedFields ==
  ASSUME NEW e \in Ends
  PROVE  /\ Closed(e).at = "ended" /\ Closed(e).open = FALSE
         /\ Closed(e).status = e.status /\ Closed(e).body = e.body
BY DEF Closed, Ends

LEMMA BadRequestFields ==
  ASSUME NEW e \in Ends
  PROVE  /\ BadRequest(e).at = "write_head" /\ BadRequest(e).status = 400
         /\ BadRequest(e).out = ResponseHead(400, <<>>) /\ BadRequest(e).line = <<>>
         /\ BadRequest(e).open = e.open /\ BadRequest(e).wire = e.wire
         /\ BadRequest(e).body = e.body
<1> DEFINE h == ResponseHead(400, <<>>)
<1>1. BadRequest(e) = [e EXCEPT !.at = "write_head", !.status = 400, !.out = h, !.line = <<>>]
  BY DEF BadRequest
<1> HIDE DEF h
<1>2. /\ BadRequest(e).at = "write_head" /\ BadRequest(e).status = 400
      /\ BadRequest(e).out = h /\ BadRequest(e).line = <<>>
      /\ BadRequest(e).open = e.open /\ BadRequest(e).wire = e.wire
      /\ BadRequest(e).body = e.body
  BY <1>1 DEF Ends
<1> QED
  BY <1>2 DEF h

LEMMA StatusLineFields ==
  ASSUME NEW e \in Ends
  PROVE  /\ StatusLine(e).at = "headers" /\ StatusLine(e).status = e.line[1].n
         /\ StatusLine(e).line = <<>> /\ StatusLine(e).open = e.open
         /\ StatusLine(e).wire = e.wire /\ StatusLine(e).headers = e.headers
         /\ StatusLine(e).body = e.body
BY DEF StatusLine, Ends

LEMMA HeaderLineFields ==
  ASSUME NEW e \in Ends
  PROVE  /\ HeaderLine(e).at = e.at /\ HeaderLine(e).line = <<>> /\ HeaderLine(e).open = e.open
         /\ HeaderLine(e).wire = e.wire /\ HeaderLine(e).body = e.body
         /\ HeaderLine(e).status = e.status
         /\ HeaderLine(e).headers = IF EndsWithCrlf(e.line) THEN e.headers \cup {e.line[1]}
                                    ELSE e.headers
BY DEF HeaderLine, Ends

LEMMA ToContentFields ==
  ASSUME NEW e \in Ends
  PROVE  /\ ToContent(e).at = "content" /\ ToContent(e).left = ContentLength(e.headers)
         /\ ToContent(e).line = <<>> /\ ToContent(e).open = e.open
         /\ ToContent(e).wire = e.wire /\ ToContent(e).body = e.body
         /\ ToContent(e).status = e.status
BY DEF ToContent, Ends

LEMMA ToWriteBodyFields ==
  ASSUME NEW e \in Ends
  PROVE  \A body : /\ ToWriteBody(e, body).at = "write_body" /\ ToWriteBody(e, body).out = body
                   /\ ToWriteBody(e, body).open = e.open /\ ToWriteBody(e, body).wire = e.wire
                   /\ ToWriteBody(e, body).line = e.line /\ ToWriteBody(e, body).body = e.body
                   /\ ToWriteBody(e, body).headers = e.headers
                   /\ ToWriteBody(e, body).status = e.status
BY DEF ToWriteBody, Ends

\* One side becomes an end of a legal step.
OpenAsItShould(e) ==
  /\ e.at \in {"idle", "connect", "ended"} => ~e.open
  /\ ~e.open => e.at \in {"idle", "connect", "ended", "suspended"}

LEMMA TypeFrame ==
  ASSUME TypeInv, NEW s \in Sides, NEW e \in Ends, Become(s, e), kind' = kind,
         e.at \in IF s = "client" THEN ClientAts ELSE ServerAts, OpenAsItShould(e),
         closing' \in BOOLEAN, count' \in Int, count' <= KeepAliveMax
  PROVE  TypeInv'
<1>1. /\ end'[s] = e /\ end' \in [Sides -> Ends]
      /\ \A t \in Sides : t # s => end'[t] = end[t]
  BY Becomes
<1>2. client.at \in ClientAts /\ server.at \in ServerAts /\ \A t \in Sides : OpenAsItShould(end[t])
  BY DEF TypeInv, OpenAsItShould
<1>3. client' = end'["client"] /\ server' = end'["server"] /\ Sides = {"client", "server"}
  BY DEF client, server, Sides
<1>4. client'.at \in ClientAts /\ server'.at \in ServerAts
  <2>1. CASE s = "client"
    BY <1>1, <1>2, <1>3, <2>1 DEF client, server
  <2>2. CASE s = "server"
    BY <1>1, <1>2, <1>3, <2>2 DEF client, server
  <2> QED
    BY <1>3, <2>1, <2>2
<1>5. \A t \in Sides : OpenAsItShould(end'[t])
  BY <1>1, <1>2
<1> QED
  BY <1>1, <1>4, <1>5 DEF TypeInv, OpenAsItShould
-----------------------------------------------------------------------------
(* What each action changes *)

SameButWire(f, e) ==
  /\ f.at = e.at /\ f.open = e.open /\ f.line = e.line /\ f.status = e.status
  /\ f.headers = e.headers /\ f.body = e.body /\ f.left = e.left

Rest1(ws, n) == SubSeq(ws, n + 1, Len(ws))

LEMMA SidesNamed ==
  ASSUME TypeInv
  PROVE  /\ Sides = {"client", "server"} /\ Peer("client") = "server" /\ Peer("server") = "client"
         /\ client \in Ends /\ server \in Ends
         /\ client = end["client"] /\ server = end["server"]
         /\ client' = end'["client"] /\ server' = end'["server"]
         /\ client.at \in ClientAts /\ server.at \in ServerAts
         /\ OpenAsItShould(client) /\ OpenAsItShould(server)
BY DEF TypeInv, Sides, Peer, client, server, OpenAsItShould

LEMMA WriteMoves ==
  ASSUME TypeInv, NEW s \in Sides, Write(s)
  PROVE  /\ TypeInv' /\ UNCHANGED <<kind, result, handled, closing, count>>
         /\ Writing(s)
         /\ \E n \in 1..Len(end[s].out) :
              /\ end'[s].out = Rest1(end[s].out, n) /\ end'[s].wire = end[s].wire
              /\ end'[Peer(s)].wire = IF end[Peer(s)].open
                                      THEN end[Peer(s)].wire \o SubSeq(end[s].out, 1, n)
                                      ELSE end[Peer(s)].wire
              /\ end'[Peer(s)].out = end[Peer(s)].out
         /\ \A t \in Sides : SameButWire(end'[t], end[t])
<1>1. PICK n \in 1..Len(end[s].out) :
        end' = [end EXCEPT ![s].out = SubSeq(@, n + 1, Len(@)),
                           ![Peer(s)].wire = IF end[Peer(s)].open
                                             THEN @ \o SubSeq(end[s].out, 1, n) ELSE @]
  BY DEF Write
<1>2. UNCHANGED <<kind, result, handled, closing, count>> /\ Writing(s)
  BY DEF Write, serverVars
<1>3. Sides = {"client", "server"} /\ Peer(s) \in Sides /\ Peer(s) # s
  BY DEF Sides, Peer
<1>4. \A t \in Sides : t = s \/ t = Peer(s)
  BY <1>3 DEF Peer
<1>5. end \in [Sides -> Ends] /\ end[s] \in Ends /\ end[Peer(s)] \in Ends
  BY <1>3 DEF TypeInv
<1> DEFINE rest == Rest1(end[s].out, n)
           wire == IF end[Peer(s)].open THEN end[Peer(s)].wire \o SubSeq(end[s].out, 1, n)
                   ELSE end[Peer(s)].wire
<1>6. rest \in Seq(Words) /\ wire \in Seq(Words)
  <2>1. end[s].out \in Seq(Words) /\ end[Peer(s)].wire \in Seq(Words)
    BY <1>5 DEF Ends
  <2>2. SubSeq(end[s].out, 1, n) \in Seq(Words) /\ rest \in Seq(Words)
    BY <2>1 DEF Rest1
  <2> QED
    BY <2>1, <2>2
<1>7. end'[s] = [end[s] EXCEPT !.out = rest]
  BY <1>1, <1>3, <1>5 DEF Rest1
<1>8. end'[Peer(s)] = [end[Peer(s)] EXCEPT !.wire = wire]
  BY <1>1, <1>3, <1>5
<1>9. end' \in [Sides -> Ends]
  <2>1. [end[s] EXCEPT !.out = rest] \in Ends
    BY <1>5, <1>6 DEF Ends
  <2>2. [end[Peer(s)] EXCEPT !.wire = wire] \in Ends
    BY <1>5, <1>6 DEF Ends
  <2>3. DOMAIN end' = Sides /\ end' = [t \in Sides |-> end'[t]]
    BY <1>1, <1>5
  <2>4. \A t \in Sides : end'[t] \in Ends
    BY <1>4, <1>7, <1>8, <2>1, <2>2
  <2> QED
    BY <2>3, <2>4
<1> HIDE DEF rest, wire
<1>10. /\ end'[s].out = rest /\ end'[s].wire = end[s].wire
       /\ end'[Peer(s)].wire = wire /\ end'[Peer(s)].out = end[Peer(s)].out
       /\ SameButWire(end'[s], end[s]) /\ SameButWire(end'[Peer(s)], end[Peer(s)])
  BY <1>5, <1>7, <1>8 DEF Ends, SameButWire
<1>11. \A t \in Sides : SameButWire(end'[t], end[t])
  BY <1>4, <1>10
<1>12. TypeInv'
  <2>1. client' = end'["client"] /\ server' = end'["server"] /\ client = end["client"] /\ server = end["server"]
    BY DEF client, server
  <2>2. client'.at = client.at /\ server'.at = server.at
    BY <1>3, <1>11, <2>1 DEF SameButWire
  <2>3. \A t \in Sides : end'[t].at = end[t].at /\ end'[t].open = end[t].open
    BY <1>11 DEF SameButWire
  <2> QED
    BY <1>2, <1>9, <2>2, <2>3 DEF TypeInv
<1> QED
  BY <1>2, <1>10, <1>11, <1>12 DEF rest, wire
-----------------------------------------------------------------------------
(* What the request says *)

LEMMA TextType == TypeInv => /\ Text \in Seq(Words) /\ RequestHead(kind) \in Seq(Words)
                             /\ Body(kind) \in Seq(Words)
<1> SUFFICES ASSUME TypeInv PROVE /\ Text \in Seq(Words) /\ RequestHead(kind) \in Seq(Words)
                                  /\ Body(kind) \in Seq(Words)
  OBVIOUS
<1>1. RequestHead(kind) \in Seq(Words) /\ Body(kind) \in Seq(Words)
  BY RequestTypes DEF TypeInv
<1> QED
  BY <1>1, ConcatShape DEF Text

LEMMA PostText ==
  ASSUME TypeInv, kind = "POST"
  PROVE  /\ Len(Text) = 7 + Len(Command) /\ Len(RequestHead(kind)) = 7 /\ Len(Command) \in Nat
         /\ Text[1] = Word("POST", 0) /\ Text[2] = Crlf /\ Text[3] = Close /\ Text[4] = Crlf
         /\ Text[5] = Length(Len(Command)) /\ Text[6] = Crlf /\ Text[7] = Crlf
         /\ \A i \in 1..Len(Command) : Text[7 + i] = Command[i]
<1> DEFINE h == RequestHead(kind)
<1>1. /\ Len(h) = 7 /\ h[1] = Word("POST", 0) /\ h[2] = Crlf /\ h[3] = Close /\ h[4] = Crlf
      /\ h[5] = Length(Len(Command)) /\ h[6] = Crlf /\ h[7] = Crlf
  BY PostHead
<1>2. h \in Seq(Words) /\ Body(kind) = Command /\ Text = h \o Command
  BY TextType DEF Text, Body
<1> HIDE DEF h
<1>3. /\ Len(Text) = 7 + Len(Command)
      /\ \A i \in 1..7 : Text[i] = h[i]
      /\ \A i \in 1..Len(Command) : Text[7 + i] = Command[i]
  <2>1. h \o Command \in Seq(Words) /\ Len(h \o Command) = Len(h) + Len(Command)
        /\ (\A i \in 1..Len(h) : (h \o Command)[i] = h[i])
        /\ (\A i \in 1..Len(Command) : (h \o Command)[Len(h) + i] = Command[i])
    BY <1>2, CommandType, ConcatShape
  <2> QED
    BY <1>1, <1>2, <2>1
<1>4. Len(h) = 7 /\ Len(Command) \in Nat
  BY <1>1, CommandType
<1>5. /\ Text[1] = Word("POST", 0) /\ Text[2] = Crlf /\ Text[3] = Close /\ Text[4] = Crlf
      /\ Text[5] = Length(Len(Command)) /\ Text[6] = Crlf /\ Text[7] = Crlf
  BY <1>1, <1>3
<1> QED
  BY <1>3, <1>4, <1>5 DEF h

LEMMA GetText ==
  ASSUME TypeInv, kind = "GET"
  PROVE  /\ Len(Text) = 5 /\ Len(RequestHead(kind)) = 5
         /\ Text[1] = Word("GET", 0) /\ Text[2] = Crlf /\ Text[3] = Close /\ Text[4] = Crlf
         /\ Text[5] = Crlf
<1> DEFINE h == RequestHead(kind)
<1>1. /\ Len(h) = 5 /\ h[1] = Word("GET", 0) /\ h[2] = Crlf /\ h[3] = Close /\ h[4] = Crlf
      /\ h[5] = Crlf
  BY GetHead
<1>2. h \in Seq(Words) /\ Body(kind) = <<>> /\ Text = h \o Body(kind)
  BY TextType DEF Text, Body
<1> HIDE DEF h
<1>3. Text = h
  BY <1>2
<1> QED
  BY <1>1, <1>3 DEF h

\* Behind its first line the request has no line a request could begin with.
LEMMA NoSecondRequest ==
  ASSUME TypeInv
  PROVE  /\ Len(Text) \in Nat /\ Len(Text) >= 5
         /\ Text[1] = Word(kind, 0) /\ Text[2] = Crlf /\ Text[3] = Close /\ Text[4] = Crlf
         /\ \A i \in 2..Len(Text) - 1 : Text[i].name \in Kinds => Text[i + 1] # Crlf
         /\ \A i \in 1..Len(Text) : Text[i] # Newline
<1>1. CASE kind = "POST"
  <2>1. /\ Text[2].name = "crlf" /\ Text[3].name = "Connection:close" /\ Text[4].name = "crlf"
        /\ Text[5].name = "Content-Length" /\ Text[6].name = "crlf" /\ Text[7].name = "crlf"
    BY <1>1, PostText, WordNames
  <2>2. \A i \in 8..Len(Text) : Text[i] # Crlf /\ Text[i] # Newline
    <3>1. \A i \in 8..Len(Text) : i - 7 \in 1..Len(Command) /\ Text[i] = Command[i - 7]
      BY <1>1, PostText
    <3>2. \A i \in 1..Len(Command) : Command[i] # Crlf /\ Command[i] # Newline
      BY CommandType
    <3> QED
      BY <3>1, <3>2
  <2>3. \A i \in 2..Len(Text) - 1 : Text[i].name \in Kinds => Text[i + 1] # Crlf
    <3> SUFFICES ASSUME NEW i \in 2..Len(Text) - 1, Text[i].name \in Kinds PROVE Text[i + 1] # Crlf
      OBVIOUS
    <3>1. i # 2 /\ i # 3 /\ i # 4 /\ i # 5 /\ i # 6 /\ i # 7
      BY <2>1 DEF Kinds
    <3> QED
      BY <3>1, <2>2, <1>1, PostText
  <2>4. \A i \in 1..7 : Text[i] # Newline
    <3>1. Text[1].name = "POST"
      BY <1>1, PostText, WordNames DEF Names, Kinds
    <3>2. Newline.name = "newline"
      BY WordNames
    <3>3. \A i \in 1..7 : Text[i].name # "newline"
      <4>1. \A i \in 1..7 : i = 1 \/ i = 2 \/ i = 3 \/ i = 4 \/ i = 5 \/ i = 6 \/ i = 7
        OBVIOUS
      <4> QED
        BY <2>1, <3>1, <4>1
    <3> QED
      BY <3>2, <3>3
  <2> QED
    BY <1>1, <2>2, <2>3, <2>4, PostText
<1>2. CASE kind = "GET"
  <2>1. /\ Text[1].name = "GET" /\ Text[2].name = "crlf" /\ Text[3].name = "Connection:close"
        /\ Text[4].name = "crlf" /\ Text[5].name = "crlf"
    BY <1>2, GetText, WordNames DEF Names, Kinds
  <2>4. \A i \in 1..5 : i = 1 \/ i = 2 \/ i = 3 \/ i = 4 \/ i = 5
    OBVIOUS
  <2>2. \A i \in 2..Len(Text) - 1 : Text[i].name \notin Kinds
    <3>0. Len(Text) = 5
      BY <1>2, GetText
    <3>1. \A i \in 2..Len(Text) - 1 : i = 2 \/ i = 3 \/ i = 4
      BY <3>0
    <3>2. /\ Text[2].name \notin Kinds /\ Text[3].name \notin Kinds
          /\ Text[4].name \notin Kinds
      <4>1. "crlf" \notin Kinds /\ "Connection:close" \notin Kinds
        BY DEF Kinds
      <4> QED
        BY <2>1, <4>1
    <3> QED
      BY <3>1, <3>2
  <2>3. \A i \in 1..Len(Text) : Text[i] # Newline
    <3>1. Newline.name = "newline"
      BY WordNames
    <3>2. \A i \in 1..5 : Text[i].name # "newline"
      BY <2>1, <2>4
    <3> QED
      BY <1>2, GetText, <3>1, <3>2
  <2>5. Len(Text) \in Nat /\ Len(Text) >= 5
    BY <1>2, GetText
  <2> QED
    BY <1>2, GetText, <2>2, <2>3, <2>5
<1> QED
  BY <1>1, <1>2 DEF TypeInv, Kinds
-----------------------------------------------------------------------------
(* Frames: what a step may change of the request's side *)

LEMMA TailShape == \A w \in Seq(Words) : w # <<>> => Tail(w) = Rest1(w, 1) /\ Tail(w) \in Seq(Words)
BY DEF Rest1

LEMMA AppendShape ==
  \A w \in Seq(Words), x \in Words :
    /\ Append(w, x) \in Seq(Words) /\ Len(Append(w, x)) = Len(w) + 1 /\ Len(w) \in Nat
    /\ Append(w, x)[Len(w) + 1] = x
    /\ \A i \in 1..Len(w) : Append(w, x)[i] = w[i]
OBVIOUS

LEMMA WordsConcat ==
  \A a, b \in Seq(Words) :
    /\ a \o b \in Seq(Words) /\ Len(a \o b) = Len(a) + Len(b)
    /\ \A i \in 1..Len(a) : (a \o b)[i] = a[i]
    /\ \A i \in 1..Len(b) : (a \o b)[Len(a) + i] = b[i]
BY ConcatShape

LEMMA TwoWords == \A a, b \in Words : Append(<<a>>, b) = <<a, b>>
<1> SUFFICES ASSUME NEW a \in Words, NEW b \in Words PROVE Append(<<a>>, b) = <<a, b>>
  OBVIOUS
<1>1. Append(<<a>>, b) = [i \in 1..2 |-> IF i = 1 THEN a ELSE b]
  OBVIOUS
<1>2. <<a, b>> = [i \in 1..2 |-> IF i = 1 THEN a ELSE b]
  OBVIOUS
<1> QED
  BY <1>1, <1>2

LEMMA Lengths ==
  ASSUME TypeInv
  PROVE  /\ Len(Text) \in Nat
         /\ Len(server.wire) \in Nat /\ Len(server.line) \in Nat /\ Len(server.out) \in Nat
         /\ Len(server.body) \in Nat
         /\ Len(client.wire) \in Nat /\ Len(client.line) \in Nat /\ Len(client.out) \in Nat
         /\ Len(client.body) \in Nat
BY SMTT(40), NoSecondRequest, SidesNamed DEF Ends

LEMMA ServerBecomes ==
  ASSUME TypeInv, NEW e \in Ends, Become("server", e), kind' = kind, e.at \in ServerAts,
         OpenAsItShould(e), closing' \in BOOLEAN, count' \in Int, count' <= KeepAliveMax
  PROVE  TypeInv' /\ server' = e /\ client' = client
<1>1. "server" \in Sides /\ "client" \in Sides /\ "client" # "server"
  BY DEF Sides
<1>2. TypeInv'
  BY <1>1, TypeFrame
<1>3. end'["server"] = e /\ end'["client"] = end["client"]
  BY <1>1, Becomes
<1> QED
  BY <1>2, <1>3 DEF server, client

LEMMA ClientBecomes ==
  ASSUME TypeInv, NEW e \in Ends, Become("client", e), kind' = kind, e.at \in ClientAts,
         OpenAsItShould(e), closing' \in BOOLEAN, count' \in Int, count' <= KeepAliveMax
  PROVE  TypeInv' /\ client' = e /\ server' = server
<1>1. "server" \in Sides /\ "client" \in Sides /\ "client" # "server"
  BY DEF Sides
<1>2. TypeInv'
  BY <1>1, TypeFrame
<1>3. end'["client"] = e /\ end'["server"] = end["server"]
  BY <1>1, Becomes
<1> QED
  BY <1>2, <1>3 DEF server, client

LEMMA TextFrame == kind' = kind => Text' = Text
BY DEF Text, RequestHead, Body

LEMMA NotConnecting == HandledInv /\ server.at # "idle" => client.at # "connect"
<1>1. Idle.at = "idle"
  BY DEF Idle
<1> QED
  BY <1>1 DEF HandledInv

\* A step of the client that sends nothing.
LEMMA ClientFrame ==
  ASSUME TypeInv, RequestInv, HandledInv, UNCHANGED <<kind, handled, closing, count>>,
         server' = server,
         Writing("client")' => Writing("client") /\ ToSend' = ToSend,
         result' = "Write" => result = "Write" \/ (Writing("client") /\ Len(ToSend) > 0),
         client'.open => client.open,
         client'.at # "connect",
         server.at = "idle" => client'.at \in {"ended", "suspended"}
  PROVE  RequestInv' /\ HandledInv'
<1>1. Text' = Text
  BY TextFrame
<1>2. Busy("server")' = Busy("server") /\ Called' = Called
  BY DEF Busy, server, Called
<1>3. ASSUME NEW p \in 0..Len(Text), NEW q \in 0..Len(Text), Sent(p, q), Read(p)
      PROVE  Sent(p, q)' /\ Read(p)'
  <2>1. Sent(p, q)'
    <3>1. result' = "Write" => q < Len(Text)
      BY <1>3, NoSecondRequest DEF Sent
    <3>2. Writing("client")' => /\ Len(ToSend') = Len(Text) - q
                                /\ \A i \in 1..Len(Text) - q : ToSend'[i] = Text[q + i]
      BY <1>3 DEF Sent
    <3>3. p <= q /\ Len(server'.wire) = q - p /\ \A i \in 1..q - p : server'.wire[i] = Text[p + i]
      BY <1>3 DEF Sent
    <3> QED
      BY <1>1, <3>1, <3>2, <3>3 DEF Sent
  <2>2. Read(p)'
    <3>1. CutOff => CutOff'
      BY DEF CutOff
    <3>2. HeadersTo(p) => HeadersTo(p)'
      BY DEF HeadersTo
    <3>3. KeepsAlive(p) => KeepsAlive(p)'
      BY DEF KeepsAlive
    <3>4. ReadsLine(p) => ReadsLine(p)'
      BY <1>1 DEF ReadsLine, LineFrom
    <3>5. ReadsHeaders(p) => ReadsHeaders(p)'
      BY <3>1, <3>2 DEF ReadsHeaders
    <3>6. ReadsContent(p) => ReadsContent(p)'
      BY DEF ReadsContent
    <3>7. HandlesGet(p) => HandlesGet(p)'
      BY <1>1 DEF HandlesGet
    <3>8. server'.at = server.at /\ server'.status = server.status
      OBVIOUS
    <3>9. Read(p)
      BY <1>3
    <3> QED
      <4>1. (server.at = "keep_alive" => KeepsAlive(p))'
        BY <3>3, <3>8, <3>9 DEF Read
      <4>2. (server.at = "first_line" => ReadsLine(p))'
        BY <3>4, <3>8, <3>9 DEF Read
      <4>3. (server.at = "headers" => ReadsHeaders(p))'
        BY <3>5, <3>8, <3>9 DEF Read
      <4>4. (server.at = "content" => ReadsContent(p))'
        BY <3>6, <3>8, <3>9 DEF Read
      <4>5. (server.at = "handle" => HandlesGet(p))'
        BY <3>7, <3>8, <3>9 DEF Read
      <4>6. (server.at \in {"write_head", "write_body"} => server.status = 400 /\ p >= 1)'
        BY <3>8, <3>9 DEF Read
      <4> QED
        BY <4>1, <4>2, <4>3, <4>4, <4>5, <4>6 DEF Read
  <2> QED
    BY <2>1, <2>2
<1>4. RequestInv'
  BY <1>1, <1>2, <1>3 DEF RequestInv
<1>5. HandledInv'
  <2>1. HandledWhole'
    BY DEF HandledInv, HandledWhole, Body
  <2>2. ToSend = <<>> => ToSend' = <<>>
    BY DEF ToSend, Writing, client
  <2> QED
    BY <1>2, <2>1, <2>2 DEF HandledInv
<1> QED
  BY <1>4, <1>5

\* The server ends, or is suspended.
LEMMA ServerStops ==
  ASSUME TypeInv, HandledInv, kind' = kind, handled' = handled, client' = client, server.at # "idle",
         server'.at \in {"ended", "suspended"}
  PROVE  RequestInv' /\ HandledInv'
<1>1. ~Busy("server")'
  BY DEF Busy, server
<1>2. client.at # "connect"
  BY NotConnecting
<1>3. HandledWhole' /\ ToSend' = ToSend /\ Called' = Called
  BY DEF HandledInv, HandledWhole, Body, ToSend, Called
<1>4. HandledInv'
  BY <1>1, <1>2, <1>3 DEF HandledInv
<1> QED
  BY <1>1, <1>4 DEF RequestInv

\* The server reads or drops n of the words that have come.
LEMMA SentShift ==
  ASSUME TypeInv, kind' = kind, result' = result, client' = client,
         NEW p \in 0..Len(Text), NEW q \in 0..Len(Text), Sent(p, q),
         NEW n \in 0..Len(server.wire), server'.wire = Rest1(server.wire, n),
         NEW m \in Nat, m = p + n
  PROVE  m \in 0..Len(Text) /\ m <= q /\ Sent(m, q)'
<1>1. server.wire \in Seq(Words) /\ Len(server.wire) = q - p /\ Len(Text) \in Nat
  BY SidesNamed, NoSecondRequest DEF Sent, Ends
<1>2. /\ Len(server'.wire) = q - m
      /\ \A i \in 1..q - m : server'.wire[i] = server.wire[n + i]
  BY <1>1 DEF Rest1
<1>3. \A i \in 1..q - m : server'.wire[i] = Text[m + i]
  <2> SUFFICES ASSUME NEW i \in 1..q - m PROVE server'.wire[i] = Text[m + i]
    OBVIOUS
  <2>1. n + i \in 1..q - p /\ p + (n + i) = m + i
    BY <1>1
  <2>2. server.wire[n + i] = Text[p + (n + i)]
    BY <2>1 DEF Sent
  <2> QED
    BY <1>2, <2>1, <2>2
<1>4. Text' = Text /\ ToSend' = ToSend /\ Writing("client")' = Writing("client")
  BY TextFrame DEF ToSend, Writing, client
<1>5. m \in 0..Len(Text) /\ m <= q
  BY <1>1
<1>7. Writing("client")' => /\ Len(ToSend') = Len(Text) - q
                            /\ \A i \in 1..Len(Text) - q : ToSend'[i] = Text[q + i]
  BY <1>4 DEF Sent
<1>8. result' = "Write" => q < Len(Text)
  BY DEF Sent
<1> QED
  BY <1>2, <1>3, <1>4, <1>5, <1>7, <1>8 DEF Sent

\* The server goes on with a request that was not handled.
LEMMA ServerGoesOn ==
  ASSUME TypeInv, HandledInv, kind' = kind, handled' = handled, result' = result, client' = client,
         ~Called, server.at # "idle", server'.at # "idle",
         NEW p \in 0..Len(Text), NEW q \in 0..Len(Text), Sent(p, q)', Read(p)'
  PROVE  RequestInv' /\ HandledInv'
<1>1. Text' = Text /\ Called' = Called
  BY TextFrame DEF Called
<1>2. RequestInv'
  BY <1>1 DEF RequestInv
<1>3. client.at # "connect" /\ HandledWhole'
  BY NotConnecting DEF HandledInv, HandledWhole, Body
<1>4. HandledInv'
  BY <1>1, <1>3 DEF HandledInv
<1> QED
  BY <1>2, <1>4

\* The server writes the answer to what it has read.
LEMMA ServerAnswers ==
  ASSUME TypeInv, RequestInv, HandledInv, kind' = kind, handled' = handled, result' = result, client' = client,
         Busy("server"), server.at # "idle",
         server'.at \in {"write_head", "write_body"},
         NEW n \in 0..Len(server.wire), server'.wire = Rest1(server.wire, n),
         ~Called => server'.status = 400
                           /\ \A r \in 0..Len(Text) : Read(r) => r + n >= 1,
         Called => server'.status = 200 /\ closing'
  PROVE  RequestInv' /\ HandledInv'
<1>1. CASE ~Called
  <2>1. PICK p \in 0..Len(Text), q \in 0..Len(Text) : Sent(p, q) /\ Read(p)
    BY <1>1 DEF RequestInv
  <2>0. p + n \in Nat
    BY Lengths
  <2>2. PICK m \in Nat : m = p + n
    BY <2>0
  <2>3. m \in 0..Len(Text) /\ Sent(m, q)'
    <3>1. kind' = kind /\ result' = result /\ client' = client
      OBVIOUS
    <3>2. server'.wire = Rest1(server.wire, n) /\ Sent(p, q) /\ m = p + n
      BY <2>1, <2>2
    <3> QED
      BY <3>1, <3>2, SentShift, SMTT(30)
  <2>4. Read(m)'
    <3>1. server'.status = 400
      BY <1>1
    <3>2. m >= 1
      BY <1>1, <2>1, <2>2
    <3> QED
      BY <3>1, <3>2 DEF Read
  <2> QED
    BY <1>1, <2>3, <2>4, ServerGoesOn
<1>2. CASE Called
  <2>0. Called' = Called
    BY DEF Called
  <2>1. RequestInv'
    BY <1>2, <2>0 DEF RequestInv
  <2>2. HandledWhole' /\ ToSend' = ToSend /\ client.at # "connect"
    BY NotConnecting DEF HandledInv, HandledWhole, Body, ToSend
  <2>3. ToSend' = <<>>
    BY <1>2, <2>2 DEF HandledInv
  <2>4. HandledInv'
    BY <1>2, <2>0, <2>2, <2>3 DEF HandledInv
  <2> QED
    BY <2>1, <2>4
<1> QED
  BY <1>1, <1>2
-----------------------------------------------------------------------------
(* The server reads the request *)

Readings == {"keep_alive", "first_line", "headers", "content", "handle"}

OnlyServer == kind' = kind /\ client' = client /\ result' = result /\ handled' = handled

\* What a step of the server that does not write comes to: it reads on, it refuses
\* the request, or it stops.
Refusal == ResponseHead(400, <<>>)
ReadsOn == /\ OnlyServer /\ ~Called /\ server.at \in Readings /\ server'.at \in Readings
           /\ Unanswered' => Unanswered
Refuses == /\ OnlyServer /\ ~Called /\ server.at \in Readings
           /\ server'.at = "write_head" /\ server'.out = Refusal
Stops == OnlyServer /\ server.at # "idle" /\ server'.at \in {"ended", "suspended"}
ServerMoves == ReadsOn \/ Refuses \/ Stops

\* An end that has read a word of a line.
Begun(s) == [Rest(s) EXCEPT !.line = Append(@, Head(end[s].wire))]

LEMMA BegunFields ==
  ASSUME TypeInv, NEW s \in Sides, Readable(s)
  PROVE  /\ Begun(s) \in Ends
         /\ Begun(s).at = end[s].at /\ Begun(s).open = end[s].open
         /\ Begun(s).wire = Tail(end[s].wire)
         /\ Begun(s).line = Append(end[s].line, Head(end[s].wire))
         /\ Begun(s).headers = end[s].headers /\ Begun(s).body = end[s].body
         /\ Begun(s).status = end[s].status /\ Begun(s).left = end[s].left
         /\ Begun(s).out = end[s].out
         /\ Head(end[s].wire) = end[s].wire[1] /\ Len(end[s].wire) >= 1
         /\ end[s].wire[1] \in Words /\ Begun(s).wire = Rest1(end[s].wire, 1)
<1>1. end[s] \in Ends
  BY DEF TypeInv
<1>2. end[s].wire # <<>> /\ end[s].wire \in Seq(Words) /\ end[s].line \in Seq(Words)
  BY <1>1 DEF Readable, Ends
<1>3. Tail(end[s].wire) \in Seq(Words) /\ Head(end[s].wire) \in Words
  BY <1>2
<1>4. Append(end[s].line, Head(end[s].wire)) \in Seq(Words)
  BY <1>2, <1>3
<1> DEFINE w == Tail(end[s].wire)
           l == Append(end[s].line, Head(end[s].wire))
<1>5. Begun(s) = [end[s] EXCEPT !.wire = w, !.line = l]
  BY <1>1 DEF Begun, Rest, Ends
<1>6. /\ Head(end[s].wire) = end[s].wire[1] /\ Len(end[s].wire) >= 1
      /\ Tail(end[s].wire) = Rest1(end[s].wire, 1) /\ Head(end[s].wire) \in Words
  <2>1. Tail(end[s].wire) = Rest1(end[s].wire, 1)
    BY <1>2, TailShape, Zenon
  <2>2. Head(end[s].wire) = end[s].wire[1] /\ Len(end[s].wire) >= 1
    BY <1>2
  <2> QED
    BY <1>3, <2>1, <2>2, Zenon
<1>7. w \in Seq(Words) /\ l \in Seq(Words)
  BY <1>3, <1>4
<1> HIDE DEF w, l
<1>8. /\ Begun(s) \in Ends
      /\ Begun(s).at = end[s].at /\ Begun(s).open = end[s].open
      /\ Begun(s).wire = w /\ Begun(s).line = l
      /\ Begun(s).headers = end[s].headers /\ Begun(s).body = end[s].body
      /\ Begun(s).status = end[s].status /\ Begun(s).left = end[s].left
      /\ Begun(s).out = end[s].out
  BY <1>1, <1>5, <1>7 DEF Ends
<1>9. w = Rest1(end[s].wire, 1) /\ end[s].wire[1] \in Words
  BY <1>6 DEF w
<1>10. Begun(s).wire = Rest1(end[s].wire, 1)
  <2>1. Begun(s).wire = w
    BY <1>8
  <2> QED
    BY <1>9, <2>1
<1>11. /\ Begun(s).wire = Tail(end[s].wire)
       /\ Begun(s).line = Append(end[s].line, Head(end[s].wire))
  BY <1>8 DEF w, l
<1> QED
  BY <1>6, <1>8, <1>9, <1>10, <1>11

LEMMA RoutingFields ==
  ASSUME NEW e \in Ends
  PROVE  /\ Routing(e).open = e.open /\ Routing(e).wire = e.wire /\ Routing(e).body = e.body
         /\ Routing(e).line = <<>>
         /\ kind = "POST" => Routing(e).at = "content" /\ Routing(e).left = ContentLength(e.headers)
         /\ kind # "POST" => Routing(e).at = "handle"
BY DEF Routing, ExpectContent, ToContent, Ends

LEMMA RequestLineFields ==
  ASSUME NEW e \in Ends
  PROVE  /\ RequestLine(e).open = e.open /\ RequestLine(e).wire = e.wire
         /\ RequestLine(e).line = <<>>
         /\ ParseRequestLine(e.line) => /\ RequestLine(e).at = "headers"
                                        /\ RequestLine(e).headers = e.headers
                                        /\ RequestLine(e).body = e.body
         /\ ~ParseRequestLine(e.line) => /\ RequestLine(e).at = "write_head"
                                         /\ RequestLine(e).status = 400
                                         /\ RequestLine(e).out = ResponseHead(400, <<>>)
<1>1. CASE ParseRequestLine(e.line)
  BY <1>1 DEF RequestLine, Ends
<1>2. CASE ~ParseRequestLine(e.line)
  <2>1. RequestLine(e) = BadRequest(e)
    BY <1>2 DEF RequestLine
  <2> DEFINE h == ResponseHead(400, <<>>)
             f == BadRequest(e)
  <2>2. /\ f.open = e.open /\ f.wire = e.wire /\ f.line = <<>>
        /\ f.at = "write_head" /\ f.status = 400 /\ f.out = h
    BY SMTT(20), BadRequestFields
  <2>3. RequestLine(e) = f
    BY <2>1
  <2> HIDE DEF h, f
  <2>4. /\ RequestLine(e).open = e.open /\ RequestLine(e).wire = e.wire
        /\ RequestLine(e).line = <<>>
        /\ RequestLine(e).at = "write_head" /\ RequestLine(e).status = 400
        /\ RequestLine(e).out = h
    BY <2>2, <2>3
  <2> QED
    BY <1>2, <2>4 DEF h
<1> QED
  BY <1>1, <1>2

LEMMA ServerLineMoves ==
  ASSUME TypeInv, NEW e \in Ends, e.at = server.at, e.open = server.open, Reading("server"),
         ServerLine(e), kind' = kind
  PROVE  /\ TypeInv' /\ client' = client /\ result' = result /\ handled' = handled /\ count' = count
         /\ closing' = (closing \/ (HeadersEnd(e) /\ Close \in e.headers))
         /\ server.at = "first_line" => server' = RequestLine(e)
         /\ server.at = "headers" /\ HeadersEnd(e) => server' = Routing(e)
         /\ server.at = "headers" /\ ~HeadersEnd(e) => server' = HeaderLine(e)
<1> DEFINE f == IF e.at = "first_line" THEN RequestLine(e)
                ELSE IF HeadersEnd(e) THEN Routing(e) ELSE HeaderLine(e)
<1>1. server.at \in {"first_line", "headers"} /\ server.open
  BY SidesNamed DEF Reading, TypeInv
<1>2. Become("server", f) /\ UNCHANGED <<result, handled, count>>
      /\ closing' = (closing \/ (HeadersEnd(e) /\ Close \in e.headers))
  BY DEF ServerLine
<1>3. f \in Ends
  BY EndTypes
<1>4. f.open /\ f.at \in ServerAts
  <2>1. f = RequestLine(e) => f.open /\ f.at \in {"headers", "write_head"}
    BY <1>1, RequestLineFields
  <2>2. f = Routing(e) => f.open /\ f.at \in {"content", "handle"}
    BY <1>1, RoutingFields
  <2>3. f = HeaderLine(e) => f.open /\ f.at = server.at
    BY <1>1, HeaderLineFields
  <2> QED
    BY <1>1, <2>1, <2>2, <2>3 DEF ServerAts
<1> HIDE DEF f
<1>5. closing' \in BOOLEAN /\ count' \in Int /\ count' <= KeepAliveMax /\ OpenAsItShould(f)
  <2>1. f.at \notin {"idle", "connect", "ended"}
    BY <1>1, RequestLineFields, RoutingFields, HeaderLineFields DEF f
  <2>2. closing' \in BOOLEAN
    BY <1>2, Zenon
  <2>3. count' \in Int /\ count' <= KeepAliveMax
    BY <1>2 DEF TypeInv
  <2> QED
    BY <1>4, <2>1, <2>2, <2>3 DEF OpenAsItShould
<1>6. TypeInv' /\ server' = f /\ client' = client
  BY <1>2, <1>3, <1>4, <1>5, ServerBecomes
<1> QED
  BY <1>1, <1>2, <1>6 DEF f
\* What the server makes of a word of its first line.
LEMMA FirstLineWord ==
  ASSUME TypeInv, HandledInv, server.at = "first_line", Readable("server"), GetWord("server"),
         NEW p \in 0..Len(Text), NEW q \in 0..Len(Text), Sent(p, q), Read(p),
         NEW m \in Nat, m = p + 1
  PROVE  /\ TypeInv' /\ client' = client /\ result' = result /\ handled' = handled
         /\ kind' = kind /\ server'.at # "idle" /\ Sent(m, q)' /\ Read(m)'
         /\ ~Called => ServerMoves
<1> DEFINE e == Begun("server")
<1>0. p \in Nat /\ q \in Nat /\ Len(Text) \in Nat /\ p <= Len(Text)
  BY Lengths
<1>1. /\ e \in Ends /\ e.at = "first_line" /\ e.open = server.open /\ e.wire = Tail(server.wire)
      /\ e.line = Append(server.line, server.wire[1])
      /\ e.headers = server.headers /\ e.body = server.body /\ Len(server.wire) >= 1
      /\ Head(server.wire) = server.wire[1] /\ server.wire[1] \in Words
      /\ e.wire = Rest1(server.wire, 1)
  BY BegunFields, SidesNamed
<1>2. kind' = kind /\ IF server.wire[1] \in {Crlf, Newline} THEN ServerLine(e)
                      ELSE Become("server", e) /\ UNCHANGED <<result, serverVars>>
  BY <1>1 DEF GetWord, Begun, LineRead, server
<1>3. server.open /\ Reading("server") /\ server.wire \in Seq(Words) /\ server.line \in Seq(Words)
  BY SidesNamed DEF TypeInv, Reading, Ends
<1>4. server.wire[1] = Text[m] /\ m <= q /\ m \in 1..Len(Text) /\ Text[m] # Newline
  <2>1. Len(server.wire) = q - p /\ 1 \in 1..q - p
    BY <1>1, Lengths DEF Sent
  <2>2. server.wire[1] = Text[p + 1]
    BY <2>1 DEF Sent
  <2>3. m \in 1..Len(Text)
    BY <2>1, Lengths
  <2> QED
    BY SMTT(20), <2>1, <2>2, <2>3, NoSecondRequest, Lengths
<1>5. /\ server.headers = {} /\ server.body = <<>>
      /\ count = KeepAliveMax => p <= 1 /\ LineFrom(0, p)
      /\ count # KeepAliveMax => \E b \in 1..p : LineFrom(b, p)
  BY DEF Read, ReadsLine
<1>6. \A b \in 0..p : LineFrom(b, p) => /\ Len(e.line) = m - b
                                        /\ \A i \in 1..m - b : e.line[i] = Text[b + i]
  <2> SUFFICES ASSUME NEW b \in 0..p, LineFrom(b, p)
               PROVE  Len(e.line) = m - b /\ \A i \in 1..m - b : e.line[i] = Text[b + i]
    OBVIOUS
  <2>1. Len(server.line) = p - b /\ \A i \in 1..p - b : server.line[i] = Text[b + i]
    BY DEF LineFrom
  <2>2. Len(e.line) = m - b /\ e.line[m - b] = Text[m]
        /\ \A i \in 1..p - b : e.line[i] = server.line[i]
    <3>1. /\ Len(e.line) = Len(server.line) + 1 /\ e.line[Len(server.line) + 1] = server.wire[1]
          /\ \A i \in 1..Len(server.line) : e.line[i] = server.line[i]
      <4> DEFINE l == Append(server.line, server.wire[1])
      <4>1. /\ Len(l) = Len(server.line) + 1 /\ l[Len(server.line) + 1] = server.wire[1]
            /\ \A i \in 1..Len(server.line) : l[i] = server.line[i]
        BY <1>1, <1>3, AppendShape, Zenon
      <4>2. e.line = l
        BY <1>1
      <4> HIDE DEF l
      <4> QED
        BY <4>1, <4>2
    <3>2. b \in Nat /\ Len(server.line) + 1 = m - b
      BY <1>0, <2>1
    <3>3. Len(e.line) = m - b
      BY <3>1, <3>2
    <3>4. e.line[m - b] = Text[m]
      BY <1>4, <3>1, <3>2
    <3>5. \A i \in 1..p - b : e.line[i] = server.line[i]
      <4>1. Len(server.line) = p - b
        BY <2>1
      <4> QED
        BY <3>1, <4>1
    <3> QED
      BY <3>3, <3>4, <3>5
  <2>3. \A i \in 1..m - b : i = m - b \/ i \in 1..p - b
    BY Lengths
  <2>4. b + (m - b) = m
    BY Lengths
  <2> QED
    BY <2>1, <2>2, <2>3, <2>4
<1> HIDE DEF e
<1>7. CASE server.wire[1] \notin {Crlf, Newline}
  <2>1. Become("server", e) /\ result' = result /\ handled' = handled /\ closing' = closing
        /\ count' = count
    BY <1>2, <1>7 DEF serverVars
  <2>2. TypeInv' /\ server' = e /\ client' = client
    <3>1. closing' \in BOOLEAN /\ count' \in Int /\ count' <= KeepAliveMax
      BY <2>1 DEF TypeInv
    <3>2. OpenAsItShould(e) /\ e.at \in ServerAts
      BY <1>1, <1>3 DEF OpenAsItShould, ServerAts
    <3> QED
      BY <1>1, <1>2, <2>1, <3>1, <3>2, ServerBecomes
  <2>3. Sent(m, q)'
    <3>1. server'.wire = Rest1(server.wire, 1) /\ 1 \in 0..Len(server.wire)
      BY <1>1, <2>2, Lengths
    <3> QED
      BY <1>2, <2>1, <2>2, <3>1, SentShift
  <2>4. Text' = Text
    BY <1>2, TextFrame
  <2>5. ReadsLine(m)'
    <3>1. server'.headers = {} /\ server'.body = <<>>
      BY <1>1, <1>5, <2>2
    <3>2. CASE count = KeepAliveMax
      <4>1. p # 1
        BY <1>4, <1>7, NoSecondRequest
      <4>2. p = 0 /\ m <= 1
        BY <3>2, <1>5, <4>1, Lengths
      <4>3. Len(e.line) = m - 0 /\ \A i \in 1..m - 0 : e.line[i] = Text[0 + i]
        BY <1>5, <1>6, <3>2
      <4>4. LineFrom(0, m)'
        BY <2>2, <2>4, <4>3 DEF LineFrom
      <4> QED
        BY <2>1, <3>1, <3>2, <4>2, <4>4 DEF ReadsLine
    <3>3. CASE count # KeepAliveMax
      <4>1. PICK b \in 1..p : LineFrom(b, p)
        BY <1>5, <3>3
      <4>2. b \in 0..p /\ b \in 1..m
        BY Lengths
      <4>3. Len(e.line) = m - b /\ \A i \in 1..m - b : e.line[i] = Text[b + i]
        BY <1>6, <4>1, <4>2
      <4>4. LineFrom(b, m)'
        BY <2>2, <2>4, <4>3 DEF LineFrom
      <4> QED
        BY <2>1, <3>1, <3>3, <4>2, <4>4 DEF ReadsLine
    <3> QED
      BY <3>2, <3>3
  <2>6. Read(m)' /\ server'.at # "idle"
    BY <1>1, <2>2, <2>5 DEF Read
  <2>7. ~Called => ServerMoves
    <3>1. server.at = "first_line" /\ server'.at = "first_line" /\ count' = count
      BY <1>1, <2>1, <2>2
    <3> QED
      BY <1>2, <2>1, <2>2, <3>1 DEF ServerMoves, ReadsOn, OnlyServer, Readings, Unanswered
  <2> QED
    BY <1>2, <2>1, <2>2, <2>3, <2>6, <2>7
<1>8. CASE server.wire[1] \in {Crlf, Newline}
  <2>1. /\ TypeInv' /\ client' = client /\ result' = result /\ handled' = handled
        /\ count' = count /\ server' = RequestLine(e)
    BY <1>1, <1>2, <1>3, <1>8, ServerLineMoves
  <2>2. server.wire[1] = Crlf /\ Text[m] = Crlf
    BY <1>4, <1>8
  <2>3. Sent(m, q)'
    <3>1. server'.wire = Rest1(server.wire, 1) /\ 1 \in 0..Len(server.wire)
      BY <1>1, <2>1, RequestLineFields, Lengths
    <3> QED
      BY <1>2, <2>1, <3>1, SentShift
  <2>4. CASE ParseRequestLine(e.line)
    <3>1. Len(e.line) = 2 /\ e.line[1].name \in Kinds
      BY <2>4 DEF ParseRequestLine
    <3>2. count = KeepAliveMax
      <4> SUFFICES ASSUME count # KeepAliveMax PROVE FALSE
        OBVIOUS
      <4>1. PICK b \in 1..p : LineFrom(b, p)
        BY <1>5
      <4>2. Len(e.line) = m - b /\ \A i \in 1..m - b : e.line[i] = Text[b + i]
        BY SMTT(20), <1>6, <4>1, Lengths
      <4>3. m - b = 2 /\ b + 1 = p
        <5>1. Len(e.line) = 2 /\ Len(e.line) = m - b
          BY <3>1, <4>2
        <5>2. b \in Nat
          BY <1>0
        <5>3. m - b = 2
          BY <5>1, Zenon
        <5> QED
          BY <1>0, <5>2, <5>3
      <4>5. e.line[1] = Text[b + 1]
        <5>1. 1 \in 1..m - b
          BY <1>0, <4>3
        <5> QED
          BY <4>2, <5>1
      <4>4. p \in 2..Len(Text) - 1 /\ p + 1 = m
        BY <1>0, <1>4, <4>3
      <4>6. Text[p].name \in Kinds /\ Text[p + 1] = Crlf
        BY <2>2, <3>1, <4>3, <4>4, <4>5
      <4> QED
        BY <4>4, <4>6, NoSecondRequest
    <3>3. m = 2
      BY <1>5, <1>6, <3>1, <3>2, Lengths
    <3>4. /\ server'.at = "headers" /\ server'.line = <<>> /\ server'.headers = {}
          /\ server'.body = <<>>
      BY <1>1, <1>5, <2>1, <2>4, RequestLineFields
    <3>5. HeadersTo(m)'
      BY <3>3, <3>4 DEF HeadersTo
    <3>6. ReadsHeaders(m)'
      BY <2>1, <3>2, <3>3, <3>4, <3>5 DEF ReadsHeaders
    <3>7. Read(m)'
      BY <3>4, <3>6 DEF Read
    <3>8. ~Called => ServerMoves
      BY <1>2, <2>1, <3>2, <3>4 DEF ServerMoves, ReadsOn, OnlyServer, Readings, Unanswered
    <3> QED
      BY <1>2, <2>1, <2>3, <3>4, <3>7, <3>8
  <2>5. CASE ~ParseRequestLine(e.line)
    <3>1. server'.at = "write_head" /\ server'.status = 400 /\ server'.out = Refusal
      BY <1>1, <2>1, <2>5, RequestLineFields, Zenon DEF Refusal
    <3>2. m >= 1
      BY Lengths
    <3>3. Read(m)'
      BY <3>1, <3>2 DEF Read
    <3>4. ~Called => ServerMoves
      BY <1>2, <2>1, <3>1 DEF ServerMoves, Refuses, OnlyServer, Readings
    <3> QED
      BY <1>2, <2>1, <2>3, <3>1, <3>3, <3>4
  <2> QED
    BY <2>4, <2>5
<1> QED
  BY <1>7, <1>8
LEMMA ServerWord ==
  ASSUME TypeInv, GetWord("server"),
         NEW p \in 0..Len(Text), NEW q \in 0..Len(Text), Sent(p, q),
         NEW m \in Nat, m = p + 1
  PROVE  /\ p \in Nat /\ q \in Nat /\ Len(Text) \in Nat /\ m \in 1..Len(Text) /\ Text[m] # Newline
         /\ Begun("server") \in Ends /\ Begun("server").at = server.at /\ Begun("server").open = server.open /\ server.open
         /\ Begun("server").line = Append(server.line, Text[m]) /\ Text[m] \in Words
         /\ Begun("server").headers = server.headers /\ Begun("server").body = server.body /\ Begun("server").status = server.status
         /\ kind' = kind /\ Reading("server")
         /\ Text[m] = Crlf => ServerLine(Begun("server"))
         /\ Text[m] # Crlf => /\ TypeInv' /\ server' = Begun("server") /\ client' = client /\ result' = result
                              /\ handled' = handled /\ closing' = closing /\ count' = count
         /\ server'.wire = Begun("server").wire /\ client' = client /\ result' = result => Sent(m, q)'
<1> DEFINE e == Begun("server")
<1>0. p \in Nat /\ q \in Nat /\ Len(Text) \in Nat /\ p <= Len(Text)
  BY Lengths
<1>1. /\ e \in Ends /\ e.at = server.at /\ e.open = server.open
      /\ e.line = Append(server.line, server.wire[1])
      /\ e.headers = server.headers /\ e.body = server.body /\ e.status = server.status
      /\ Len(server.wire) >= 1 /\ Head(server.wire) = server.wire[1] /\ server.wire[1] \in Words
      /\ e.wire = Rest1(server.wire, 1)
  <2>1. Readable("server") /\ "server" \in Sides
    BY DEF GetWord, Sides
  <2> QED
    BY <2>1, BegunFields DEF server
<1>2. kind' = kind /\ IF server.wire[1] \in {Crlf, Newline} THEN ServerLine(e)
                      ELSE Become("server", e) /\ UNCHANGED <<result, serverVars>>
  BY <1>1 DEF GetWord, Begun, LineRead, server
<1>3. server.open /\ Reading("server")
  BY SidesNamed DEF TypeInv, Reading, GetWord
<1>4. server.wire[1] = Text[m] /\ m \in 1..Len(Text) /\ Text[m] # Newline
  <2>1. Len(server.wire) = q - p /\ 1 \in 1..q - p
    BY <1>1, Lengths DEF Sent
  <2>2. server.wire[1] = Text[p + 1]
    BY <2>1 DEF Sent
  <2>3. m \in 1..Len(Text)
    BY <2>1, Lengths
  <2> QED
    BY <2>1, <2>2, <2>3, NoSecondRequest, Lengths
<1>5. e.line = Append(server.line, Text[m]) /\ Text[m] \in Words
  BY <1>1, <1>4
<1>6. Text[m] = Crlf => ServerLine(e)
  BY <1>2, <1>4
<1>7. ASSUME Text[m] # Crlf
      PROVE  /\ TypeInv' /\ server' = e /\ client' = client /\ result' = result
             /\ handled' = handled /\ closing' = closing /\ count' = count
  <2>1. Become("server", e) /\ result' = result /\ handled' = handled /\ closing' = closing
        /\ count' = count
    BY <1>2, <1>4, <1>7 DEF serverVars
  <2>2. closing' \in BOOLEAN /\ count' \in Int /\ count' <= KeepAliveMax
    BY <2>1 DEF TypeInv
  <2>3. OpenAsItShould(e) /\ e.at \in ServerAts
    BY <1>1, <1>3 DEF OpenAsItShould, ServerAts, Reading, server
  <2> QED
    BY <1>1, <1>2, <2>1, <2>2, <2>3, ServerBecomes
<1>8. server'.wire = e.wire /\ client' = client /\ result' = result => Sent(m, q)'
  <2>1. 1 \in 0..Len(server.wire)
    BY <1>1, Lengths
  <2> QED
    BY <1>1, <1>2, <2>1, SentShift
<1> QED
  BY <1>0, <1>1, <1>2, <1>3, <1>4, <1>5, <1>6, <1>7, <1>8

LEMMA ClosesAtEnd ==
  \A e \in Ends : /\ e.line = <<Crlf>> /\ e.at = "headers" => HeadersEnd(e)
                  /\ \A a \in Words : /\ e.line = <<a, Crlf>> => ~HeadersEnd(e) /\ EndsWithCrlf(e.line)
                                                                 /\ e.line[1] = a
                                      /\ e.line = <<a>> /\ a # Crlf => ~HeadersEnd(e) /\ ~EndsWithCrlf(e.line)
<1> SUFFICES ASSUME NEW e \in Ends
             PROVE  /\ e.line = <<Crlf>> /\ e.at = "headers" => HeadersEnd(e)
                    /\ \A a \in Words :
                         /\ e.line = <<a, Crlf>> => ~HeadersEnd(e) /\ EndsWithCrlf(e.line) /\ e.line[1] = a
                         /\ e.line = <<a>> /\ a # Crlf => ~HeadersEnd(e) /\ ~EndsWithCrlf(e.line)
  OBVIOUS
<1>1. e.line = <<Crlf>> /\ e.at = "headers" => HeadersEnd(e)
  BY DEF HeadersEnd, EndsWithCrlf
<1>2. ASSUME NEW a \in Words, e.line = <<a, Crlf>>
      PROVE  ~HeadersEnd(e) /\ EndsWithCrlf(e.line) /\ e.line[1] = a
  BY <1>2 DEF HeadersEnd, EndsWithCrlf
<1>3. ASSUME NEW a \in Words, e.line = <<a>>, a # Crlf
      PROVE  ~HeadersEnd(e) /\ ~EndsWithCrlf(e.line)
  BY <1>3 DEF HeadersEnd, EndsWithCrlf
<1> QED
  BY <1>1, <1>2, <1>3

LEMMA HeadLengths ==
  /\ \A n \in Nat : ContentLength({Close, Length(n)}) = n
  /\ Close # Crlf /\ \A n : Length(n) # Crlf /\ Length(n) # Close
<1>1. Close.name = "Connection:close" /\ Crlf.name = "crlf"
      /\ \A n : Length(n).name = "Content-Length" /\ Length(n).n = n
  BY WordNames
<1>2. ASSUME NEW n \in Nat PROVE ContentLength({Close, Length(n)}) = n
  <2> DEFINE hs == {Close, Length(n)}
  <2>1. \E h \in hs : h.name = "Content-Length"
    BY <1>1
  <2>2. \A h \in hs : h.name = "Content-Length" => h = Length(n)
    BY <1>1
  <2>3. (CHOOSE h \in hs : h.name = "Content-Length") = Length(n)
    BY <2>1, <2>2
  <2> QED
    BY <1>1, <2>1, <2>3 DEF ContentLength
<1> QED
  BY <1>1, <1>2
\* What the server makes of a word of a header.
LEMMA HeaderWord ==
  ASSUME TypeInv, HandledInv, server.at = "headers", Readable("server"), GetWord("server"),
         NEW p \in 0..Len(Text), NEW q \in 0..Len(Text), Sent(p, q), Read(p),
         NEW m \in Nat, m = p + 1
  PROVE  /\ TypeInv' /\ client' = client /\ result' = result /\ handled' = handled
         /\ kind' = kind /\ server'.at # "idle" /\ Sent(m, q)' /\ Read(m)'
         /\ ~Called => ServerMoves
<1> DEFINE e == Begun("server")
<1>2. /\ p \in Nat /\ Len(Text) \in Nat /\ m \in 1..Len(Text)
      /\ e \in Ends /\ e.at = "headers" /\ e.open = server.open
      /\ e.line = Append(server.line, Text[m]) /\ Text[m] \in Words
      /\ e.headers = server.headers /\ e.body = server.body /\ kind' = kind /\ Reading("server")
      /\ Text[m] = Crlf => ServerLine(e)
      /\ Text[m] # Crlf => /\ TypeInv' /\ server' = e /\ client' = client /\ result' = result
                           /\ handled' = handled /\ closing' = closing /\ count' = count
      /\ server'.wire = e.wire /\ client' = client /\ result' = result => Sent(m, q)'
  BY ServerWord
<1> HIDE DEF e
<1>3. count = KeepAliveMax /\ server.body = <<>> /\ p >= 2 /\ HeadersTo(p)
  <2>1. server.wire # <<>>
    BY DEF Readable, server
  <2> QED
    BY <2>1 DEF Read, ReadsHeaders, CutOff
<1>4. Text' = Text
  BY <1>2, TextFrame
<1> DEFINE Goal == /\ TypeInv' /\ client' = client /\ result' = result /\ handled' = handled
                   /\ kind' = kind /\ server'.at # "idle" /\ Sent(m, q)' /\ Read(m)'
                   /\ ~Called => ServerMoves
\* The answer to this request is still to come.
<1>20. ASSUME OnlyServer, server'.at \in Readings PROVE ~Called => ServerMoves
  BY <1>20 DEF ServerMoves, ReadsOn, Readings, Unanswered
\* A word within a line, and one that ends a line but not the headers.
<1>5. ASSUME Text[m] # Crlf, e.line = server'.line => HeadersTo(m)' PROVE Goal
  <2>1. /\ TypeInv' /\ server' = e /\ client' = client /\ result' = result
        /\ handled' = handled /\ closing' = closing /\ count' = count
    BY <1>2, <1>5
  <2>2. ReadsHeaders(m)'
    BY <1>2, <1>3, <1>5, <2>1 DEF ReadsHeaders
  <2>3. Read(m)'
    BY <1>2, <2>1, <2>2 DEF Read
  <2>4. ~Called => ServerMoves
    BY <1>2, <1>20, <2>1 DEF OnlyServer, Readings
  <2> QED
    BY <1>2, <2>1, <2>3, <2>4
<1>6. ASSUME Text[m] = Crlf, ~HeadersEnd(e), EndsWithCrlf(e.line),
             server'.line = <<>> /\ server'.headers = server.headers \cup {e.line[1]} => HeadersTo(m)'
      PROVE  Goal
  <2>1. /\ TypeInv' /\ client' = client /\ result' = result /\ handled' = handled /\ count' = count
        /\ server' = HeaderLine(e)
    BY <1>2, <1>6, ServerLineMoves
  <2>2. /\ server'.at = "headers" /\ server'.line = <<>> /\ server'.wire = e.wire
        /\ server'.body = <<>> /\ server'.headers = server.headers \cup {e.line[1]}
    BY <1>2, <1>3, <1>6, <2>1, HeaderLineFields
  <2>3. ReadsHeaders(m)'
    BY <1>2, <1>3, <1>6, <2>1, <2>2 DEF ReadsHeaders
  <2>4. Read(m)'
    BY <2>2, <2>3 DEF Read
  <2>5. ~Called => ServerMoves
    BY <1>2, <1>20, <2>1, <2>2 DEF OnlyServer, Readings
  <2> QED
    BY <1>2, <2>1, <2>2, <2>4, <2>5
\* The line without text.
<1>7. ASSUME Text[m] = Crlf, HeadersEnd(e), Close \in server.headers,
             kind = "GET" => m = Len(Text),
             kind = "POST" => m = 7 /\ ContentLength(server.headers) = Len(Command)
      PROVE  Goal
  <2>1. /\ TypeInv' /\ client' = client /\ result' = result /\ handled' = handled /\ count' = count
        /\ server' = Routing(e)
        /\ closing' = (closing \/ (HeadersEnd(e) /\ Close \in e.headers))
    BY <1>2, <1>7, ServerLineMoves
  <2>2. closing'
    BY <1>2, <1>7, <2>1
  <2>3. server'.wire = e.wire /\ server'.body = <<>>
    BY <1>2, <1>3, <2>1, RoutingFields
  <2>4. CASE kind = "GET"
    <3>1. server'.at = "handle"
      BY <1>2, <2>1, <2>4, RoutingFields
    <3>2. HandlesGet(m)'
      BY <1>2, <1>3, <1>4, <1>7, <2>1, <2>2, <2>3, <2>4 DEF HandlesGet
    <3>3. Read(m)'
      BY <3>1, <3>2 DEF Read
    <3>4. ~Called => ServerMoves
      BY <1>2, <1>20, <2>1, <3>1 DEF OnlyServer, Readings
    <3> QED
      BY <1>2, <2>1, <2>3, <3>1, <3>3, <3>4
  <2>5. CASE kind = "POST"
    <3>1. server'.at = "content" /\ server'.left = Len(Command)
      BY <1>2, <1>7, <2>1, <2>5, RoutingFields
    <3>2. Len(server'.body) = 0
      BY <2>3
    <3>3. ReadsContent(m)'
      <4>1. kind' = "POST" /\ closing' /\ count' = KeepAliveMax /\ m = 7 + 0
            /\ Len(Command) = Len(Command) - 0
        BY <1>2, <1>3, <1>7, <2>1, <2>2, <2>5, CommandType
      <4>2. \A i \in 1..0 : server'.body[i] = Command[i]
        OBVIOUS
      <4> QED
        BY <3>1, <3>2, <4>1, <4>2 DEF ReadsContent
    <3>4. Read(m)'
      BY <3>1, <3>3 DEF Read
    <3>5. ~Called => ServerMoves
      BY <1>2, <1>20, <2>1, <3>1 DEF OnlyServer, Readings
    <3> QED
      BY <1>2, <2>1, <2>3, <3>1, <3>4, <3>5
  <2> QED
    BY <2>4, <2>5 DEF TypeInv, Kinds
<1> HIDE DEF Goal
<1>8. CASE p = 2 /\ server.line = <<>> /\ server.headers = {}
  <2>1. m = 3 /\ Text[m] = Close /\ Close # Crlf
    BY <1>2, <1>8, NoSecondRequest, HeadLengths
  <2>2. e.line = <<Close>>
    BY <1>2, <1>8, <2>1
  <2>3. server' = e
    BY <1>2, <2>1
  <2>4. HeadersTo(m)'
    BY <1>2, <1>8, <2>1, <2>2, <2>3 DEF HeadersTo
  <2> QED
    BY <1>5, <2>1, <2>4 DEF Goal
<1>9. CASE p = 3 /\ server.line = <<Close>> /\ server.headers = {}
  <2>1. m = 4 /\ Text[m] = Crlf
    BY <1>2, <1>9, NoSecondRequest
  <2>2. e.line = <<Close, Crlf>>
    BY <1>2, <1>9, <2>1, TwoWords, WordTypes, Zenon
  <2>3. ~HeadersEnd(e) /\ EndsWithCrlf(e.line) /\ e.line[1] = Close
    BY <1>2, <2>2, ClosesAtEnd, WordTypes
  <2>4. server'.line = <<>> /\ server'.headers = {} \cup {Close} => HeadersTo(m)'
    BY <2>1 DEF HeadersTo
  <2> QED
    BY <1>6, <1>9, <2>1, <2>3, <2>4 DEF Goal
<1>10. CASE p = 4 /\ server.line = <<>> /\ server.headers = {Close}
  <2>1. m = 5
    BY <1>2, <1>10
  <2>2. CASE kind = "POST"
    <3>1. Text[m] = Length(Len(Command)) /\ Text[m] # Crlf
      BY <2>1, <2>2, PostText, HeadLengths
    <3>2. e.line = <<Length(Len(Command))>>
      BY <1>2, <1>10, <3>1
    <3>3. server' = e
      BY <1>2, <3>1
    <3>4. HeadersTo(m)'
      BY <1>2, <1>10, <2>1, <2>2, <3>2, <3>3 DEF HeadersTo
    <3> QED
      BY <1>5, <3>1, <3>4 DEF Goal
  <2>3. CASE kind = "GET"
    <3>1. Text[m] = Crlf /\ m = Len(Text)
      BY <2>1, <2>3, GetText
    <3>2. e.line = <<Crlf>>
      BY <1>2, <1>10, <3>1
    <3>3. HeadersEnd(e)
      BY <1>2, <3>2, ClosesAtEnd
    <3> QED
      BY <1>7, <1>10, <2>3, <3>1, <3>3 DEF Goal
  <2> QED
    BY <2>2, <2>3 DEF TypeInv, Kinds
<1>11. CASE kind = "POST" /\ p = 5 /\ server.line = <<Length(Len(Command))>> /\ server.headers = {Close}
  <2>1. m = 6 /\ Text[m] = Crlf
    BY <1>2, <1>11, PostText
  <2>2. e.line = <<Length(Len(Command)), Crlf>>
    <3>1. Length(Len(Command)) \in Words /\ Crlf \in Words
      BY WordTypes, CommandType
    <3> QED
      BY <1>2, <1>11, <2>1, <3>1, TwoWords, Zenon
  <2>3. ~HeadersEnd(e) /\ EndsWithCrlf(e.line) /\ e.line[1] = Length(Len(Command))
    BY <1>2, <2>2, ClosesAtEnd, WordTypes, CommandType
  <2>4. server'.line = <<>> /\ server'.headers = {Close} \cup {Length(Len(Command))} => HeadersTo(m)'
    BY <1>2, <1>11, <2>1 DEF HeadersTo
  <2> QED
    BY <1>6, <1>11, <2>1, <2>3, <2>4 DEF Goal
<1>12. CASE kind = "POST" /\ p = 6 /\ server.line = <<>>
            /\ server.headers = {Close, Length(Len(Command))}
  <2>1. m = 7 /\ Text[m] = Crlf
    BY <1>2, <1>12, PostText
  <2>2. e.line = <<Crlf>>
    BY <1>2, <1>12, <2>1
  <2>3. HeadersEnd(e)
    BY <1>2, <2>2, ClosesAtEnd
  <2>4. ContentLength(server.headers) = Len(Command) /\ Close \in server.headers
    BY <1>12, HeadLengths, CommandType
  <2> QED
    BY <1>7, <1>12, <2>1, <2>3, <2>4 DEF Goal
<1> QED
  BY <1>3, <1>8, <1>9, <1>10, <1>11, <1>12 DEF HeadersTo, Goal
\* A handler that was called is writing: it reads no more.
LEMMA ReadsUncalled ==
  ASSUME HandledInv, server.at \in {"keep_alive", "first_line", "headers", "content", "handle"}
  PROVE  ~Called /\ Busy("server") /\ server.at # "idle"
BY DEF HandledInv, Busy, server

LEMMA ServerReadsWord ==
  ASSUME TypeInv, RequestInv, HandledInv, GetWord("server")
  PROVE  TypeInv' /\ RequestInv' /\ HandledInv' /\ ServerMoves
<1>1. server.at \in {"first_line", "headers"} /\ Readable("server")
  BY DEF GetWord, Reading, server
<1>2. ~Called /\ Busy("server") /\ server.at # "idle"
  BY <1>1, ReadsUncalled
<1>3. PICK p \in 0..Len(Text), q \in 0..Len(Text) : Sent(p, q) /\ Read(p)
  BY <1>2 DEF RequestInv
<1>4. PICK m \in Nat : m = p + 1
  <2>1. p + 1 \in Nat
    BY Lengths
  <2> QED
    BY <2>1
<1>5. /\ TypeInv' /\ client' = client /\ result' = result /\ handled' = handled
      /\ kind' = kind /\ server'.at # "idle" /\ Sent(m, q)' /\ Read(m)'
      /\ ServerMoves
  <2>1. CASE server.at = "first_line"
    BY <1>1, <1>2, <1>3, <1>4, <2>1, FirstLineWord
  <2>2. CASE server.at = "headers"
    BY <1>1, <1>2, <1>3, <1>4, <2>2, HeaderWord
  <2> QED
    BY <1>1, <2>1, <2>2
<1>6. m \in 0..Len(Text)
  BY <1>3, <1>4, ServerWord, Lengths
<1> QED
  BY <1>2, <1>5, <1>6, ServerGoesOn

LEMMA LineIsNoRequest ==
  ASSUME TypeInv, server.at = "first_line", server.line # <<>>,
         NEW p \in 0..Len(Text), Read(p)
  PROVE  ~ParseRequestLine(server.line) /\ p >= 1
<1>1. p \in Nat /\ Len(Text) \in Nat /\ p <= Len(Text) /\ server.line \in Seq(Words)
  BY Lengths, SidesNamed DEF Ends
<1>2. Len(server.line) \in Nat /\ Len(server.line) >= 1
  BY <1>1
<1>3. CASE count = KeepAliveMax
  <2>1. p <= 1 /\ Len(server.line) = p - 0
    BY <1>3 DEF Read, ReadsLine, LineFrom
  <2> QED
    BY <1>1, <1>2, <2>1 DEF ParseRequestLine
<1>4. CASE count # KeepAliveMax
  <2>1. PICK b \in 1..p : LineFrom(b, p)
    BY <1>4 DEF Read, ReadsLine
  <2>2. Len(server.line) = p - b /\ \A i \in 1..p - b : server.line[i] = Text[b + i]
    BY <2>1 DEF LineFrom
  <2>3. b \in Nat /\ b >= 1 /\ p >= 1
    BY <1>1
  <2>4. ASSUME ParseRequestLine(server.line) PROVE FALSE
    <3>1. Len(server.line) = 2 /\ server.line[1].name \in Kinds /\ server.line[2] = Crlf
      BY <2>4 DEF ParseRequestLine, EndsWithCrlf
    <3>2. p - b = 2
      BY <2>2, <3>1, Zenon
    <3>3. server.line[1] = Text[b + 1] /\ server.line[2] = Text[b + 2]
      BY <1>1, <2>2, <2>3, <3>2
    <3>4. b + 1 \in 2..Len(Text) - 1 /\ (b + 1) + 1 = b + 2
      BY <1>1, <2>3, <3>2
    <3>5. Text[b + 1].name \in Kinds /\ Text[(b + 1) + 1] = Crlf
      BY <3>1, <3>3, <3>4
    <3> QED
      BY <3>4, <3>5, NoSecondRequest
  <2> QED
    BY <2>3, <2>4
<1> QED
  BY <1>3, <1>4

LEMMA ServerLineAtEnd ==
  ASSUME TypeInv, RequestInv, HandledInv, LineAtEnd("server")
  PROVE  TypeInv' /\ RequestInv' /\ HandledInv' /\ ServerMoves
<1>1. /\ server.at \in {"first_line", "headers"} /\ Reading("server") /\ server.line # <<>>
      /\ server.wire = <<>> /\ ~client.open /\ ServerLine(server) /\ kind' = kind
  BY SidesNamed DEF LineAtEnd, Reading, AtEnd, Readable, LineRead, server
<1>2. ~Called /\ Busy("server") /\ server.at # "idle"
  BY <1>1, ReadsUncalled
<1>3. PICK p \in 0..Len(Text), q \in 0..Len(Text) : Sent(p, q) /\ Read(p)
  BY <1>2 DEF RequestInv
<1>4. server \in Ends /\ 0 \in 0..Len(server.wire) /\ Rest1(server.wire, 0) = server.wire
  BY SidesNamed, Lengths DEF Rest1, Ends
<1>5. /\ TypeInv' /\ client' = client /\ result' = result /\ handled' = handled /\ count' = count
      /\ server.at = "first_line" => server' = RequestLine(server)
      /\ server.at = "headers" /\ ~HeadersEnd(server) => server' = HeaderLine(server)
  BY <1>1, <1>4, ServerLineMoves
<1>6. CASE server.at = "first_line"
  <2>1. ~ParseRequestLine(server.line)
    BY <1>1, <1>3, <1>6, LineIsNoRequest
  <2>2. /\ server'.at = "write_head" /\ server'.status = 400 /\ server'.wire = server.wire
        /\ server'.out = Refusal
    <3>1. /\ RequestLine(server).at = "write_head" /\ RequestLine(server).status = 400
          /\ RequestLine(server).wire = server.wire /\ RequestLine(server).out = Refusal
      BY <1>4, <2>1, RequestLineFields, Zenon DEF Refusal
    <3> QED
      BY <1>5, <1>6, <3>1
  <2>3. \A r \in 0..Len(Text) : Read(r) => r + 0 >= 1
    <3> SUFFICES ASSUME NEW r \in 0..Len(Text), Read(r) PROVE r + 0 >= 1
      OBVIOUS
    <3>1. r >= 1
      BY <1>1, <1>6, LineIsNoRequest
    <3> QED
      BY <3>1, Lengths
  <2>4. server'.wire = Rest1(server.wire, 0)
    BY <1>4, <2>2
  <2>5. ServerMoves
    BY <1>1, <1>2, <1>5, <1>6, <2>2 DEF ServerMoves, Refuses, OnlyServer, Readings
  <2> QED
    BY <1>1, <1>2, <1>4, <1>5, <2>2, <2>3, <2>4, <2>5, ServerAnswers
<1>7. CASE server.at = "headers"
  <2>1. p \in Nat /\ count = KeepAliveMax /\ server.body = <<>> /\ p >= 2 /\ HeadersTo(p)
    BY <1>1, <1>3, <1>7, Lengths DEF Read, ReadsHeaders, CutOff
  <2>2. server.line = <<Close>> \/ server.line = <<Length(Len(Command))>>
    BY <1>1, <2>1 DEF HeadersTo
  <2>3. ~HeadersEnd(server) /\ ~EndsWithCrlf(server.line)
    <3>1. Close \in Words /\ Close # Crlf /\ Length(Len(Command)) \in Words /\ Length(Len(Command)) # Crlf
      BY WordTypes, CommandType, HeadLengths
    <3> QED
      BY <1>4, <2>2, <3>1, ClosesAtEnd
  <2>4. server' = HeaderLine(server)
    BY <1>5, <1>7, <2>3
  <2>5. /\ server'.at = "headers" /\ server'.line = <<>> /\ server'.wire = <<>>
        /\ server'.body = <<>>
    BY <1>1, <1>4, <1>7, <2>1, <2>4, HeaderLineFields
  <2>6. Sent(p, q)'
    <3>1. p \in Nat /\ p = p + 0
      BY Lengths
    <3>2. server'.wire = Rest1(server.wire, 0)
      BY <1>1, <1>4, <2>5
    <3> QED
      BY <1>1, <1>3, <1>4, <1>5, <3>1, <3>2, SentShift
  <2>7. CutOff'
    BY <1>1, <1>5, <2>5 DEF CutOff
  <2>8. ReadsHeaders(p)'
    BY <1>5, <2>1, <2>5, <2>7 DEF ReadsHeaders
  <2>9. Read(p)'
    BY <2>5, <2>8 DEF Read
  <2>10. ServerMoves
    BY <1>1, <1>2, <1>5, <1>7, <2>5 DEF ServerMoves, ReadsOn, OnlyServer, Readings, Unanswered
  <2> QED
    BY <1>1, <1>2, <1>3, <1>5, <2>5, <2>6, <2>9, <2>10, ServerGoesOn
<1> QED
  BY <1>1, <1>6, <1>7
LEMMA ServerLineBreaks ==
  ASSUME TypeInv, RequestInv, HandledInv, LineBreaks("server")
  PROVE  TypeInv' /\ RequestInv' /\ HandledInv' /\ ServerMoves
<1>1. /\ server.at \in {"first_line", "headers"} /\ server.open /\ server \in Ends
      /\ kind' = kind /\ result' = result /\ handled' = handled /\ closing' = closing /\ count' = count
      /\ Become("server", IF server.at = "headers" THEN BadRequest(server) ELSE Closed(server))
  BY SidesNamed DEF LineBreaks, Reading, NoLine, At, server, serverVars, TypeInv
<1>2. ~Called /\ Busy("server") /\ server.at # "idle"
  BY <1>1, ReadsUncalled
<1>3. closing' \in BOOLEAN /\ count' \in Int /\ count' <= KeepAliveMax
  BY <1>1 DEF TypeInv
<1>4. CASE server.at = "headers"
  <2>1. /\ BadRequest(server) \in Ends /\ BadRequest(server).at = "write_head"
        /\ BadRequest(server).open = server.open /\ BadRequest(server).status = 400
        /\ BadRequest(server).wire = server.wire /\ BadRequest(server).out = Refusal
    BY ZenonT(40), <1>1, EndTypes, BadRequestFields DEF Refusal
  <2> DEFINE e == BadRequest(server)
  <2>2. Become("server", e)
    BY <1>1, <1>4
  <2> HIDE DEF e
  <2>3. /\ e \in Ends /\ e.at = "write_head" /\ e.open /\ e.status = 400
        /\ e.wire = server.wire /\ e.out = Refusal
    BY <1>1, <2>1 DEF e
  <2>4. e.at \in ServerAts /\ OpenAsItShould(e)
    BY <2>3 DEF ServerAts, OpenAsItShould
  <2>5. TypeInv' /\ server' = e /\ client' = client
    BY <1>1, <1>3, <2>2, <2>3, <2>4, ServerBecomes
  <2>6. 0 \in 0..Len(server.wire) /\ server'.wire = Rest1(server.wire, 0)
    BY <1>1, <2>3, <2>5, Lengths DEF Rest1, Ends
  <2>7. \A r \in 0..Len(Text) : Read(r) => r + 0 >= 1
    BY <1>4, Lengths DEF Read, ReadsHeaders
  <2>8. ServerMoves
    BY <1>1, <1>2, <2>3, <2>5 DEF ServerMoves, Refuses, OnlyServer, Readings
  <2> QED
    BY <1>1, <1>2, <2>3, <2>5, <2>6, <2>7, <2>8, ServerAnswers
<1>5. CASE server.at = "first_line"
  <2>1. Become("server", Closed(server))
    BY <1>1, <1>5
  <2>2. Closed(server) \in Ends /\ Closed(server).at = "ended" /\ ~Closed(server).open
    BY <1>1, EndTypes, ClosedFields
  <2>3. OpenAsItShould(Closed(server)) /\ Closed(server).at \in ServerAts
    BY <2>2 DEF OpenAsItShould, ServerAts
  <2>4. TypeInv' /\ server' = Closed(server) /\ client' = client
    BY <1>1, <1>3, <2>1, <2>2, <2>3, ServerBecomes
  <2>5. ServerMoves
    BY <1>1, <2>2, <2>4 DEF ServerMoves, Stops, OnlyServer
  <2> QED
    BY <1>1, <1>2, <2>2, <2>4, <2>5, ServerStops
<1> QED
  BY <1>1, <1>4, <1>5

\* The server takes a byte of the body.
LEMMA ServerGetsContent ==
  ASSUME TypeInv, RequestInv, HandledInv, GetContent("server")
  PROVE  TypeInv' /\ RequestInv' /\ HandledInv' /\ ServerMoves
<1> DEFINE x == Head(server.wire)
           e == [Received(Rest("server"), x) EXCEPT !.left = IF @ = Unknown THEN @ ELSE @ - 1]
<1>1. /\ server.at = "content" /\ server.left # 0 /\ server.wire # <<>> /\ server \in Ends
      /\ server.open
      /\ kind' = kind /\ result' = result /\ handled' = handled /\ closing' = closing /\ count' = count
      /\ Become("server", e)
  BY SidesNamed DEF GetContent, At, server, serverVars, TypeInv, Readable
<1>2. ~Called /\ Busy("server") /\ server.at # "idle"
  BY <1>1, ReadsUncalled
<1>3. closing' \in BOOLEAN /\ count' \in Int /\ count' <= KeepAliveMax
  BY <1>1 DEF TypeInv
<1>4. PICK p \in 0..Len(Text), q \in 0..Len(Text) : Sent(p, q) /\ Read(p)
  BY <1>2 DEF RequestInv
<1>5. PICK m \in Nat : m = p + 1
  <2>1. p + 1 \in Nat
    BY Lengths
  <2> QED
    BY <2>1
<1>6. /\ server.wire \in Seq(Words) /\ server.body \in Seq(Words) /\ server.left \in Int
      /\ x = server.wire[1] /\ x \in Words /\ Len(server.wire) >= 1
      /\ Tail(server.wire) = Rest1(server.wire, 1) /\ Tail(server.wire) \in Seq(Words)
  <2>1. server.wire \in Seq(Words) /\ server.body \in Seq(Words) /\ server.left \in Int
    BY <1>1 DEF Ends
  <2>2. x = server.wire[1] /\ x \in Words /\ Len(server.wire) >= 1
    BY <1>1, <2>1
  <2>3. Tail(server.wire) = Rest1(server.wire, 1) /\ Tail(server.wire) \in Seq(Words)
    BY <1>1, <2>1, TailShape, Zenon
  <2> QED
    BY <2>1, <2>2, <2>3
<1> DEFINE w == Tail(server.wire)
           b == Append(server.body, x)
           l == IF server.left = Unknown THEN server.left ELSE server.left - 1
<1>7. e = [server EXCEPT !.wire = w, !.body = b, !.left = l]
  BY <1>1 DEF Received, Rest, server, Ends
<1>8. /\ b \in Seq(Words) /\ Len(b) = Len(server.body) + 1 /\ b[Len(server.body) + 1] = x
      /\ \A i \in 1..Len(server.body) : b[i] = server.body[i]
      /\ w \in Seq(Words) /\ w = Rest1(server.wire, 1) /\ l \in Int
  <2>1. /\ b \in Seq(Words) /\ Len(b) = Len(server.body) + 1 /\ b[Len(server.body) + 1] = x
        /\ \A i \in 1..Len(server.body) : b[i] = server.body[i]
    BY <1>6, AppendShape, Zenon
  <2>2. l \in Int
    BY <1>6
  <2> QED
    BY <1>6, <2>1, <2>2
<1>9. server.left # Unknown => l = server.left - 1
  OBVIOUS
<1> HIDE DEF x, e, w, b, l
<1>10. /\ e \in Ends /\ e.at = "content" /\ e.open /\ e.wire = w /\ e.body = b /\ e.left = l
  BY <1>1, <1>7, <1>8 DEF Ends
<1>11. TypeInv' /\ server' = e /\ client' = client
  <2>1. OpenAsItShould(e) /\ e.at \in ServerAts
    BY <1>10 DEF OpenAsItShould, ServerAts
  <2> QED
    BY <1>1, <1>3, <1>10, <2>1, ServerBecomes
<1>12. m \in 0..Len(Text) /\ m <= q /\ Sent(m, q)'
  <2>1. server'.wire = Rest1(server.wire, 1) /\ 1 \in 0..Len(server.wire)
    BY <1>6, <1>8, <1>10, <1>11, Lengths
  <2> QED
    BY <1>1, <1>4, <1>5, <1>11, <2>1, SentShift
<1>13. /\ kind = "POST" /\ closing /\ count = KeepAliveMax /\ p = 7 + Len(server.body)
       /\ server.left = Len(Command) - Len(server.body)
       /\ \A i \in 1..Len(server.body) : server.body[i] = Command[i]
  BY <1>1, <1>4 DEF Read, ReadsContent
<1>14. Len(Text) = 7 + Len(Command) /\ Len(Command) \in Nat /\ Len(server.body) \in Nat
  BY <1>13, PostText, Lengths
<1>15. x = Command[Len(server.body) + 1] /\ Len(server.body) + 1 \in 1..Len(Command)
  <2>1. Len(server.wire) = q - p /\ \A i \in 1..q - p : server.wire[i] = Text[p + i]
    BY <1>4 DEF Sent
  <2>2. 1 \in 1..q - p
    BY <1>6, <2>1, Lengths
  <2>3. x = Text[p + 1]
    BY <1>6, <2>1, <2>2
  <2>4. Len(server.body) + 1 \in 1..Len(Command) /\ p + 1 = 7 + (Len(server.body) + 1)
    BY <1>5, <1>12, <1>13, <1>14
  <2> QED
    BY <1>13, <2>3, <2>4, PostText
<1>16. ReadsContent(m)'
  <2>1. Len(server'.body) = Len(server.body) + 1
    BY <1>8, <1>10, <1>11
  <2>2. m = 7 + Len(server'.body)
    BY <1>5, <1>13, <1>14, <2>1
  <2>3. server'.left = Len(Command) - Len(server'.body)
    <3>1. server.left # Unknown
      BY <1>13, <1>14, <1>15 DEF Unknown
    <3> QED
      BY SMTT(40), <1>9, <1>10, <1>11, <1>13, <1>14, <2>1, <3>1
  <2>4. \A i \in 1..Len(server'.body) : server'.body[i] = Command[i]
    <3>1. \A i \in 1..Len(server'.body) : i \in 1..Len(server.body) \/ i = Len(server.body) + 1
      BY <1>14, <2>1
    <3>2. server'.body = b
      BY <1>10, <1>11
    <3> QED
      BY <1>8, <1>13, <1>15, <3>1, <3>2
  <2> QED
    BY <1>1, <1>13, <2>2, <2>3, <2>4 DEF ReadsContent
<1>17. Read(m)'
  BY <1>10, <1>11, <1>16 DEF Read
<1>18. ServerMoves
  BY <1>1, <1>2, <1>10, <1>11 DEF ServerMoves, ReadsOn, OnlyServer, Readings, Unanswered
<1> QED
  BY <1>1, <1>2, <1>4, <1>10, <1>11, <1>12, <1>17, <1>18, ServerGoesOn
LEMMA ServerContentBreaks ==
  ASSUME TypeInv, RequestInv, HandledInv, ContentBreaks("server")
  PROVE  TypeInv' /\ RequestInv' /\ HandledInv' /\ ServerMoves
<1>1. /\ server.at = "content" /\ server.left # 0 /\ server \in Ends /\ server.open /\ kind' = kind
  BY SidesNamed DEF ContentBreaks, At, server, TypeInv
<1>2. ~Called /\ Busy("server") /\ server.at # "idle"
  BY <1>1, ReadsUncalled
<1>3. \A r \in 0..Len(Text) : Read(r) => r + 0 >= 1 /\ server.left # Unknown
  <2> SUFFICES ASSUME NEW r \in 0..Len(Text), Read(r) PROVE r + 0 >= 1 /\ server.left # Unknown
    OBVIOUS
  <2>1. kind = "POST" /\ r = 7 + Len(server.body) /\ server.left = Len(Command) - Len(server.body)
    BY <1>1 DEF Read, ReadsContent
  <2>2. /\ Len(Text) = 7 + Len(Command) /\ Len(Command) \in Nat /\ Len(server.body) \in Nat
        /\ Len(Text) \in Nat
    BY <2>1, PostText, Lengths
  <2>3. r <= Len(Text) /\ r \in Nat
    BY <2>2
  <2> QED
    BY <2>1, <2>2, <2>3 DEF Unknown
<1>4. server.left # Unknown
  BY <1>2, <1>3 DEF RequestInv
<1> DEFINE e == BadRequest(server)
<1>5. /\ result' = result /\ handled' = handled /\ closing' = closing /\ count' = count
      /\ Become("server", e)
  BY <1>1, <1>4 DEF ContentBreaks, server, serverVars
<1>6. /\ e \in Ends /\ e.at = "write_head" /\ e.open = server.open /\ e.status = 400
      /\ e.wire = server.wire /\ e.out = Refusal
  BY <1>1, EndTypes, BadRequestFields, Zenon DEF Refusal
<1> HIDE DEF e
<1>7. closing' \in BOOLEAN /\ count' \in Int /\ count' <= KeepAliveMax
  BY <1>5 DEF TypeInv
<1>8. e.at \in ServerAts /\ OpenAsItShould(e)
  BY <1>1, <1>6 DEF ServerAts, OpenAsItShould
<1>9. TypeInv' /\ server' = e /\ client' = client
  BY <1>1, <1>5, <1>6, <1>7, <1>8, ServerBecomes
<1>10. 0 \in 0..Len(server.wire) /\ server'.wire = Rest1(server.wire, 0)
  BY <1>1, <1>6, <1>9, Lengths DEF Rest1, Ends
<1>11. ServerMoves
  BY <1>1, <1>2, <1>5, <1>6, <1>9 DEF ServerMoves, Refuses, OnlyServer, Readings
<1>12. \A r \in 0..Len(Text) : Read(r) => r + 0 >= 1
  BY <1>3
<1> QED
  BY <1>1, <1>2, <1>5, <1>6, <1>9, <1>10, <1>11, <1>12, ServerAnswers

LEMMA ServerNextRequest ==
  ASSUME TypeInv, RequestInv, HandledInv, NextRequest
  PROVE  TypeInv' /\ RequestInv' /\ HandledInv' /\ ServerMoves
<1>1. /\ server.at = "keep_alive" /\ server \in Ends /\ server.open
      /\ kind' = kind /\ result' = result /\ handled' = handled /\ closing' = FALSE /\ count' = count
  BY SidesNamed DEF NextRequest, At, server, TypeInv
<1>2. ~Called /\ Busy("server") /\ server.at # "idle"
  BY <1>1, ReadsUncalled
<1>3. server.wire \in Seq(Words) /\ Len(server.wire) \in Nat
  BY <1>1, Lengths DEF Ends
<1>4. PICK n \in 0..(IF count = KeepAliveMax THEN 0 ELSE Len(server.wire)) :
        Become("server", [server EXCEPT !.at = "first_line", !.wire = SubSeq(@, n + 1, Len(@)),
                            !.line = <<>>, !.headers = {}, !.body = <<>>, !.status = 0])
  BY DEF NextRequest, server
<1>5. n \in 0..Len(server.wire) /\ n \in Nat /\ (count = KeepAliveMax => n = 0)
  BY <1>3
<1> DEFINE w == Rest1(server.wire, n)
           none == <<>>
           e == [server EXCEPT !.at = "first_line", !.wire = w, !.line = none, !.headers = {},
                               !.body = none, !.status = 0]
<1>6. Become("server", e)
  BY <1>1, <1>4 DEF Rest1, Ends
<1>7. w \in Seq(Words) /\ none \in Seq(Words) /\ 0 \in Nat /\ "first_line" \in ServerAts
  BY <1>3, <1>5, NoWords DEF Rest1, ServerAts
<1>8. w = Rest1(server.wire, n) /\ none = <<>>
  OBVIOUS
<1> HIDE DEF w, none
<1>9. /\ e \in Ends /\ e.at = "first_line" /\ e.open /\ e.wire = w /\ e.line = none
      /\ e.headers = {} /\ e.body = none
  BY <1>1, <1>7 DEF Ends
<1> HIDE DEF e
<1>10. TypeInv' /\ server' = e /\ client' = client
  <2>1. closing' \in BOOLEAN
    BY <1>1
  <2>2. count' \in Int /\ count' <= KeepAliveMax
    BY <1>1 DEF TypeInv
  <2>3. OpenAsItShould(e) /\ e.at \in ServerAts
    BY <1>9 DEF OpenAsItShould, ServerAts
  <2> QED
    BY <1>1, <1>6, <1>9, <2>1, <2>2, <2>3, ServerBecomes
<1>11. PICK p \in 0..Len(Text), q \in 0..Len(Text) : Sent(p, q) /\ Read(p)
  BY <1>2 DEF RequestInv
<1>12. p \in Nat /\ Len(Text) \in Nat /\ (IF count = KeepAliveMax THEN p = 0 ELSE p >= 1)
  BY <1>1, <1>11, Lengths DEF Read, KeepsAlive
<1>13. PICK m \in Nat : m = p + n
  <2>1. p + n \in Nat
    BY <1>5, <1>12
  <2> QED
    BY <2>1
<1>14. m \in 0..Len(Text) /\ Sent(m, q)'
  <2>1. server'.wire = Rest1(server.wire, n)
    BY <1>8, <1>9, <1>10
  <2> QED
    BY <1>1, <1>5, <1>10, <1>11, <1>13, <2>1, SentShift
<1>15. LineFrom(m, m)' /\ m - m = 0
  <2>1. Len(server'.line) = 0
    BY <1>8, <1>9, <1>10
  <2>2. m - m = 0 /\ \A i \in 1..m - m : FALSE
    OBVIOUS
  <2> QED
    BY <2>1, <2>2 DEF LineFrom
<1>16. ReadsLine(m)'
  <2>1. CASE count = KeepAliveMax
    <3>1. m = 0
      BY <1>5, <1>12, <1>13, <2>1
    <3> QED
      BY <1>1, <1>8, <1>9, <1>10, <1>15, <2>1, <3>1 DEF ReadsLine
  <2>2. CASE count # KeepAliveMax
    <3>1. m \in 1..m
      BY <1>5, <1>12, <1>13, <2>2
    <3> QED
      BY <1>1, <1>8, <1>9, <1>10, <1>15, <2>2, <3>1 DEF ReadsLine
  <2> QED
    BY <2>1, <2>2
<1>17. Read(m)'
  BY <1>9, <1>10, <1>16 DEF Read
<1>18. ServerMoves
  BY <1>1, <1>2, <1>9, <1>10 DEF ServerMoves, ReadsOn, OnlyServer, Readings, Unanswered
<1> QED
  BY <1>1, <1>2, <1>9, <1>10, <1>11, <1>14, <1>17, <1>18, ServerGoesOn

\* The server's end is closed, or its process suspended.
LEMMA ServerGone ==
  ASSUME TypeInv, RequestInv, HandledInv, Busy("server"), kind' = kind, result' = result,
         handled' = handled, closing' = closing, count' \in Int, count' <= KeepAliveMax,
         Become("server", Closed(server)) \/ Become("server", [server EXCEPT !.at = "suspended"])
  PROVE  TypeInv' /\ RequestInv' /\ HandledInv' /\ ServerMoves
<1>1. server \in Ends /\ server.at # "idle" /\ closing' \in BOOLEAN
  BY SidesNamed DEF Busy, server, TypeInv
<1>2. PICK e \in {Closed(server), [server EXCEPT !.at = "suspended"]} : Become("server", e)
  OBVIOUS
<1>3. e \in Ends /\ e.at \in {"ended", "suspended"} /\ OpenAsItShould(e)
  <2>1. CASE e = Closed(server)
    BY <1>1, <2>1, EndTypes, ClosedFields DEF OpenAsItShould
  <2>2. CASE e = [server EXCEPT !.at = "suspended"]
    <3>1. e \in Ends /\ e.at = "suspended"
      BY <1>1, <2>2 DEF Ends, ClientAts
    <3> QED
      BY <3>1 DEF OpenAsItShould
  <2> QED
    BY <2>1, <2>2
<1>4. TypeInv' /\ server' = e /\ client' = client
  <2>1. e.at \in ServerAts
    BY <1>3 DEF ServerAts
  <2> QED
    BY <1>1, <1>2, <1>3, <2>1, ServerBecomes
<1>5. ServerMoves
  BY <1>1, <1>3, <1>4 DEF ServerMoves, Stops, OnlyServer
<1> QED
  BY <1>1, <1>3, <1>4, <1>5, ServerStops

LEMMA ServerKeepAliveEnds ==
  ASSUME TypeInv, RequestInv, HandledInv, KeepAliveEnds
  PROVE  TypeInv' /\ RequestInv' /\ HandledInv' /\ ServerMoves
<1>1. /\ Busy("server") /\ Become("server", Closed(server))
      /\ kind' = kind /\ result' = result /\ handled' = handled /\ closing' = closing /\ count' = count
  BY DEF KeepAliveEnds, At, Busy, server, serverVars
<1>2. count' \in Int /\ count' <= KeepAliveMax
  BY <1>1 DEF TypeInv
<1> QED
  BY <1>1, <1>2, ServerGone

LEMMA ServerDies ==
  ASSUME TypeInv, RequestInv, HandledInv, Dies("server") \/ Suspends("server")
  PROVE  TypeInv' /\ RequestInv' /\ HandledInv' /\ ServerMoves
<1>1. /\ Busy("server")
      /\ Become("server", Closed(server)) \/ Become("server", [server EXCEPT !.at = "suspended"])
      /\ kind' = kind /\ result' = result /\ handled' = handled /\ closing' = closing /\ count' = count
  BY DEF Dies, Suspends, server, serverVars
<1>2. count' \in Int /\ count' <= KeepAliveMax
  BY <1>1 DEF TypeInv
<1> QED
  BY <1>1, <1>2, ServerGone
-----------------------------------------------------------------------------
(* The server answers *)

Handles ==
  /\ kind' = kind /\ client' = client /\ result' = result /\ result # "Write"
  /\ server.at \in {"content", "handle"} /\ ~Called /\ handled' = <<Body(kind)>>
  /\ server'.at = "write_head" /\ server'.out = ResponseHead(200, Answer[kind])

\* The head is out, or what was left of it is dropped.
BodyToWrite == IF Called THEN Answer[kind] ELSE <<>>
BodyBegins == /\ OnlyServer /\ server.at = "write_head"
              /\ server'.at = "write_body" /\ server'.out = BodyToWrite

KeepsOn == /\ OnlyServer /\ ~Called /\ server.at = "write_body"
           /\ server'.at = "keep_alive" /\ ~Unanswered'

ServerWrites == Handles \/ BodyBegins \/ KeepsOn \/ Stops

LEMMA ServerHandles ==
  ASSUME TypeInv, RequestInv, HandledInv, Handle
  PROVE  TypeInv' /\ RequestInv' /\ HandledInv' /\ ServerWrites
<1> DEFINE h == ResponseHead(200, Answer[kind])
           e == [server EXCEPT !.at = "write_head", !.status = 200, !.out = h]
<1>1. /\ server.at = "handle" \/ (server.at = "content" /\ server.left = 0)
      /\ handled' = Append(handled, server.body) /\ Become("server", e)
      /\ kind' = kind /\ result' = result /\ closing' = closing /\ count' = count
      /\ server \in Ends /\ server.open
  BY SidesNamed DEF Handle, ContentRead, At, server, TypeInv
<1>2. ~Called /\ Busy("server") /\ server.at # "idle"
  BY <1>1, ReadsUncalled
<1>3. PICK p \in 0..Len(Text), q \in 0..Len(Text) : Sent(p, q) /\ Read(p)
  BY <1>2 DEF RequestInv
\* The whole request has come.
<1>4. p = Len(Text) /\ server.body = Body(kind) /\ closing
  <2>1. CASE server.at = "handle"
    BY <1>3, <2>1 DEF Read, HandlesGet, Body
  <2>2. CASE server.at = "content"
    <3>1. /\ kind = "POST" /\ closing /\ p = 7 + Len(server.body)
          /\ server.left = Len(Command) - Len(server.body)
          /\ \A i \in 1..Len(server.body) : server.body[i] = Command[i]
      BY <1>3, <2>2 DEF Read, ReadsContent
    <3>2. /\ server.body \in Seq(Words) /\ Len(server.body) \in Nat /\ Command \in Seq(Words)
          /\ Len(Command) \in Nat
      BY <1>1, Lengths, CommandType DEF Ends
    <3>3. Len(server.body) = Len(Command)
      BY <1>1, <2>2, <3>1, <3>2
    <3>4. server.body = Command
      BY <3>1, <3>2, <3>3
    <3> QED
      BY <3>1, <3>3, <3>4, PostText DEF Body
  <2> QED
    BY <1>1, <2>1, <2>2
<1>5. q = Len(Text) /\ result # "Write" /\ ToSend = <<>>
  <2>1. p <= q /\ (result = "Write" => q < Len(Text))
        /\ (Writing("client") => Len(ToSend) = Len(Text) - q)
    BY <1>3 DEF Sent
  <2>2. q = Len(Text) /\ result # "Write"
    BY <1>4, <2>1, Lengths
  <2>3. ToSend = <<>>
    <3>1. CASE Writing("client")
      <4>1. Len(ToSend) = 0
        BY <2>1, <2>2, <3>1, Lengths
      <4>2. ToSend \in Seq(Words)
        BY SidesNamed, TextType, NoWords, ConcatShape DEF ToSend, Ends
      <4> QED
        BY <4>1, <4>2
    <3>2. CASE ~Writing("client")
      BY <3>2 DEF ToSend, Writing, client
    <3> QED
      BY <3>1, <3>2
  <2> QED
    BY <2>2, <2>3
<1>6. handled' = <<Body(kind)>>
  <2>1. handled' = Append(<<>>, Body(kind))
    BY <1>1, <1>2, <1>4 DEF Called
  <2> QED
    BY <2>1
<1>7. h \in Seq(Words) /\ 200 \in Nat /\ "write_head" \in ServerAts
  <2>1. Answer[kind] \in Seq(Words) /\ 200 \in Nat
    BY AnswerType DEF TypeInv
  <2>2. h \in Seq(Words)
    BY <2>1, ResponseHeadType, Zenon
  <2> QED
    BY <2>1, <2>2 DEF ServerAts
<1>8. h = ResponseHead(200, Answer[kind])
  OBVIOUS
<1> HIDE DEF h
<1>9. e \in Ends /\ e.at = "write_head" /\ e.status = 200 /\ e.open /\ e.out = h
  BY <1>1, <1>7 DEF Ends
<1> HIDE DEF e
<1>10. TypeInv' /\ server' = e /\ client' = client
  <2>1. closing' \in BOOLEAN /\ count' \in Int /\ count' <= KeepAliveMax
    BY <1>1 DEF TypeInv
  <2>2. OpenAsItShould(e) /\ e.at \in ServerAts
    BY <1>9 DEF OpenAsItShould, ServerAts
  <2> QED
    BY <1>1, <1>9, <2>1, <2>2, ServerBecomes
<1>11. Called'
  BY <1>6 DEF Called
<1>12. RequestInv'
  BY <1>11 DEF RequestInv
<1>13. HandledInv'
  <2>1. HandledWhole'
    BY <1>1, <1>6 DEF HandledWhole, Body
  <2>2. ToSend' = <<>> /\ client'.at # "connect"
    BY <1>1, <1>2, <1>5, <1>10, NotConnecting DEF ToSend
  <2>3. server'.at = "write_head" /\ server'.status = 200 /\ closing'
    BY <1>1, <1>4, <1>9, <1>10
  <2> QED
    BY <2>1, <2>2, <2>3 DEF HandledInv
<1>14. ServerWrites
  BY <1>1, <1>2, <1>5, <1>6, <1>8, <1>9, <1>10 DEF ServerWrites, Handles
<1> QED
  BY <1>10, <1>12, <1>13, <1>14

LEMMA ServerBeginsBody ==
  ASSUME TypeInv, RequestInv, HandledInv, server.at = "write_head",
         Become("server", ToWriteBody(server, Response(server.status))), kind' = kind,
         result' = result, handled' = handled, closing' = closing, count' = count
  PROVE  TypeInv' /\ RequestInv' /\ HandledInv' /\ ServerWrites
<1> DEFINE b == Response(server.status)
           e == ToWriteBody(server, b)
<1>1. server \in Ends /\ server.status \in Nat /\ server.open /\ server.at # "idle" /\ Busy("server")
  BY SidesNamed DEF Ends, TypeInv, Busy, server
<1>2. b \in Seq(Words)
  BY <1>1, ResponseType
<1>3. ~Called => server.status = 400 /\ \A r \in 0..Len(Text) : Read(r) => r + 0 >= 1
  <2> SUFFICES ASSUME ~Called
               PROVE  server.status = 400 /\ \A r \in 0..Len(Text) : Read(r) => r + 0 >= 1
    OBVIOUS
  <2>1. server.status = 400
    BY <1>1 DEF RequestInv, Read
  <2>2. \A r \in 0..Len(Text) : Read(r) => r + 0 >= 1
    BY Lengths DEF Read
  <2> QED
    BY <2>1, <2>2
<1>4. Called => server.status = 200 /\ closing
  BY <1>1 DEF HandledInv
<1>5. b = BodyToWrite
  BY <1>3, <1>4 DEF BodyToWrite, Response
<1> HIDE DEF b
<1>6. /\ e \in Ends /\ e.at = "write_body" /\ e.out = b /\ e.open = server.open
      /\ e.wire = server.wire /\ e.status = server.status
  BY <1>1, <1>2, EndTypes, ToWriteBodyFields
<1>7. Become("server", e)
  BY DEF b
<1> HIDE DEF e
<1>8. TypeInv' /\ server' = e /\ client' = client
  <2>1. closing' \in BOOLEAN /\ count' \in Int /\ count' <= KeepAliveMax
    BY DEF TypeInv
  <2>2. OpenAsItShould(e) /\ e.at \in ServerAts
    BY <1>1, <1>6 DEF OpenAsItShould, ServerAts
  <2> QED
    BY <1>6, <1>7, <2>1, <2>2, ServerBecomes
<1>9. 0 \in 0..Len(server.wire) /\ server'.wire = Rest1(server.wire, 0)
  BY <1>1, <1>6, <1>8, Lengths DEF Rest1, Ends
<1>10. ServerWrites
  BY <1>5, <1>6, <1>8 DEF ServerWrites, BodyBegins, OnlyServer
<1>11. /\ ~Called => server'.status = 400
       /\ Called => server'.status = 200 /\ closing'
  BY <1>3, <1>4, <1>6, <1>8
<1> QED
  BY <1>1, <1>3, <1>6, <1>8, <1>9, <1>10, <1>11, ServerAnswers

LEMMA ServerBodyWritten ==
  ASSUME TypeInv, RequestInv, HandledInv, BodyWritten("server")
  PROVE  TypeInv' /\ RequestInv' /\ HandledInv' /\ ServerWrites
<1>1. /\ server.at = "write_body" /\ server \in Ends /\ server.open /\ kind' = kind
      /\ result' = result /\ handled' = handled /\ closing' = closing /\ count' = count - 1
      /\ IF closing \/ count = 1 THEN Become("server", Closed(server))
         ELSE Become("server", [server EXCEPT !.at = "keep_alive"])
  BY SidesNamed DEF BodyWritten, Responded, At, server, TypeInv
<1>2. Busy("server") /\ server.at # "idle"
  BY <1>1 DEF Busy, server
<1>3. count' \in Int /\ count' <= KeepAliveMax /\ count' # KeepAliveMax /\ closing' \in BOOLEAN
  BY <1>1, ExchangeAssumption DEF TypeInv
<1>4. CASE closing \/ count = 1
  <2>1. Become("server", Closed(server))
    BY <1>1, <1>4
  <2>2. TypeInv' /\ RequestInv' /\ HandledInv' /\ ServerMoves
    BY <1>1, <1>2, <1>3, <2>1, ServerGone
  <2>3. Stops
    <3>1. server' = Closed(server)
      BY <2>1, Becomes DEF server, Sides
    <3>2. server'.at = "ended"
      BY <1>1, <3>1, ClosedFields
    <3> QED
      BY <2>2, <3>2 DEF ServerMoves, ReadsOn, Refuses, Stops, Readings
  <2> QED
    BY <2>2, <2>3 DEF ServerWrites
<1>5. CASE ~(closing \/ count = 1)
  <2> DEFINE e == [server EXCEPT !.at = "keep_alive"]
  <2>1. Become("server", e)
    BY <1>1, <1>5
  <2>2. e \in Ends /\ e.at = "keep_alive" /\ e.open /\ e.wire = server.wire
    BY <1>1 DEF Ends, ServerAts
  <2> HIDE DEF e
  <2>3. TypeInv' /\ server' = e /\ client' = client
    <3>1. OpenAsItShould(e) /\ e.at \in ServerAts
      BY <2>2 DEF OpenAsItShould, ServerAts
    <3> QED
      BY <1>1, <1>3, <2>1, <2>2, <3>1, ServerBecomes
  <2>4. ~Called
    BY <1>2, <1>5 DEF HandledInv
  <2>5. PICK p \in 0..Len(Text), q \in 0..Len(Text) : Sent(p, q) /\ Read(p)
    BY <1>2, <2>4 DEF RequestInv
  <2>6. p \in Nat /\ p = p + 0 /\ p >= 1
    BY <1>1, <2>5, Lengths DEF Read
  <2>7. Sent(p, q)'
    <3>1. 0 \in 0..Len(server.wire) /\ server'.wire = Rest1(server.wire, 0)
      BY <1>1, <2>2, <2>3, Lengths DEF Rest1, Ends
    <3> QED
      BY <1>1, <2>3, <2>5, <2>6, <3>1, SentShift
  <2>8. Read(p)'
    <3>1. KeepsAlive(p)'
      BY <1>3, <2>6 DEF KeepsAlive
    <3> QED
      BY <2>2, <2>3, <3>1 DEF Read
  <2>9. ServerWrites
    <3>1. ~Unanswered'
      BY <1>3, <2>2, <2>3 DEF Unanswered
    <3> QED
      BY <1>1, <2>2, <2>3, <2>4, <3>1 DEF ServerWrites, KeepsOn, OnlyServer
  <2> QED
    BY <1>1, <1>2, <2>2, <2>3, <2>4, <2>5, <2>7, <2>8, <2>9, ServerGoesOn
<1> QED
  BY <1>4, <1>5

LEMMA ServerHeadWritten ==
  ASSUME TypeInv, RequestInv, HandledInv, HeadWritten("server")
  PROVE  TypeInv' /\ RequestInv' /\ HandledInv' /\ ServerWrites
<1>1. /\ server.at = "write_head" /\ Become("server", ToWriteBody(server, Response(server.status)))
      /\ kind' = kind /\ result' = result /\ handled' = handled /\ closing' = closing /\ count' = count
  BY DEF HeadWritten, At, server, serverVars
<1> QED
  BY <1>1, ServerBeginsBody

LEMMA ServerWriteFails ==
  ASSUME TypeInv, RequestInv, HandledInv, WriteFails("server")
  PROVE  TypeInv' /\ RequestInv' /\ HandledInv' /\ ServerWrites
<1>1. /\ server.at \in {"write_head", "write_body"}
      /\ IF server.at = "write_head"
         THEN Become("server", ToWriteBody(server, Response(server.status)))
         ELSE Become("server", Closed(server))
      /\ kind' = kind /\ result' = result /\ handled' = handled /\ closing' = closing /\ count' = count
  BY DEF WriteFails, Writing, At, server, serverVars
<1>2. CASE server.at = "write_head"
  BY <1>1, <1>2, ServerBeginsBody
<1>3. CASE server.at = "write_body"
  <2>1. Busy("server") /\ Become("server", Closed(server)) /\ server \in Ends
    BY <1>1, <1>3, SidesNamed DEF Busy, server
  <2>2. count' \in Int /\ count' <= KeepAliveMax
    BY <1>1 DEF TypeInv
  <2>3. TypeInv' /\ RequestInv' /\ HandledInv' /\ ServerMoves
    BY <1>1, <2>1, <2>2, ServerGone
  <2>4. server' = Closed(server)
    BY <2>1, Becomes DEF server, Sides
  <2>5. server'.at = "ended"
    BY <2>1, <2>4, ClosedFields
  <2>6. Stops
    BY <2>3, <2>5 DEF ServerMoves, ReadsOn, Refuses, Stops, Readings
  <2> QED
    BY <2>3, <2>6 DEF ServerWrites
<1> QED
  BY <1>1, <1>2, <1>3

\* Words of the server are sent, and come to a client that has not closed.
Sends ==
  /\ kind' = kind /\ result' = result /\ handled' = handled /\ count' = count
  /\ server.at \in {"write_head", "write_body"} /\ server'.at = server.at
  /\ SameButWire(client', client)
  /\ \E n \in 1..Len(server.out) :
       /\ server'.out = Rest1(server.out, n)
       /\ client'.wire = IF client.open THEN client.wire \o SubSeq(server.out, 1, n) ELSE client.wire

LEMMA ServerSends ==
  ASSUME TypeInv, RequestInv, HandledInv, Write("server")
  PROVE  TypeInv' /\ RequestInv' /\ HandledInv' /\ Sends
<1>1. "server" \in Sides /\ "client" \in Sides /\ Peer("server") = "client"
  BY SidesNamed
<1>2. /\ TypeInv' /\ kind' = kind /\ result' = result /\ handled' = handled
      /\ closing' = closing /\ count' = count
      /\ Writing("server")
      /\ SameButWire(client', client) /\ SameButWire(server', server)
  <2>1. TypeInv' /\ UNCHANGED <<kind, result, handled, closing, count>> /\ Writing("server")
        /\ \A t \in Sides : SameButWire(end'[t], end[t])
    BY <1>1, WriteMoves
  <2> QED
    BY <1>1, <2>1 DEF client, server
<1>3. PICK n \in 1..Len(server.out) :
        /\ server'.out = Rest1(server.out, n) /\ server'.wire = server.wire
        /\ client'.wire = IF client.open THEN client.wire \o SubSeq(server.out, 1, n) ELSE client.wire
        /\ client'.out = client.out
  BY <1>1, WriteMoves DEF client, server
<1>4. server.at \in {"write_head", "write_body"} /\ server.at # "idle" /\ Busy("server")
  BY <1>2 DEF Writing, server, Busy
<1>5. /\ server'.at = server.at /\ server'.status = server.status
      /\ client'.at = client.at /\ client'.open = client.open
  BY <1>2 DEF SameButWire
<1>6. Sends
  BY <1>2, <1>3, <1>4, <1>5 DEF Sends
<1>7. /\ Text' = Text /\ Called' = Called /\ Busy("server")' = Busy("server")
      /\ ToSend' = ToSend /\ Writing("client")' = Writing("client")
  BY <1>2, <1>3, <1>5, TextFrame DEF Called, Busy, server, client, ToSend, Writing
<1>8. ASSUME NEW p \in 0..Len(Text), NEW q \in 0..Len(Text), Sent(p, q), Read(p)
      PROVE  Sent(p, q)' /\ Read(p)'
  <2>1. Sent(p, q)'
    BY <1>2, <1>3, <1>7, <1>8 DEF Sent
  <2>2. Read(p)'
    BY <1>4, <1>5, <1>8 DEF Read
  <2> QED
    BY <2>1, <2>2
<1>9. RequestInv'
  BY <1>7, <1>8 DEF RequestInv
<1>10. HandledInv'
  <2>1. HandledWhole' /\ client.at # "connect"
    BY <1>2, <1>4, NotConnecting DEF HandledInv, HandledWhole, Body
  <2> QED
    BY <1>2, <1>4, <1>5, <1>7, <2>1 DEF HandledInv
<1> QED
  BY <1>2, <1>6, <1>9, <1>10
-----------------------------------------------------------------------------
(* The client's steps, and the request *)

\* Nothing changes but the client's end, and what its call returned.
OnlyClient == /\ kind' = kind /\ server' = server /\ handled' = handled
              /\ closing' = closing /\ count' = count

\* The client reads, ends or is suspended.
LEMMA ClientTurns ==
  ASSUME TypeInv, RequestInv, HandledInv, NEW e \in Ends, Become("client", e),
         kind' = kind, handled' = handled, closing' = closing, count' = count,
         e.at \in {"first_line", "headers", "content", "ended", "suspended"},
         OpenAsItShould(e), e.open => client.open,
         server.at = "idle" => e.at \in {"ended", "suspended"},
         result' = "Write" => result = "Write" \/ (Writing("client") /\ Len(ToSend) > 0)
  PROVE  TypeInv' /\ RequestInv' /\ HandledInv' /\ OnlyClient /\ client' = e
<1>1. TypeInv' /\ client' = e /\ server' = server
  <2>1. closing' \in BOOLEAN /\ count' \in Int /\ count' <= KeepAliveMax
    BY DEF TypeInv
  <2>2. e.at \in ClientAts
    BY DEF ClientAts
  <2> QED
    BY <2>1, <2>2, ClientBecomes
<1>2. Writing("client")' = FALSE /\ client'.at # "connect"
  <2>1. end'["client"].at = e.at
    BY <1>1 DEF client
  <2> QED
    BY <1>1, <2>1 DEF Writing
<1>3. RequestInv' /\ HandledInv'
  BY <1>1, <1>2, ClientFrame
<1> QED
  BY <1>1, <1>3 DEF OnlyClient

\* The client's end is closed, or its process suspended.
Leaves == OnlyClient /\ client'.at \in {"ended", "suspended"}

\* What the client writes is a part of what it has to send.
LEMMA WritingHasWords ==
  ASSUME TypeInv, HandledInv, Writing("client"), client.out # <<>>
  PROVE  ToSend \in Seq(Words) /\ Len(ToSend) > 0 /\ ~Called /\ Len(client.out) <= Len(ToSend)
         /\ Len(client.out) \in Nat
<1>1. client.out \in Seq(Words) /\ Len(client.out) \in Nat /\ Len(client.out) > 0
  <2>1. client.out \in Seq(Words)
    BY SidesNamed DEF Ends
  <2> QED
    BY <2>1
<1>2. client.at = "write_head" \/ client.at = "write_body"
  BY DEF Writing, client
<1>3. ToSend \in Seq(Words) /\ Len(ToSend) >= Len(client.out)
  <2>1. CASE client.at = "write_head"
    <3>1. ToSend = client.out \o Body(kind)
      BY <2>1 DEF ToSend
    <3> QED
      BY <1>1, <3>1, TextType, ConcatShape
  <2>2. CASE client.at = "write_body"
    <3>1. ToSend = client.out
      BY <2>2 DEF ToSend
    <3> QED
      BY <1>1, <3>1
  <2> QED
    BY <1>2, <2>1, <2>2
<1>4. ~Called
  BY <1>1, <1>3 DEF HandledInv
<1> QED
  BY <1>1, <1>3, <1>4

LEMMA ClientDies ==
  ASSUME TypeInv, RequestInv, HandledInv, Dies("client") \/ Suspends("client")
  PROVE  TypeInv' /\ RequestInv' /\ HandledInv' /\ Leaves /\ result' = result /\ client.at # "ended"
<1>1. /\ client.at \notin {"ended", "suspended"} /\ client \in Ends
      /\ Become("client", Closed(client)) \/ Become("client", [client EXCEPT !.at = "suspended"])
      /\ kind' = kind /\ result' = result /\ handled' = handled /\ closing' = closing /\ count' = count
  BY SidesNamed DEF Dies, Suspends, client, serverVars, Busy
<1>2. PICK e \in {Closed(client), [client EXCEPT !.at = "suspended"]} : Become("client", e)
  BY <1>1
<1>3. e \in Ends /\ e.at \in {"ended", "suspended"} /\ OpenAsItShould(e) /\ (e.open => client.open)
  <2>1. CASE e = Closed(client)
    BY <1>1, <2>1, EndTypes, ClosedFields DEF OpenAsItShould
  <2>2. CASE e = [client EXCEPT !.at = "suspended"]
    <3>1. e \in Ends /\ e.at = "suspended" /\ e.open = client.open
      BY <1>1, <2>2 DEF Ends, ClientAts
    <3> QED
      BY <3>1 DEF OpenAsItShould
  <2> QED
    BY <2>1, <2>2
<1>4. TypeInv' /\ RequestInv' /\ HandledInv' /\ OnlyClient /\ client' = e
  BY <1>1, <1>2, <1>3, ClientTurns
<1> QED
  BY <1>1, <1>3, <1>4 DEF Leaves

\* The client's call fails.
LEMMA ClientFails ==
  ASSUME TypeInv, RequestInv, HandledInv, NEW e \in Ends, e.at \in ClientAts, NEW error, Fail(e, error), kind' = kind,
         client.at \notin {"ended", "suspended"},
         error = "Write" => Writing("client") /\ client.out # <<>>
  PROVE  TypeInv' /\ RequestInv' /\ HandledInv' /\ Leaves /\ result' = error /\ client'.at = "ended"
<1>1. /\ Become("client", Closed(e)) /\ result' = error
      /\ handled' = handled /\ closing' = closing /\ count' = count
  BY DEF Fail, serverVars
<1>2. Closed(e) \in Ends /\ Closed(e).at = "ended" /\ ~Closed(e).open
  BY EndTypes, ClosedFields
<1>3. result' = "Write" => Writing("client") /\ Len(ToSend) > 0
  BY <1>1, WritingHasWords
<1>4. TypeInv' /\ RequestInv' /\ HandledInv' /\ OnlyClient /\ client' = Closed(e)
  BY <1>1, <1>2, <1>3, ClientTurns DEF OpenAsItShould
<1> QED
  BY <1>1, <1>2, <1>4 DEF Leaves

\* Words of the client are sent, and come to a server that has not closed.
ClientSends ==
  /\ kind' = kind /\ result' = result /\ handled' = handled /\ count' = count
  /\ SameButWire(client', client) /\ client'.wire = client.wire
  /\ server'.at = server.at /\ server'.out = server.out

LEMMA RestConcat ==
  ASSUME NEW S, NEW a \in Seq(S), NEW b \in Seq(S), NEW n \in 1..Len(a)
  PROVE  /\ Len(Rest1(a, n) \o b) = Len(a \o b) - n
         /\ \A i \in 1..n : (a \o b)[i] = a[i]
         /\ \A i \in 1..Len(a \o b) - n : (Rest1(a, n) \o b)[i] = (a \o b)[n + i]
<1>1. Len(a) \in Nat /\ Len(b) \in Nat /\ Len(a \o b) = Len(a) + Len(b)
  OBVIOUS
<1>2. Rest1(a, n) \in Seq(S) /\ Len(Rest1(a, n)) = Len(a) - n
      /\ \A i \in 1..Len(a) - n : Rest1(a, n)[i] = a[n + i]
  BY <1>1 DEF Rest1
<1>3. PICK r \in Seq(S) : r = Rest1(a, n)
  BY <1>2
<1>4. Len(r \o b) = Len(r) + Len(b)
  OBVIOUS
<1>5. \A i \in 1..Len(a \o b) - n : (r \o b)[i] = (a \o b)[n + i]
  BY <1>1, <1>2, <1>3
<1>6. \A i \in 1..n : (a \o b)[i] = a[i]
  BY <1>1
<1> QED
  BY <1>1, <1>2, <1>3, <1>4, <1>5, <1>6

LEMMA WordsRestConcat ==
  \A a, b \in Seq(Words) : \A n \in 1..Len(a) :
    /\ Len(Rest1(a, n) \o b) = Len(a \o b) - n
    /\ \A i \in 1..n : (a \o b)[i] = a[i]
    /\ \A i \in 1..Len(a \o b) - n : (Rest1(a, n) \o b)[i] = (a \o b)[n + i]
BY RestConcat

LEMMA LessToSend ==
  ASSUME TypeInv, HandledInv, Writing("client"), client.out # <<>>, kind' = kind,
         client'.at = client.at, NEW n \in 1..Len(client.out), client'.out = Rest1(client.out, n)
  PROVE  /\ Writing("client")'
         /\ Len(ToSend') = Len(ToSend) - n
         /\ \A i \in 1..n : client.out[i] = ToSend[i]
         /\ \A i \in 1..Len(ToSend) - n : ToSend'[i] = ToSend[n + i]
<1> DEFINE a == client.out
           b == Body(kind)
           r == Rest1(a, n)
<1>1. a \in Seq(Words) /\ b \in Seq(Words) /\ Len(a) \in Nat /\ Len(b) \in Nat
  BY SidesNamed, TextType DEF Ends
<1>2. r \in Seq(Words) /\ Len(r) = Len(a) - n /\ \A i \in 1..Len(a) - n : r[i] = a[n + i]
  BY <1>1 DEF Rest1
<1>3. client.at = "write_head" \/ client.at = "write_body"
  BY DEF Writing, client
<1>4. Writing("client")'
  BY <1>3 DEF Writing, client
<1>5. Body(kind)' = b
  BY DEF Body
<1>6. CASE client.at = "write_head"
  <2>1. ToSend = a \o b /\ ToSend' = r \o b
    BY <1>5, <1>6 DEF ToSend
  <2>2. n \in 1..Len(a)
    OBVIOUS
  <2> HIDE DEF a, b
  <2>3. /\ Len(Rest1(a, n) \o b) = Len(a \o b) - n
        /\ \A i \in 1..n : (a \o b)[i] = a[i]
        /\ \A i \in 1..Len(a \o b) - n : (Rest1(a, n) \o b)[i] = (a \o b)[n + i]
    BY Zenon, <1>1, <2>2, WordsRestConcat
  <2>4. \A i \in 1..n : client.out[i] = ToSend[i]
    BY <2>1, <2>3 DEF a
  <2>5. Len(ToSend') = Len(ToSend) - n
    BY Zenon, <2>1, <2>3
  <2>6. \A i \in 1..Len(ToSend) - n : ToSend'[i] = ToSend[n + i]
    BY Zenon, <2>1, <2>3
  <2> QED
    BY Zenon, <1>4, <2>4, <2>5, <2>6
<1>7. CASE client.at = "write_body"
  <2>1. ToSend = a /\ ToSend' = r
    BY <1>7 DEF ToSend
  <2> QED
    BY <1>1, <1>2, <1>4, <2>1
<1> QED
  BY <1>3, <1>6, <1>7

LEMMA ClientWrites ==
  ASSUME TypeInv, RequestInv, HandledInv, ResultInv, Write("client")
  PROVE  TypeInv' /\ RequestInv' /\ HandledInv' /\ ClientSends
<1>1. "server" \in Sides /\ "client" \in Sides /\ Peer("client") = "server"
  BY SidesNamed
<1>2. /\ TypeInv' /\ kind' = kind /\ result' = result /\ handled' = handled
      /\ closing' = closing /\ count' = count
      /\ Writing("client")
      /\ SameButWire(client', client) /\ SameButWire(server', server)
  <2>1. TypeInv' /\ UNCHANGED <<kind, result, handled, closing, count>> /\ Writing("client")
        /\ \A t \in Sides : SameButWire(end'[t], end[t])
    BY <1>1, WriteMoves
  <2> QED
    BY <1>1, <2>1 DEF client, server
<1>3. PICK n \in 1..Len(client.out) :
        /\ client'.out = Rest1(client.out, n) /\ client'.wire = client.wire
        /\ server'.wire = IF server.open THEN server.wire \o SubSeq(client.out, 1, n) ELSE server.wire
        /\ server'.out = server.out
  BY <1>1, WriteMoves DEF client, server
<1>4. /\ server'.at = server.at /\ client'.at = client.at
      /\ client.open /\ client.out # <<>> /\ n \in Nat /\ n >= 1 /\ n <= Len(client.out)
  <2>1. client.open /\ Len(client.out) >= 1 /\ Len(client.out) \in Nat
    BY <1>2, SidesNamed, Lengths DEF OpenAsItShould, Writing, client
  <2>2. <<>> # client.out
    BY <2>1
  <2> QED
    BY <1>2, <2>1, <2>2 DEF SameButWire
<1>5. ClientSends
  BY <1>2, <1>3, <1>4 DEF ClientSends
<1>6. /\ Writing("client")' /\ Len(ToSend') = Len(ToSend) - n
      /\ \A i \in 1..n : client.out[i] = ToSend[i]
      /\ \A i \in 1..Len(ToSend) - n : ToSend'[i] = ToSend[n + i]
  BY <1>2, <1>3, <1>4, LessToSend
<1>7. ~Called /\ Len(client.out) <= Len(ToSend) /\ Len(client.out) \in Nat
  BY <1>2, <1>4, WritingHasWords
<1>8. /\ Text' = Text /\ Called' = Called /\ Busy("server")' = Busy("server")
  BY <1>2, <1>4, TextFrame DEF Called, Busy, server
<1>9. result # "Write"
  BY <1>2 DEF ResultInv, Writing, client
<1>10. ASSUME NEW p \in 0..Len(Text), NEW q \in 0..Len(Text), Sent(p, q), Read(p), Busy("server")
       PROVE  \E m \in 0..Len(Text) : Sent(p, m)' /\ Read(p)'
  <2>1. Len(Text) \in Nat /\ p \in Nat /\ q \in Nat
    BY Lengths
  <2>2. /\ p <= q /\ Len(server.wire) = q - p /\ \A i \in 1..q - p : server.wire[i] = Text[p + i]
        /\ Len(ToSend) = Len(Text) - q /\ \A i \in 1..Len(Text) - q : ToSend[i] = Text[q + i]
    BY <1>2, <1>10 DEF Sent
  <2>3. PICK m \in 0..Len(Text) : m = q + n
    <3>1. q + n \in 0..Len(Text)
      BY <1>4, <1>7, <2>1, <2>2
    <3> QED
      BY <3>1
  <2>4. server.open
    BY <1>10, SidesNamed DEF OpenAsItShould, Busy, server, ServerAts
  <2>5. /\ Len(server'.wire) = m - p /\ \A i \in 1..m - p : server'.wire[i] = Text[p + i]
    <3> DEFINE s == SubSeq(client.out, 1, n)
    <3>1. /\ client.out \in Seq(Words) /\ server.wire \in Seq(Words)
          /\ s \in Seq(Words) /\ Len(s) = n /\ \A i \in 1..n : s[i] = client.out[i]
      <4>1. client.out \in Seq(Words) /\ server.wire \in Seq(Words)
        BY SidesNamed DEF Ends
      <4> QED
        BY <1>4, <4>1
    <3>2. server'.wire = server.wire \o s
      BY <1>3, <2>4
    <3> HIDE DEF s
    <3>3. /\ Len(server.wire \o s) = Len(server.wire) + Len(s)
          /\ \A i \in 1..Len(server.wire) : (server.wire \o s)[i] = server.wire[i]
          /\ \A i \in 1..Len(s) : (server.wire \o s)[Len(server.wire) + i] = s[i]
      BY <3>1, WordsConcat, Zenon
    <3>4. \A i \in 1..n : s[i] = Text[q + i]
      <4> SUFFICES ASSUME NEW i \in 1..n PROVE s[i] = Text[q + i]
        OBVIOUS
      <4>1. i \in 1..Len(Text) - q
        BY <1>4, <2>1, <2>3
      <4> QED
        BY <1>6, <2>2, <3>1, <4>1
    <3>5. \A i \in 1..m - p : server'.wire[i] = Text[p + i]
      <4> SUFFICES ASSUME NEW i \in 1..m - p PROVE server'.wire[i] = Text[p + i]
        OBVIOUS
      <4>1. CASE i <= q - p
        <5>1. i \in 1..q - p
          BY <2>1, <2>3, <4>1
        <5> QED
          BY <2>2, <3>2, <3>3, <5>1
      <4>2. CASE i > q - p
        <5>1. PICK j \in 1..n : i = (q - p) + j
          <6>1. i - (q - p) \in 1..n /\ i = (q - p) + (i - (q - p))
            BY <1>4, <2>1, <2>3, <4>2
          <6> QED
            BY <6>1
        <5>2. p + i = q + j
          BY <2>1, <5>1
        <5> QED
          BY <2>2, <3>1, <3>2, <3>3, <3>4, <5>1, <5>2
      <4> QED
        BY <2>1, <2>3, <4>1, <4>2
    <3> QED
      BY SMTT(20), <1>4, <2>1, <2>2, <2>3, <3>1, <3>2, <3>3, <3>5
  <2>6. Len(ToSend') = Len(Text) - m /\ \A i \in 1..Len(Text) - m : ToSend'[i] = Text[m + i]
    <3>1. Len(ToSend') = Len(Text) - m
      BY <1>4, <1>6, <2>1, <2>2, <2>3
    <3> SUFFICES ASSUME NEW i \in 1..Len(Text) - m PROVE ToSend'[i] = Text[m + i]
      BY <3>1
    <3>2. i \in 1..Len(ToSend) - n /\ n + i \in 1..Len(Text) - q /\ q + (n + i) = m + i
      BY <1>4, <2>1, <2>2, <2>3
    <3> QED
      BY <1>6, <2>2, <3>2
  <2>7. Sent(p, m)'
    <3>1. p <= m
      BY <1>4, <2>1, <2>2, <2>3
    <3> QED
      BY <1>2, <1>8, <1>9, <2>5, <2>6, <3>1 DEF Sent
  <2>8. Read(p)'
    <3>1. ~CutOff
      BY <1>4 DEF CutOff
    <3>2. /\ server'.at = server.at /\ server'.status = server.status /\ server'.line = server.line
          /\ server'.headers = server.headers /\ server'.body = server.body
          /\ server'.left = server.left
      BY <1>2 DEF SameButWire
    <3>3. HeadersTo(p) => HeadersTo(p)'
      BY <1>2, <3>2 DEF HeadersTo
    <3>4. ReadsHeaders(p) => ReadsHeaders(p)'
      BY <1>2, <3>1, <3>2, <3>3 DEF ReadsHeaders
    <3>5. /\ KeepsAlive(p) => KeepsAlive(p)'
          /\ ReadsLine(p) => ReadsLine(p)'
          /\ ReadsContent(p) => ReadsContent(p)'
          /\ HandlesGet(p) => HandlesGet(p)'
      BY <1>2, <1>8, <3>2 DEF KeepsAlive, ReadsLine, LineFrom, ReadsContent, HandlesGet
    <3> QED
      BY <1>10, <3>2, <3>4, <3>5 DEF Read
  <2> QED
    BY <2>7, <2>8
<1>11. RequestInv'
  <2> SUFFICES ASSUME Busy("server"), ~Called
               PROVE  \E p, q \in 0..Len(Text) : Sent(p, q)' /\ Read(p)'
    BY <1>8 DEF RequestInv
  <2>1. PICK p \in 0..Len(Text), q \in 0..Len(Text) : Sent(p, q) /\ Read(p)
    BY DEF RequestInv
  <2> QED
    BY <1>10, <2>1
<1>12. HandledInv'
  <2>1. HandledWhole' /\ client.at # "connect"
    BY <1>2 DEF HandledInv, HandledWhole, Body, Writing, client
  <2>2. server'.at # "idle"
    BY <1>2, <1>4 DEF HandledInv, Writing, client
  <2> QED
    BY <1>4, <1>7, <1>8, <2>1, <2>2 DEF HandledInv
<1> QED
  BY <1>2, <1>5, <1>11, <1>12

\* The two ends of a connection that is made.
Connects ==
  /\ kind' = kind /\ handled' = handled /\ result' = result /\ ~Called /\ result = "none"
  /\ client'.at = "write_head" /\ client'.line = <<>> /\ client'.wire = <<>>
  /\ client'.headers = {} /\ client'.body = <<>>
  /\ server'.at = "keep_alive" /\ Unanswered'

LEMMA ClientConnects ==
  ASSUME TypeInv, RequestInv, HandledInv, Connect
  PROVE  TypeInv' /\ RequestInv' /\ HandledInv' /\ Connects
<1> DEFINE none == <<>>
           h == RequestHead(kind)
<1>1. /\ client.at = "connect" /\ kind' = kind /\ handled' = handled /\ result' = result
      /\ closing' = closing /\ count' = count
  BY DEF Connect, At, client, serverVars
<1>2. count = KeepAliveMax /\ ~closing /\ result = "none" /\ ~Called
  <2>1. Idle.at = "idle"
    BY DEF Idle
  <2> QED
    BY <1>1, <2>1 DEF HandledInv
<1>3. h \in Seq(Words) /\ none \in Seq(Words) /\ 0 \in Nat
  BY TextType, NoWords
<1>4. none = <<>>
  OBVIOUS
<1>5. Idle = [at |-> "idle", open |-> FALSE, out |-> none, wire |-> none, line |-> none,
              status |-> 0, headers |-> {}, body |-> none, left |-> 0]
  BY DEF Idle
<1>6. end' = [s \in Sides |-> [Idle EXCEPT !.at = IF s = "client" THEN "write_head" ELSE "keep_alive",
                                           !.open = TRUE, !.out = IF s = "client" THEN h ELSE none]]
  BY DEF Connect
<1>7. h = RequestHead(kind)
  OBVIOUS
<1> HIDE DEF none, h
<1>8. /\ client' = [Idle EXCEPT !.at = "write_head", !.open = TRUE, !.out = h]
      /\ server' = [Idle EXCEPT !.at = "keep_alive", !.open = TRUE, !.out = none]
  BY <1>6 DEF client, server, Sides
<1>18. /\ client' = [at |-> "write_head", open |-> TRUE, out |-> h, wire |-> none, line |-> none,
                     status |-> 0, headers |-> {}, body |-> none, left |-> 0]
       /\ server' = [at |-> "keep_alive", open |-> TRUE, out |-> none, wire |-> none, line |-> none,
                     status |-> 0, headers |-> {}, body |-> none, left |-> 0]
  BY <1>5, <1>8
<1>9. /\ client'.at = "write_head" /\ client'.open /\ client'.out = h /\ client'.wire = none
      /\ client'.line = none /\ client'.headers = {} /\ client'.body = none
      /\ server'.at = "keep_alive" /\ server'.open /\ server'.wire = none
      /\ client' \in Ends /\ server' \in Ends
  <2>1. /\ client'.at = "write_head" /\ client'.open /\ client'.out = h /\ client'.wire = none
        /\ client'.line = none /\ client'.headers = {} /\ client'.body = none
        /\ server'.at = "keep_alive" /\ server'.open /\ server'.wire = none
    BY <1>18
  <2>2. client' \in Ends
    BY <1>3, <1>18 DEF Ends, ClientAts, ServerAts
  <2>3. server' \in Ends
    BY <1>3, <1>18 DEF Ends, ClientAts, ServerAts
  <2> QED
    BY <2>1, <2>2, <2>3
<1>10. TypeInv'
  <2>1. end' \in [Sides -> Ends]
    <3>1. \A s \in Sides : end'[s] \in Ends
      BY <1>9 DEF client, server, Sides
    <3> QED
      BY <1>6, <3>1
  <2>2. client'.at \in ClientAts /\ server'.at \in ServerAts
    BY <1>9 DEF ClientAts, ServerAts
  <2>3. \A s \in Sides : end'[s].at \notin {"idle", "connect", "ended"} /\ end'[s].open
    BY <1>9 DEF client, server, Sides
  <2> QED
    BY <1>1, <2>1, <2>2, <2>3 DEF TypeInv
<1>11. Text' = Text /\ Called' = Called
  BY <1>1, TextFrame DEF Called
<1>12. ToSend' = Text
  BY <1>1, <1>7, <1>9 DEF ToSend, Text, Body
<1>13. Sent(0, 0)'
  <2>1. Len(server'.wire) = 0
    BY <1>4, <1>9
  <2>2. Len(Text) \in Nat /\ \A i \in 1..0 - 0 : FALSE
    BY Lengths
  <2>3. /\ Len(ToSend') = Len(Text') - 0
        /\ \A i \in 1..Len(Text') - 0 : ToSend'[i] = Text'[0 + i]
    BY <1>11, <1>12, <2>2
  <2> QED
    BY <1>1, <1>2, <2>1, <2>2, <2>3 DEF Sent
<1>14. Read(0)'
  BY <1>1, <1>2, <1>9 DEF Read, KeepsAlive
<1>15. RequestInv'
  <2>1. 0 \in 0..Len(Text')
    BY <1>11, Lengths
  <2> QED
    BY <1>13, <1>14, <2>1 DEF RequestInv
<1>16. HandledInv'
  <2>1. HandledWhole'
    BY <1>1 DEF HandledInv, HandledWhole, Body
  <2> QED
    BY <1>2, <1>9, <1>11, <2>1 DEF HandledInv
<1>17. Connects
  <2>1. Unanswered'
    BY <1>1, <1>2, <1>9 DEF Unanswered
  <2> QED
    BY <1>1, <1>2, <1>4, <1>9, <2>1 DEF Connects
<1> QED
  BY <1>10, <1>15, <1>16, <1>17

\* The client has written its head, or all: it reads nothing yet.
ClientGoesOn ==
  /\ OnlyClient /\ result' = result
  /\ client.at \in {"write_head", "write_body"} /\ client'.at \in {"write_body", "first_line"}
  /\ client'.line = client.line /\ client'.wire = client.wire /\ client'.status = client.status
  /\ client'.headers = client.headers /\ client'.body = client.body

LEMMA NothingBefore == \A w \in Seq(Words) : <<>> \o w = w
OBVIOUS

LEMMA ClientHeadWritten ==
  ASSUME TypeInv, RequestInv, HandledInv, HeadWritten("client")
  PROVE  TypeInv' /\ RequestInv' /\ HandledInv' /\ ClientGoesOn
<1> DEFINE b == Body(kind)
           e == ToWriteBody(client, b)
<1>1. /\ client.at = "write_head" /\ client.out = <<>> /\ Become("client", e)
      /\ kind' = kind /\ result' = result /\ handled' = handled /\ closing' = closing /\ count' = count
  BY DEF HeadWritten, At, client, serverVars
<1>2. client \in Ends /\ b \in Seq(Words) /\ client.open
  BY <1>1, SidesNamed, TextType DEF OpenAsItShould
<1>3. b = Body(kind)
  OBVIOUS
<1> HIDE DEF b
<1>4. /\ e \in Ends /\ e.at = "write_body" /\ e.out = b /\ e.open = client.open
      /\ e.line = client.line /\ e.wire = client.wire /\ e.status = client.status
      /\ e.headers = client.headers /\ e.body = client.body
  BY <1>2, EndTypes, ToWriteBodyFields
<1> HIDE DEF e
<1>5. TypeInv' /\ client' = e /\ server' = server
  <2>1. closing' \in BOOLEAN /\ count' \in Int /\ count' <= KeepAliveMax
    BY <1>1 DEF TypeInv
  <2>2. e.at \in ClientAts /\ OpenAsItShould(e)
    BY <1>2, <1>4 DEF ClientAts, OpenAsItShould
  <2> QED
    BY <1>1, <1>4, <2>1, <2>2, ClientBecomes
<1>6. ToSend' = ToSend
  <2>1. ToSend = <<>> \o b
    BY <1>1, <1>3 DEF ToSend
  <2>2. ToSend = b
    BY <1>2, <2>1, NothingBefore, Zenon
  <2>3. ToSend' = b
    BY <1>4, <1>5 DEF ToSend
  <2> QED
    BY <2>2, <2>3
<1>7. ClientGoesOn
  BY <1>1, <1>4, <1>5 DEF ClientGoesOn, OnlyClient
<1>8. /\ Writing("client") /\ client'.at # "connect" /\ server.at # "idle"
  BY <1>1, <1>4, <1>5 DEF Writing, client, HandledInv
<1>9. result' = "Write" => result = "Write"
  BY <1>1
<1>10. RequestInv' /\ HandledInv'
  BY <1>1, <1>2, <1>4, <1>5, <1>6, <1>8, <1>9, ClientFrame
<1> QED
  BY <1>5, <1>7, <1>10

LEMMA ClientBodyWritten ==
  ASSUME TypeInv, RequestInv, HandledInv, BodyWritten("client"), ResultInv
  PROVE  TypeInv' /\ RequestInv' /\ HandledInv' /\ ClientGoesOn
<1> DEFINE e == [client EXCEPT !.at = "first_line"]
<1>1. /\ client.at = "write_body" /\ Become("client", e)
      /\ kind' = kind /\ result' = result /\ handled' = handled /\ closing' = closing /\ count' = count
  BY DEF BodyWritten, At, client, serverVars
<1>2. client \in Ends /\ client.open /\ server.at # "idle" /\ result # "Write"
  BY <1>1, SidesNamed DEF OpenAsItShould, HandledInv, ResultInv
<1>3. /\ e \in Ends /\ e.at = "first_line" /\ e.open
      /\ e.line = client.line /\ e.wire = client.wire /\ e.status = client.status
      /\ e.headers = client.headers /\ e.body = client.body
  BY <1>2 DEF Ends, ClientAts
<1> HIDE DEF e
<1>4. TypeInv' /\ RequestInv' /\ HandledInv' /\ OnlyClient /\ client' = e
  BY <1>1, <1>2, <1>3, ClientTurns DEF OpenAsItShould
<1>5. ClientGoesOn
  BY <1>1, <1>3, <1>4 DEF ClientGoesOn
<1> QED
  BY <1>4, <1>5

\* The client could not send all it has to.
LEMMA ClientWriteFails ==
  ASSUME TypeInv, RequestInv, HandledInv, WriteFails("client")
  PROVE  /\ TypeInv' /\ RequestInv' /\ HandledInv' /\ Leaves
         /\ result' = "Write" /\ client'.at = "ended" /\ ~Called
<1>1. /\ Writing("client") /\ client.out # <<>> /\ Fail(client, "Write") /\ kind' = kind
  BY DEF WriteFails, client
<1>2. client \in Ends /\ client.at \in ClientAts /\ client.at \notin {"ended", "suspended"}
  BY <1>1, SidesNamed DEF Writing, client
<1>3. TypeInv' /\ RequestInv' /\ HandledInv' /\ Leaves /\ result' = "Write" /\ client'.at = "ended"
  BY <1>1, <1>2, ClientFails
<1>4. ~Called
  BY <1>1, WritingHasWords
<1> QED
  BY <1>3, <1>4

LEMMA ClientFindsNobody ==
  ASSUME TypeInv, RequestInv, HandledInv, ConnectFails
  PROVE  /\ TypeInv' /\ RequestInv' /\ HandledInv' /\ Leaves
         /\ result' \in ConnectErrors /\ client'.at = "ended" /\ ~Called /\ server.at = "idle"
<1>1. PICK error \in ConnectErrors : Fail(client, error)
  BY DEF ConnectFails, client
<1>2. client.at = "connect" /\ kind' = kind /\ client \in Ends
  BY SidesNamed DEF ConnectFails, At, client
<1>3. error # "Write"
  BY DEF ConnectErrors
<1>4. TypeInv' /\ RequestInv' /\ HandledInv' /\ Leaves /\ result' = error /\ client'.at = "ended"
  <2>1. client.at \in ClientAts /\ client.at \notin {"ended", "suspended"}
    BY <1>2 DEF ClientAts
  <2> QED
    BY <1>1, <1>2, <1>3, <2>1, ClientFails
<1>5. ~Called /\ server.at = "idle"
  BY <1>2 DEF HandledInv, Idle
<1> QED
  BY <1>1, <1>4, <1>5

\* What the client makes of a line e.
FailsToRead == Leaves /\ result' = "Read" /\ client'.at = "ended"
ReadsStatus(e) == /\ OnlyClient /\ result' = result /\ client.at = "first_line"
                  /\ ParseStatusLine(e.line) /\ client' = StatusLine(e)
ReadsHeader(e) == /\ OnlyClient /\ result' = result /\ client.at = "headers"
                  /\ ~HeadersEnd(e) /\ client' = HeaderLine(e)
ReadsHeadEnd(e) == /\ OnlyClient /\ result' = result /\ client.at = "headers"
                   /\ HeadersEnd(e) /\ client' = ToContent(e)

LEMMA ClientLineMoves ==
  ASSUME TypeInv, RequestInv, HandledInv, client.at \in {"first_line", "headers"}, NEW e \in Ends,
         e.at = client.at, e.open = client.open, ClientLine(e), kind' = kind
  PROVE  /\ TypeInv' /\ RequestInv' /\ HandledInv'
         /\ FailsToRead \/ ReadsStatus(e) \/ ReadsHeader(e) \/ ReadsHeadEnd(e)
<1>1. client.open /\ server.at # "idle" /\ ~Writing("client") /\ client.at \in ClientAts
  BY SidesNamed DEF OpenAsItShould, HandledInv, Writing, client
<1>2. CASE e.at = "first_line" /\ ~ParseStatusLine(e.line)
  <2>1. Fail(e, "Read")
    BY <1>2 DEF ClientLine
  <2> QED
    BY <1>1, <2>1, ClientFails DEF FailsToRead
<1>3. CASE ~(e.at = "first_line" /\ ~ParseStatusLine(e.line))
  <2>1. PICK f : f = IF e.at = "first_line" THEN StatusLine(e)
                     ELSE IF HeadersEnd(e) THEN ToContent(e) ELSE HeaderLine(e)
    OBVIOUS
  <2>2. /\ Become("client", f)
        /\ result' = result /\ handled' = handled /\ closing' = closing /\ count' = count
    BY <1>3, <2>1 DEF ClientLine, serverVars
  <2>3. e.at = "first_line" => e.line # <<>>
    <3>1. ParseStatusLine(e.line) => e.line # <<>>
      BY DEF ParseStatusLine, EndsWithCrlf
    <3> QED
      BY <1>3, <3>1
  <2>4. f \in Ends /\ f.at \in {"first_line", "headers", "content"} /\ f.open
    <3>1. CASE e.at = "first_line"
      <4>1. f = StatusLine(e)
        BY <2>1, <3>1
      <4> QED
        BY <1>1, <2>3, <3>1, <4>1, EndTypes, StatusLineFields
    <3>2. CASE e.at # "first_line" /\ HeadersEnd(e)
      <4>1. f = ToContent(e)
        BY <2>1, <3>2
      <4> QED
        BY <1>1, <4>1, EndTypes, ToContentFields
    <3>3. CASE e.at # "first_line" /\ ~HeadersEnd(e)
      <4>1. f = HeaderLine(e)
        BY <2>1, <3>3
      <4> QED
        BY <1>1, <4>1, EndTypes, HeaderLineFields
    <3> QED
      BY <3>1, <3>2, <3>3
  <2>5. TypeInv' /\ RequestInv' /\ HandledInv' /\ OnlyClient /\ client' = f
    <3>1. result' = "Write" => result = "Write"
      BY <2>2
    <3> QED
      BY <1>1, <2>2, <2>4, <3>1, ClientTurns DEF OpenAsItShould
  <2> QED
    BY <1>3, <2>1, <2>2, <2>5 DEF ReadsStatus, ReadsHeader, ReadsHeadEnd
<1> QED
  BY <1>2, <1>3

\* A word in a line.
ReadsWord == /\ OnlyClient /\ result' = result /\ client' = Begun("client")
             /\ client.wire[1] \notin {Crlf, Newline}

LEMMA ClientGetsWord ==
  ASSUME TypeInv, RequestInv, HandledInv, GetWord("client")
  PROVE  /\ TypeInv' /\ RequestInv' /\ HandledInv'
         /\ client.at \in {"first_line", "headers"} /\ Readable("client")
         /\ \/ ReadsWord
            \/ /\ client.wire[1] \in {Crlf, Newline}
               /\ \/ FailsToRead \/ ReadsStatus(Begun("client")) \/ ReadsHeader(Begun("client"))
                  \/ ReadsHeadEnd(Begun("client"))
<1> DEFINE e == Begun("client")
<1>1. /\ client.at \in {"first_line", "headers"} /\ Readable("client") /\ kind' = kind
      /\ LET word == Head(client.wire)
         IN IF word \in {Crlf, Newline} THEN ClientLine(e)
            ELSE Become("client", e) /\ UNCHANGED <<result, serverVars>>
  BY DEF GetWord, Reading, client, LineRead, Begun
<1>2. /\ e \in Ends /\ e.at = client.at /\ e.open = client.open
      /\ Head(client.wire) = client.wire[1]
  BY <1>1, BegunFields DEF client, Sides
<1>3. client.open /\ server.at # "idle" /\ ~Writing("client")
  BY <1>1, SidesNamed DEF OpenAsItShould, HandledInv, Writing, client
<1>4. CASE client.wire[1] \in {Crlf, Newline}
  <2>1. ClientLine(e)
    BY <1>1, <1>2, <1>4
  <2> HIDE DEF e
  <2>2. /\ TypeInv' /\ RequestInv' /\ HandledInv'
        /\ FailsToRead \/ ReadsStatus(e) \/ ReadsHeader(e) \/ ReadsHeadEnd(e)
    BY <1>1, <1>2, <2>1, ClientLineMoves
  <2> QED
    BY <1>1, <1>4, <2>2 DEF e
<1>5. CASE client.wire[1] \notin {Crlf, Newline}
  <2>1. /\ Become("client", e)
        /\ result' = result /\ handled' = handled /\ closing' = closing /\ count' = count
    BY <1>1, <1>2, <1>5 DEF serverVars
  <2> HIDE DEF e
  <2>2. result' = "Write" => result = "Write"
    BY <2>1
  <2>3. TypeInv' /\ RequestInv' /\ HandledInv' /\ OnlyClient /\ client' = e
    BY <1>1, <1>2, <1>3, <2>1, <2>2, ClientTurns DEF OpenAsItShould
  <2> QED
    BY <1>1, <1>5, <2>1, <2>3 DEF ReadsWord, e
<1> QED
  BY <1>4, <1>5

\* The server has closed, and all it sent is read.
LEMMA ClientLineAtEnd ==
  ASSUME TypeInv, RequestInv, HandledInv, LineAtEnd("client")
  PROVE  /\ TypeInv' /\ RequestInv' /\ HandledInv'
         /\ ~server.open /\ client.wire = <<>> /\ client.line # <<>>
         /\ \/ FailsToRead \/ ReadsStatus(client) \/ ReadsHeader(client) \/ ReadsHeadEnd(client)
<1>1. /\ client.at \in {"first_line", "headers"} /\ ClientLine(client) /\ kind' = kind
      /\ ~server.open /\ client.wire = <<>> /\ client.line # <<>> /\ client \in Ends
  BY SidesNamed DEF LineAtEnd, Reading, client, server, LineRead, AtEnd, Readable, Peer
<1>2. client.at = client.at /\ client.open = client.open
  OBVIOUS
<1> QED
  BY <1>1, <1>2, ClientLineMoves

LEMMA ClientLineBreaks ==
  ASSUME TypeInv, RequestInv, HandledInv, LineBreaks("client")
  PROVE  /\ TypeInv' /\ RequestInv' /\ HandledInv' /\ FailsToRead
<1>1. /\ client.at \in {"first_line", "headers"} /\ Fail(client, "Read") /\ kind' = kind
      /\ client \in Ends /\ client.at \in ClientAts
  BY SidesNamed DEF LineBreaks, Reading, client, NoLine
<1> QED
  BY <1>1, ClientFails DEF FailsToRead

\* A byte of the body.
ReadsByte ==
  /\ OnlyClient /\ result' = result /\ client.at = "content" /\ client'.at = "content"
  /\ client.left # 0 /\ client.wire # <<>> /\ client'.wire = Rest1(client.wire, 1)
  /\ client'.body = Append(client.body, client.wire[1]) /\ client'.status = client.status
  /\ client'.left = IF client.left = Unknown THEN client.left ELSE client.left - 1

LEMMA ClientGetsContent ==
  ASSUME TypeInv, RequestInv, HandledInv, GetContent("client")
  PROVE  TypeInv' /\ RequestInv' /\ HandledInv' /\ ReadsByte
<1> DEFINE b == Append(client.body, client.wire[1])
           w == Rest1(client.wire, 1)
           l == IF client.left = Unknown THEN client.left ELSE client.left - 1
           e == [client EXCEPT !.wire = w, !.body = b, !.left = l]
<1>1. /\ client.at = "content" /\ client.left # 0 /\ client.wire # <<>> /\ client \in Ends
      /\ kind' = kind /\ result' = result /\ handled' = handled /\ closing' = closing /\ count' = count
      /\ Become("client", [Received(Rest("client"), Head(client.wire))
                             EXCEPT !.left = IF @ = Unknown THEN @ ELSE @ - 1])
  BY SidesNamed DEF GetContent, At, client, Readable, serverVars
<1>2. /\ client.wire \in Seq(Words) /\ client.body \in Seq(Words) /\ client.left \in Int
  BY <1>1 DEF Ends
<1>3. /\ Tail(client.wire) = w /\ w \in Seq(Words)
  BY <1>1, <1>2, TailShape
<1>4. Head(client.wire) = client.wire[1] /\ client.wire[1] \in Words
  <2>1. Len(client.wire) >= 1
    BY <1>1, <1>2
  <2> QED
    BY <1>2, <2>1
<1>5. b \in Seq(Words) /\ l \in Int
  BY <1>2, <1>4, AppendShape DEF Unknown
<1>6. Become("client", e)
  <2>1. [Received(Rest("client"), Head(client.wire)) EXCEPT !.left = IF @ = Unknown THEN @ ELSE @ - 1] = e
    <3>1. Rest("client") = [client EXCEPT !.wire = w]
      BY <1>1, <1>3 DEF Rest, client, Ends
    <3>2. Received(Rest("client"), Head(client.wire)) = [client EXCEPT !.wire = w, !.body = b]
      BY <1>1, <1>4, <3>1 DEF Received, Ends
    <3> HIDE DEF w, b
    <3>3. [client EXCEPT !.wire = w, !.body = b].left = client.left
      BY <1>1 DEF Ends
    <3> QED
      BY <1>1, <3>2, <3>3 DEF Ends
  <2> QED
    BY <1>1, <2>1
<1>7. w = Rest1(client.wire, 1) /\ b = Append(client.body, client.wire[1])
      /\ l = IF client.left = Unknown THEN client.left ELSE client.left - 1
  OBVIOUS
<1> HIDE DEF w, b, l
<1>8. /\ e \in Ends /\ e.at = "content" /\ e.open = client.open /\ e.wire = w /\ e.body = b
      /\ e.left = l /\ e.status = client.status
  BY <1>1, <1>3, <1>5 DEF Ends
<1> HIDE DEF e
<1>9. TypeInv' /\ RequestInv' /\ HandledInv' /\ OnlyClient /\ client' = e
  <2>1. client.open /\ server.at # "idle"
    BY <1>1, SidesNamed DEF OpenAsItShould, HandledInv
  <2>2. result' = "Write" => result = "Write"
    BY <1>1
  <2> QED
    BY <1>1, <1>6, <1>8, <2>1, <2>2, ClientTurns DEF OpenAsItShould
<1>10. ReadsByte
  BY <1>1, <1>7, <1>8, <1>9 DEF ReadsByte
<1> QED
  BY <1>9, <1>10

\* Nothing more comes, of a body without a length.
ReadsNoMore ==
  /\ OnlyClient /\ result' = result /\ client.at = "content" /\ client.left = Unknown

LEMMA ClientContentBreaks ==
  ASSUME TypeInv, RequestInv, HandledInv, ContentBreaks("client")
  PROVE  TypeInv' /\ RequestInv' /\ HandledInv' /\ (FailsToRead \/ ReadsNoMore)
<1>1. client.at = "content" /\ kind' = kind /\ client \in Ends /\ client.at \in ClientAts
      /\ client.open /\ server.at # "idle"
  BY SidesNamed DEF ContentBreaks, At, client, OpenAsItShould, HandledInv
<1>2. CASE client.left = Unknown
  <2>5. PICK none \in Int : none = 0
    OBVIOUS
  <2> DEFINE e == [client EXCEPT !.left = none]
  <2>1. /\ Become("client", e)
        /\ result' = result /\ handled' = handled /\ closing' = closing /\ count' = count
    BY <1>2, <2>5 DEF ContentBreaks, client, serverVars
  <2>2. e \in Ends /\ e.at = "content" /\ e.open
    BY <1>1 DEF Ends
  <2> HIDE DEF e
  <2>3. result' = "Write" => result = "Write"
    BY <2>1
  <2>4. TypeInv' /\ RequestInv' /\ HandledInv' /\ OnlyClient
    BY <1>1, <2>1, <2>2, <2>3, ClientTurns DEF OpenAsItShould
  <2> QED
    BY <1>1, <1>2, <2>1, <2>4 DEF ReadsNoMore
<1>3. CASE client.left # Unknown
  <2>1. Fail(client, "Read")
    BY <1>3 DEF ContentBreaks, client
  <2> QED
    BY <1>1, <2>1, ClientFails DEF FailsToRead
<1> QED
  BY <1>2, <1>3

Returns == /\ Leaves /\ client.at = "content" /\ client.left = 0
           /\ client'.at = "ended" /\ result' = "response"
           /\ client'.status = client.status /\ client'.body = client.body

LEMMA ClientReturns ==
  ASSUME TypeInv, RequestInv, HandledInv, Return
  PROVE  TypeInv' /\ RequestInv' /\ HandledInv' /\ Returns
<1>1. /\ client.at = "content" /\ client.left = 0 /\ client \in Ends /\ client.at \in ClientAts
      /\ Become("client", Closed(client)) /\ result' = "response" /\ kind' = kind
      /\ handled' = handled /\ closing' = closing /\ count' = count
  BY SidesNamed DEF Return, ContentRead, At, client, serverVars
<1>2. Closed(client) \in Ends /\ Closed(client).at = "ended" /\ ~Closed(client).open
      /\ Closed(client).status = client.status /\ Closed(client).body = client.body
  BY <1>1, EndTypes, ClosedFields
<1>3. result' # "Write"
  BY <1>1
<1>4. TypeInv' /\ RequestInv' /\ HandledInv' /\ OnlyClient /\ client' = Closed(client)
  BY <1>1, <1>2, <1>3, ClientTurns DEF OpenAsItShould
<1> QED
  BY <1>1, <1>2, <1>4 DEF Returns, Leaves
-----------------------------------------------------------------------------
(* The response *)

ResponseInv == ServerInv /\ HeadInv /\ ContentInv /\ ResultInv

LEMMA SameAnswer ==
  ASSUME kind' = kind, handled' = handled
  PROVE  Called' = Called /\ Size' = Size /\ Status' = Status /\ HeadWords' = HeadWords
<1>1. Called' = Called
  BY DEF Called
<1>2. Size' = Size /\ Status' = Status
  BY <1>1 DEF Size, Status
<1> QED
  BY <1>1, <1>2 DEF HeadWords

LEMMA SizeType == TypeInv => /\ Size \in Nat /\ (Called => Size = Len(Answer[kind])) /\ (~Called => Size = 0)
                             /\ Status \in Nat /\ (Called => Status = 200) /\ (~Called => Status = 400)
BY AnswerType DEF TypeInv, Size, Status

\* The words of a head differ by their names.
LEMMA HeadNames ==
  ASSUME TypeInv
  PROVE  /\ \A x \in HeadWords : /\ x.name = "HTTP" => x = Word("HTTP", Status)
                                 /\ x.name = "Content-Length" => x = Length(Size)
                                 /\ x # Newline
         /\ Length(Size) # Crlf /\ Length(Size).name # "HTTP" /\ Word("HTTP", Status).n = Status
         /\ Crlf # Newline /\ Crlf.name # "Content-Length"
<1>1. /\ Word("HTTP", Status).name = "HTTP" /\ Word("HTTP", Status).n = Status
      /\ Word("Connection", 0).name = "Connection"
      /\ Crlf.name = "crlf" /\ Newline.name = "newline"
      /\ Length(Size).name = "Content-Length"
  BY WordNames
<1> QED
  BY <1>1 DEF HeadWords

LEMMA SameWords ==
  ASSUME NEW a \in Seq(Words), NEW b \in Seq(Words), Len(a) = Len(b),
         \A i \in 1..Len(a) : a[i] = b[i]
  PROVE  a = b
OBVIOUS

LEMMA RestShape ==
  ASSUME NEW a \in Seq(Words), NEW n \in 0..Len(a)
  PROVE  /\ Rest1(a, n) \in Seq(Words) /\ Len(Rest1(a, n)) = Len(a) - n
         /\ \A i \in 1..Len(a) - n : Rest1(a, n)[i] = a[n + i]
BY DEF Rest1

LEMMA FirstShape ==
  ASSUME NEW a \in Seq(Words), NEW n \in 0..Len(a)
  PROVE  /\ SubSeq(a, 1, n) \in Seq(Words) /\ Len(SubSeq(a, 1, n)) = n
         /\ \A i \in 1..n : SubSeq(a, 1, n)[i] = a[i]
OBVIOUS

\* What has three parts has their words, in turn.
Joined(z, a, b, c) == z = a \o b \o c

LEMMA ThreeParts ==
  ASSUME NEW a \in Seq(Words), NEW b \in Seq(Words), NEW c \in Seq(Words), NEW z, Joined(z, a, b, c)
  PROVE  /\ z \in Seq(Words) /\ Len(z) = Len(a) + Len(b) + Len(c)
         /\ Len(a) \in Nat /\ Len(b) \in Nat /\ Len(c) \in Nat /\ Len(z) \in Nat
         /\ \A i \in 1..Len(a) : z[i] = a[i]
         /\ \A i \in 1..Len(b) : z[Len(a) + i] = b[i]
         /\ \A i \in 1..Len(c) : z[Len(a) + Len(b) + i] = c[i]
<1>9. z = (a \o b) \o c
  BY DEF Joined
<1>1. Len(a) \in Nat /\ Len(b) \in Nat /\ Len(c) \in Nat
  OBVIOUS
<1>2. /\ a \o b \in Seq(Words) /\ Len(a \o b) = Len(a) + Len(b)
      /\ \A i \in 1..Len(a) : (a \o b)[i] = a[i]
      /\ \A i \in 1..Len(b) : (a \o b)[Len(a) + i] = b[i]
  BY WordsConcat, Zenon
<1>3. PICK ab \in Seq(Words) : ab = a \o b
  BY <1>2
<1>4. /\ ab \o c \in Seq(Words) /\ Len(ab \o c) = Len(ab) + Len(c)
      /\ \A i \in 1..Len(ab) : (ab \o c)[i] = ab[i]
      /\ \A i \in 1..Len(c) : (ab \o c)[Len(ab) + i] = c[i]
  BY WordsConcat, Zenon
<1>5. z \in Seq(Words) /\ Len(z) = Len(a) + Len(b) + Len(c) /\ Len(z) \in Nat
  BY <1>1, <1>2, <1>3, <1>4, <1>9
<1>6. \A i \in 1..Len(a) : z[i] = a[i]
  BY <1>1, <1>2, <1>3, <1>4, <1>9
<1>7. \A i \in 1..Len(b) : z[Len(a) + i] = b[i]
  BY <1>1, <1>2, <1>3, <1>4, <1>9
<1>8. \A i \in 1..Len(c) : z[Len(a) + Len(b) + i] = c[i]
  BY <1>1, <1>2, <1>3, <1>4, <1>9
<1> QED
  BY <1>1, <1>5, <1>6, <1>7, <1>8

\* Two that differ in their last part have the same words before it.
LEMMA SameBefore ==
  ASSUME NEW a \in Seq(Words), NEW b \in Seq(Words), NEW c \in Seq(Words), NEW d \in Seq(Words),
         NEW z, NEW y, Joined(z, a, b, c), Joined(y, a, b, d)
  PROVE  /\ y \in Seq(Words) /\ z \in Seq(Words) /\ Len(y) \in Nat /\ Len(z) \in Nat
         /\ Len(a) + Len(b) \in Nat
         /\ Len(z) = (Len(a) + Len(b)) + Len(c) /\ Len(y) = (Len(a) + Len(b)) + Len(d)
         /\ \A i \in 1..Len(a) + Len(b) : y[i] = z[i]
<1>1. /\ z \in Seq(Words) /\ Len(z) = Len(a) + Len(b) + Len(c)
      /\ Len(a) \in Nat /\ Len(b) \in Nat /\ Len(c) \in Nat /\ Len(z) \in Nat
      /\ \A i \in 1..Len(a) : z[i] = a[i]
      /\ \A i \in 1..Len(b) : z[Len(a) + i] = b[i]
  BY ThreeParts
<1>2. /\ y \in Seq(Words) /\ Len(y) = Len(a) + Len(b) + Len(d) /\ Len(y) \in Nat
      /\ \A i \in 1..Len(a) : y[i] = a[i]
      /\ \A i \in 1..Len(b) : y[Len(a) + i] = b[i]
  BY ThreeParts
<1>3. \A i \in 1..Len(a) + Len(b) : i <= Len(a) \/ \E j \in 1..Len(b) : i = Len(a) + j
  <2> SUFFICES ASSUME NEW i \in 1..Len(a) + Len(b), i > Len(a) PROVE \E j \in 1..Len(b) : i = Len(a) + j
    BY SMTT(40), <1>1
  <2>1. i - Len(a) \in 1..Len(b) /\ i = Len(a) + (i - Len(a))
    BY <1>1
  <2> QED
    BY <2>1
<1>4. \A i \in 1..Len(a) + Len(b) : y[i] = z[i]
  <2> SUFFICES ASSUME NEW i \in 1..Len(a) + Len(b) PROVE y[i] = z[i]
    OBVIOUS
  <2>1. CASE i <= Len(a)
    BY <1>1, <1>2, <2>1
  <2>2. CASE \E j \in 1..Len(b) : i = Len(a) + j
    BY <1>1, <1>2, <2>2
  <2> QED
    BY <1>3, <2>1, <2>2
<1> QED
  BY <1>1, <1>2, <1>4

LEMMA Associative ==
  ASSUME NEW a \in Seq(Words), NEW b \in Seq(Words), NEW c \in Seq(Words)
  PROVE  (a \o b) \o c = a \o (b \o c)
<1>1. /\ a \o b \in Seq(Words) /\ Len(a \o b) = Len(a) + Len(b)
      /\ \A i \in 1..Len(a) : (a \o b)[i] = a[i]
      /\ \A i \in 1..Len(b) : (a \o b)[Len(a) + i] = b[i]
  BY WordsConcat, Zenon
<1>2. PICK p \in Seq(Words) : p = a \o b
  BY <1>1
<1>3. /\ b \o c \in Seq(Words) /\ Len(b \o c) = Len(b) + Len(c)
      /\ \A i \in 1..Len(b) : (b \o c)[i] = b[i]
      /\ \A i \in 1..Len(c) : (b \o c)[Len(b) + i] = c[i]
  BY WordsConcat, Zenon
<1>4. PICK q \in Seq(Words) : q = b \o c
  BY <1>3
<1>5. p \o c = a \o q
  BY <1>1, <1>2, <1>3, <1>4
<1> QED
  BY <1>2, <1>4, <1>5

\* What is sent is only somewhere else.
LEMMA JoinedSent ==
  ASSUME NEW a \in Seq(Words), NEW b \in Seq(Words), NEW c \in Seq(Words), NEW z, NEW y,
         NEW n \in 1..Len(c), 
         Joined(z, a, b, c), Joined(y, a, b \o SubSeq(c, 1, n), Rest1(c, n))
  PROVE  y = z
<1>1. n \in 0..Len(c) /\ Len(c) \in Nat
  OBVIOUS
<1>2. PICK s \in Seq(Words) : s = SubSeq(c, 1, n)
  BY <1>1, FirstShape
<1>3. PICK r \in Seq(Words) : r = Rest1(c, n)
  BY <1>1, RestShape
<1>4. s \o r = c
  <2>1. Len(s) = n /\ \A i \in 1..n : s[i] = c[i]
    BY <1>1, <1>2, FirstShape
  <2>2. Len(r) = Len(c) - n /\ \A i \in 1..Len(c) - n : r[i] = c[n + i]
    BY <1>1, <1>3, RestShape
  <2> QED
    BY <1>1, <2>1, <2>2
<1>5. y = (a \o (b \o s)) \o r /\ z = (a \o b) \o c
  BY <1>2, <1>3 DEF Joined
<1>6. a \o (b \o s) = (a \o b) \o s
  BY Associative
<1>7. PICK ab \in Seq(Words) : ab = a \o b
  BY WordsConcat, Zenon
<1>8. (ab \o s) \o r = ab \o (s \o r)
  BY Associative
<1> QED
  BY <1>4, <1>5, <1>6, <1>7, <1>8, Zenon

\* A word that is read goes into the line.
LEMMA JoinedWord ==
  ASSUME NEW a \in Seq(Words), NEW b \in Seq(Words), NEW c \in Seq(Words), NEW z, NEW y,
         NEW e \in Seq(Words), NEW r \in Seq(Words), Joined(z, a, b, c), Joined(y, e, r, c),
         Len(e) = Len(a) + 1, Len(b) = Len(r) + 1, e[Len(a) + 1] = b[1],
         \A i \in 1..Len(a) : e[i] = a[i], \A i \in 1..Len(r) : r[i] = b[1 + i]
  PROVE  y = z
<1>1. Len(a) \in Nat /\ Len(r) \in Nat /\ Len(e) = Len(a) + 1 /\ Len(b) = Len(r) + 1
  OBVIOUS
<1>2. PICK p \in Seq(Words) : /\ p = e \o r /\ Len(p) = Len(e) + Len(r)
                              /\ \A i \in 1..Len(e) : p[i] = e[i]
                              /\ \A i \in 1..Len(r) : p[Len(e) + i] = r[i]
  BY WordsConcat, Zenon
<1>8. PICK q \in Seq(Words) : q = a \o b
  BY WordsConcat, Zenon
<1>9. /\ Len(a \o b) = Len(a) + Len(b)
      /\ \A i \in 1..Len(a) : (a \o b)[i] = a[i]
      /\ \A i \in 1..Len(b) : (a \o b)[Len(a) + i] = b[i]
  BY WordsConcat, Zenon
<1>3. /\ q = a \o b /\ Len(q) = Len(a) + Len(b)
      /\ \A i \in 1..Len(a) : q[i] = a[i]
      /\ \A i \in 1..Len(b) : q[Len(a) + i] = b[i]
  BY <1>8, <1>9, Zenon
<1>4. Len(p) = Len(q)
  BY <1>1, <1>2, <1>3
<1>5. ASSUME NEW i \in 1..Len(p) PROVE p[i] = q[i]
  <2>1. CASE i <= Len(a)
    <3>1. i \in 1..Len(a) /\ i \in 1..Len(e)
      BY <1>1, <1>5, <2>1
    <3> QED
      BY <1>2, <1>3, <3>1
  <2>2. CASE i = Len(a) + 1
    <3>1. i \in 1..Len(e) /\ 1 \in 1..Len(b)
      BY <1>1, <2>2
    <3>2. p[i] = b[1] /\ q[Len(a) + 1] = b[1]
      BY <1>2, <1>3, <2>2, <3>1
    <3> QED
      BY <2>2, <3>2
  <2>3. CASE i > Len(a) + 1
    <3>1. PICK j \in 1..Len(r) : i = Len(e) + j
      <4>1. i - Len(e) \in 1..Len(r) /\ i = Len(e) + (i - Len(e))
        BY <1>1, <1>2, <1>5, <2>3
      <4> QED
        BY <4>1
    <3>2. 1 + j \in 1..Len(b) /\ i = Len(a) + (1 + j)
      BY <1>1, <3>1
    <3>3. p[i] = b[1 + j] /\ q[i] = b[1 + j]
      BY <1>2, <1>3, <3>1, <3>2
    <3> QED
      BY <3>3
  <2> QED
    BY <1>1, <1>5, <2>1, <2>2, <2>3
<1>6. p = q
  BY <1>4, <1>5, SameWords
<1>7. y = p \o c /\ z = q \o c
  BY <1>2, <1>3 DEF Joined
<1> QED
  BY <1>6, <1>7

\* When a line is read up to its end, the rest is still to be read.
LEMMA JoinedLine ==
  ASSUME NEW a \in Seq(Words), NEW b \in Seq(Words), NEW c \in Seq(Words), NEW z, NEW y,
         b # <<>>, NEW r \in Seq(Words), r = Rest1(b, 1), 
         Joined(z, a, b, c), Joined(y, <<>>, r, c)
  PROVE  /\ Len(a) + 1 \in Nat /\ Len(z) \in Nat /\ Len(a) + 1 <= Len(z)
         /\ Len(y) = Len(z) - (Len(a) + 1)
         /\ z[Len(a) + 1] = b[1] /\ \A i \in 1..Len(a) : z[i] = a[i]
         /\ \A i \in 1..Len(y) : y[i] = z[(Len(a) + 1) + i]
<1>1. Len(b) \in Nat /\ Len(b) >= 1 /\ Len(a) \in Nat /\ 1 \in 0..Len(b) /\ Len(c) \in Nat
  OBVIOUS
<1>2. Len(r) = Len(b) - 1 /\ \A i \in 1..Len(b) - 1 : r[i] = b[1 + i]
  BY <1>1, RestShape
<1>3. y = r \o c
  BY DEF Joined
<1>4. PICK bc \in Seq(Words) : bc = b \o c
  BY WordsConcat, Zenon
<1>5. z = a \o bc
  BY ZenonT(40), <1>4, Associative DEF Joined
<1>6. Len(bc) = Len(b) + Len(c) /\ bc[1] = b[1]
      /\ \A i \in 1..Len(y) : y[i] = bc[1 + i]
  <2>1. /\ Len(b \o c) = Len(b) + Len(c)
        /\ \A i \in 1..Len(b) : (b \o c)[i] = b[i]
        /\ \A i \in 1..Len(c) : (b \o c)[Len(b) + i] = c[i]
    BY WordsConcat, Zenon
  <2>2. /\ Len(r \o c) = Len(r) + Len(c)
        /\ \A i \in 1..Len(r) : (r \o c)[i] = r[i]
        /\ \A i \in 1..Len(c) : (r \o c)[Len(r) + i] = c[i]
    BY WordsConcat, Zenon
  <2>3. Len(bc) = Len(b) + Len(c) /\ bc[1] = b[1]
    BY <1>1, <1>4, <2>1
  <2>5. Len(y) = Len(r) + Len(c)
    BY <1>3, <2>2
  <2>4. ASSUME NEW i \in 1..Len(y) PROVE y[i] = bc[1 + i]
    <3>1. CASE i <= Len(r)
      <4>1. y[i] = r[i] /\ r[i] = b[1 + i] /\ 1 + i \in 1..Len(b)
        BY <1>1, <1>2, <1>3, <2>2, <2>4, <3>1
      <4> QED
        BY <1>4, <2>1, <4>1
    <3>2. CASE i > Len(r)
      <4>4. PICK n \in Nat : n = Len(r) /\ Len(b) = n + 1
        BY <1>1, <1>2
      <4>1. i - n \in 1..Len(c) /\ i = n + (i - n) /\ 1 + i = (n + 1) + (i - n)
        BY <1>1, <2>5, <2>4, <3>2, <4>4
      <4>5. PICK j \in 1..Len(c) : i = n + j /\ 1 + i = (n + 1) + j
        BY <4>1
      <4>2. y[i] = c[j]
        BY <1>3, <2>2, <4>4, <4>5
      <4>3. bc[1 + i] = c[j]
        BY <1>4, <2>1, <4>4, <4>5
      <4> QED
        BY <4>2, <4>3
    <3> QED
      BY <1>1, <1>2, <2>4, <3>1, <3>2
  <2> QED
    BY <2>3, <2>4
<1>7. /\ Len(z) = Len(a) + Len(bc) /\ Len(bc) \in Nat
      /\ \A i \in 1..Len(a) : z[i] = a[i]
      /\ \A i \in 1..Len(bc) : z[Len(a) + i] = bc[i]
  <2>1. /\ Len(a \o bc) = Len(a) + Len(bc)
        /\ \A i \in 1..Len(a) : (a \o bc)[i] = a[i]
        /\ \A i \in 1..Len(bc) : (a \o bc)[Len(a) + i] = bc[i]
    BY WordsConcat, Zenon
  <2> QED
    BY <1>1, <1>5, <1>6, <2>1
<1>8. Len(y) = Len(bc) - 1
  <2>1. Len(r \o c) = Len(r) + Len(c)
    BY WordsConcat, Zenon
  <2> QED
    BY <1>1, <1>2, <1>3, <1>6, <2>1
<1>9. Len(a) + 1 \in Nat /\ Len(z) \in Nat /\ Len(a) + 1 <= Len(z) /\ Len(y) = Len(z) - (Len(a) + 1)
  BY <1>1, <1>6, <1>7, <1>8
<1>10. z[Len(a) + 1] = b[1]
  BY <1>1, <1>6, <1>7
<1>11. \A i \in 1..Len(y) : y[i] = z[(Len(a) + 1) + i]
  <2> SUFFICES ASSUME NEW i \in 1..Len(y) PROVE y[i] = z[(Len(a) + 1) + i]
    OBVIOUS
  <2>1. 1 + i \in 1..Len(bc) /\ Len(a) + (1 + i) = (Len(a) + 1) + i
    BY <1>1, <1>7, <1>8
  <2> QED
    BY <1>6, <1>7, <2>1
<1> QED
  BY <1>7, <1>9, <1>10, <1>11

LEMMA UnreadType ==
  ASSUME TypeInv
  PROVE  /\ HeadOut \in Seq(Words) /\ server.out \in Seq(Words)
         /\ client.line \in Seq(Words) /\ client.wire \in Seq(Words)
         /\ Joined(Unread, client.line, client.wire, HeadOut)
BY SidesNamed, NoWords DEF Ends, HeadOut, Unread, Joined

\* What the call returned is as true as before.
LEMMA ResultFrame ==
  ASSUME ResultInv, kind' = kind, handled' = handled, result' = result,
         client'.at = client.at, client'.status = client.status, client'.body = client.body,
         Unanswered' => Unanswered,
         server.at = "idle" => server'.at = "idle"
  PROVE  ResultInv'
<1>1. ResultIsTrue'
  BY DEF ResultInv, ResultIsTrue, client, Body
<1> QED
  BY <1>1 DEF ResultInv

\* The server reads on.
LEMMA ReadsOnResponse ==
  ASSUME TypeInv, ResponseInv, ReadsOn
  PROVE  ResponseInv'
<1>1. /\ kind' = kind /\ client' = client /\ result' = result /\ handled' = handled /\ ~Called
      /\ server.at # "idle" /\ server.at # "write_head" /\ server'.at # "write_head"
      /\ server'.at # "write_body"
      /\ Unanswered' => Unanswered
  BY DEF ReadsOn, OnlyServer, Readings
<1>2. Called' = Called /\ Size' = Size /\ Status' = Status /\ HeadWords' = HeadWords
  BY <1>1, SameAnswer
<1>3. HeadOut' = HeadOut /\ Unread' = Unread
  BY <1>1 DEF HeadOut, Unread
<1>4. ServerInv'
  BY <1>1 DEF ServerInv
<1>5. HeadInv'
  <2>1. HeadRead => HeadRead'
    BY <1>1, <1>2 DEF HeadRead
  <2>2. HeadComes(Unread) => HeadComes(Unread)'
    <3>1. Heads(Unread) => Heads(Unread)'
      BY <1>2, <1>3 DEF Heads
    <3> QED
      BY <1>1, <1>2, <1>3, <3>1 DEF HeadComes
  <2> QED
    BY <1>1, <2>1, <2>2 DEF HeadInv, ResponseInv
<1>6. ContentInv'
  BY <1>1, <1>2 DEF ContentInv, ResponseInv
<1>7. ResultInv'
  BY <1>1, ResultFrame DEF ResponseInv
<1> QED
  BY <1>4, <1>5, <1>6, <1>7 DEF ResponseInv

LEMMA HeadShape ==
  ASSUME NEW status \in Nat, NEW body \in Seq(Words), NEW h, h = ResponseHead(status, body)
  PROVE  /\ h \in Seq(Words) /\ Len(h) = 7
         /\ h[1] = Word("HTTP", status) /\ h[2] = Crlf /\ h[3] = Word("Connection", 0) /\ h[4] = Crlf
         /\ h[5] = Length(Len(body)) /\ h[6] = Crlf /\ h[7] = Crlf
         /\ h[1] # Crlf /\ h[3] # Crlf /\ h[5] # Crlf
<1>1. h \in Seq(Words)
  BY ResponseHeadType, Zenon
<1>2. /\ Len(h) = 7
      /\ h[1] = Word("HTTP", status) /\ h[2] = Crlf /\ h[3] = Word("Connection", 0) /\ h[4] = Crlf
      /\ h[5] = Length(Len(body)) /\ h[6] = Crlf /\ h[7] = Crlf
  BY ResponseHeadShape
<1>3. h[1].name # "crlf" /\ h[3].name # "crlf" /\ h[5].name # "crlf" /\ Crlf.name = "crlf"
  BY <1>2, WordNames
<1>4. h[1] # Crlf /\ h[3] # Crlf /\ h[5] # Crlf
  BY <1>3
<1> QED
  BY <1>1, <1>2, <1>4

LEMMA UpToSeven == \A i \in 1..7 : i = 1 \/ i = 2 \/ i = 3 \/ i = 4 \/ i = 5 \/ i = 6 \/ i = 7
OBVIOUS

\* The server answers that a request is bad.
LEMMA RefusesResponse ==
  ASSUME TypeInv, TypeInv', ResponseInv, Refuses
  PROVE  ResponseInv'
<1>1. /\ kind' = kind /\ client' = client /\ result' = result /\ handled' = handled /\ ~Called
      /\ server.at # "idle" /\ server.at # "write_head" /\ server'.at = "write_head"
      /\ server'.out = Refusal
  BY DEF Refuses, OnlyServer, Readings
<1>2. Called' = Called /\ Size' = Size /\ Status' = Status /\ HeadWords' = HeadWords
  BY <1>1, SameAnswer
<1>3. ~Unanswered'
  BY <1>1 DEF Unanswered
<1>4. ServerInv'
  BY <1>1 DEF ServerInv
<1>5. ResultInv'
  BY <1>1, <1>3, ResultFrame DEF ResponseInv
<1>6. ContentInv'
  BY <1>1, <1>2, <1>3 DEF ContentInv, ResponseInv
<1>7. ASSUME client.at \in HeadAts PROVE HeadRead' /\ HeadComes(Unread)'
  <2>1. HeadRead /\ HeadComes(Unread)
    BY <1>7 DEF HeadInv, ResponseInv
  <2>2. HeadRead'
    BY <1>1, <1>2, <1>3, <2>1 DEF HeadRead
  <2> DEFINE z == Unread
             y == Unread'
             R == HeadOut'
  <2>3. /\ R \in Seq(Words) /\ Len(R) = 7 /\ R[1] = Word("HTTP", Status) /\ R[2] = Crlf /\ R[3] = Word("Connection", 0)
        /\ R[4] = Crlf /\ R[5] = Length(Size) /\ R[6] = Crlf /\ R[7] = Crlf
        /\ R[1] # Crlf /\ R[3] # Crlf /\ R[5] # Crlf
    <3>1. R = ResponseHead(400, <<>>)
      BY <1>1 DEF HeadOut, Refusal
    <3>2. PICK status \in Nat : status = 400
      OBVIOUS
    <3>3. PICK none \in Seq(Words) : none = <<>>
      BY NoWords
    <3>4. Len(none) = 0
      BY <3>3
    <3>5. R = ResponseHead(status, none)
      BY <3>1, <3>2, <3>3
    <3>6. Status = 400 /\ Size = 0
      BY <1>1, SizeType
    <3> HIDE DEF R
    <3>7. /\ R \in Seq(Words) /\ Len(R) = 7 /\ R[1] = Word("HTTP", status) /\ R[2] = Crlf /\ R[3] = Word("Connection", 0)
          /\ R[4] = Crlf /\ R[5] = Length(Len(none)) /\ R[6] = Crlf /\ R[7] = Crlf
          /\ R[1] # Crlf /\ R[3] # Crlf /\ R[5] # Crlf
      BY <3>5, HeadShape
    <3> QED
      BY <3>2, <3>4, <3>6, <3>7
  <2>4. HeadOut = <<>>
    BY <1>1 DEF HeadOut
  <2>5. /\ Len(z) \in Nat /\ Len(y) = Len(z) + 7
        /\ \A i \in 1..Len(z) : y[i] = z[i]
        /\ \A i \in 1..7 : y[Len(z) + i] = R[i]
    <3>4. PICK none \in Seq(Words) : none = HeadOut /\ Len(none) = 0
      BY <2>4, NoWords
    <3>5. PICK line \in Seq(Words), wire \in Seq(Words) : line = client.line /\ wire = client.wire
      BY UnreadType
    <3>11. PICK h \in Seq(Words) : h = R
      BY <2>3
    <3>6. Joined(z, line, wire, none) /\ Joined(y, line, wire, h)
      BY <1>1, <3>4, <3>5, <3>11, UnreadType DEF Unread, Joined
    <3> HIDE DEF z, y, R
    <3>7. /\ Len(line) + Len(wire) \in Nat /\ Len(z) \in Nat
          /\ Len(z) = (Len(line) + Len(wire)) + Len(none) /\ Len(y) = (Len(line) + Len(wire)) + Len(h)
          /\ \A i \in 1..Len(line) + Len(wire) : y[i] = z[i]
      BY <3>6, SameBefore
    <3>8. \A i \in 1..Len(h) : y[Len(line) + Len(wire) + i] = h[i]
      <4>1. Joined(y, line, wire, h)
        BY <3>6
      <4> QED
        BY <4>1, ThreeParts
    <3>12. Len(h) = 7 /\ Len(none) = 0
      BY <2>3, <3>4, <3>11
    <3>1. Len(z) = Len(line) + Len(wire) /\ Len(y) = Len(z) + 7
      BY <3>7, <3>12
    <3>2. \A i \in 1..Len(z) : y[i] = z[i]
      BY <3>1, <3>7
    <3>3. \A i \in 1..7 : y[Len(z) + i] = R[i]
      BY <3>1, <3>8, <3>11, <3>12
    <3>9. Len(z) \in Nat
      BY <3>7
    <3> QED
      BY <3>1, <3>2, <3>3, <3>9
  <2>6. Heads(z) /\ \A i \in 1..Len(z) : z[i] \in HeadWords
    BY <1>1, <2>1 DEF HeadComes
  <2> HIDE DEF z, y, R
  <2>7. \A i \in 1..Len(y) : y[i] \in HeadWords
    <3> SUFFICES ASSUME NEW i \in 1..Len(y) PROVE y[i] \in HeadWords
      OBVIOUS
    <3>1. CASE i <= Len(z)
      BY <2>5, <2>6, <3>1
    <3>2. CASE i > Len(z)
      <4>1. i - Len(z) \in 1..7 /\ i = Len(z) + (i - Len(z))
        BY <2>5, <3>2
      <4>2. \A j \in 1..7 : R[j] \in HeadWords
        BY <2>3, UpToSeven DEF HeadWords
      <4> QED
        BY <2>5, <4>1, <4>2
    <3> QED
      BY <2>5, <3>1, <3>2
  <2>8. \A i \in 2..Len(y) : y[i] = Crlf /\ y[i - 1] = Crlf =>
          i >= 3 /\ y[i - 2] = Length(Size) /\ (i = 3 \/ y[i - 3] = Crlf)
    <3> SUFFICES ASSUME NEW i \in 2..Len(y), y[i] = Crlf, y[i - 1] = Crlf
                 PROVE  i >= 3 /\ y[i - 2] = Length(Size) /\ (i = 3 \/ y[i - 3] = Crlf)
      OBVIOUS
    <3>1. CASE i <= Len(z)
      <4>1. i \in 2..Len(z) /\ i - 1 \in 1..Len(z)
        BY <2>5, <3>1
      <4>2. z[i] = Crlf /\ z[i - 1] = Crlf
        BY <2>5, <4>1
      <4>3. i >= 3 /\ z[i - 2] = Length(Size) /\ (i = 3 \/ z[i - 3] = Crlf)
        BY <2>6, <4>1, <4>2 DEF Heads
      <4>4. y[i - 2] = z[i - 2] /\ (i # 3 => y[i - 3] = z[i - 3])
        <5>1. i - 2 \in 1..Len(z) /\ (i # 3 => i - 3 \in 1..Len(z))
          BY <2>5, <4>1, <4>3
        <5> QED
          BY <2>5, <5>1
      <4> QED
        BY <4>3, <4>4
    <3>2. CASE i > Len(z)
      <4>1. PICK k \in 1..7 : i = Len(z) + k
        <5>1. i - Len(z) \in 1..7 /\ i = Len(z) + (i - Len(z))
          BY SMTT(40), <2>5, <3>2
        <5> QED
          BY <5>1
      <4>2. R[k] = Crlf /\ (k >= 2 => R[k - 1] = Crlf)
        <5>1. y[i] = R[k]
          BY <2>5, <4>1
        <5>2. k >= 2 => k - 1 \in 1..7 /\ i - 1 = Len(z) + (k - 1)
          BY <2>5, <4>1
        <5> QED
          BY <2>5, <5>1, <5>2
      <4>3. k = 7
        <5>1. 1 - 1 = 0 /\ 2 - 1 = 1 /\ 4 - 1 = 3 /\ 6 - 1 = 5
          OBVIOUS
        <5> QED
          BY <2>3, <4>2, <5>1, UpToSeven
      <4>4. /\ i - 2 = Len(z) + 5 /\ i - 3 = Len(z) + 4 /\ i >= 3
        BY <2>5, <4>1, <4>3
      <4> QED
        BY <2>3, <2>5, <4>4
    <3> QED
      BY <2>5, <3>1, <3>2
  <2>9. Heads(y)
    <3>1. \A i \in 1..Len(y) : y[i] = Crlf => \A j \in 1..i : y[j] \in HeadWords
      BY <2>5, <2>7
    <3> QED
      BY <2>8, <3>1 DEF Heads
  <2>10. client.at = "headers" /\ Len(y) >= 1 /\ y[1] = Crlf => Length(Size) \in client.headers
    <3> SUFFICES ASSUME client.at = "headers", y[1] = Crlf PROVE Length(Size) \in client.headers
      OBVIOUS
    <3>1. Len(z) >= 1
      <4>1. Len(z) = 0 => y[1] = R[1]
        BY <2>5
      <4> QED
        BY <2>3, <2>5, <4>1
    <3>2. z[1] = Crlf
      BY <2>5, <3>1
    <3> QED
      BY <2>1, <3>1, <3>2 DEF HeadComes, z
  <2>11. HeadComes(Unread)'
    <3>1. Heads(Unread)'
      BY <1>2, <2>9 DEF Heads, y
    <3>2. \A i \in 1..Len(Unread') : Unread'[i] \in HeadWords'
      BY <1>2, <2>7 DEF y
    <3>3. client'.at = "headers" /\ Len(Unread') >= 1 /\ Unread'[1] = Crlf => Length(Size)' \in client'.headers
      <4>1. Length(Size)' = Length(Size)
        BY <1>2 DEF Length, Word
      <4> QED
        BY <1>1, <2>10, <4>1 DEF y
    <3> QED
      BY <1>1, <1>2, <3>1, <3>2, <3>3 DEF HeadComes
  <2> QED
    BY <2>2, <2>11
<1>8. HeadInv'
  BY <1>1, <1>7 DEF HeadInv
<1> QED
  BY <1>4, <1>5, <1>6, <1>8 DEF ResponseInv

\* The server keeps the connection, after a refusal.
LEMMA KeepsOnResponse ==
  ASSUME TypeInv, ResponseInv, KeepsOn
  PROVE  ResponseInv'
<1>1. /\ kind' = kind /\ client' = client /\ result' = result /\ handled' = handled /\ ~Called
      /\ server.at = "write_body" /\ server'.at = "keep_alive" /\ ~Unanswered'
  BY DEF KeepsOn, OnlyServer
<1>2. Called' = Called /\ Size' = Size /\ Status' = Status /\ HeadWords' = HeadWords
  BY <1>1, SameAnswer
<1>3. HeadOut' = HeadOut /\ Unread' = Unread
  BY <1>1 DEF HeadOut, Unread
<1>4. ServerInv'
  BY <1>1 DEF ServerInv
<1>5. HeadInv'
  <2>1. HeadRead => HeadRead'
    BY <1>1, <1>2 DEF HeadRead
  <2>2. HeadComes(Unread) => HeadComes(Unread)'
    <3>1. Heads(Unread) => Heads(Unread)'
      BY <1>2, <1>3 DEF Heads
    <3> QED
      BY <1>1, <1>2, <1>3, <3>1 DEF HeadComes
  <2> QED
    BY <1>1, <2>1, <2>2 DEF HeadInv, ResponseInv
<1>6. ContentInv'
  BY <1>1, <1>2 DEF ContentInv, ResponseInv
<1>7. ResultInv'
  BY <1>1, ResultFrame DEF ResponseInv
<1> QED
  BY <1>4, <1>5, <1>6, <1>7 DEF ResponseInv

\* What z begins with is read as z is.
Begins(y, z) == Len(y) \in Nat /\ Len(z) \in Nat /\ Len(y) <= Len(z) /\ \A i \in 1..Len(y) : y[i] = z[i]

LEMMA BeginningOfHeads ==
  ASSUME NEW y, NEW z, Begins(y, z), Heads(z)
  PROVE  /\ Heads(y)
         /\ \A at, i : i \in 1..Len(y) /\ EmptyLine(y, at, i) => i \in 1..Len(z) /\ EmptyLine(z, at, i)
<1>1. Len(y) \in Nat /\ Len(z) \in Nat /\ Len(y) <= Len(z) /\ \A i \in 1..Len(y) : y[i] = z[i]
  BY DEF Begins
<1>2. \A i \in 1..Len(y) : y[i] = Crlf => \A j \in 1..i : y[j] \in HeadWords
  <2> SUFFICES ASSUME NEW i \in 1..Len(y), y[i] = Crlf, NEW j \in 1..i PROVE y[j] \in HeadWords
    OBVIOUS
  <2>1. i \in 1..Len(z) /\ j \in 1..Len(y)
    BY <1>1
  <2> QED
    BY <1>1, <2>1 DEF Heads
<1>3. \A i \in 2..Len(y) : y[i] = Crlf /\ y[i - 1] = Crlf =>
        i >= 3 /\ y[i - 2] = Length(Size) /\ (i = 3 \/ y[i - 3] = Crlf)
  <2> SUFFICES ASSUME NEW i \in 2..Len(y), y[i] = Crlf, y[i - 1] = Crlf
               PROVE  i >= 3 /\ y[i - 2] = Length(Size) /\ (i = 3 \/ y[i - 3] = Crlf)
    OBVIOUS
  <2>1. i \in 2..Len(z) /\ i - 1 \in 1..Len(y)
    BY <1>1
  <2>2. i >= 3 /\ z[i - 2] = Length(Size) /\ (i = 3 \/ z[i - 3] = Crlf)
    BY <1>1, <2>1 DEF Heads
  <2>3. i - 2 \in 1..Len(y) /\ (i # 3 => i - 3 \in 1..Len(y))
    BY <1>1, <2>1, <2>2
  <2> QED
    BY <1>1, <2>2, <2>3
<1>4. \A at, i : i \in 1..Len(y) /\ EmptyLine(y, at, i) => i \in 1..Len(z) /\ EmptyLine(z, at, i)
  <2> SUFFICES ASSUME NEW at, NEW i \in 1..Len(y), EmptyLine(y, at, i)
               PROVE  i \in 1..Len(z) /\ EmptyLine(z, at, i)
    OBVIOUS
  <2>1. i \in 1..Len(z) /\ (i >= 2 => i - 1 \in 1..Len(y))
    BY <1>1
  <2> QED
    BY <1>1, <2>1 DEF EmptyLine
<1> QED
  BY <1>2, <1>3, <1>4 DEF Heads

\* What is left of the head that is being written is not sent.
LEMMA HeadCut ==
  ASSUME TypeInv, client' = client, HeadOut' = <<>>
  PROVE  /\ Begins(Unread', Unread) /\ Begins((client.wire \o HeadOut)', client.wire \o HeadOut)
<1>1. PICK line \in Seq(Words), wire \in Seq(Words), h \in Seq(Words) :
        line = client.line /\ wire = client.wire /\ h = HeadOut
  BY UnreadType
<1>2. PICK none \in Seq(Words) : none = <<>> /\ Len(none) = 0
  BY NoWords
<1> DEFINE z == Unread
           y == Unread'
<1>3. Joined(z, line, wire, h) /\ Joined(y, line, wire, none)
  BY <1>1, <1>2 DEF Unread, Joined
<1> HIDE DEF z, y
<1>4. Begins(y, z)
  <2>1. /\ Len(line) + Len(wire) \in Nat /\ Len(z) \in Nat /\ Len(y) \in Nat
        /\ Len(z) = (Len(line) + Len(wire)) + Len(h) /\ Len(y) = (Len(line) + Len(wire)) + Len(none)
        /\ \A i \in 1..Len(line) + Len(wire) : y[i] = z[i]
    BY <1>3, SameBefore
  <2>2. Len(h) \in Nat /\ Len(none) = 0
    BY <1>2
  <2> QED
    BY <2>1, <2>2 DEF Begins
<1>5. Begins(wire \o none, wire \o h)
  <2>1. /\ Len(wire \o none) = Len(wire) + Len(none)
        /\ \A i \in 1..Len(wire) : (wire \o none)[i] = wire[i]
    BY WordsConcat, Zenon
  <2>2. /\ Len(wire \o h) = Len(wire) + Len(h)
        /\ \A i \in 1..Len(wire) : (wire \o h)[i] = wire[i]
    BY WordsConcat, Zenon
  <2>3. Len(h) \in Nat /\ Len(none) = 0 /\ Len(wire) \in Nat
    BY <1>2
  <2> QED
    BY <2>1, <2>2, <2>3 DEF Begins
<1>6. (client.wire \o HeadOut)' = wire \o none /\ client.wire \o HeadOut = wire \o h
  BY <1>1, <1>2
<1> QED
  BY <1>4, <1>5, <1>6 DEF z, y

LEMMA BeginningOfAnswer ==
  ASSUME NEW y, NEW z, Begins(y, z), NEW i \in 0..Len(y), NEW m \in Nat, Size \in Nat, Answers(z, i, m)
  PROVE  m + Len(y) - i <= Size /\ \A j \in 1..Len(y) - i : y[i + j] = Answer[kind][m + j]
<1>1. Len(y) \in Nat /\ Len(z) \in Nat /\ Len(y) <= Len(z) /\ \A r \in 1..Len(y) : y[r] = z[r]
  BY DEF Begins
<1>2. m + Len(z) - i <= Size /\ \A j \in 1..Len(z) - i : z[i + j] = Answer[kind][m + j]
  BY DEF Answers
<1>3. m + Len(y) - i <= Size
  BY <1>1, <1>2
<1>4. \A j \in 1..Len(y) - i : i + j \in 1..Len(y) /\ j \in 1..Len(z) - i
  BY <1>1
<1> QED
  BY <1>1, <1>2, <1>3, <1>4

\* The head that is being written is cut: all that is still read was read before.
LEMMA CutResponse ==
  ASSUME TypeInv, ResponseInv, OnlyServer, server'.at # "write_head", ~Unanswered',
         server'.at = "write_body" => /\ server.at = "write_head"
                                      /\ Called => server'.out = Answer[kind]
  PROVE  HeadInv' /\ ContentInv'
<1>1. kind' = kind /\ client' = client /\ handled' = handled
  BY DEF OnlyServer
<1>2. /\ Called' = Called /\ Size' = Size /\ Status' = Status /\ HeadWords' = HeadWords
      /\ Size \in Nat /\ (Called => Size = Len(Answer[kind]))
  BY <1>1, SameAnswer, SizeType
<1>3. HeadOut' = <<>>
  BY DEF HeadOut
<1> DEFINE y == Unread'
           z == Unread
           v == (client.wire \o HeadOut)'
           w == client.wire \o HeadOut
<1>4. Begins(y, z) /\ Begins(v, w)
  BY <1>1, <1>3, HeadCut
<1>5. ASSUME NEW x, NEW u, Begins(x, u), NEW i \in 0..Len(x), NEW m \in Nat, Answers(u, i, m), Called
      PROVE  /\ m + Len(x) - i <= Size'
             /\ \A j \in 1..Len(x) - i : x[i + j] = Answer[kind'][m + j]
             /\ server'.at = "write_head" => Len(x) = i /\ m = 0
             /\ server'.at = "write_body" => /\ m + Len(x) - i + Len(server'.out) = Size'
                                             /\ \A j \in 1..Len(server'.out) :
                                                  server'.out[j] = Answer[kind'][m + Len(x) - i + j]
  <2>1. m + Len(x) - i <= Size /\ \A j \in 1..Len(x) - i : x[i + j] = Answer[kind][m + j]
    BY <1>2, <1>5, BeginningOfAnswer
  <2>2. ASSUME server'.at = "write_body"
        PROVE  /\ m + Len(x) - i + Len(server'.out) = Size
               /\ \A j \in 1..Len(server'.out) : server'.out[j] = Answer[kind][m + Len(x) - i + j]
    <3>1. server.at = "write_head" /\ server'.out = Answer[kind]
      BY <1>5, <2>2
    <3>2. Len(u) = i /\ m = 0
      BY <1>5, <3>1 DEF Answers
    <3>3. m + Len(x) - i = 0
      BY <1>5, <3>2 DEF Begins
    <3>4. PICK a \in Seq(Words) : a = Answer[kind] /\ Len(a) \in Nat
      BY AnswerType DEF TypeInv
    <3>5. PICK l \in Nat : l = Len(x)
      BY <1>5 DEF Begins
    <3>6. m + l - i = 0
      BY <3>3, <3>5
    <3>7. server'.out = a /\ Size = Len(a)
      BY <1>2, <1>5, <3>1, <3>4
    <3>8. m + l - i + Len(server'.out) = Size
      BY <3>4, <3>6, <3>7
    <3>9. \A j \in 1..Len(server'.out) : server'.out[j] = Answer[kind][m + l - i + j]
      <4> SUFFICES ASSUME NEW j \in 1..Len(a) PROVE a[j] = Answer[kind][m + l - i + j]
        BY <3>7
      <4>1. m + l - i + j = j
        BY <3>4, <3>6
      <4> QED
        BY <3>4, <4>1
    <3> QED
      BY <3>5, <3>8, <3>9
  <2> QED
    BY <1>1, <1>2, <1>5, <2>1, <2>2
<1>6. ASSUME client.at \in HeadAts PROVE HeadRead' /\ HeadComes(Unread)'
  <2>1. HeadRead /\ HeadComes(z)
    BY <1>6 DEF HeadInv, ResponseInv
  <2>2. HeadRead'
    BY <1>1, <1>2, <2>1 DEF HeadRead
  <2> HIDE DEF y, z
  <2>3. /\ Heads(y)
        /\ \A at, i : i \in 1..Len(y) /\ EmptyLine(y, at, i) => i \in 1..Len(z) /\ EmptyLine(z, at, i)
    BY <1>4, <2>1, BeginningOfHeads DEF HeadComes
  <2>4. Len(y) \in Nat /\ Len(z) \in Nat /\ Len(y) <= Len(z) /\ \A r \in 1..Len(y) : y[r] = z[r]
    BY <1>4 DEF Begins
  <2>5. ~Called => \A i \in 1..Len(y) : y[i] \in HeadWords
    BY <2>1, <2>4 DEF HeadComes
  <2>6. client.at = "headers" /\ Len(y) >= 1 /\ y[1] = Crlf => Length(Size) \in client.headers
    <3>1. Len(y) >= 1 => Len(z) >= 1 /\ z[1] = y[1]
      BY <2>4
    <3> QED
      BY <2>1, <3>1 DEF HeadComes
  <2>7. ASSUME Called, NEW i \in 1..Len(y), EmptyLine(y, client.at, i) PROVE Answers(Unread, i, 0)'
    <3>1. Answers(z, i, 0) /\ i \in 0..Len(y) /\ 0 \in Nat
      BY <2>1, <2>3, <2>4, <2>7 DEF HeadComes
    <3>2. /\ 0 + Len(y) - i <= Size'
          /\ \A j \in 1..Len(y) - i : y[i + j] = Answer[kind'][0 + j]
          /\ server'.at = "write_head" => Len(y) = i /\ 0 = 0
          /\ server'.at = "write_body" => /\ 0 + Len(y) - i + Len(server'.out) = Size'
                                          /\ \A j \in 1..Len(server'.out) :
                                               server'.out[j] = Answer[kind'][0 + Len(y) - i + j]
      BY <1>4, <1>5, <2>7, <3>1
    <3> QED
      BY <3>2 DEF Answers, y
  <2>8. Heads(Unread)'
    BY <1>2, <2>3 DEF Heads, y
  <2>9. (client.at = "headers" /\ Len(Unread) >= 1 /\ Unread[1] = Crlf => Length(Size) \in client.headers)'
    <3>1. Length(Size)' = Length(Size)
      BY <1>2 DEF Length, Word
    <3> QED
      BY <1>1, <2>6, <3>1 DEF y
  <2>10. (~Called => \A i \in 1..Len(Unread) : Unread[i] \in HeadWords)'
    BY <1>2, <2>5 DEF y
  <2>11. (Called => \A i \in 1..Len(Unread) : EmptyLine(Unread, client.at, i) => Answers(Unread, i, 0))'
    <3> SUFFICES ASSUME Called, NEW i \in 1..Len(y), EmptyLine(y, client.at, i) PROVE Answers(Unread, i, 0)'
      BY <1>1, <1>2 DEF y, EmptyLine
    <3> QED
      BY <2>7
  <2>12. HeadComes(Unread)'
    BY <2>8, <2>9, <2>10, <2>11 DEF HeadComes
  <2> QED
    BY <2>2, <2>12
<1>7. ASSUME client.at = "content" PROVE ContentInv'
  <2>1. /\ client.status = Status /\ client.left = Size - Len(client.body)
        /\ ~Called => client.body = <<>>
        /\ Called => /\ \A j \in 1..Len(client.body) : client.body[j] = Answer[kind][j]
                     /\ Answers(w, 0, Len(client.body))
    BY <1>7 DEF ContentInv, ResponseInv
  <2>2. Len(client.body) \in Nat
    BY Lengths
  <2> HIDE DEF v, w
  <2>3. ASSUME Called PROVE Answers(client.wire \o HeadOut, 0, Len(client.body))'
    <3>1. PICK m \in Nat : m = Len(client.body)
      BY <2>2
    <3>2. Answers(w, 0, m) /\ 0 \in 0..Len(v)
      BY <1>4, <2>1, <2>3, <3>1 DEF Begins
    <3>3. /\ m + Len(v) - 0 <= Size'
          /\ \A j \in 1..Len(v) - 0 : v[0 + j] = Answer[kind'][m + j]
          /\ server'.at = "write_head" => Len(v) = 0 /\ m = 0
          /\ server'.at = "write_body" => /\ m + Len(v) - 0 + Len(server'.out) = Size'
                                          /\ \A j \in 1..Len(server'.out) :
                                               server'.out[j] = Answer[kind'][m + Len(v) - 0 + j]
      BY <1>4, <1>5, <2>3, <3>2
    <3>4. Len(client.body)' = m
      BY <1>1, <3>1
    <3> QED
      BY <3>3, <3>4 DEF Answers, v
  <2> QED
    BY <1>1, <1>2, <2>1, <2>3 DEF ContentInv
<1>8. HeadInv'
  BY <1>1, <1>6 DEF HeadInv
<1>9. ContentInv'
  BY <1>1, <1>7 DEF ContentInv
<1> QED
  BY <1>8, <1>9

LEMMA StopsResponse ==
  ASSUME TypeInv, ResponseInv, Stops
  PROVE  ResponseInv'
<1>1. /\ OnlyServer /\ server.at # "idle" /\ server'.at # "write_head" /\ server'.at # "write_body"
      /\ server'.at \in {"ended", "suspended"}
  BY DEF Stops
<1>2. ~Unanswered'
  BY <1>1 DEF Unanswered
<1>3. HeadInv' /\ ContentInv'
  BY <1>1, <1>2, CutResponse
<1>4. ServerInv'
  BY <1>1 DEF ServerInv
<1>5. ResultInv'
  BY <1>1, <1>2, ResultFrame DEF ResponseInv, OnlyServer
<1> QED
  BY <1>3, <1>4, <1>5 DEF ResponseInv

LEMMA BodyBeginsResponse ==
  ASSUME TypeInv, ResponseInv, BodyBegins
  PROVE  ResponseInv'
<1>1. /\ OnlyServer /\ server.at = "write_head" /\ server'.at = "write_body"
      /\ server'.out = BodyToWrite /\ kind' = kind /\ handled' = handled
  BY DEF BodyBegins, OnlyServer
<1>2. ~Unanswered' /\ Called' = Called
  BY <1>1, SameAnswer DEF Unanswered
<1>3. HeadInv' /\ ContentInv'
  <2>1. Called => server'.out = Answer[kind]
    BY <1>1 DEF BodyToWrite
  <2> QED
    BY <1>1, <1>2, <2>1, CutResponse
<1>4. ServerInv'
  <2>1. Called => \A i \in 1..Len(server'.out) : server'.out[i] # Crlf
    BY <1>1, AnswerType DEF BodyToWrite, TypeInv
  <2>2. ~Called => server'.out = <<>>
    BY <1>1 DEF BodyToWrite
  <2> QED
    BY <1>2, <2>1, <2>2 DEF ServerInv
<1>5. ResultInv'
  BY <1>1, <1>2, ResultFrame DEF ResponseInv, OnlyServer
<1> QED
  BY <1>3, <1>4, <1>5 DEF ResponseInv

\* The handler has answered, and its answer is the first.
LEMMA HandlesResponse ==
  ASSUME TypeInv, TypeInv', ResponseInv, Handles
  PROVE  ResponseInv'
<1>1. /\ kind' = kind /\ client' = client /\ result' = result /\ result # "Write" /\ ~Called
      /\ server.at \in {"content", "handle"} /\ Unanswered /\ kind \in Kinds
      /\ server'.at = "write_head" /\ server'.out = ResponseHead(200, Answer[kind])
  BY DEF Handles, Unanswered, TypeInv
<1>2. Called' /\ ~Unanswered'
  <2>1. handled' # <<>>
    BY DEF Handles
  <2> QED
    BY <1>1, <2>1 DEF Called, Unanswered
<1>3. ServerInv'
  BY <1>1 DEF ServerInv
<1>4. ResultInv'
  <2>1. result # "response" /\ result \notin ConnectErrors /\ (result # "none" => client.at = "ended")
    BY <1>1 DEF ResponseInv, ResultInv
  <2>2. ResultIsTrue'
    BY <1>1, <2>1 DEF ResultIsTrue
  <2> QED
    BY <1>1, <2>1, <2>2 DEF ResultInv
<1>5. ContentInv'
  BY <1>1 DEF ContentInv, ResponseInv
<1>6. ASSUME client.at \in HeadAts PROVE HeadRead' /\ HeadComes(Unread)'
  <2>1. client.line = <<>> /\ client.wire = <<>> /\ client.at # "headers" /\ client.body = <<>>
        /\ client.headers = {}
    BY <1>1, <1>6 DEF HeadInv, ResponseInv, HeadRead
  <2>2. HeadRead'
    <3>1. \A i \in 1..Len(client'.line) : client'.line[i] \notin {Crlf, Newline}
      BY <1>1, <2>1
    <3> QED
      BY <1>1, <1>2, <2>1, <3>1 DEF HeadRead
  <2> DEFINE y == Unread'
             size == Size'
             status == Status'
             words == HeadWords'
  <2>3. y = ResponseHead(200, Answer[kind])
    <3>1. PICK h \in Seq(Words) : h = HeadOut' /\ h = ResponseHead(200, Answer[kind])
      <4>1. HeadOut' = ResponseHead(200, Answer[kind])
        BY <1>1 DEF HeadOut
      <4>2. PICK ok \in Nat : ok = 200
        OBVIOUS
      <4>3. ResponseHead(ok, Answer[kind]) \in Seq(Words)
        BY <1>1, AnswerType, ResponseHeadType
      <4> QED
        BY <4>1, <4>2, <4>3
    <3>2. PICK none \in Seq(Words) : none = <<>>
      BY NoWords
    <3>3. y = none \o none \o h
      BY <1>1, <2>1, <3>1, <3>2 DEF Unread
    <3>4. none \o none = none /\ none \o h = h
      BY <3>2, NothingBefore
    <3> QED
      BY <3>1, <3>3, <3>4
  <2>4. status = 200 /\ size = Len(Answer[kind]) /\ size \in Nat
    BY <1>1, <1>2, AnswerType DEF Status, Size
  <2>5. words = {Word("HTTP", status), Crlf, Word("Connection", 0), Length(size)}
    BY DEF HeadWords, Word, Crlf, Length
  <2> HIDE DEF y, size, status, words
  <2>6. /\ Len(y) = 7
        /\ y[1] = Word("HTTP", status) /\ y[2] = Crlf /\ y[3] = Word("Connection", 0) /\ y[4] = Crlf
        /\ y[5] = Length(size) /\ y[6] = Crlf /\ y[7] = Crlf
        /\ y[1] # Crlf /\ y[3] # Crlf /\ y[5] # Crlf
    <3>1. PICK ok \in Nat : ok = 200
      OBVIOUS
    <3>2. PICK a \in Seq(Words) : a = Answer[kind]
      BY <1>1, AnswerType
    <3>3. y = ResponseHead(ok, a)
      BY <2>3, <3>1, <3>2
    <3>4. /\ Len(y) = 7
          /\ y[1] = Word("HTTP", ok) /\ y[2] = Crlf /\ y[3] = Word("Connection", 0) /\ y[4] = Crlf
          /\ y[5] = Length(Len(a)) /\ y[6] = Crlf /\ y[7] = Crlf
          /\ y[1] # Crlf /\ y[3] # Crlf /\ y[5] # Crlf
      BY <3>3, HeadShape
    <3> QED
      BY <2>4, <3>1, <3>2, <3>4
  <2>7. \A i \in 1..Len(y) : y[i] \in words
    BY <2>5, <2>6, UpToSeven
  <2>8. \A i \in 2..Len(y) : y[i] = Crlf /\ y[i - 1] = Crlf => i = 7
    <3>1. 2 - 1 = 1 /\ 4 - 1 = 3 /\ 6 - 1 = 5
      OBVIOUS
    <3>2. \A i \in 2..7 : i = 2 \/ i = 3 \/ i = 4 \/ i = 5 \/ i = 6 \/ i = 7
      OBVIOUS
    <3> QED
      BY <2>6, <3>1, <3>2
  <2>9. Heads(Unread)'
    <3>1. \A i \in 1..Len(y) : y[i] = Crlf => \A j \in 1..i : y[j] \in words
      <4>1. \A i \in 1..Len(y) : \A j \in 1..i : j \in 1..Len(y)
        BY <2>6
      <4> QED
        BY <2>7, <4>1
    <3>2. \A i \in 2..Len(y) : y[i] = Crlf /\ y[i - 1] = Crlf =>
             i >= 3 /\ y[i - 2] = Length(size) /\ (i = 3 \/ y[i - 3] = Crlf)
      <4>1. 7 - 2 = 5 /\ 7 - 3 = 4 /\ 7 >= 3
        OBVIOUS
      <4> QED
        BY <2>6, <2>8, <4>1
    <3>3. Length(Size)' = Length(size)
      BY DEF Length, Word, size
    <3> QED
      BY <3>1, <3>2, <3>3 DEF Heads, y, words
  <2>10. ASSUME NEW i \in 1..Len(y), EmptyLine(y, client.at, i) PROVE Answers(Unread, i, 0)'
    <3>1. i = 7
      <4>1. i \in 2..Len(y) /\ y[i] = Crlf /\ y[i - 1] = Crlf
        BY <2>1, <2>6, <2>10 DEF EmptyLine
      <4> QED
        BY <2>8, <4>1
    <3>2. Len(y) = 7 /\ 0 + Len(y) - i <= size /\ \A j \in 1..Len(y) - i : FALSE
      BY <2>4, <2>6, <3>1
    <3> QED
      BY <1>1, <3>1, <3>2 DEF Answers, y, size
  <2>11. (Called => \A i \in 1..Len(Unread) : EmptyLine(Unread, client.at, i) => Answers(Unread, i, 0))'
    <3> SUFFICES ASSUME NEW i \in 1..Len(y), EmptyLine(y, client.at, i) PROVE Answers(Unread, i, 0)'
      BY <1>1 DEF y, EmptyLine
    <3> QED
      BY <2>10
  <2>12. HeadComes(Unread)'
    BY <1>1, <1>2, <2>1, <2>9, <2>11 DEF HeadComes
  <2> QED
    BY <2>2, <2>12
<1>7. HeadInv'
  BY <1>1, <1>6 DEF HeadInv
<1> QED
  BY <1>3, <1>4, <1>5, <1>7 DEF ResponseInv
-----------------------------------------------------------------------------
(* Words of the response are sent *)

\* y is z, and then s.
Longer(y, z, s) ==
  /\ Len(z) \in Nat /\ Len(s) \in Nat /\ Len(y) = Len(z) + Len(s)
  /\ \A i \in 1..Len(z) : y[i] = z[i]
  /\ \A i \in 1..Len(s) : y[Len(z) + i] = s[i]

LEMMA LongerHeads ==
  ASSUME NEW y, NEW z, NEW s, Longer(y, z, s), Heads(z), \A i \in 1..Len(s) : s[i] # Crlf
  PROVE  /\ Heads(y)
         /\ \A i \in 1..Len(y) : y[i] = Crlf => i <= Len(z) /\ z[i] = Crlf
<1>1. /\ Len(z) \in Nat /\ Len(s) \in Nat /\ Len(y) = Len(z) + Len(s)
      /\ \A i \in 1..Len(z) : y[i] = z[i]
      /\ \A i \in 1..Len(s) : y[Len(z) + i] = s[i]
  BY DEF Longer
<1>2. ASSUME NEW i \in 1..Len(y), y[i] = Crlf PROVE i <= Len(z) /\ z[i] = Crlf
  <2>1. CASE i <= Len(z)
    BY <1>1, <1>2, <2>1
  <2>2. CASE i > Len(z)
    <3>1. i - Len(z) \in 1..Len(s) /\ i = Len(z) + (i - Len(z))
      BY <1>1, <1>2, <2>2
    <3> QED
      BY <1>1, <1>2, <3>1
  <2> QED
    BY <1>1, <1>2, <2>1, <2>2
<1>3. \A i \in 1..Len(y) : y[i] = Crlf => \A j \in 1..i : y[j] \in HeadWords
  <2> SUFFICES ASSUME NEW i \in 1..Len(y), y[i] = Crlf, NEW j \in 1..i PROVE y[j] \in HeadWords
    OBVIOUS
  <2>1. i \in 1..Len(z) /\ z[i] = Crlf /\ j \in 1..Len(z)
    BY <1>1, <1>2
  <2> QED
    BY <1>1, <2>1 DEF Heads
<1>4. \A i \in 2..Len(y) : y[i] = Crlf /\ y[i - 1] = Crlf =>
        i >= 3 /\ y[i - 2] = Length(Size) /\ (i = 3 \/ y[i - 3] = Crlf)
  <2> SUFFICES ASSUME NEW i \in 2..Len(y), y[i] = Crlf, y[i - 1] = Crlf
               PROVE  i >= 3 /\ y[i - 2] = Length(Size) /\ (i = 3 \/ y[i - 3] = Crlf)
    OBVIOUS
  <2>1. i \in 2..Len(z) /\ z[i] = Crlf /\ i - 1 \in 1..Len(z)
    <3>1. i \in 1..Len(y)
      BY <1>1
    <3> QED
      BY <1>1, <1>2, <3>1
  <2>2. i >= 3 /\ z[i - 2] = Length(Size) /\ (i = 3 \/ z[i - 3] = Crlf)
    BY <1>1, <2>1 DEF Heads
  <2>3. i - 2 \in 1..Len(z) /\ (i # 3 => i - 3 \in 1..Len(z))
    BY <1>1, <2>1, <2>2
  <2> QED
    BY <1>1, <2>2, <2>3
<1> QED
  BY <1>2, <1>3, <1>4 DEF Heads

LEMMA LongerAnswer ==
  ASSUME NEW y, NEW z, NEW s, NEW r, Longer(y, z, s), Longer(server.out, s, r),
         NEW i \in 0..Len(z), NEW m \in Nat, Size \in Nat, server.at = "write_body",
         Answers(z, i, m)
  PROVE  /\ m + Len(y) - i <= Size
         /\ \A j \in 1..Len(y) - i : y[i + j] = Answer[kind][m + j]
         /\ m + Len(y) - i + Len(r) = Size
         /\ \A j \in 1..Len(r) : r[j] = Answer[kind][m + Len(y) - i + j]
<1>7. PICK out : out = server.out
  OBVIOUS
<1>1. /\ Len(z) \in Nat /\ Len(s) \in Nat /\ Len(y) = Len(z) + Len(s)
      /\ \A j \in 1..Len(z) : y[j] = z[j]
      /\ \A j \in 1..Len(s) : y[Len(z) + j] = s[j]
  BY DEF Longer
<1>2. /\ Len(r) \in Nat /\ Len(out) = Len(s) + Len(r)
      /\ \A j \in 1..Len(s) : out[j] = s[j]
      /\ \A j \in 1..Len(r) : out[Len(s) + j] = r[j]
  BY <1>7 DEF Longer
<1>3. /\ \A j \in 1..Len(z) - i : z[i + j] = Answer[kind][m + j]
      /\ m + Len(z) - i + Len(out) = Size
      /\ \A j \in 1..Len(out) : out[j] = Answer[kind][m + Len(z) - i + j]
  BY <1>7 DEF Answers
<1>4. m + Len(y) - i <= Size /\ m + Len(y) - i + Len(r) = Size
  BY <1>1, <1>2, <1>3
<1>5. ASSUME NEW j \in 1..Len(y) - i PROVE y[i + j] = Answer[kind][m + j]
  <2>1. CASE i + j <= Len(z)
    <3>1. j \in 1..Len(z) - i /\ i + j \in 1..Len(z)
      BY <1>1, <1>5, <2>1
    <3> QED
      BY <1>1, <1>3, <3>1
  <2>2. CASE i + j > Len(z)
    <3>1. PICK k \in 1..Len(s) : i + j = Len(z) + k
      <4>1. i + j - Len(z) \in 1..Len(s) /\ i + j = Len(z) + (i + j - Len(z))
        BY <1>1, <1>5, <2>2
      <4> QED
        BY <4>1
    <3>2. y[i + j] = s[k] /\ s[k] = out[k] /\ k \in 1..Len(out)
      BY <1>1, <1>2, <3>1
    <3>3. m + Len(z) - i + k = m + j
      <4>1. PICK l \in Nat : l = Len(z)
        BY <1>1
      <4>2. PICK n \in Nat : n = k /\ i + j = l + n
        BY <1>1, <3>1, <4>1
      <4>3. PICK h \in Nat : h = i
        BY <1>1
      <4>4. PICK o \in Nat : o = j
        BY <1>1, <1>5
      <4>5. m + l - h + n = m + o
        BY <4>2, <4>3, <4>4
      <4> QED
        BY <4>1, <4>2, <4>3, <4>4, <4>5
    <3>4. out[k] = Answer[kind][m + Len(z) - i + k]
      BY <1>3, <3>2
    <3> QED
      BY <3>2, <3>3, <3>4
  <2> QED
    BY <1>1, <1>5, <2>1, <2>2
<1>6. ASSUME NEW j \in 1..Len(r) PROVE r[j] = Answer[kind][m + Len(y) - i + j]
  <2>1. Len(s) + j \in 1..Len(out) /\ m + Len(z) - i + (Len(s) + j) = m + Len(y) - i + j
    BY <1>1, <1>2
  <2>2. out[Len(s) + j] = Answer[kind][m + Len(z) - i + (Len(s) + j)]
    BY <1>3, <2>1
  <2> QED
    BY <1>2, <2>1, <2>2
<1> QED
  BY <1>4, <1>5, <1>6

\* A client that has closed, or does not read yet, has no response to make anything of.
LEMMA NothingToRead ==
  ASSUME ResponseInv, kind' = kind, handled' = handled, result' = result,
         client'.at = client.at, client'.status = client.status, client'.body = client.body,
         client.at \notin HeadAts \cup {"content"}, ServerInv',
         Unanswered' => Unanswered, server.at = "idle" => server'.at = "idle"
  PROVE  ResponseInv'
<1>1. HeadInv' /\ ContentInv'
  BY DEF HeadInv, ContentInv, HeadAts
<1>2. ResultInv'
  BY ResultFrame DEF ResponseInv
<1> QED
  BY <1>1, <1>2 DEF ResponseInv

LEMMA SentOn ==
  ASSUME NEW b \in Seq(Words), NEW c \in Seq(Words), NEW s \in Seq(Words), NEW r \in Seq(Words),
         Longer(c, s, r)
  PROVE  (b \o s) \o r = b \o c
<1>1. s \o r = c
  <2>1. PICK q \in Seq(Words) : q = s \o r
    BY WordsConcat, Zenon
  <2>2. /\ Len(q) = Len(s) + Len(r)
        /\ \A i \in 1..Len(s) : q[i] = s[i]
        /\ \A i \in 1..Len(r) : q[Len(s) + i] = r[i]
    <3>1. /\ Len(s \o r) = Len(s) + Len(r)
          /\ \A i \in 1..Len(s) : (s \o r)[i] = s[i]
          /\ \A i \in 1..Len(r) : (s \o r)[Len(s) + i] = r[i]
      BY WordsConcat, Zenon
    <3> QED
      BY <2>1, <3>1
  <2>3. /\ Len(s) \in Nat /\ Len(r) \in Nat /\ Len(c) = Len(s) + Len(r)
        /\ \A i \in 1..Len(s) : c[i] = s[i]
        /\ \A i \in 1..Len(r) : c[Len(s) + i] = r[i]
    BY DEF Longer
  <2>4. ASSUME NEW i \in 1..Len(q) PROVE q[i] = c[i]
    <3>1. CASE i <= Len(s)
      BY <2>2, <2>3, <2>4, <3>1
    <3>2. CASE i > Len(s)
      <4>1. i - Len(s) \in 1..Len(r) /\ i = Len(s) + (i - Len(s))
        BY <2>2, <2>3, <2>4, <3>2
      <4> QED
        BY <2>2, <2>3, <4>1
    <3> QED
      BY <2>2, <2>3, <2>4, <3>1, <3>2
  <2>5. Len(q) = Len(c)
    BY <2>2, <2>3
  <2>6. q = c
    BY <2>4, <2>5, SameWords
  <2> QED
    BY <2>1, <2>6
<1>2. (b \o s) \o r = b \o (s \o r)
  BY Associative, Zenon
<1> QED
  BY <1>1, <1>2, Zenon

IsEmpty(ws) == Len(ws) = 0

LEMMA LongerJoined ==
  ASSUME NEW a \in Seq(Words), NEW b \in Seq(Words), NEW c \in Seq(Words), NEW d \in Seq(Words),
         NEW s \in Seq(Words), NEW z, NEW y, Joined(z, a, b, d), Joined(y, a, c, d), IsEmpty(d),
         Longer(c, b, s)
  PROVE  Longer(y, z, s)
<1>1. /\ Len(z) = Len(a) + Len(b) + Len(d) /\ Len(a) \in Nat /\ Len(b) \in Nat /\ Len(z) \in Nat
      /\ \A i \in 1..Len(a) : z[i] = a[i]
      /\ \A i \in 1..Len(b) : z[Len(a) + i] = b[i]
  <2>1. Joined(z, a, b, d)
    OBVIOUS
  <2> QED
    BY <2>1, ThreeParts
<1>2. /\ Len(y) = Len(a) + Len(c) + Len(d)
      /\ \A i \in 1..Len(a) : y[i] = a[i]
      /\ \A i \in 1..Len(c) : y[Len(a) + i] = c[i]
  <2>1. Joined(y, a, c, d)
    OBVIOUS
  <2> QED
    BY <2>1, ThreeParts
<1>3. /\ Len(s) \in Nat /\ Len(c) = Len(b) + Len(s)
      /\ \A i \in 1..Len(b) : c[i] = b[i]
      /\ \A i \in 1..Len(s) : c[Len(b) + i] = s[i]
  BY DEF Longer
<1>4. Len(z) = Len(a) + Len(b) /\ Len(y) = Len(z) + Len(s)
  BY <1>1, <1>2, <1>3 DEF IsEmpty
<1>5. ASSUME NEW i \in 1..Len(z) PROVE y[i] = z[i]
  <2>1. CASE i <= Len(a)
    BY <1>1, <1>2, <1>5, <2>1
  <2>2. CASE i > Len(a)
    <3>1. PICK j \in 1..Len(b) : i = Len(a) + j
      <4>1. i - Len(a) \in 1..Len(b) /\ i = Len(a) + (i - Len(a))
        BY <1>1, <1>4, <1>5, <2>2
      <4> QED
        BY <4>1
    <3>2. j \in 1..Len(c)
      BY <1>1, <1>3
    <3> QED
      BY <1>1, <1>2, <1>3, <3>1, <3>2
  <2> QED
    BY <1>1, <1>5, <2>1, <2>2
<1>6. ASSUME NEW i \in 1..Len(s) PROVE y[Len(z) + i] = s[i]
  <2>1. PICK n \in Nat : n = i /\ n >= 1 /\ n <= Len(s)
    BY <1>3, <1>6
  <2>3. Len(b) + n \in 1..Len(c)
    <3>1. PICK l \in Nat : l = Len(b)
      BY <1>1
    <3>2. PICK m \in Nat : m = Len(s)
      BY <1>3
    <3>3. Len(c) = l + m
      BY <1>3, <3>1, <3>2
    <3>4. l + n \in 1..l + m
      BY <2>1, <3>2
    <3> QED
      BY <3>1, <3>3, <3>4
  <2>4. Len(z) + n = Len(a) + (Len(b) + n)
    <3>1. PICK k \in Nat, l \in Nat : k = Len(a) /\ l = Len(b)
      BY <1>1
    <3>2. Len(z) = k + l
      BY <1>4, <3>1
    <3> QED
      BY <3>1, <3>2
  <2>5. y[Len(a) + (Len(b) + n)] = c[Len(b) + n]
    BY <1>2, <2>3
  <2>6. c[Len(b) + n] = s[n]
    BY <1>3, <2>1
  <2> QED
    BY <2>1, <2>4, <2>5, <2>6
<1> QED
  BY <1>1, <1>3, <1>4, <1>5, <1>6 DEF Longer

\* What is sent, and what is left.
LEMMA TwoParts ==
  ASSUME NEW c \in Seq(Words), NEW n \in 1..Len(c)
  PROVE  \E s, r \in Seq(Words) : /\ s = SubSeq(c, 1, n) /\ r = Rest1(c, n) /\ Longer(c, s, r)
                                  /\ Len(c) \in Nat /\ Len(s) = n /\ Len(r) = Len(c) - n
                                  /\ \A i \in 1..Len(s) : s[i] = c[i]
                                  /\ \A i \in 1..Len(r) : r[i] = c[n + i]
<1>1. n \in 0..Len(c) /\ Len(c) \in Nat
  OBVIOUS
<1>2. PICK s \in Seq(Words) : s = SubSeq(c, 1, n) /\ Len(s) = n /\ \A i \in 1..n : s[i] = c[i]
  BY <1>1, FirstShape
<1>3. PICK r \in Seq(Words) : r = Rest1(c, n) /\ Len(r) = Len(c) - n
                            /\ \A i \in 1..Len(c) - n : r[i] = c[n + i]
  BY <1>1, RestShape
<1>4. Len(s) = n /\ Len(r) = Len(c) - n /\ (\A i \in 1..Len(s) : s[i] = c[i])
      /\ \A i \in 1..Len(r) : r[i] = c[n + i]
  BY <1>2, <1>3
<1>5. Longer(c, s, r)
  BY <1>1, <1>4 DEF Longer
<1>6. s = SubSeq(c, 1, n) /\ r = Rest1(c, n)
  BY <1>2, <1>3
<1> QED
  BY <1>1, <1>4, <1>5, <1>6, Zenon

LEMMA SendsHeadResponse ==
  ASSUME TypeInv, ResponseInv, Sends, server.at = "write_head", client.open
  PROVE  HeadInv' /\ ContentInv'
<1>1. /\ kind' = kind /\ handled' = handled /\ server'.at = "write_head"
      /\ client'.at = client.at /\ client'.line = client.line /\ client'.status = client.status
      /\ client'.headers = client.headers /\ client'.body = client.body /\ client'.left = client.left
  BY DEF Sends, SameButWire
<1>2. /\ Called' = Called /\ Size' = Size /\ Status' = Status /\ HeadWords' = HeadWords
      /\ ~Unanswered' /\ Length(Size)' = Length(Size)
  BY <1>1, SameAnswer DEF Unanswered, Length, Word
<1>3. PICK line \in Seq(Words), wire \in Seq(Words), out \in Seq(Words) :
        line = client.line /\ wire = client.wire /\ out = server.out
  BY UnreadType
<1>4. PICK n \in 1..Len(out) : server'.out = Rest1(out, n) /\ client'.wire = wire \o SubSeq(out, 1, n)
  BY <1>3 DEF Sends
<1>5. PICK s \in Seq(Words), r \in Seq(Words) : /\ s = SubSeq(out, 1, n) /\ r = Rest1(out, n) /\ Longer(out, s, r)
                                                /\ Len(out) \in Nat /\ Len(s) = n /\ Len(r) = Len(out) - n
                                                /\ \A i \in 1..Len(s) : s[i] = out[i]
                                                /\ \A i \in 1..Len(r) : r[i] = out[n + i]
  BY TwoParts, Zenon
<1>6. HeadOut = out /\ HeadOut' = r /\ client'.wire = wire \o s
  BY <1>1, <1>3, <1>4, <1>5 DEF HeadOut
<1>7. (wire \o s) \o r = wire \o out
  <2>1. Longer(out, s, r)
    BY <1>5
  <2> QED
    BY SMTT(40), <2>1, SentOn
<1>8. Unread' = Unread
  <2>1. Unread = line \o wire \o out /\ Unread' = line \o (wire \o s) \o r
    BY <1>1, <1>3, <1>6 DEF Unread
  <2>2. (line \o wire) \o out = line \o (wire \o out)
    BY Associative
  <2>3. PICK ws \in Seq(Words) : ws = wire \o s
    BY WordsConcat, Zenon
  <2>4. (line \o ws) \o r = line \o (ws \o r)
    BY ZenonT(40), Associative
  <2> QED
    BY <1>7, <2>1, <2>2, <2>3, <2>4, Zenon
<1>9. (client.wire \o HeadOut)' = client.wire \o HeadOut
  BY <1>3, <1>6, <1>7
<1>10. ASSUME NEW x, NEW i, NEW m, Answers(x, i, m)
       PROVE  /\ m + Len(x) - i <= Size'
              /\ \A j \in 1..Len(x) - i : x[i + j] = Answer[kind'][m + j]
              /\ server'.at = "write_head" => Len(x) = i /\ m = 0
              /\ server'.at # "write_body"
  BY <1>1, <1>2, <1>10 DEF Answers
<1>11. ASSUME client.at \in HeadAts PROVE HeadRead' /\ HeadComes(Unread)'
  <2>1. HeadRead /\ HeadComes(Unread)
    BY <1>11 DEF HeadInv, ResponseInv
  <2>2. HeadRead'
    BY <1>1, <1>2, <2>1 DEF HeadRead
  <2>3. PICK z : z = Unread
    OBVIOUS
  <2>4. Heads(Unread)'
    BY <1>2, <1>8, <2>1 DEF Heads, HeadComes
  <2>5. (Called => \A i \in 1..Len(Unread) : EmptyLine(Unread, client.at, i) => Answers(Unread, i, 0))'
    <3> SUFFICES ASSUME Called, NEW i \in 1..Len(z), EmptyLine(z, client.at, i) PROVE Answers(Unread, i, 0)'
      BY <1>1, <1>2, <1>8, <2>3 DEF EmptyLine
    <3>1. Answers(z, i, 0)
      BY <2>1, <2>3 DEF HeadComes
    <3>2. /\ 0 + Len(z) - i <= Size'
          /\ \A j \in 1..Len(z) - i : z[i + j] = Answer[kind'][0 + j]
          /\ server'.at = "write_head" => Len(z) = i /\ 0 = 0
          /\ server'.at # "write_body"
      BY <1>10, <3>1
    <3> QED
      BY <1>8, <2>3, <3>2 DEF Answers
  <2> QED
    BY <1>1, <1>2, <1>8, <2>1, <2>2, <2>4, <2>5 DEF HeadComes
<1>12. ASSUME client.at = "content" PROVE ContentInv'
  <2>1. /\ client.status = Status /\ client.left = Size - Len(client.body)
        /\ ~Called => client.body = <<>>
        /\ Called => /\ \A j \in 1..Len(client.body) : client.body[j] = Answer[kind][j]
                     /\ Answers(client.wire \o HeadOut, 0, Len(client.body))
    BY <1>12 DEF ContentInv, ResponseInv
  <2>2. ASSUME Called PROVE Answers(client.wire \o HeadOut, 0, Len(client.body))'
    <3>1. PICK w, m : w = client.wire \o HeadOut /\ m = Len(client.body)
      OBVIOUS
    <3>2. Answers(w, 0, m)
      BY <2>1, <2>2, <3>1
    <3>3. /\ m + Len(w) - 0 <= Size'
          /\ \A j \in 1..Len(w) - 0 : w[0 + j] = Answer[kind'][m + j]
          /\ server'.at = "write_head" => Len(w) = 0 /\ m = 0
          /\ server'.at # "write_body"
      BY <1>10, <3>2
    <3> QED
      BY <1>1, <1>9, <3>1, <3>3 DEF Answers
  <2> QED
    BY <1>1, <1>2, <2>1, <2>2 DEF ContentInv
<1>13. HeadInv'
  BY <1>1, <1>11 DEF HeadInv
<1>14. ContentInv'
  BY <1>1, <1>12 DEF ContentInv
<1> QED
  BY <1>13, <1>14

LEMMA SendsBodyResponse ==
  ASSUME TypeInv, ResponseInv, Sends, server.at = "write_body", client.open
  PROVE  HeadInv' /\ ContentInv'
<1>1. /\ kind' = kind /\ handled' = handled /\ server'.at = "write_body"
      /\ client'.at = client.at /\ client'.line = client.line /\ client'.status = client.status
      /\ client'.headers = client.headers /\ client'.body = client.body /\ client'.left = client.left
  BY DEF Sends, SameButWire
<1>2. /\ Called' = Called /\ Size' = Size /\ Status' = Status /\ HeadWords' = HeadWords
      /\ ~Unanswered' /\ Length(Size)' = Length(Size) /\ Size \in Nat
  BY <1>1, SameAnswer, SizeType DEF Unanswered, Length, Word
<1>3. PICK line \in Seq(Words), wire \in Seq(Words), out \in Seq(Words) :
        line = client.line /\ wire = client.wire /\ out = server.out
  BY UnreadType
<1>4. PICK n \in 1..Len(out) : server'.out = Rest1(out, n) /\ client'.wire = wire \o SubSeq(out, 1, n)
  BY <1>3 DEF Sends
<1>5. PICK s \in Seq(Words), r \in Seq(Words) : /\ s = SubSeq(out, 1, n) /\ r = Rest1(out, n) /\ Longer(out, s, r)
                                                /\ Len(out) \in Nat /\ Len(s) = n /\ Len(r) = Len(out) - n
                                                /\ \A i \in 1..Len(s) : s[i] = out[i]
                                                /\ \A i \in 1..Len(r) : r[i] = out[n + i]
  BY TwoParts, Zenon
<1>7. Longer(out, s, r)
  BY <1>5
<1>8. Called /\ \A i \in 1..Len(s) : s[i] # Crlf
  <2>1. IF Called THEN \A i \in 1..Len(out) : out[i] # Crlf ELSE out = <<>>
    BY <1>3 DEF ResponseInv, ServerInv
  <2>2. out # <<>>
    OBVIOUS
  <2>3. \A i \in 1..Len(s) : s[i] = out[i] /\ i \in 1..Len(out)
    <3>1. Len(out) \in Nat /\ Len(s) = n /\ \A i \in 1..Len(s) : s[i] = out[i]
      BY <1>5
    <3> QED
      BY <3>1
  <2> QED
    BY <2>1, <2>2, <2>3
<1>9. PICK none \in Seq(Words) : none = <<>> /\ Len(none) = 0
  BY NoWords
<1>10. HeadOut = none /\ HeadOut' = none /\ client'.wire = wire \o s
  BY <1>1, <1>4, <1>5, <1>9 DEF HeadOut
<1>11. PICK ws \in Seq(Words) : ws = wire \o s
  BY WordsConcat, Zenon
<1>12. Longer(ws, wire, s)
  <2>1. /\ Len(wire \o s) = Len(wire) + Len(s)
        /\ \A i \in 1..Len(wire) : (wire \o s)[i] = wire[i]
        /\ \A i \in 1..Len(s) : (wire \o s)[Len(wire) + i] = s[i]
    BY WordsConcat, Zenon
  <2> QED
    BY <1>11, <2>1 DEF Longer
<1>13. wire \o none = wire /\ ws \o none = ws
  BY <1>9
<1> DEFINE z == Unread
           y == Unread'
<1>14. Joined(z, line, wire, none) /\ Joined(y, line, ws, none)
  BY <1>1, <1>3, <1>10, <1>11 DEF Unread, Joined
<1> HIDE DEF z, y
<1>15. Longer(y, z, s)
  <2>1. IsEmpty(none)
    BY <1>9 DEF IsEmpty
  <2> QED
    BY <1>12, <1>14, <2>1, LongerJoined
<1>16. ASSUME client.at \in HeadAts PROVE HeadRead' /\ HeadComes(Unread)'
  <2>1. HeadRead /\ HeadComes(z)
    BY <1>16 DEF HeadInv, ResponseInv, z
  <2>2. HeadRead'
    BY <1>1, <1>2, <2>1 DEF HeadRead
  <2>3. /\ Heads(y)
        /\ \A i \in 1..Len(y) : y[i] = Crlf => i <= Len(z) /\ z[i] = Crlf
    BY <1>8, <1>15, <2>1, LongerHeads DEF HeadComes
  <2>4. Heads(Unread)'
    BY <1>2, <2>3 DEF Heads, y
  <2>5. Len(z) \in Nat /\ Len(y) \in Nat
    BY <1>15 DEF Longer
  <2>6. client.at = "headers" /\ Len(y) >= 1 /\ y[1] = Crlf => Length(Size) \in client.headers
    <3>1. Len(y) >= 1 /\ y[1] = Crlf => Len(z) >= 1 /\ z[1] = Crlf
      BY <2>3, <2>5
    <3> QED
      BY <2>1, <3>1 DEF HeadComes
  <2>7. (Called => \A i \in 1..Len(Unread) : EmptyLine(Unread, client.at, i) => Answers(Unread, i, 0))'
    <3> SUFFICES ASSUME NEW i \in 1..Len(y), EmptyLine(y, client.at, i) PROVE Answers(Unread, i, 0)'
      BY <1>1, <1>2 DEF EmptyLine, y
    <3>1. i \in 1..Len(z) /\ EmptyLine(z, client.at, i) /\ i \in 0..Len(z)
      <4>1. y[i] = Crlf /\ ((i = 1 /\ client.at = "headers") \/ (i >= 2 /\ y[i - 1] = Crlf))
        BY DEF EmptyLine
      <4>2. i <= Len(z) /\ z[i] = Crlf
        BY <2>3, <4>1
      <4>3. i >= 2 /\ y[i - 1] = Crlf => z[i - 1] = Crlf
        BY <2>3, <2>5
      <4> QED
        BY <2>5, <4>1, <4>2, <4>3 DEF EmptyLine
    <3>2. PICK zero \in Nat : Answers(z, i, zero) /\ zero = 0
      BY <1>8, <2>1, <3>1 DEF HeadComes
    <3>3. server.out = out
      BY <1>3
    <3>4. /\ 0 + Len(y) - i <= Size
          /\ \A j \in 1..Len(y) - i : y[i + j] = Answer[kind][0 + j]
          /\ 0 + Len(y) - i + Len(r) = Size
          /\ \A j \in 1..Len(r) : r[j] = Answer[kind][0 + Len(y) - i + j]
      <4>1. /\ Longer(y, z, s) /\ Longer(server.out, s, r) /\ i \in 0..Len(z) /\ Size \in Nat
            /\ server.at = "write_body" /\ Answers(z, i, zero)
        BY <1>2, <1>7, <1>15, <3>1, <3>2, <3>3
      <4>2. zero + Len(y) - i <= Size
        BY <4>1, LongerAnswer
      <4>3. \A j \in 1..Len(y) - i : y[i + j] = Answer[kind][zero + j]
        BY <4>1, LongerAnswer
      <4>4. zero + Len(y) - i + Len(r) = Size
        BY <4>1, LongerAnswer
      <4>5. \A j \in 1..Len(r) : r[j] = Answer[kind][zero + Len(y) - i + j]
        BY <4>1, LongerAnswer
      <4> QED
        BY <3>2, <4>2, <4>3, <4>4, <4>5
    <3>5. server'.out = r
      BY <1>4, <1>5
    <3> QED
      BY <1>1, <1>2, <3>4, <3>5 DEF Answers, y
  <2>8. (client.at = "headers" /\ Len(Unread) >= 1 /\ Unread[1] = Crlf => Length(Size) \in client.headers)'
    BY <1>1, <1>2, <2>6 DEF y
  <2> QED
    BY <1>2, <1>8, <2>2, <2>4, <2>7, <2>8 DEF HeadComes
<1>17. ASSUME client.at = "content" PROVE ContentInv'
  <2>1. /\ client.status = Status /\ client.left = Size - Len(client.body)
        /\ \A j \in 1..Len(client.body) : client.body[j] = Answer[kind][j]
        /\ Answers(client.wire \o HeadOut, 0, Len(client.body))
    BY <1>8, <1>17 DEF ContentInv, ResponseInv
  <2>2. PICK m \in Nat : m = Len(client.body)
    BY Lengths
  <2>3. Answers(wire, 0, m) /\ 0 \in 0..Len(wire)
    <3>1. Len(wire) \in Nat
      OBVIOUS
    <3>2. client.wire \o HeadOut = wire
      BY <1>3, <1>10, <1>13
    <3> QED
      BY <2>1, <2>2, <3>1, <3>2
  <2>4. server.out = out
    BY <1>3
  <2>5. /\ m + Len(ws) - 0 <= Size
        /\ \A j \in 1..Len(ws) - 0 : ws[0 + j] = Answer[kind][m + j]
        /\ m + Len(ws) - 0 + Len(r) = Size
        /\ \A j \in 1..Len(r) : r[j] = Answer[kind][m + Len(ws) - 0 + j]
    <3>1. /\ Longer(ws, wire, s) /\ Longer(server.out, s, r) /\ 0 \in 0..Len(wire) /\ Size \in Nat
          /\ server.at = "write_body" /\ Answers(wire, 0, m)
      BY <1>2, <1>7, <1>12, <2>3, <2>4
    <3>2. m + Len(ws) - 0 <= Size
      BY <3>1, LongerAnswer
    <3>3. \A j \in 1..Len(ws) - 0 : ws[0 + j] = Answer[kind][m + j]
      BY <3>1, LongerAnswer
    <3>4. m + Len(ws) - 0 + Len(r) = Size
      BY <3>1, LongerAnswer
    <3>5. \A j \in 1..Len(r) : r[j] = Answer[kind][m + Len(ws) - 0 + j]
      BY <3>1, LongerAnswer
    <3> QED
      BY <3>2, <3>3, <3>4, <3>5
  <2>6. server'.out = r
    BY <1>4, <1>5
  <2>7. (client.wire \o HeadOut)' = ws /\ Len(client.body)' = m
    BY <1>1, <1>10, <1>11, <1>13, <2>2
  <2>8. Answers(client.wire \o HeadOut, 0, Len(client.body))'
    BY <1>1, <1>2, <2>5, <2>6, <2>7 DEF Answers
  <2> QED
    BY <1>1, <1>2, <1>8, <2>1, <2>8 DEF ContentInv
<1>18. HeadInv'
  BY <1>1, <1>16 DEF HeadInv
<1>19. ContentInv'
  BY <1>1, <1>17 DEF ContentInv
<1> QED
  BY <1>18, <1>19

LEMMA SendsResponse ==
  ASSUME TypeInv, ResponseInv, Sends
  PROVE  ResponseInv'
<1>1. /\ kind' = kind /\ handled' = handled /\ result' = result
      /\ server.at \in {"write_head", "write_body"} /\ server'.at = server.at
      /\ client'.at = client.at /\ client'.status = client.status /\ client'.body = client.body
      /\ client.at \in ClientAts /\ OpenAsItShould(client)
  BY SidesNamed DEF Sends, SameButWire
<1>2. Called' = Called /\ ~Unanswered'
  BY <1>1, SameAnswer DEF Unanswered
<1>3. ServerInv'
  <2> SUFFICES ASSUME server.at = "write_body"
               PROVE  IF Called THEN \A i \in 1..Len(server'.out) : server'.out[i] # Crlf ELSE server'.out = <<>>
    BY <1>1, <1>2 DEF ServerInv
  <2>1. PICK out \in Seq(Words) : out = server.out
    BY UnreadType
  <2>2. PICK n \in 1..Len(out) : server'.out = Rest1(out, n)
    BY <2>1 DEF Sends
  <2>3. Called /\ \A i \in 1..Len(out) : out[i] # Crlf
    <3>1. out # <<>>
      BY <2>2
    <3> QED
      BY <2>1, <3>1 DEF ServerInv, ResponseInv
  <2>4. n \in 0..Len(out) /\ Len(out) \in Nat
    OBVIOUS
  <2>5. Len(Rest1(out, n)) = Len(out) - n /\ \A i \in 1..Len(out) - n : Rest1(out, n)[i] = out[n + i]
    BY <2>4, RestShape
  <2>6. \A i \in 1..Len(out) - n : n + i \in 1..Len(out)
    BY <2>4
  <2> QED
    BY <2>2, <2>3, <2>5, <2>6
<1>4. CASE ~client.open
  <2>1. client.at \notin HeadAts \cup {"content"}
    BY <1>1, <1>4 DEF OpenAsItShould, HeadAts
  <2> QED
    BY <1>1, <1>2, <1>3, <2>1, NothingToRead
<1>5. CASE client.open
  <2>1. HeadInv' /\ ContentInv'
    BY <1>1, <1>5, SendsHeadResponse, SendsBodyResponse
  <2>2. ResultInv'
    BY <1>1, <1>2, ResultFrame DEF ResponseInv
  <2> QED
    BY <1>3, <2>1, <2>2 DEF ResponseInv
<1> QED
  BY <1>4, <1>5
-----------------------------------------------------------------------------
(* The client's steps, and the response *)

LEMMA ConnectsResponse ==
  ASSUME Connects
  PROVE  ResponseInv'
<1>1. /\ kind' = kind /\ handled' = handled /\ result' = "none" /\ ~Called
      /\ client'.at = "write_head" /\ client'.line = <<>> /\ client'.wire = <<>>
      /\ client'.headers = {} /\ client'.body = <<>> /\ server'.at = "keep_alive" /\ Unanswered'
  BY DEF Connects
<1>2. ~Called'
  BY <1>1 DEF Called
<1>3. PICK none \in Seq(Words) : none = <<>>
  BY NoWords
<1>4. Unread' = none /\ Len(none) = 0
  <2>1. Unread' = none \o none \o none
    BY <1>1, <1>3 DEF Unread, HeadOut
  <2>2. none \o none = none
    BY <1>3, NothingBefore
  <2> QED
    BY <1>3, <2>1, <2>2
<1>5. HeadRead'
  <2>1. \A i \in 1..Len(client'.line) : client'.line[i] \notin {Crlf, Newline}
    BY <1>1
  <2> QED
    BY <1>1, <2>1 DEF HeadRead
<1>6. HeadComes(Unread)'
  <2>1. Heads(Unread)'
    BY <1>4 DEF Heads
  <2> QED
    BY <1>1, <1>2, <1>4, <2>1 DEF HeadComes
<1>7. HeadInv' /\ ContentInv' /\ ServerInv'
  BY <1>1, <1>5, <1>6 DEF HeadInv, ContentInv, ServerInv
<1>8. ResultInv'
  BY <1>1 DEF ResultInv, ResultIsTrue, ConnectErrors
<1> QED
  BY <1>7, <1>8 DEF ResponseInv

\* The client's call returns, or its process ends or is suspended.
LEMMA LeavesFrame ==
  ASSUME ResponseInv, Leaves
  PROVE  /\ HeadInv' /\ ContentInv' /\ ServerInv' /\ Unanswered' = Unanswered
         /\ kind' = kind /\ handled' = handled /\ server' = server
<1>1. /\ kind' = kind /\ server' = server /\ handled' = handled /\ count' = count
      /\ client'.at \in {"ended", "suspended"}
  BY DEF Leaves, OnlyClient
<1>2. HeadInv' /\ ContentInv'
  BY <1>1 DEF HeadInv, ContentInv, HeadAts
<1>3. ServerInv'
  BY <1>1, SameAnswer DEF ServerInv, ResponseInv
<1>4. Unanswered' = Unanswered
  BY <1>1 DEF Unanswered
<1> QED
  BY <1>1, <1>2, <1>3, <1>4

LEMMA DiesResponse ==
  ASSUME ResponseInv, Leaves, result' = result, client.at # "ended"
  PROVE  ResponseInv'
<1>1. result' = "none"
  BY DEF ResponseInv, ResultInv
<1>2. ResultInv'
  BY <1>1 DEF ResultInv, ResultIsTrue, ConnectErrors
<1> QED
  BY <1>2, LeavesFrame DEF ResponseInv

LEMMA FailsToReadResponse ==
  ASSUME ResponseInv, FailsToRead
  PROVE  ResponseInv'
<1>1. Leaves /\ result' = "Read" /\ client'.at = "ended"
  BY DEF FailsToRead
<1>2. ResultInv'
  BY <1>1 DEF ResultInv, ResultIsTrue, ConnectErrors
<1> QED
  BY <1>1, <1>2, LeavesFrame DEF ResponseInv

LEMMA FailsToWriteResponse ==
  ASSUME ResponseInv, Leaves, result' = "Write", client'.at = "ended", ~Called
  PROVE  ResponseInv'
<1>1. handled' = <<>>
  BY LeavesFrame DEF Called
<1>2. ResultInv'
  BY <1>1 DEF ResultInv, ResultIsTrue, ConnectErrors
<1> QED
  BY <1>2, LeavesFrame DEF ResponseInv

LEMMA FindsNobodyResponse ==
  ASSUME ResponseInv, Leaves, result' \in ConnectErrors, client'.at = "ended", ~Called, server.at = "idle"
  PROVE  ResponseInv'
<1>1. handled' = <<>> /\ server'.at = "idle"
  BY LeavesFrame DEF Called
<1>2. ResultInv'
  BY <1>1 DEF ResultInv, ResultIsTrue, ConnectErrors
<1> QED
  BY <1>2, LeavesFrame DEF ResponseInv

\* The client's call returns the whole answer, or an error of a request that was refused.
LEMMA ReturnsResponse ==
  ASSUME TypeInv, HandledInv, ResponseInv, Returns
  PROVE  ResponseInv'
<1>1. /\ Leaves /\ client.at = "content" /\ client.left = 0 /\ client'.at = "ended"
      /\ result' = "response" /\ client'.status = client.status /\ client'.body = client.body
  BY DEF Returns
<1>2. /\ kind' = kind /\ handled' = handled /\ server' = server /\ Unanswered' = Unanswered
  BY <1>1, LeavesFrame
<1>3. /\ ~Unanswered /\ client.status = Status /\ client.left = Size - Len(client.body)
      /\ ~Called => client.body = <<>>
      /\ Called => \A j \in 1..Len(client.body) : client.body[j] = Answer[kind][j]
  BY <1>1 DEF ContentInv, ResponseInv
<1>4. CASE Called
  <2>1. client.status = 200 /\ Size = Len(Answer[kind]) /\ Size \in Nat
    BY <1>3, <1>4, SizeType
  <2>2. PICK b \in Seq(Words) : b = client.body
    BY SidesNamed DEF Ends
  <2>3. PICK a \in Seq(Words) : a = Answer[kind]
    BY AnswerType DEF TypeInv
  <2>4. Len(b) = Len(a)
    <3>1. Len(b) \in Nat /\ Len(a) \in Nat
      OBVIOUS
    <3>2. PICK left \in Int : left = client.left
      BY <1>1
    <3>3. left = 0 /\ left = Len(a) - Len(b)
      BY <1>1, <1>3, <2>1, <2>2, <2>3, <3>2
    <3> QED
      BY <3>1, <3>3
  <2>5. \A j \in 1..Len(b) : b[j] = a[j]
    BY <1>3, <1>4, <2>2, <2>3
  <2>6. b = a
    BY <2>4, <2>5, SameWords
  <2>7. client'.status = 200 /\ client'.body = Answer[kind] /\ handled = <<Body(kind)>>
    BY <1>1, <1>4, <2>1, <2>2, <2>3, <2>6 DEF HandledInv, HandledWhole, Called
  <2>8. ResultIsTrue'
    <3>1. /\ end'["client"].status = 200 /\ handled' = <<Body(kind)>>
          /\ end'["client"].body = Answer[kind] /\ Body(kind)' = Body(kind)
      BY <1>2, <2>7 DEF client, Body
    <3> QED
      BY <1>1, <1>2, <3>1 DEF ResultIsTrue, ConnectErrors
  <2> QED
    BY <1>1, <1>2, <1>3, <2>8, LeavesFrame DEF ResponseInv, ResultInv, ConnectErrors
<1>5. CASE ~Called
  <2>1. client.status = 400 /\ client.body = <<>> /\ handled = <<>>
    BY <1>3, <1>5, SizeType DEF Called
  <2>2. ResultIsTrue'
    BY <1>1, <1>2, <2>1 DEF ResultIsTrue, ConnectErrors, client
  <2> QED
    BY <1>1, <1>2, <1>3, <2>2, LeavesFrame DEF ResponseInv, ResultInv, ConnectErrors
<1> QED
  BY <1>4, <1>5

\* The client writes: of the response nothing changes.
LEMMA WritingResponse ==
  ASSUME TypeInv, ResponseInv, kind' = kind, handled' = handled, result' = result, count' = count,
         server'.at = server.at, server'.out = server.out, client'.line = client.line,
         client'.wire = client.wire, client'.status = client.status, client'.headers = client.headers,
         client'.body = client.body, client'.at = "content" => client'.left = client.left,
         \/ client'.at = client.at
         \/ client.at \in {"write_head", "write_body"} /\ client'.at \in {"write_body", "first_line"}
  PROVE  ResponseInv'
<1>1. /\ Called' = Called /\ Size' = Size /\ Status' = Status /\ HeadWords' = HeadWords
      /\ Unanswered' = Unanswered /\ Length(Size)' = Length(Size)
  BY SameAnswer DEF Unanswered, Length, Word
<1>2. HeadOut' = HeadOut /\ Unread' = Unread
  BY DEF HeadOut, Unread
<1>3. ServerInv'
  BY <1>1 DEF ServerInv, ResponseInv
<1>5. HeadInv'
  <2> SUFFICES ASSUME client'.at \in HeadAts PROVE HeadRead' /\ HeadComes(Unread)'
    BY DEF HeadInv
  <2>1. HeadRead /\ HeadComes(Unread) /\ (client'.at = "headers" <=> client.at = "headers")
    BY DEF HeadInv, ResponseInv, HeadAts
  <2>2. HeadRead'
    BY <1>1, <2>1 DEF HeadRead
  <2>3. Heads(Unread)'
    BY <1>1, <1>2, <2>1 DEF Heads, HeadComes
  <2>4. PICK z : z = Unread
    OBVIOUS
  <2>5. \A i : EmptyLine(z, client'.at, i) => EmptyLine(z, client.at, i)
    BY <2>1 DEF EmptyLine
  <2>6. (Called => \A i \in 1..Len(Unread) : EmptyLine(Unread, client.at, i) => Answers(Unread, i, 0))'
    <3> SUFFICES ASSUME Called, NEW i \in 1..Len(z), EmptyLine(z, client'.at, i) PROVE Answers(Unread, i, 0)'
      BY <1>1, <1>2, <2>4 DEF EmptyLine
    <3>1. Answers(z, i, 0)
      BY <2>1, <2>4, <2>5 DEF HeadComes
    <3>2. /\ 0 + Len(z) - i <= Size'
          /\ \A j \in 1..Len(z) - i : z[i + j] = Answer[kind'][0 + j]
          /\ server'.at = "write_head" => Len(z) = i /\ 0 = 0
          /\ server'.at = "write_body" =>
               /\ 0 + Len(z) - i + Len(server'.out) = Size'
               /\ \A j \in 1..Len(server'.out) : server'.out[j] = Answer[kind'][0 + Len(z) - i + j]
      BY <1>1, <3>1 DEF Answers
    <3>3. Unread' = z
      BY <1>2, <2>4
    <3> QED
      BY <3>2, <3>3 DEF Answers
  <2> QED
    BY <1>1, <1>2, <2>1, <2>2, <2>3, <2>6 DEF HeadComes
<1>6. ContentInv'
  <2> SUFFICES ASSUME client'.at = "content" PROVE ContentInv'
    BY DEF ContentInv
  <2>1. client.at = "content"
    OBVIOUS
  <2>2. Called => Answers(client.wire \o HeadOut, 0, Len(client.body))'
    <3> SUFFICES ASSUME Called PROVE Answers(client.wire \o HeadOut, 0, Len(client.body))'
      OBVIOUS
    <3>1. PICK w, m : w = client.wire \o HeadOut /\ m = Len(client.body)
      OBVIOUS
    <3>2. Answers(w, 0, m)
      BY <2>1, <3>1 DEF ContentInv, ResponseInv
    <3>3. (client.wire \o HeadOut)' = w /\ Len(client.body)' = m
      BY <1>2, <3>1
    <3>4. /\ m + Len(w) - 0 <= Size'
          /\ \A j \in 1..Len(w) - 0 : w[0 + j] = Answer[kind'][m + j]
          /\ server'.at = "write_head" => Len(w) = 0 /\ m = 0
          /\ server'.at = "write_body" =>
               /\ m + Len(w) - 0 + Len(server'.out) = Size'
               /\ \A j \in 1..Len(server'.out) : server'.out[j] = Answer[kind'][m + Len(w) - 0 + j]
      BY <1>1, <3>2 DEF Answers
    <3> QED
      BY <3>3, <3>4 DEF Answers
  <2> QED
    BY <1>1, <2>1, <2>2 DEF ContentInv, ResponseInv
<1>7. ResultInv'
  <2>1. CASE client'.at = client.at
    BY <1>1, <2>1, ResultFrame DEF ResponseInv
  <2>2. CASE client.at \in {"write_head", "write_body"}
    <3>1. result' = "none"
      BY <2>2 DEF ResponseInv, ResultInv
    <3> QED
      BY <3>1 DEF ResultInv, ResultIsTrue, ConnectErrors
  <2> QED
    BY <2>1, <2>2
<1> QED
  BY <1>3, <1>5, <1>6, <1>7 DEF ResponseInv

\* The first k words of z are made of, and y is left.
Shift(y, z, k) ==
  /\ k \in Nat /\ k >= 1 /\ Len(z) \in Nat /\ Len(y) \in Nat /\ Len(z) = k + Len(y)
  /\ \A i \in 1..Len(y) : y[i] = z[k + i]

LEMMA ShiftHeads ==
  ASSUME TypeInv, NEW y, NEW z, NEW k, Shift(y, z, k), Heads(z), z[k] = Crlf
  PROVE  /\ Heads(y)
         /\ \A at : \A i \in 1..Len(y) : EmptyLine(y, "headers", i) => k + i \in 1..Len(z) /\ EmptyLine(z, at, k + i)
         /\ Len(y) >= 1 /\ y[1] = Crlf => k >= 2 /\ z[k - 1] = Length(Size) /\ (k = 2 \/ z[k - 2] = Crlf)
<1>1. /\ k \in Nat /\ k >= 1 /\ Len(z) \in Nat /\ Len(y) \in Nat /\ Len(z) = k + Len(y)
      /\ \A i \in 1..Len(y) : y[i] = z[k + i]
  BY DEF Shift
<1>2. /\ \A i \in 1..Len(z) : z[i] = Crlf => \A j \in 1..i : z[j] \in HeadWords
      /\ \A i \in 2..Len(z) : z[i] = Crlf /\ z[i - 1] = Crlf =>
           i >= 3 /\ z[i - 2] = Length(Size) /\ (i = 3 \/ z[i - 3] = Crlf)
  BY DEF Heads
<1>3. Length(Size) # Crlf
  BY HeadNames
<1>4. \A i \in 1..Len(y) : y[i] = Crlf => \A j \in 1..i : y[j] \in HeadWords
  <2> SUFFICES ASSUME NEW i \in 1..Len(y), y[i] = Crlf, NEW j \in 1..i PROVE y[j] \in HeadWords
    OBVIOUS
  <2>1. k + i \in 1..Len(z) /\ k + j \in 1..k + i /\ j \in 1..Len(y)
    BY <1>1
  <2> QED
    BY <1>1, <1>2, <2>1
<1>5. ASSUME NEW i \in 2..Len(y), y[i] = Crlf, y[i - 1] = Crlf
      PROVE  i >= 3 /\ y[i - 2] = Length(Size) /\ (i = 3 \/ y[i - 3] = Crlf)
  <2>1. /\ k + i \in 2..Len(z) /\ i - 1 \in 1..Len(y) /\ k + (i - 1) = k + i - 1
        /\ k + i # 3 \/ i = 2
    BY <1>1, <1>5
  <2>2. z[k + i] = Crlf /\ z[k + i - 1] = Crlf
    <3>1. z[k + i] = Crlf
      BY <1>1, <1>5
    <3>2. z[k + (i - 1)] = Crlf
      BY <1>1, <1>5, <2>1
    <3> QED
      BY <2>1, <3>1, <3>2
  <2>3. z[k + i - 2] = Length(Size) /\ (k + i = 3 \/ z[k + i - 3] = Crlf)
    <3>1. PICK p \in 2..Len(z) : p = k + i
      BY <2>1
    <3>2. z[p] = Crlf /\ z[p - 1] = Crlf
      BY <1>1, <2>2, <3>1
    <3>3. z[p - 2] = Length(Size) /\ (p = 3 \/ z[p - 3] = Crlf)
      BY <1>1, <3>2 DEF Heads
    <3> QED
      BY <1>1, <3>1, <3>3
  <2>4. i # 2
    <3>1. i = 2 => k + i - 2 = k
      BY <1>1, <1>5
    <3> QED
      BY <1>3, <2>3, <3>1
  <2>5. /\ i >= 3 /\ i - 2 \in 1..Len(y) /\ k + (i - 2) = k + i - 2
        /\ i # 3 => i - 3 \in 1..Len(y) /\ k + (i - 3) = k + i - 3
    BY <1>1, <1>5, <2>4
  <2>6. y[i - 2] = Length(Size)
    BY <1>1, <2>3, <2>5
  <2>7. i # 3 => y[i - 3] = Crlf
    BY <1>1, <2>1, <2>3, <2>4, <2>5
  <2> QED
    BY <2>5, <2>6, <2>7
<1>6. ASSUME NEW at, NEW i \in 1..Len(y), EmptyLine(y, "headers", i)
      PROVE  k + i \in 1..Len(z) /\ EmptyLine(z, at, k + i)
  <2>1. k + i \in 1..Len(z) /\ k + i >= 2 /\ (i >= 2 => i - 1 \in 1..Len(y) /\ k + (i - 1) = k + i - 1)
        /\ (i = 1 => k + i - 1 = k) /\ (i = 1 \/ i >= 2)
    BY <1>1, <1>6
  <2>2. z[k + i] = Crlf
    BY <1>1, <1>6 DEF EmptyLine
  <2>3. z[k + i - 1] = Crlf
    <3>1. CASE i = 1
      BY <2>1, <3>1
    <3>2. CASE i >= 2
      <4>1. y[i - 1] = Crlf
        BY <1>6, <3>2 DEF EmptyLine
      <4> QED
        BY <1>1, <2>1, <3>2, <4>1
    <3> QED
      BY <2>1, <3>1, <3>2
  <2>4. PICK p \in 1..Len(z) : p = k + i /\ p >= 2
    BY <2>1
  <2>5. EmptyLine(z, at, p)
    BY <1>1, <2>2, <2>3, <2>4 DEF EmptyLine
  <2> QED
    BY <2>1, <2>4, <2>5
<1>7. ASSUME Len(y) >= 1, y[1] = Crlf
      PROVE  k >= 2 /\ z[k - 1] = Length(Size) /\ (k = 2 \/ z[k - 2] = Crlf)
  <2>1. PICK h \in Nat : h = k /\ h >= 1 /\ h + 1 \in 2..Len(z)
    BY <1>1, <1>7
  <2>2. z[h + 1] = Crlf /\ z[h] = Crlf
    BY <1>1, <1>7, <2>1
  <2>3. PICK p \in 2..Len(z) : p = h + 1
    BY <2>1
  <2>4. z[p] = Crlf /\ z[p - 1] = Crlf
    BY <2>2, <2>3
  <2>5. p >= 3 /\ z[p - 2] = Length(Size) /\ (p = 3 \/ z[p - 3] = Crlf)
    BY <1>1, <2>4 DEF Heads
  <2>6. h >= 2 /\ z[h - 1] = Length(Size) /\ (h = 2 \/ z[h - 2] = Crlf)
    BY <2>3, <2>5
  <2> QED
    BY <2>1, <2>6
<1> QED
  BY <1>4, <1>5, <1>6, <1>7 DEF Heads

LEMMA ShiftAnswer ==
  ASSUME NEW y, NEW z, NEW k, Shift(y, z, k), NEW i \in 0..Len(y), NEW m \in Nat, Answers(z, k + i, m)
  PROVE  Answers(y, i, m)
<1>1. /\ k \in Nat /\ Len(z) \in Nat /\ Len(y) \in Nat /\ Len(z) = k + Len(y)
      /\ \A j \in 1..Len(y) : y[j] = z[k + j]
  BY DEF Shift
<1>2. m + Len(z) - (k + i) = m + Len(y) - i /\ Len(z) - (k + i) = Len(y) - i
  <2>1. PICK l \in Nat, h \in Nat : l = Len(y) /\ h = i
    BY <1>1
  <2>2. m + (k + l) - (k + h) = m + l - h /\ (k + l) - (k + h) = l - h
    BY <1>1, <2>1
  <2> QED
    BY <1>1, <2>1, <2>2
<1>3. m + Len(y) - i <= Size
  BY <1>2 DEF Answers
<1>4. ASSUME NEW j \in 1..Len(y) - i PROVE y[i + j] = Answer[kind][m + j]
  <2>1. i + j \in 1..Len(y) /\ (k + i) + j = k + (i + j)
    BY <1>1, <1>4
  <2>2. z[(k + i) + j] = Answer[kind][m + j]
    BY <1>2, <1>4 DEF Answers
  <2> QED
    BY <1>1, <2>1, <2>2
<1>5. server.at = "write_head" => Len(y) = i /\ m = 0
  <2>1. server.at = "write_head" => Len(z) = k + i /\ m = 0
    BY DEF Answers
  <2>2. Len(z) = k + i => Len(y) = i
    BY <1>1
  <2> QED
    BY <2>1, <2>2
<1>6. server.at = "write_body" => /\ m + Len(y) - i + Len(server.out) = Size
                                  /\ \A j \in 1..Len(server.out) :
                                       server.out[j] = Answer[kind][m + Len(y) - i + j]
  BY <1>2 DEF Answers
<1> QED
  BY <1>3, <1>4, <1>5, <1>6 DEF Answers

\* A line is read up to its end.
LEMMA HeadLineRead ==
  ASSUME TypeInv, OnlyClient, NEW k, Shift(Unread', Unread, k), HeadComes(Unread), Unread[k] = Crlf,
         client'.at = "headers", k = 2 /\ Unread[1] = Length(Size) => Length(Size) \in client'.headers,
         k > 2 => Unread[k - 2] # Crlf
  PROVE  HeadComes(Unread)'
<1>1. /\ kind' = kind /\ server' = server /\ handled' = handled
      /\ Called' = Called /\ Size' = Size /\ HeadWords' = HeadWords /\ Length(Size)' = Length(Size)
  BY SameAnswer DEF OnlyClient, Length, Word
<1>2. PICK z : z = Unread
  OBVIOUS
<1>3. PICK y : y = Unread'
  OBVIOUS
<1>4. Shift(y, z, k) /\ HeadComes(z) /\ z[k] = Crlf /\ Heads(z)
  BY <1>2, <1>3 DEF HeadComes
<1>5. /\ Heads(y)
      /\ \A at : \A i \in 1..Len(y) : EmptyLine(y, "headers", i) => k + i \in 1..Len(z) /\ EmptyLine(z, at, k + i)
      /\ Len(y) >= 1 /\ y[1] = Crlf => k >= 2 /\ z[k - 1] = Length(Size) /\ (k = 2 \/ z[k - 2] = Crlf)
  BY <1>4, ShiftHeads
<1>6. /\ k \in Nat /\ k >= 1 /\ Len(z) \in Nat /\ Len(y) \in Nat /\ Len(z) = k + Len(y)
      /\ \A i \in 1..Len(y) : y[i] = z[k + i]
  BY <1>4 DEF Shift
<1>7. Heads(Unread)'
  BY <1>1, <1>3, <1>5 DEF Heads
<1>8. (~Called => \A i \in 1..Len(Unread) : Unread[i] \in HeadWords)'
  <2>1. ~Called => \A i \in 1..Len(y) : y[i] \in HeadWords
    <3>1. \A i \in 1..Len(y) : k + i \in 1..Len(z)
      BY <1>6
    <3> QED
      BY <1>4, <1>6, <3>1 DEF HeadComes
  <2> QED
    BY <1>1, <1>3, <2>1
<1>9. (client.at = "headers" /\ Len(Unread) >= 1 /\ Unread[1] = Crlf => Length(Size) \in client.headers)'
  <2> SUFFICES ASSUME Len(y) >= 1, y[1] = Crlf PROVE Length(Size) \in client'.headers
    BY <1>1, <1>3
  <2>1. k >= 2 /\ z[k - 1] = Length(Size) /\ (k = 2 \/ z[k - 2] = Crlf)
    BY <1>5
  <2>2. k = 2
    BY <1>2, <1>6, <2>1
  <2>3. k - 1 = 1
    BY <2>2
  <2> QED
    BY <1>2, <2>1, <2>2, <2>3
<1>10. (Called => \A i \in 1..Len(Unread) : EmptyLine(Unread, client.at, i) => Answers(Unread, i, 0))'
  <2> SUFFICES ASSUME Called, NEW i \in 1..Len(y), EmptyLine(y, "headers", i) PROVE Answers(Unread, i, 0)'
    BY <1>1, <1>3 DEF EmptyLine
  <2>1. k + i \in 1..Len(z) /\ EmptyLine(z, client.at, k + i) /\ i \in 0..Len(y)
    BY <1>5, <1>6
  <2>2. PICK none \in Nat : none = 0 /\ Answers(z, k + i, none)
    BY <1>4, <2>1 DEF HeadComes
  <2>3. Answers(y, i, none)
    BY <1>4, <2>1, <2>2, ShiftAnswer
  <2>4. Answers(y, i, 0)
    BY <2>2, <2>3
  <2>5. /\ 0 + Len(y) - i <= Size'
        /\ \A j \in 1..Len(y) - i : y[i + j] = Answer[kind'][0 + j]
        /\ server'.at = "write_head" => Len(y) = i /\ 0 = 0
        /\ server'.at = "write_body" =>
              /\ 0 + Len(y) - i + Len(server'.out) = Size'
              /\ \A j \in 1..Len(server'.out) : server'.out[j] = Answer[kind'][0 + Len(y) - i + j]
    BY <1>1, <2>4 DEF Answers
  <2> QED
    BY <1>3, <2>5 DEF Answers
<1> QED
  BY <1>7, <1>8, <1>9, <1>10 DEF HeadComes

\* A word of a line.
LEMMA ReadsWordResponse ==
  ASSUME TypeInv, ResponseInv, ReadsWord, Readable("client"), client.at \in {"first_line", "headers"}
  PROVE  ResponseInv'
<1>1. /\ OnlyClient /\ kind' = kind /\ server' = server /\ handled' = handled /\ count' = count
      /\ result' = result /\ client' = Begun("client") /\ client.wire[1] \notin {Crlf, Newline}
  BY DEF ReadsWord, OnlyClient
<1>2. /\ Called' = Called /\ Size' = Size /\ Status' = Status /\ HeadWords' = HeadWords
      /\ Unanswered' = Unanswered /\ HeadOut' = HeadOut /\ Length(Size)' = Length(Size)
  BY <1>1, SameAnswer DEF Unanswered, HeadOut, Length, Word
<1>3. /\ client'.at = client.at /\ client'.headers = client.headers /\ client'.body = client.body
      /\ client'.status = client.status /\ client'.wire = Rest1(client.wire, 1)
      /\ client'.line = Append(client.line, client.wire[1])
      /\ client.wire # <<>> /\ client.wire[1] \in Words /\ Len(client.wire) >= 1
  BY <1>1, BegunFields DEF client, Sides, Readable
<1>4. HeadRead /\ HeadComes(Unread)
  BY DEF ResponseInv, HeadInv, HeadAts
<1>5. PICK line \in Seq(Words), wire \in Seq(Words), h \in Seq(Words) :
        line = client.line /\ wire = client.wire /\ h = HeadOut
  BY UnreadType
<1>6. PICK x \in Words : x = wire[1]
  BY <1>3, <1>5
<1>7. PICK e \in Seq(Words) : /\ e = Append(line, x) /\ Len(e) = Len(line) + 1 /\ e[Len(line) + 1] = x
                              /\ \A i \in 1..Len(line) : e[i] = line[i]
  BY AppendShape
<1>8. 1 \in 0..Len(wire) /\ Len(wire) \in Nat
  BY <1>3, <1>5
<1>9. PICK r \in Seq(Words) : /\ r = Rest1(wire, 1) /\ Len(r) = Len(wire) - 1
                              /\ \A i \in 1..Len(wire) - 1 : r[i] = wire[1 + i]
  BY <1>8, RestShape
<1>10. Unread' = Unread
  <2> DEFINE z == Unread
             y == Unread'
  <2>1. Joined(z, line, wire, h)
    BY <1>5, UnreadType
  <2>2. Joined(y, e, r, h)
    BY <1>2, <1>3, <1>5, <1>6, <1>7, <1>9 DEF Unread, Joined
  <2> HIDE DEF z, y
  <2>3. Len(e) = Len(line) + 1 /\ e[Len(line) + 1] = wire[1] /\ \A i \in 1..Len(line) : e[i] = line[i]
    BY <1>6, <1>7
  <2>4. Len(wire) = Len(r) + 1 /\ \A i \in 1..Len(r) : r[i] = wire[1 + i]
    BY <1>8, <1>9
  <2>5. y = z
    BY <2>1, <2>2, <2>3, <2>4, JoinedWord
  <2> QED
    BY <2>5 DEF y, z
<1>11. ~Unanswered
  BY <1>3, <1>4 DEF HeadRead
<1>12. HeadRead'
  <2>1. \A i \in 1..Len(client'.line) : client'.line[i] \notin {Crlf, Newline}
    <3>1. \A i \in 1..Len(e) : e[i] \notin {Crlf, Newline}
      <4> SUFFICES ASSUME NEW i \in 1..Len(e) PROVE e[i] \notin {Crlf, Newline}
        OBVIOUS
      <4>1. i = Len(line) + 1 \/ i \in 1..Len(line)
        BY <1>7
      <4>2. x \notin {Crlf, Newline}
        BY <1>1, <1>5, <1>6
      <4>3. \A j \in 1..Len(line) : line[j] \notin {Crlf, Newline}
        BY <1>4, <1>5 DEF HeadRead
      <4> QED
        BY <1>7, <4>1, <4>2, <4>3
    <3>2. client'.line = e
      BY <1>3, <1>5, <1>6, <1>7
    <3> QED
      BY <3>1, <3>2
  <2> QED
    BY <1>2, <1>3, <1>4, <1>11, <2>1 DEF HeadRead
<1>13. HeadComes(Unread)'
  <2>1. Heads(Unread)'
    BY <1>2, <1>4, <1>10 DEF Heads, HeadComes
  <2>2. (Called => \A i \in 1..Len(Unread) : EmptyLine(Unread, client.at, i) => Answers(Unread, i, 0))'
    <3>1. PICK z : z = Unread /\ z = Unread'
      BY <1>10
    <3> SUFFICES ASSUME Called, NEW i \in 1..Len(z), EmptyLine(z, client.at, i) PROVE Answers(Unread, i, 0)'
      BY <1>2, <1>3, <3>1 DEF EmptyLine
    <3>2. PICK none : none = 0 /\ Answers(z, i, none)
      BY <1>4, <3>1 DEF HeadComes
    <3>3. /\ none + Len(z) - i <= Size'
          /\ \A j \in 1..Len(z) - i : z[i + j] = Answer[kind'][none + j]
          /\ server'.at = "write_head" => Len(z) = i /\ none = 0
          /\ server'.at = "write_body" =>
              /\ none + Len(z) - i + Len(server'.out) = Size'
              /\ \A j \in 1..Len(server'.out) : server'.out[j] = Answer[kind'][none + Len(z) - i + j]
      BY <1>1, <1>2, <3>2 DEF Answers
    <3> QED
      BY <3>1, <3>2, <3>3 DEF Answers
  <2> QED
    BY <1>2, <1>3, <1>4, <1>10, <2>1, <2>2 DEF HeadComes
<1>14. HeadInv' /\ ContentInv'
  BY <1>3, <1>12, <1>13 DEF HeadInv, ContentInv
<1>15. ServerInv'
  BY <1>1, <1>2 DEF ServerInv, ResponseInv
<1>16. ResultInv'
  <2>1. result = "none"
    BY DEF ResponseInv, ResultInv
  <2> QED
    BY <1>1, <2>1 DEF ResultInv, ResultIsTrue, ConnectErrors
<1> QED
  BY <1>14, <1>15, <1>16 DEF ResponseInv

\* What the client has of a line that ends with the word it reads.
LEMMA LineEnd ==
  ASSUME TypeInv, Readable("client"), OnlyClient, client'.line = <<>>,
         client'.wire = Begun("client").wire
  PROVE  \E k \in Nat :
           /\ k >= 1 /\ Shift(Unread', Unread, k) /\ Len(client.line) = k - 1
           /\ Unread[k] = client.wire[1] /\ \A i \in 1..k - 1 : Unread[i] = client.line[i]
           /\ Len(Begun("client").line) = k /\ Begun("client").line[k] = client.wire[1]
           /\ \A i \in 1..k - 1 : Begun("client").line[i] = client.line[i]
<1>1. server' = server /\ HeadOut' = HeadOut
  BY DEF OnlyClient, HeadOut
<1>2. /\ client'.wire = Rest1(client.wire, 1)
      /\ Begun("client").line = Append(client.line, client.wire[1])
      /\ client.wire # <<>> /\ client.wire[1] \in Words /\ Len(client.wire) >= 1
  BY BegunFields DEF client, Sides, Readable
<1>3. PICK line \in Seq(Words), wire \in Seq(Words), h \in Seq(Words) :
        line = client.line /\ wire = client.wire /\ h = HeadOut
  BY UnreadType
<1>4. PICK x \in Words : x = wire[1]
  BY <1>2, <1>3
<1>5. PICK e \in Seq(Words) : /\ e = Append(line, x) /\ Len(e) = Len(line) + 1 /\ e[Len(line) + 1] = x
                              /\ Len(line) \in Nat /\ \A i \in 1..Len(line) : e[i] = line[i]
  BY AppendShape
<1>6. 1 \in 0..Len(wire) /\ Len(wire) \in Nat /\ wire # <<>>
  BY <1>2, <1>3
<1>7. PICK r \in Seq(Words) : r = Rest1(wire, 1)
  BY <1>6, RestShape
<1> DEFINE z == Unread
           y == Unread'
<1>8. Joined(z, line, wire, h)
  BY <1>3, UnreadType
<1>9. Joined(y, <<>>, r, h)
  BY <1>1, <1>2, <1>3, <1>7 DEF Unread, Joined
<1>10. Begun("client").line = e
  BY <1>2, <1>3, <1>4, <1>5
<1> HIDE DEF z, y
<1>11. /\ Len(line) + 1 \in Nat /\ Len(z) \in Nat /\ Len(line) + 1 <= Len(z)
       /\ Len(y) = Len(z) - (Len(line) + 1)
       /\ z[Len(line) + 1] = wire[1] /\ \A i \in 1..Len(line) : z[i] = line[i]
       /\ \A i \in 1..Len(y) : y[i] = z[(Len(line) + 1) + i]
  <2>1. wire # <<>> /\ r = Rest1(wire, 1)
    BY <1>6, <1>7
  <2> QED
    BY <1>8, <1>9, <2>1, JoinedLine
<1>12. PICK k \in Nat : k = Len(line) + 1
  BY <1>5
<1>13. k >= 1 /\ k - 1 = Len(line)
  BY <1>5, <1>12
<1>14. Shift(y, z, k)
  <2>1. Len(z) \in Nat /\ Len(y) \in Nat /\ Len(z) = k + Len(y)
    BY <1>11, <1>12
  <2>2. \A i \in 1..Len(y) : y[i] = z[k + i]
    BY <1>11, <1>12
  <2> QED
    BY <1>13, <2>1, <2>2 DEF Shift
<1>15. /\ Len(client.line) = k - 1
       /\ z[k] = client.wire[1] /\ \A i \in 1..k - 1 : z[i] = client.line[i]
  BY <1>3, <1>11, <1>12, <1>13
<1>16. /\ Len(e) = k /\ e[k] = client.wire[1]
       /\ \A i \in 1..k - 1 : e[i] = client.line[i]
  BY <1>3, <1>4, <1>5, <1>12, <1>13
<1> QED
  BY <1>10, <1>13, <1>14, <1>15, <1>16 DEF y, z

LEMMA ReadingFrame ==
  ASSUME ResponseInv, OnlyClient, result' = result, client.at # "ended"
  PROVE  /\ ServerInv' /\ ResultInv'
         /\ Called' = Called /\ Size' = Size /\ Status' = Status /\ HeadWords' = HeadWords
         /\ Unanswered' = Unanswered /\ HeadOut' = HeadOut /\ Length(Size)' = Length(Size)
<1>1. kind' = kind /\ server' = server /\ handled' = handled /\ count' = count
  BY DEF OnlyClient
<1>2. /\ Called' = Called /\ Size' = Size /\ Status' = Status /\ HeadWords' = HeadWords
      /\ Unanswered' = Unanswered /\ HeadOut' = HeadOut /\ Length(Size)' = Length(Size)
  BY <1>1, SameAnswer DEF Unanswered, HeadOut, Length, Word
<1>3. ServerInv'
  BY <1>1, <1>2 DEF ServerInv, ResponseInv
<1>4. ResultInv'
  <2>1. result = "none"
    BY DEF ResponseInv, ResultInv
  <2> QED
    BY <2>1 DEF ResultInv, ResultIsTrue, ConnectErrors
<1> QED
  BY <1>2, <1>3, <1>4

\* What the client is left with when it has read a line of a head.
LEMMA LineIsRead ==
  ASSUME TypeInv, ResponseInv, OnlyClient, result' = result, client.at \in {"first_line", "headers"},
         ~Unanswered, client'.at = "headers", client'.line = <<>>, client'.body = client.body,
         client'.status = Status, HeadComes(Unread)',
         \A h \in client'.headers : h.name = "Content-Length" => h = Length(Size)
  PROVE  ResponseInv'
<1>1. HeadRead
  BY DEF ResponseInv, HeadInv, HeadAts
<1>2. /\ ServerInv' /\ ResultInv' /\ Size' = Size /\ Status' = Status /\ Unanswered' = Unanswered
      /\ Length(Size)' = Length(Size)
  BY ReadingFrame
<1>3. HeadRead'
  <2>1. \A i \in 1..Len(client'.line) : client'.line[i] \notin {Crlf, Newline}
    OBVIOUS
  <2> QED
    BY <1>1, <1>2, <2>1 DEF HeadRead
<1>4. HeadInv' /\ ContentInv'
  BY <1>3 DEF HeadInv, ContentInv
<1> QED
  BY <1>2, <1>4 DEF ResponseInv

\* The status line.
LEMMA ReadsStatusResponse ==
  ASSUME TypeInv, ResponseInv, Readable("client"), ReadsStatus(Begun("client"))
  PROVE  ResponseInv'
<1>1. PICK e \in Ends : /\ e = Begun("client") /\ e.wire = Begun("client").wire
                        /\ e.headers = client.headers /\ e.body = client.body
  BY BegunFields DEF client, Sides
<1>2. /\ OnlyClient /\ result' = result /\ client.at = "first_line" /\ ParseStatusLine(e.line)
      /\ client' = StatusLine(e)
  BY <1>1 DEF ReadsStatus
<1>3. /\ client'.at = "headers" /\ client'.line = <<>> /\ client'.wire = Begun("client").wire
      /\ client'.status = e.line[1].n /\ client'.headers = client.headers /\ client'.body = client.body
  BY <1>1, <1>2, StatusLineFields
<1>4. PICK k \in Nat :
           /\ k >= 1 /\ Shift(Unread', Unread, k) /\ Len(client.line) = k - 1
           /\ Unread[k] = client.wire[1] /\ \A i \in 1..k - 1 : Unread[i] = client.line[i]
           /\ Len(e.line) = k /\ e.line[k] = client.wire[1]
           /\ \A i \in 1..k - 1 : e.line[i] = client.line[i]
  BY <1>1, <1>2, <1>3, LineEnd
<1>5. k = 2 /\ e.line[k] = Crlf /\ e.line[1].name = "HTTP"
  BY <1>2, <1>4 DEF ParseStatusLine, EndsWithCrlf
<1>6. Unread[k] = Crlf /\ Unread[1] = e.line[1]
  <2>1. 1 \in 1..k - 1
    BY <1>5
  <2> QED
    BY <1>4, <1>5, <2>1
<1>7. HeadRead /\ HeadComes(Unread)
  BY <1>2 DEF ResponseInv, HeadInv, HeadAts
<1>8. Unread[1] \in HeadWords
  <2>1. Heads(Unread) /\ k \in 1..Len(Unread) /\ 1 \in 1..k
    BY <1>4, <1>7 DEF HeadComes, Shift
  <2> QED
    BY <1>6, <2>1 DEF Heads
<1>9. Unread[1] = Word("HTTP", Status) /\ client'.status = Status /\ Unread[1] # Length(Size)
  BY <1>3, <1>5, <1>6, <1>8, HeadNames
<1>10. HeadComes(Unread)'
  <2>1. Shift(Unread', Unread, k) /\ ~(k > 2) /\ ~(k = 2 /\ Unread[1] = Length(Size))
    BY <1>4, <1>5, <1>9
  <2> QED
    BY <1>2, <1>3, <1>6, <1>7, <2>1, HeadLineRead
<1>11. ~Unanswered
  BY <1>7 DEF HeadRead, Readable, client
<1>12. \A h \in client'.headers : h.name = "Content-Length" => h = Length(Size)
  BY <1>3, <1>7 DEF HeadRead
<1> QED
  BY <1>2, <1>3, <1>9, <1>10, <1>11, <1>12, LineIsRead

\* A line of the headers, or what is before a line feed in the body.
LEMMA ReadsHeaderResponse ==
  ASSUME TypeInv, ResponseInv, Readable("client"), ReadsHeader(Begun("client")),
         client.wire[1] \in {Crlf, Newline}
  PROVE  ResponseInv'
<1>1. PICK e \in Ends : /\ e = Begun("client") /\ e.wire = Begun("client").wire /\ e.at = client.at
                        /\ e.headers = client.headers /\ e.body = client.body /\ e.status = client.status
  BY BegunFields DEF client, Sides
<1>2. /\ OnlyClient /\ result' = result /\ client.at = "headers" /\ ~HeadersEnd(e)
      /\ client' = HeaderLine(e)
  BY <1>1 DEF ReadsHeader
<1>3. /\ client'.at = "headers" /\ client'.line = <<>> /\ client'.wire = Begun("client").wire
      /\ client'.status = client.status /\ client'.body = client.body
      /\ client'.headers = IF EndsWithCrlf(e.line) THEN client.headers \cup {e.line[1]} ELSE client.headers
  BY <1>1, <1>2, HeaderLineFields
<1>4. PICK k \in Nat :
           /\ k >= 1 /\ Shift(Unread', Unread, k) /\ Len(client.line) = k - 1
           /\ Unread[k] = client.wire[1] /\ \A i \in 1..k - 1 : Unread[i] = client.line[i]
           /\ Len(e.line) = k /\ e.line[k] = client.wire[1]
           /\ \A i \in 1..k - 1 : e.line[i] = client.line[i]
  BY <1>1, <1>2, <1>3, LineEnd
<1>5. HeadRead /\ HeadComes(Unread) /\ Heads(Unread)
  BY <1>2 DEF ResponseInv, HeadInv, HeadAts, HeadComes
<1>6. ~Unanswered /\ client'.status = Status
  BY <1>2, <1>3, <1>5 DEF HeadRead, Readable, client
<1>7. e.line # <<>>
  BY <1>4
<1>8. CASE client.wire[1] = Crlf
  <2>1. EndsWithCrlf(e.line)
    BY <1>4, <1>7, <1>8 DEF EndsWithCrlf
  <2>2. k >= 2
    <3>1. k # 1
      BY <1>1, <1>2, <1>4, <2>1 DEF HeadersEnd
    <3> QED
      BY <1>4, <3>1
  <2>3. Unread[1] = e.line[1] /\ Unread[1] \in HeadWords
    <3>1. 1 \in 1..k - 1 /\ 1 \in 1..k /\ k \in 1..Len(Unread)
      BY <1>4, <2>2 DEF Shift
    <3>2. Unread[1] = e.line[1]
      BY <1>4, <3>1
    <3>3. Unread[k] = Crlf
      BY <1>4, <1>8
    <3> QED
      BY <1>5, <3>1, <3>2, <3>3 DEF Heads
  <2>4. client'.headers = client.headers \cup {Unread[1]}
    BY <1>3, <2>1, <2>3
  <2>5. \A h \in client'.headers : h.name = "Content-Length" => h = Length(Size)
    BY <1>5, <2>3, <2>4, HeadNames DEF HeadRead
  <2>6. HeadComes(Unread)'
    <3>1. k > 2 => Unread[k - 2] # Crlf
      <4> SUFFICES ASSUME k > 2 PROVE Unread[k - 2] # Crlf
        OBVIOUS
      <4>1. PICK j \in 1..k - 1 : j = k - 2
        OBVIOUS
      <4>2. j \in 1..Len(client.line)
        BY <1>4, <4>1
      <4>3. client.line[j] # Crlf
        BY <1>5, <4>2 DEF HeadRead
      <4> QED
        BY <1>4, <4>1, <4>3
    <3>2. k = 2 /\ Unread[1] = Length(Size) => Length(Size) \in client'.headers
      BY <2>4
    <3>3. Shift(Unread', Unread, k) /\ Unread[k] = Crlf
      BY <1>4, <1>8
    <3> QED
      BY <1>2, <1>3, <1>5, <3>1, <3>2, <3>3, HeadLineRead
  <2> QED
    BY <1>2, <1>3, <1>6, <2>5, <2>6, LineIsRead
<1>9. CASE client.wire[1] = Newline
  <2>1. ~EndsWithCrlf(e.line)
    BY <1>4, <1>9, HeadNames DEF EndsWithCrlf
  <2>2. \A h \in client'.headers : h.name = "Content-Length" => h = Length(Size)
    BY <1>3, <1>5, <2>1 DEF HeadRead
  <2> DEFINE z == Unread
             y == Unread'
  <2>3. /\ k \in Nat /\ k >= 1 /\ Len(z) \in Nat /\ Len(y) \in Nat /\ Len(z) = k + Len(y)
        /\ \A i \in 1..Len(y) : y[i] = z[k + i]
    BY <1>4 DEF Shift
  <2>4. z[k] = Newline /\ Newline \notin HeadWords /\ Heads(z) /\ HeadComes(z)
    BY <1>4, <1>5, <1>9, HeadNames
  <2> HIDE DEF z, y
  \* A line feed is only in a body: behind it is the body alone.
  <2>5. ASSUME NEW i \in 1..Len(y) PROVE y[i] # Crlf
    <3>1. k + i \in 1..Len(z) /\ k \in 1..k + i
      BY <2>3, <2>5
    <3>2. z[k + i] # Crlf
      BY <2>4, <3>1 DEF Heads
    <3> QED
      BY <2>3, <3>2
  <2>6. Called
    <3>1. k \in 1..Len(z)
      BY <2>3
    <3> QED
      BY <2>4, <3>1 DEF HeadComes
  <2>7. HeadComes(Unread)'
    <3>1. Called' = Called
      BY <1>2, ReadingFrame
    <3>2. \A i \in 1..Len(Unread') : Unread'[i] # Crlf
      BY <2>5 DEF y
    <3>3. Heads(Unread)'
      <4>1. \A i \in 2..Len(y) : i \in 1..Len(y)
        BY <2>3
      <4> QED
        BY <2>5, <4>1 DEF Heads, y
    <3>4. Len(Unread') >= 1 => Unread'[1] # Crlf
      <4>1. Len(y) >= 1 => 1 \in 1..Len(y)
        BY <2>3
      <4> QED
        BY <2>5, <4>1 DEF y
    <3> QED
      BY <2>6, <3>1, <3>2, <3>3, <3>4 DEF HeadComes, EmptyLine
  <2> QED
    BY <1>2, <1>3, <1>6, <2>2, <2>7, LineIsRead
<1> QED
  BY <1>8, <1>9

\* The length that the headers give is the one.
LEMMA LengthGiven ==
  ASSUME TypeInv, NEW headers, Length(Size) \in headers,
         \A h \in headers : h.name = "Content-Length" => h = Length(Size)
  PROVE  ContentLength(headers) = Size
<1>1. Length(Size).name = "Content-Length" /\ Length(Size).n = Size
  BY WordNames
<1>2. \E h \in headers : h.name = "Content-Length"
  BY <1>1
<1>3. (CHOOSE h \in headers : h.name = "Content-Length") = Length(Size)
  BY <1>2
<1> QED
  BY <1>1, <1>2, <1>3 DEF ContentLength

\* The line that ends the headers.
LEMMA ReadsHeadEndResponse ==
  ASSUME TypeInv, ResponseInv, Readable("client"), ReadsHeadEnd(Begun("client"))
  PROVE  ResponseInv'
<1>1. PICK e \in Ends : /\ e = Begun("client") /\ e.wire = Begun("client").wire
                        /\ e.headers = client.headers /\ e.body = client.body /\ e.status = client.status
  BY BegunFields DEF client, Sides
<1>2. /\ OnlyClient /\ result' = result /\ client.at = "headers" /\ HeadersEnd(e)
      /\ client' = ToContent(e) /\ kind' = kind /\ server' = server
  BY <1>1 DEF ReadsHeadEnd, OnlyClient
<1>3. /\ client'.at = "content" /\ client'.line = <<>> /\ client'.wire = Begun("client").wire
      /\ client'.status = client.status /\ client'.body = client.body
      /\ client'.left = ContentLength(client.headers)
  BY <1>1, <1>2, ToContentFields
<1>4. PICK k \in Nat :
           /\ k >= 1 /\ Shift(Unread', Unread, k) /\ Len(client.line) = k - 1
           /\ Unread[k] = client.wire[1] /\ \A i \in 1..k - 1 : Unread[i] = client.line[i]
           /\ Len(e.line) = k /\ e.line[k] = client.wire[1]
           /\ \A i \in 1..k - 1 : e.line[i] = client.line[i]
  BY <1>1, <1>2, <1>3, LineEnd
<1>5. HeadRead /\ HeadComes(Unread)
  BY <1>2 DEF ResponseInv, HeadInv, HeadAts
<1>6. ~Unanswered /\ client'.status = Status /\ client'.body = <<>>
  BY <1>2, <1>3, <1>5 DEF HeadRead, Readable, client
<1>7. k = 1 /\ Unread[1] = Crlf
  BY <1>2, <1>4 DEF HeadersEnd, EndsWithCrlf
<1>8. Len(Unread) >= 1 /\ 1 \in 1..Len(Unread)
  BY <1>4, <1>7 DEF Shift
<1>9. client'.left = Size
  <2>1. Length(Size) \in client.headers
    BY <1>2, <1>5, <1>7, <1>8 DEF HeadComes
  <2>2. \A h \in client.headers : h.name = "Content-Length" => h = Length(Size)
    BY <1>5 DEF HeadRead
  <2> QED
    BY <1>3, <2>1, <2>2, LengthGiven
<1>10. /\ ServerInv' /\ ResultInv' /\ Size' = Size /\ Status' = Status /\ Unanswered' = Unanswered
       /\ Called' = Called
  BY <1>2, ReadingFrame
<1>11. ASSUME Called PROVE Answers(client.wire \o HeadOut, 0, Len(client.body))'
  <2>1. PICK z, y : z = Unread /\ y = Unread'
    OBVIOUS
  <2>2. EmptyLine(z, client.at, 1)
    BY <1>2, <1>7, <2>1 DEF EmptyLine
  <2>3. PICK none \in 0..Len(y) : none = 0 /\ none \in Nat
    BY <1>4, <2>1 DEF Shift
  <2>4. Answers(z, k + none, none)
    <3>1. k + none = 1
      BY <1>7, <2>3
    <3> QED
      BY <1>5, <1>8, <1>11, <2>1, <2>2, <2>3, <3>1 DEF HeadComes
  <2>5. Answers(y, none, none)
    <3>1. Shift(y, z, k)
      BY <1>4, <2>1
    <3> QED
      BY <2>3, <2>4, <3>1, ShiftAnswer
  <2>6. (client.wire \o HeadOut)' = y /\ Len(client.body)' = none
    <3>1. PICK w \in Seq(Words), h \in Seq(Words) : w = client'.wire /\ h = HeadOut'
      <4>1. HeadOut' = HeadOut
        BY <1>2, ReadingFrame
      <4>2. client'.wire \in Seq(Words)
        BY <1>1, <1>3 DEF Ends
      <4> QED
        BY <4>1, <4>2, UnreadType
    <3>2. y = <<>> \o w \o h
      BY <1>3, <2>1, <3>1 DEF Unread
    <3>3. <<>> \o w = w
      BY NothingBefore
    <3> QED
      BY <1>6, <2>3, <3>1, <3>2, <3>3
  <2>7. /\ none + Len(y) - none <= Size'
        /\ \A j \in 1..Len(y) - none : y[none + j] = Answer[kind'][none + j]
        /\ server'.at = "write_head" => Len(y) = none /\ none = 0
        /\ server'.at = "write_body" =>
            /\ none + Len(y) - none + Len(server'.out) = Size'
            /\ \A j \in 1..Len(server'.out) : server'.out[j] = Answer[kind'][none + Len(y) - none + j]
    BY <1>2, <1>10, <2>5 DEF Answers
  <2> QED
    BY <2>3, <2>6, <2>7 DEF Answers
<1>12. ContentInv'
  <2>1. client'.left = Size' - Len(client'.body)
    <3>1. PICK s \in Nat : s = Size
      BY SizeType
    <3>2. PICK n \in Nat : n = Len(client'.body) /\ n = 0
      BY <1>6
    <3>3. client'.left = s /\ s = s - n
      BY <1>9, <3>1, <3>2
    <3> QED
      BY <1>10, <3>1, <3>2, <3>3
  <2>2. \A j \in 1..Len(client'.body) : client'.body[j] = Answer[kind'][j]
    BY <1>6
  <2> QED
    BY <1>6, <1>10, <1>11, <2>1, <2>2 DEF ContentInv
<1>13. HeadInv'
  BY <1>3 DEF HeadInv, HeadAts
<1> QED
  BY <1>10, <1>12, <1>13 DEF ResponseInv

\* The server has closed: what is left of a line ends no head.
LEMMA LineAtEndResponse ==
  ASSUME TypeInv, ResponseInv, client.wire = <<>>, client.line # <<>>, ~server.open,
         ReadsStatus(client) \/ ReadsHeader(client) \/ ReadsHeadEnd(client)
  PROVE  ResponseInv'
<1>1. HeadRead
  BY DEF ReadsStatus, ReadsHeader, ReadsHeadEnd, ResponseInv, HeadInv, HeadAts
<1>2. ~EndsWithCrlf(client.line)
  <2>1. Len(client.line) \in 1..Len(client.line)
    <3>1. PICK line \in Seq(Words) : line = client.line
      BY UnreadType
    <3>2. line # <<>>
      BY <3>1
    <3>3. Len(line) \in 1..Len(line)
      BY <3>2
    <3> QED
      BY <3>1, <3>3
  <2> QED
    BY <1>1, <2>1 DEF EndsWithCrlf, HeadRead
<1>3. ReadsHeader(client)
  BY <1>2 DEF ReadsStatus, ReadsHeadEnd, ParseStatusLine, HeadersEnd
<1>4. client \in Ends
  BY SidesNamed
<1>5. /\ OnlyClient /\ result' = result /\ client.at = "headers" /\ client' = HeaderLine(client)
  BY <1>3 DEF ReadsHeader
<1>6. /\ client'.at = "headers" /\ client'.line = <<>> /\ client'.wire = <<>>
      /\ client'.status = client.status /\ client'.body = client.body /\ client'.headers = client.headers
  BY <1>2, <1>4, <1>5, HeaderLineFields
<1>7. ~Unanswered /\ client'.status = Status
  BY <1>1, <1>5, <1>6 DEF HeadRead
<1>8. HeadOut' = <<>>
  <2>1. server.at # "write_head"
    BY SidesNamed DEF OpenAsItShould
  <2>2. HeadOut' = HeadOut
    BY <1>5, ReadingFrame
  <2> QED
    BY <2>1, <2>2 DEF HeadOut
<1>9. Unread' = <<>>
  <2>1. PICK none \in Seq(Words) : none = <<>>
    BY NoWords
  <2>2. Unread' = none \o none \o none
    BY <1>6, <1>8, <2>1 DEF Unread
  <2>3. none \o none = none
    BY <2>1, NothingBefore
  <2> QED
    BY <2>1, <2>2, <2>3
<1>10. HeadComes(Unread)'
  <2>1. Len(Unread') = 0
    BY <1>9
  <2>2. Heads(Unread)'
    BY <2>1 DEF Heads
  <2> QED
    BY <2>1, <2>2 DEF HeadComes
<1>11. \A h \in client'.headers : h.name = "Content-Length" => h = Length(Size)
  BY <1>1, <1>6 DEF HeadRead
<1> QED
  BY <1>5, <1>6, <1>7, <1>10, <1>11, LineIsRead

\* The body never breaks off unnoticed: the client knows its length.
LEMMA ReadsNoMoreNever ==
  ASSUME TypeInv, ResponseInv, ReadsNoMore
  PROVE  FALSE
<1>1. client.at = "content" /\ client.left = Unknown
  BY DEF ReadsNoMore
<1>2. /\ client.left = Size - Len(client.body)
      /\ ~Called => client.body = <<>>
      /\ Called => Answers(client.wire \o HeadOut, 0, Len(client.body))
  BY <1>1 DEF ContentInv, ResponseInv
<1>3. PICK m \in Nat : m = Len(client.body)
  BY Lengths
<1>4. PICK s \in Nat : s = Size
  BY SizeType
<1>5. m <= s
  <2>1. CASE Called
    <3>1. PICK w \in Seq(Words) : w = client.wire \o HeadOut
      <4>1. PICK a \in Seq(Words), b \in Seq(Words) : a = client.wire /\ b = HeadOut
        BY UnreadType
      <4>2. a \o b \in Seq(Words)
        BY WordsConcat, Zenon
      <4> QED
        BY <4>1, <4>2
    <3>2. Answers(w, 0, m)
      BY <1>2, <1>3, <2>1, <3>1
    <3>3. m + Len(w) - 0 <= s
      BY <1>4, <3>2 DEF Answers
    <3>4. Len(w) \in Nat
      OBVIOUS
    <3> QED
      BY <3>3, <3>4
  <2>2. CASE ~Called
    BY <1>2, <1>3, <1>4, <2>2, SizeType
  <2> QED
    BY <2>1, <2>2
<1>6. s - m = -1
  BY <1>1, <1>2, <1>3, <1>4 DEF Unknown
<1> QED
  BY <1>5, <1>6

\* Behind the first word the answer goes on with its next byte.
LEMMA NextByteAnswer ==
  ASSUME NEW y, NEW z, Shift(y, z, 1), NEW m \in Nat, NEW n \in Nat, n = m + 1, Answers(z, 0, m)
  PROVE  /\ n + Len(y) - 0 <= Size
         /\ \A j \in 1..Len(y) - 0 : y[0 + j] = Answer[kind][n + j]
         /\ server.at # "write_head"
         /\ server.at = "write_body" =>
              /\ n + Len(y) - 0 + Len(server.out) = Size
              /\ \A j \in 1..Len(server.out) : server.out[j] = Answer[kind][n + Len(y) - 0 + j]
<1>1. /\ Len(z) \in Nat /\ Len(y) \in Nat /\ Len(z) = 1 + Len(y)
      /\ \A j \in 1..Len(y) : y[j] = z[1 + j]
  BY DEF Shift
<1>2. m + Len(z) - 0 = n + Len(y) - 0
  BY <1>1
<1>3. n + Len(y) - 0 <= Size
  BY <1>2 DEF Answers
<1>4. ASSUME NEW j \in 1..Len(y) - 0 PROVE y[0 + j] = Answer[kind][n + j]
  <2>1. j \in 1..Len(y) /\ 1 + j \in 1..Len(z) - 0 /\ 0 + (1 + j) = 1 + j /\ m + (1 + j) = n + j /\ 0 + j = j
    BY <1>1, <1>4
  <2>2. z[0 + (1 + j)] = Answer[kind][m + (1 + j)]
    BY <2>1 DEF Answers
  <2> QED
    BY <1>1, <2>1, <2>2
<1>5. server.at # "write_head"
  BY <1>1 DEF Answers
<1>6. server.at = "write_body" =>
        /\ n + Len(y) - 0 + Len(server.out) = Size
        /\ \A j \in 1..Len(server.out) : server.out[j] = Answer[kind][n + Len(y) - 0 + j]
  BY <1>2 DEF Answers
<1> QED
  BY <1>3, <1>4, <1>5, <1>6

\* A byte of the answer.
LEMMA ReadsByteResponse ==
  ASSUME TypeInv, ResponseInv, ReadsByte
  PROVE  ResponseInv'
<1>1. /\ OnlyClient /\ result' = result /\ client.at = "content" /\ client'.at = "content"
      /\ client.left # 0 /\ client.wire # <<>> /\ client'.wire = Rest1(client.wire, 1)
      /\ client'.body = Append(client.body, client.wire[1]) /\ client'.status = client.status
      /\ client'.left = IF client.left = Unknown THEN client.left ELSE client.left - 1
      /\ kind' = kind /\ server' = server
  BY DEF ReadsByte, OnlyClient
<1>2. /\ ~Unanswered /\ client.status = Status /\ client.left = Size - Len(client.body)
      /\ ~Called => client.body = <<>>
      /\ Called => /\ \A j \in 1..Len(client.body) : client.body[j] = Answer[kind][j]
                   /\ Answers(client.wire \o HeadOut, 0, Len(client.body))
  BY <1>1 DEF ContentInv, ResponseInv
<1>3. /\ ServerInv' /\ ResultInv' /\ Size' = Size /\ Status' = Status /\ Unanswered' = Unanswered
      /\ Called' = Called /\ HeadOut' = HeadOut
  BY <1>1, ReadingFrame
<1>4. PICK b \in Seq(Words) : b = client.body
  BY SidesNamed DEF Ends
<1>5. PICK s \in Nat : s = Size
  BY SizeType
<1>6. PICK m \in Nat, n \in Nat : m = Len(b) /\ n = m + 1
  OBVIOUS
<1>7. client.left = s - m
  BY <1>2, <1>4, <1>5, <1>6
<1>8. Called
  <2> SUFFICES ASSUME ~Called PROVE FALSE
    OBVIOUS
  <2>1. s = 0 /\ b = <<>>
    BY <1>2, <1>4, <1>5, SizeType
  <2>2. m = 0
    BY <1>6, <2>1
  <2>3. s - m = 0
    BY <2>1, <2>2
  <2> QED
    BY <1>1, <1>7, <2>3
<1>9. PICK w \in Seq(Words), h \in Seq(Words) : w = client.wire /\ h = HeadOut
  BY UnreadType
<1>10. w # <<>> /\ Len(w) \in Nat /\ Len(w) >= 1
  <2>1. w # <<>>
    BY <1>1, <1>9
  <2> QED
    BY <2>1
<1>11. PICK r \in Seq(Words) : /\ r = Rest1(w, 1) /\ Len(r) = Len(w) - 1
                               /\ \A i \in 1..Len(w) - 1 : r[i] = w[1 + i]
  <2>1. 1 \in 0..Len(w)
    BY <1>10
  <2> QED
    BY <2>1, RestShape
<1>12. PICK z \in Seq(Words) : /\ z = w \o h /\ Len(z) = Len(w) + Len(h)
                               /\ \A i \in 1..Len(w) : z[i] = w[i]
                               /\ \A i \in 1..Len(h) : z[Len(w) + i] = h[i]
  BY ZenonT(40), WordsConcat
<1>13. PICK y \in Seq(Words) : /\ y = r \o h /\ Len(y) = Len(r) + Len(h)
                               /\ \A i \in 1..Len(r) : y[i] = r[i]
                               /\ \A i \in 1..Len(h) : y[Len(r) + i] = h[i]
  <2>1. /\ r \o h \in Seq(Words) /\ Len(r \o h) = Len(r) + Len(h)
        /\ \A i \in 1..Len(r) : (r \o h)[i] = r[i]
        /\ \A i \in 1..Len(h) : (r \o h)[Len(r) + i] = h[i]
    BY WordsConcat, Zenon
  <2> QED
    BY <2>1
<1>14. Len(w) \in Nat /\ Len(h) \in Nat /\ Len(r) \in Nat /\ Len(y) \in Nat /\ Len(z) \in Nat
  OBVIOUS
<1>27. Len(r) = Len(w) - 1 /\ Len(z) = Len(w) + Len(h) /\ Len(y) = Len(r) + Len(h)
  BY <1>11, <1>12, <1>13
<1>28. n = m + 1
  BY <1>6
<1>15. Shift(y, z, 1)
  <2>1. Len(z) = 1 + Len(y)
    BY <1>14, <1>27
  <2>2. ASSUME NEW i \in 1..Len(y) PROVE y[i] = z[1 + i]
    <3>1. CASE i \in 1..Len(r)
      <4>1. i \in 1..Len(w) - 1 /\ 1 + i \in 1..Len(w)
        BY <1>11, <1>14, <3>1
      <4>2. y[i] = r[i] /\ r[i] = w[1 + i] /\ z[1 + i] = w[1 + i]
        BY <1>11, <1>12, <1>13, <3>1, <4>1
      <4> QED
        BY <4>2
    <3>2. CASE i \notin 1..Len(r)
      <4>1. PICK j \in 1..Len(h) : i = Len(r) + j /\ 1 + i = Len(w) + j
        <5>1. i - Len(r) \in 1..Len(h) /\ i = Len(r) + (i - Len(r)) /\ 1 + i = Len(w) + (i - Len(r))
          BY <1>14, <1>27, <2>2, <3>2
        <5> QED
          BY <5>1
      <4>2. y[Len(r) + j] = h[j] /\ z[Len(w) + j] = h[j]
        BY <1>12, <1>13
      <4> QED
        BY <4>1, <4>2
    <3> QED
      BY <3>1, <3>2
  <2> QED
    BY <1>14, <2>1, <2>2 DEF Shift
<1>16. Answers(z, 0, m)
  BY <1>2, <1>4, <1>6, <1>8, <1>9, <1>12
<1>17. /\ n + Len(y) - 0 <= Size
       /\ \A j \in 1..Len(y) - 0 : y[0 + j] = Answer[kind][n + j]
       /\ server.at # "write_head"
       /\ server.at = "write_body" =>
            /\ n + Len(y) - 0 + Len(server.out) = Size
            /\ \A j \in 1..Len(server.out) : server.out[j] = Answer[kind][n + Len(y) - 0 + j]
       /\ z[1] = Answer[kind][n]
  <2>1. n + Len(y) - 0 <= Size
    BY <1>15, <1>16, <1>28, NextByteAnswer
  <2>2. \A j \in 1..Len(y) - 0 : y[0 + j] = Answer[kind][n + j]
    BY <1>15, <1>16, <1>28, NextByteAnswer
  <2>3. server.at # "write_head"
    BY <1>15, <1>16, <1>28, NextByteAnswer
  <2>5. z[1] = Answer[kind][n]
    <3>1. 1 \in 1..Len(z) - 0 /\ 0 + 1 = 1
      BY <1>10, <1>14, <1>27
    <3>2. z[0 + 1] = Answer[kind][m + 1]
      BY <1>16, <3>1 DEF Answers
    <3> QED
      BY <1>28, <3>1, <3>2
  <2>4. server.at = "write_body" =>
            /\ n + Len(y) - 0 + Len(server.out) = Size
            /\ \A j \in 1..Len(server.out) : server.out[j] = Answer[kind][n + Len(y) - 0 + j]
    BY <1>15, <1>16, <1>28, NextByteAnswer
  <2> QED
    BY <2>1, <2>2, <2>3, <2>4, <2>5
<1>18. PICK x \in Words : x = w[1] /\ x = z[1]
  <2>1. 1 \in 1..Len(w)
    BY <1>10
  <2> QED
    BY <1>12, <2>1
<1>19. PICK c \in Seq(Words) : /\ c = Append(b, x) /\ Len(c) = Len(b) + 1 /\ c[Len(b) + 1] = x
                               /\ \A i \in 1..Len(b) : c[i] = b[i]
  BY AppendShape
<1>20. client'.body = c /\ Len(c) = n
  BY <1>1, <1>4, <1>6, <1>9, <1>18, <1>19
<1>21. (client.wire \o HeadOut)' = y
  BY <1>1, <1>3, <1>9, <1>11, <1>13
<1>22. Answers(client.wire \o HeadOut, 0, Len(client.body))'
  <2>1. Len(client.body)' = n
    BY <1>20
  <2>2. /\ n + Len(y) - 0 <= Size'
        /\ \A j \in 1..Len(y) - 0 : y[0 + j] = Answer[kind'][n + j]
        /\ server'.at = "write_head" => Len(y) = 0 /\ n = 0
        /\ server'.at = "write_body" =>
             /\ n + Len(y) - 0 + Len(server'.out) = Size'
             /\ \A j \in 1..Len(server'.out) : server'.out[j] = Answer[kind'][n + Len(y) - 0 + j]
    BY <1>1, <1>3, <1>17
  <2> QED
    BY <1>21, <2>1, <2>2 DEF Answers
<1>23. \A j \in 1..Len(client'.body) : client'.body[j] = Answer[kind'][j]
  <2> SUFFICES ASSUME NEW j \in 1..n PROVE c[j] = Answer[kind][j]
    BY <1>1, <1>20
  <2>1. CASE j = n
    <3>1. c[j] = x
      BY <1>6, <1>19, <2>1
    <3> QED
      BY <1>17, <1>18, <2>1, <3>1
  <2>2. CASE j # n
    <3>1. j \in 1..Len(b)
      BY <1>6, <2>2
    <3>2. c[j] = b[j]
      BY <1>19, <3>1
    <3>3. b[j] = Answer[kind][j]
      BY <1>2, <1>4, <1>8, <3>1
    <3> QED
      BY <3>2, <3>3
  <2> QED
    BY <2>1, <2>2
<1>24. client'.left = Size' - Len(client'.body)
  <2>1. n + Len(y) - 0 <= s
    BY <1>5, <1>17
  <2>2. s - m >= 1 /\ (s - m) - 1 = s - n
    BY <1>6, <1>14, <2>1
  <2>3. client.left # Unknown
    BY <1>7, <2>2 DEF Unknown
  <2>4. client'.left = (s - m) - 1
    BY <1>1, <1>7, <2>3
  <2> QED
    BY <1>3, <1>5, <1>20, <2>2, <2>4
<1>25. ContentInv'
  BY <1>1, <1>2, <1>3, <1>8, <1>22, <1>23, <1>24 DEF ContentInv
<1>26. HeadInv'
  BY <1>1 DEF HeadInv, HeadAts
<1> QED
  BY <1>3, <1>25, <1>26 DEF ResponseInv
-----------------------------------------------------------------------------
(* The invariant *)

\* All that holds of the two ends and of what is between them.
LEMMA Parts == ExchangeInv <=> TypeInv /\ RequestInv /\ HandledInv /\ ResponseInv
BY DEF ExchangeInv, ResponseInv

LEMMA InitInv == Init => ExchangeInv
<1> SUFFICES ASSUME Init PROVE ExchangeInv
  OBVIOUS
<1>1. PICK none \in Seq(Words) : none = <<>>
  BY NoWords
<1>2. PICK zero \in Nat : zero = 0
  OBVIOUS
<1>3. Idle = [at |-> "idle", open |-> FALSE, out |-> none, wire |-> none, line |-> none,
              status |-> zero, headers |-> {}, body |-> none, left |-> zero]
  BY <1>1, <1>2 DEF Idle
<1>4. /\ Idle \in Ends /\ Idle.at = "idle" /\ ~Idle.open
      /\ [Idle EXCEPT !.at = "connect"] \in Ends /\ [Idle EXCEPT !.at = "connect"].at = "connect"
      /\ ~[Idle EXCEPT !.at = "connect"].open
  <2>1. /\ Idle.at = "idle" /\ ~Idle.open
        /\ Idle = [at |-> "idle", open |-> FALSE, out |-> none, wire |-> none, line |-> none,
                   status |-> zero, headers |-> {}, body |-> none, left |-> zero]
    BY <1>3
  <2>2. Idle \in Ends
    BY <2>1 DEF Ends, ServerAts
  <2>3. "connect" \in ClientAts \cup ServerAts
    BY DEF ClientAts
  <2> QED
    BY <2>1, <2>2, <2>3 DEF Ends
<1>5. /\ end \in [Sides -> Ends] /\ client = [Idle EXCEPT !.at = "connect"] /\ server = Idle
  BY <1>4 DEF Init, client, server, Sides
<1>6. /\ kind \in Kinds /\ handled = <<>> /\ result = "none" /\ closing = FALSE /\ count = KeepAliveMax
  BY DEF Init
<1>7. TypeInv
  <2>1. \A s \in Sides : s = "client" \/ s = "server"
    BY DEF Sides
  <2>2. \A s \in Sides : end[s].at \in {"idle", "connect"} /\ ~end[s].open
    BY <1>4, <1>5, <2>1 DEF client, server
  <2>3. count \in Int /\ count <= KeepAliveMax
    BY <1>6, ExchangeAssumption
  <2> QED
    BY <1>4, <1>5, <1>6, <2>2, <2>3 DEF TypeInv, ClientAts, ServerAts
<1>8. RequestInv
  BY <1>4, <1>5 DEF RequestInv, Busy, server
<1>9. HandledInv
  BY <1>4, <1>5, <1>6 DEF HandledInv, HandledWhole, Called
<1>10. ResponseInv
  BY <1>4, <1>5, <1>6
  DEF ResponseInv, ServerInv, HeadInv, HeadAts, ContentInv, ResultInv, ResultIsTrue, ConnectErrors
<1> QED
  BY <1>7, <1>8, <1>9, <1>10, Parts

LEMMA StutterInv ==
  ASSUME TypeInv, RequestInv, HandledInv, ResponseInv, UNCHANGED vars
  PROVE  TypeInv' /\ RequestInv' /\ HandledInv' /\ ResponseInv'
<1>1. /\ kind' = kind /\ end' = end /\ handled' = handled /\ result' = result /\ closing' = closing
      /\ count' = count
  BY DEF vars
<1>2. client' = client /\ server' = server
  BY <1>1 DEF client, server
<1>3. TypeInv'
  BY <1>1, <1>2 DEF TypeInv
<1>4. HandledInv'
  BY <1>1, <1>2 DEF HandledInv, HandledWhole, Called, Busy, ToSend, Body
<1>5. Text' = Text /\ ToSend' = ToSend
  BY <1>1, <1>2 DEF Text, ToSend, RequestHead, Body
<1>6. RequestInv'
  <2> SUFFICES ASSUME Busy("server")', ~Called' PROVE \E p, q \in 0..Len(Text') : Sent(p, q)' /\ Read(p)'
    BY DEF RequestInv
  <2>1. Busy("server") /\ ~Called
    BY <1>1 DEF Busy, Called
  <2>2. PICK p \in 0..Len(Text), q \in 0..Len(Text) : Sent(p, q) /\ Read(p)
    BY <2>1 DEF RequestInv
  <2>3. Sent(p, q)'
    BY <1>1, <1>2, <1>5, <2>2 DEF Sent, Writing
  <2>4. Read(p)'
    <3>1. KeepsAlive(p)' = KeepsAlive(p)
      BY <1>1 DEF KeepsAlive
    <3>2. ReadsLine(p)' = ReadsLine(p)
      BY <1>1, <1>2, <1>5 DEF ReadsLine, LineFrom
    <3>3. ReadsHeaders(p)' = ReadsHeaders(p)
      BY <1>1, <1>2 DEF ReadsHeaders, CutOff, HeadersTo
    <3>4. ReadsContent(p)' = ReadsContent(p)
      BY <1>1, <1>2 DEF ReadsContent
    <3>5. HandlesGet(p)' = HandlesGet(p)
      BY <1>1, <1>2, <1>5 DEF HandlesGet
    <3> QED
      BY <1>2, <2>2, <3>1, <3>2, <3>3, <3>4, <3>5 DEF Read
  <2> QED
    BY <1>5, <2>2, <2>3, <2>4
<1>7. ResponseInv'
  BY <1>1, <1>2, WritingResponse
<1> QED
  BY <1>3, <1>4, <1>6, <1>7

\* A step of the client's stream.
LEMMA ClientStream ==
  ASSUME TypeInv, RequestInv, HandledInv, ResponseInv, Stream("client")
  PROVE  TypeInv' /\ RequestInv' /\ HandledInv' /\ ResponseInv'
<1>0. ResultInv
  BY DEF ResponseInv
<1>1. CASE Write("client")
  <2>1. TypeInv' /\ RequestInv' /\ HandledInv' /\ ClientSends
    BY <1>0, <1>1, ClientWrites
  <2>2. ResponseInv'
    BY <2>1, WritingResponse DEF ClientSends, SameButWire
  <2> QED
    BY <2>1, <2>2
<1>2. CASE HeadWritten("client") \/ BodyWritten("client")
  <2>1. TypeInv' /\ RequestInv' /\ HandledInv' /\ ClientGoesOn
    BY <1>0, <1>2, ClientHeadWritten, ClientBodyWritten
  <2>2. ResponseInv'
    <3>1. client'.at # "content"
      BY <2>1 DEF ClientGoesOn
    <3> QED
      BY <2>1, <3>1, WritingResponse DEF ClientGoesOn, OnlyClient
  <2> QED
    BY <2>1, <2>2
<1>3. CASE WriteFails("client")
  BY <1>3, ClientWriteFails, FailsToWriteResponse
<1>4. CASE GetWord("client")
  <2>1. /\ TypeInv' /\ RequestInv' /\ HandledInv'
        /\ client.at \in {"first_line", "headers"} /\ Readable("client")
        /\ \/ ReadsWord
           \/ /\ client.wire[1] \in {Crlf, Newline}
              /\ \/ FailsToRead \/ ReadsStatus(Begun("client")) \/ ReadsHeader(Begun("client"))
                 \/ ReadsHeadEnd(Begun("client"))
    BY <1>4, ClientGetsWord
  <2>2. CASE ReadsWord
    BY <2>1, <2>2, ReadsWordResponse
  <2>3. CASE FailsToRead
    BY <2>1, <2>3, FailsToReadResponse
  <2>4. CASE ReadsStatus(Begun("client"))
    BY <2>1, <2>4, ReadsStatusResponse
  <2>5. CASE client.wire[1] \in {Crlf, Newline} /\ ReadsHeader(Begun("client"))
    BY <2>1, <2>5, ReadsHeaderResponse
  <2>6. CASE ReadsHeadEnd(Begun("client"))
    BY <2>1, <2>6, ReadsHeadEndResponse
  <2> QED
    BY <2>1, <2>2, <2>3, <2>4, <2>5, <2>6
<1>5. CASE LineAtEnd("client")
  <2>1. /\ TypeInv' /\ RequestInv' /\ HandledInv'
        /\ ~server.open /\ client.wire = <<>> /\ client.line # <<>>
        /\ \/ FailsToRead \/ ReadsStatus(client) \/ ReadsHeader(client) \/ ReadsHeadEnd(client)
    BY <1>5, ClientLineAtEnd
  <2>2. CASE FailsToRead
    BY <2>1, <2>2, FailsToReadResponse
  <2>3. CASE ReadsStatus(client) \/ ReadsHeader(client) \/ ReadsHeadEnd(client)
    BY <2>1, <2>3, LineAtEndResponse
  <2> QED
    BY <2>1, <2>2, <2>3
<1>6. CASE LineBreaks("client")
  BY <1>6, ClientLineBreaks, FailsToReadResponse
<1>7. CASE GetContent("client")
  BY <1>7, ClientGetsContent, ReadsByteResponse
<1>8. CASE ContentBreaks("client")
  BY <1>8, ClientContentBreaks, FailsToReadResponse, ReadsNoMoreNever
<1> QED
  BY <1>1, <1>2, <1>3, <1>4, <1>5, <1>6, <1>7, <1>8 DEF Stream

\* A step of the server's stream.
LEMMA ServerReads ==
  ASSUME TypeInv, TypeInv', ResponseInv, ServerMoves
  PROVE  ResponseInv'
BY ReadsOnResponse, RefusesResponse, StopsResponse DEF ServerMoves

LEMMA ServerAnswersAll ==
  ASSUME TypeInv, TypeInv', ResponseInv, ServerWrites
  PROVE  ResponseInv'
BY HandlesResponse, BodyBeginsResponse, KeepsOnResponse, StopsResponse DEF ServerWrites

LEMMA ServerStream ==
  ASSUME TypeInv, RequestInv, HandledInv, ResponseInv, Stream("server")
  PROVE  TypeInv' /\ RequestInv' /\ HandledInv' /\ ResponseInv'
<1>1. CASE Write("server")
  BY <1>1, ServerSends, SendsResponse
<1>2. CASE HeadWritten("server") \/ BodyWritten("server") \/ WriteFails("server")
  BY <1>2, ServerHeadWritten, ServerBodyWritten, ServerWriteFails, ServerAnswersAll
<1>3. CASE GetWord("server") \/ LineAtEnd("server") \/ LineBreaks("server")
  BY <1>3, ServerReadsWord, ServerLineAtEnd, ServerLineBreaks, ServerReads
<1>4. CASE GetContent("server") \/ ContentBreaks("server")
  BY <1>4, ServerGetsContent, ServerContentBreaks, ServerReads
<1> QED
  BY <1>1, <1>2, <1>3, <1>4 DEF Stream

LEMMA NextInv == ExchangeInv /\ [Next]_vars => ExchangeInv'
<1> SUFFICES ASSUME TypeInv, RequestInv, HandledInv, ResponseInv, [Next]_vars
             PROVE  TypeInv' /\ RequestInv' /\ HandledInv' /\ ResponseInv'
  BY Parts DEF ExchangeInv, ResponseInv
<1>1. CASE Connect
  BY <1>1, ClientConnects, ConnectsResponse
<1>2. CASE ConnectFails
  BY <1>2, ClientFindsNobody, FindsNobodyResponse
<1>3. CASE Stream("client")
  BY <1>3, ClientStream
<1>4. CASE Return
  BY <1>4, ClientReturns, ReturnsResponse
<1>5. CASE NextRequest \/ KeepAliveEnds
  BY <1>5, ServerNextRequest, ServerKeepAliveEnds, ServerReads
<1>6. CASE Stream("server")
  BY <1>6, ServerStream
<1>7. CASE Handle
  BY <1>7, ServerHandles, ServerAnswersAll
<1>8. ASSUME NEW s \in Sides, Dies(s) \/ Suspends(s)
      PROVE  TypeInv' /\ RequestInv' /\ HandledInv' /\ ResponseInv'
  <2>1. CASE s = "client"
    BY <1>8, <2>1, ClientDies, DiesResponse
  <2>2. CASE s = "server"
    BY <1>8, <2>2, ServerDies, ServerReads
  <2> QED
    BY <1>8, <2>1, <2>2 DEF Sides
<1>9. CASE UNCHANGED vars
  BY <1>9, StutterInv
<1> QED
  BY <1>1, <1>2, <1>3, <1>4, <1>5, <1>6, <1>7, <1>8, <1>9 DEF Next, ClientSteps, ServerSteps
-----------------------------------------------------------------------------
\* Whatever is sent in parts, cut, lost or late, and whichever side ends or is
\* suspended when: the handler runs at most once for a request, and only with its
\* whole body (process_request, read_content; server.cpp:210-234).
THEOREM HandledCorrect == Spec => []HandledWhole
<1>1. ExchangeInv => HandledWhole
  BY DEF ExchangeInv, HandledInv
<1> QED
  BY <1>1, InitInv, NextInv, PTL DEF Spec

\* What the client's call returns is true: a response is the handler's whole
\* answer, or an error without a body of a request that no handler has run for,
\* and when nobody was found or the writing failed no handler has run
\* (ClientImpl::send_, process_request; client.cpp:20).
THEOREM ResultCorrect == Spec => []ResultIsTrue
<1>1. ExchangeInv => ResultIsTrue
  BY DEF ExchangeInv, ResultInv
<1> QED
  BY <1>1, InitInv, NextInv, PTL DEF Spec
=============================================================================
