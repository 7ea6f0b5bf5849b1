-------------------------------- MODULE HttpServer --------------------------------
(***************************************************************************)
(* The part of the HTTP library (src/lib/httplib.h) that the server and    *)
(* the clients of the tree run on: listen accepts connections and queues   *)
(* them for a pool of threads, a thread reads a request, calls its handler *)
(* and closes the connection, stop closes the listening socket from inside *)
(* a handler, and listen then joins the pool.  A client opens a connection *)
(* for each request, asks for it to be closed, and gives up waiting for    *)
(* the response after a timeout.                                           *)
(*                                                                         *)
(* Module Server has what the handlers do.  Here a handler answers, and    *)
(* that of q calls stop before.  What is written and read, and how that    *)
(* can fail, is in module HttpExchange.                                    *)
(***************************************************************************)
EXTENDS Integers, Sequences

CONSTANTS Workers,   \* the threads of the pool (CPPHTTPLIB_THREAD_POOL_COUNT of them)
          Requests,  \* the requests in use, of "command" and "q"
          MaxConns   \* bound: connections of a behaviour, each of a client that may
                     \* be at work at the same time

ASSUME HttpAssumption == /\ Workers # {} /\ Requests \subseteq {"command", "q"}
                         /\ MaxConns \in Nat

VARIABLES socket,   \* svr_sock_ is not INVALID_SOCKET
          listener, \* the step of listen_internal
          backlog,  \* connections made that listen has not accepted
          jobs,     \* ThreadPool::jobs_
          stop,     \* ThreadPool::shutdown_
          thread,   \* the step of each thread, and its connection
          conn,     \* the connections, with the step their client is at
          made      \* how many were made
poolVars == <<jobs, stop>>
httpVars == <<socket, listener, backlog, jobs, stop, thread, conn, made>>

Conns == 1..MaxConns
Unused == [kind |-> "none", client |-> "none", open |-> FALSE, handled |-> 0]
At(step, n) == [at |-> step, conn |-> n]

HttpInit == /\ socket = TRUE /\ listener = "accept"
            /\ backlog = <<>> /\ jobs = <<>> /\ stop = FALSE
            /\ thread = [w \in Workers |-> At("awake", 0)]
            /\ conn = [n \in Conns |-> Unused] /\ made = 0
-----------------------------------------------------------------------------
(* Clients: ClientImpl::send and what it calls *)

\* A connection is refused when nobody listens; then nothing changes.
Connect(kind) ==
  /\ socket /\ made < MaxConns
  /\ made' = made + 1
  /\ conn' = [conn EXCEPT ![made + 1] = [kind |-> kind, client |-> "connected", open |-> TRUE, handled |-> 0]]
  /\ backlog' = Append(backlog, made + 1)
  /\ UNCHANGED <<socket, listener, poolVars, thread>>

Client(n, from, to) ==
  /\ conn[n].client = from
  /\ conn' = [conn EXCEPT ![n].client = to]
  /\ UNCHANGED <<socket, listener, backlog, poolVars, thread, made>>

Send(n) == Client(n, "connected", "waiting")

\* The response, or the end of a connection closed without one; send_ does not
\* try again.
Receive(n) == (conn[n].handled > 0 \/ ~conn[n].open) /\ Client(n, "waiting", "done")

\* The read timeout of the client.
GiveUp(n) == Client(n, "waiting", "done")

Sent(n) == conn[n].client \in {"waiting", "done"}
-----------------------------------------------------------------------------
(* listen_internal *)

Waiting == {w \in Workers : thread[w].at = "waiting"}
WakeOne == \/ Waiting = {} /\ UNCHANGED thread
           \/ \E w \in Waiting : thread' = [thread EXCEPT ![w] = At("awake", 0)]

Accept ==
  /\ listener = "accept" /\ socket /\ backlog # <<>>
  /\ jobs' = Append(jobs, Head(backlog)) /\ backlog' = Tail(backlog)
  /\ listener' = "notify"
  /\ UNCHANGED <<socket, stop, thread, conn, made>>

NotifyOne ==
  /\ listener = "notify"
  /\ WakeOne
  /\ listener' = "accept"
  /\ UNCHANGED <<socket, backlog, poolVars, conn, made>>

\* accept fails, or the loop's test does; ThreadPool::shutdown.
AcceptEnds ==
  /\ listener = "accept" /\ ~socket
  /\ stop' = TRUE /\ listener' = "notify all"
  /\ UNCHANGED <<socket, backlog, jobs, thread, conn, made>>

\* Fault: one thread is notified.
NotifyOneOfAll ==
  /\ listener = "notify all"
  /\ WakeOne
  /\ listener' = "join"
  /\ UNCHANGED <<socket, backlog, poolVars, conn, made>>

NotifyAll ==
  /\ listener = "notify all"
  /\ thread' = [w \in Workers |-> IF w \in Waiting THEN At("awake", 0) ELSE thread[w]]
  /\ listener' = "join"
  /\ UNCHANGED <<socket, backlog, poolVars, conn, made>>

Join ==
  /\ listener = "join" /\ \A w \in Workers : thread[w].at = "gone"
  /\ listener' = "returned"
  /\ UNCHANGED <<socket, backlog, poolVars, thread, conn, made>>

Listen == Accept \/ NotifyOne \/ AcceptEnds \/ NotifyAll \/ Join
-----------------------------------------------------------------------------
(* The threads of the pool *)

Going(w, step) == listener # "aborted" /\ thread[w].at = step
Step(w, step) == thread' = [thread EXCEPT ![w].at = step]
N(w) == thread[w].conn

\* Fault: jobs that are left when the pool stops are dropped.
TakeUnlessStopped(w) ==
  /\ Going(w, "awake")
  /\ IF jobs # <<>> /\ ~stop
     THEN /\ thread' = [thread EXCEPT ![w] = At("test", Head(jobs))]
          /\ jobs' = Tail(jobs)
     ELSE /\ thread' = [thread EXCEPT ![w] = At(IF stop THEN "gone" ELSE "waiting", 0)]
          /\ UNCHANGED jobs
  /\ UNCHANGED <<socket, listener, backlog, stop, conn, made>>

\* The critical section: take a job, or leave, or wait.
Take(w) ==
  /\ Going(w, "awake")
  /\ IF jobs # <<>>
     THEN /\ thread' = [thread EXCEPT ![w] = At("test", Head(jobs))]
          /\ jobs' = Tail(jobs)
     ELSE /\ thread' = [thread EXCEPT ![w] = At(IF stop THEN "gone" ELSE "waiting", 0)]
          /\ UNCHANGED jobs
  /\ UNCHANGED <<socket, listener, backlog, stop, conn, made>>

\* process_server_socket_core tests svr_sock_ before it waits for a request.
TestSocket(w) ==
  /\ Going(w, "test")
  /\ Step(w, IF socket THEN "keep alive" ELSE "close")
  /\ UNCHANGED <<socket, listener, backlog, poolVars, conn, made>>

\* keep_alive: there is something to read, and process_request reads it, whether
\* or not its client still waits.
Readable(w) ==
  /\ Going(w, "keep alive") /\ Sent(N(w))
  /\ Step(w, IF conn[N(w)].kind = "q" THEN "assert" ELSE "answer")
  /\ UNCHANGED <<socket, listener, backlog, poolVars, conn, made>>

\* Fault: a thread waits for its request as long as the connection is open.
KeepAliveAlways(w) ==
  /\ Going(w, "keep alive") /\ ~conn[N(w)].open
  /\ Step(w, "close")
  /\ UNCHANGED <<socket, listener, backlog, poolVars, conn, made>>

\* Nothing came for keep_alive_timeout_sec.
KeepAliveEnds(w) ==
  /\ Going(w, "keep alive") /\ ~Sent(N(w))
  /\ Step(w, "close")
  /\ UNCHANGED <<socket, listener, backlog, poolVars, conn, made>>

\* Server::stop, is_running_ being true as long as a handler runs: an assertion,
\* which ends the process when it fails, and the exchange.
StopAsserts(w) ==
  /\ Going(w, "assert")
  /\ IF socket THEN Step(w, "exchange") /\ UNCHANGED <<listener, conn>>
     ELSE /\ listener' = "aborted"
          /\ conn' = [n \in Conns |-> [conn[n] EXCEPT !.open = FALSE]]
          /\ UNCHANGED thread
  /\ UNCHANGED <<socket, backlog, poolVars, made>>

Queued(n) == \E j \in DOMAIN backlog : backlog[j] = n

\* The listening socket is closed, and with it the connections not yet accepted.
StopExchanges(w) ==
  /\ Going(w, "exchange")
  /\ socket' = FALSE
  /\ conn' = [n \in Conns |-> [conn[n] EXCEPT !.open = @ /\ ~Queued(n)]]
  /\ backlog' = <<>>
  /\ Step(w, "answer")
  /\ UNCHANGED <<listener, poolVars, made>>

\* The rest of the handler, and the response.
Answer(w) ==
  /\ Going(w, "answer")
  /\ conn' = [conn EXCEPT ![N(w)].handled = @ + 1]
  /\ Step(w, "close")
  /\ UNCHANGED <<socket, listener, backlog, poolVars, made>>

\* The request says "Connection: close", so there is no second one.
CloseConn(w) ==
  /\ Going(w, "close")
  /\ conn' = [conn EXCEPT ![N(w)].open = FALSE]
  /\ thread' = [thread EXCEPT ![w] = At("awake", 0)]
  /\ UNCHANGED <<socket, listener, backlog, poolVars, made>>

Serve(w) == \/ Take(w) \/ TestSocket(w) \/ Readable(w) \/ KeepAliveEnds(w)
            \/ StopAsserts(w) \/ StopExchanges(w) \/ Answer(w) \/ CloseConn(w)

HttpNext == \/ \E kind \in Requests : Connect(kind)
            \/ \E n \in Conns : Send(n) \/ Receive(n) \/ GiveUp(n)
            \/ Listen \/ \E w \in Workers : Serve(w)

\* The threads of the server run, and clients read what is there to be read.
\* Nobody has to connect, to send what it could, or to give up.
HttpSpec == /\ HttpInit /\ [][HttpNext]_httpVars
            /\ WF_httpVars(Listen)
            /\ \A w \in Workers : WF_httpVars(Serve(w))
            /\ \A n \in Conns : WF_httpVars(Receive(n))
-----------------------------------------------------------------------------
(* Properties *)

\* A request is handled at most once, also when its client gave up or another
\* thread looked for work at the same time; and when listen returns, and main
\* (server.cpp:254-256) deletes the tree, no handler runs and none will: every
\* connection that was made is closed.
ServedOnce ==
  /\ \A n \in Conns : conn[n].handled <= 1
  /\ \A v, w \in Workers : N(v) = N(w) /\ N(v) # 0 => v = w
  /\ listener = "returned" =>
       /\ \A w \in Workers : thread[w].at = "gone"
       /\ \A n \in Conns : ~conn[n].open

\* A client that waits gets a response or the end of its connection, timeouts
\* of its own aside, however many threads idle connections hold.
RequestsEnd == \A n \in Conns : conn[n].client = "waiting" ~> conn[n].client = "done"

\* A handler that calls stop does not wait for itself: listen returns, whoever
\* is connected, or the second stop has ended the process.
StopEndsListen == ~socket ~> listener \in {"returned", "aborted"}
=============================================================================
