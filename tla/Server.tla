--------------------------------- MODULE Server ---------------------------------
(***************************************************************************)
(* The HTTP server and its clients (src/server.cpp, src/task_queue.h,      *)
(* src/client.cpp).  A POST handler queues the command as a task and marks *)
(* it "Processing" in results; one detached worker pops tasks, runs them   *)
(* on the tree and stores their results; a client polls /status, which     *)
(* hands a result out and erases it.  The command q stops the server, and  *)
(* main then deletes the tree while the worker is still running.           *)
(*                                                                         *)
(* The tree is abstracted to the sequence of puts that took effect, and a  *)
(* get to what it sees of them.  httplib (external) runs each request on a *)
(* thread of its own; task ids are taken to be distinct.                   *)
(***************************************************************************)
EXTENDS Integers, Sequences, FiniteSets

CONSTANTS Clients,  \* the client processes
          Kinds,    \* the commands in use, of "p", "g", "cq" and "q"
          MaxTasks, \* bound: tasks of a behaviour
          Impatient \* bound: the clients whose read of a response can time out

ASSUME ServerAssumption ==
  Kinds \subseteq {"p", "g", "cq", "q"} /\ MaxTasks \in Nat /\ Impatient \subseteq Clients

VARIABLES client,    \* what each client is doing
          handler,   \* the step the POST handler of each client is at
          task,      \* the task each client's last command became
          queue,     \* MyTaskQueue::m_queue
          results,   \* the map results: by task id, absent, "Processing" or an answer
          worker,    \* taskProcessor: its step, its task, its ret
          tree,      \* the puts that took effect, in order; what LSM_Tree holds
          saved,     \* what exit_save last wrote
          listening, \* the socket is open
          main,      \* main: serving, past delete lsm_tree, process gone
          nextId,    \* the next task id
          submitted, \* ghost: the puts whose post has been replied to
          before,    \* ghost: what submitted was when a task was posted
          overwritten, \* ghost: ids whose answer "Processing" overwrote
          dangling   \* ghost: a command ran on the deleted tree, or its save was cut
clientVars == <<client, handler, task, nextId, before>>
ghosts == <<submitted, overwritten, dangling>>
vars == <<client, handler, task, queue, results, worker, tree, saved,
          listening, main, nextId, submitted, before, overwritten, dangling>>

Ids == 1..MaxTasks
NoTask == [id |-> 0, kind |-> "none"]
Task == [id : Ids, kind : Kinds]
Absent == [is |-> "absent", seen |-> <<>>]
Processing == [is |-> "Processing", seen |-> <<>>]

\* The answer to each kind of command, by http_command_process.
AnswerTo(kind) == CASE kind = "p" -> "set" [] kind = "g" -> "got"
                    [] kind = "cq" -> "shutdown-c" [] kind = "q" -> "shutdown"

Init == /\ client = [c \in Clients |-> "idle"]
        /\ handler = [c \in Clients |-> "none"]
        /\ task = [c \in Clients |-> NoTask]
        /\ queue = <<>>
        /\ results = [i \in Ids |-> Absent]
        /\ worker = [step |-> "polling", task |-> NoTask, ret |-> Absent]
        /\ tree = <<>> /\ saved = <<>>
        /\ listening = TRUE /\ main = "serving"
        /\ nextId = 1
        /\ submitted = {} /\ overwritten = {} /\ dangling = FALSE
        /\ before = [i \in Ids |-> {}]
-----------------------------------------------------------------------------
(* A client posts a command; its handler works on it *)

\* While the server does not listen a post fails and the client reads on.  handler
\* has one place for each client: a client that gave up posts again when the
\* handler it left behind is done.
Post(c, kind) ==
  /\ listening
  /\ client[c] = "idle" /\ handler[c] = "none" /\ nextId <= MaxTasks
  /\ client' = [client EXCEPT ![c] = "posting"]
  /\ handler' = [handler EXCEPT ![c] = "accepted"]
  /\ task' = [task EXCEPT ![c] = [id |-> nextId, kind |-> kind]]
  /\ nextId' = nextId + 1
  /\ before' = [before EXCEPT ![nextId] = submitted]
  /\ UNCHANGED <<queue, results, worker, tree, saved, listening, main, ghosts>>

\* A thread of the server takes the connection up.
Begin(c) ==
  /\ main # "gone" /\ handler[c] = "accepted" /\ listening
  /\ handler' = [handler EXCEPT ![c] = IF task[c].kind = "q" THEN "stop" ELSE "push"]
  /\ UNCHANGED <<client, task, queue, results, worker, tree, saved, listening, main, nextId, before, ghosts>>

\* After a stop it closes the connection instead, and the client reads on.
Drop(c) ==
  /\ main # "gone" /\ handler[c] = "accepted" /\ ~listening
  /\ handler' = [handler EXCEPT ![c] = "none"]
  /\ client' = [client EXCEPT ![c] = "idle"]
  /\ UNCHANGED <<task, queue, results, worker, tree, saved, listening, main, nextId, before, ghosts>>

\* The handler of q stops the server, and goes on.  Server::stop asserts that the
\* socket is open, then exchanges it for none, in two steps.
StopServer(c) ==
  /\ main # "gone" /\ handler[c] = "stop" /\ listening
  /\ handler' = [handler EXCEPT ![c] = "close"]
  /\ UNCHANGED <<client, task, queue, results, worker, tree, saved, listening, main, nextId, before, ghosts>>

CloseSocket(c) ==
  /\ main # "gone" /\ handler[c] = "close"
  /\ listening' = FALSE
  /\ handler' = [handler EXCEPT ![c] = "push"]
  /\ UNCHANGED <<client, task, queue, results, worker, tree, saved, main, nextId, before, ghosts>>

\* What is left of the tree while it is deleted, or of a save that is cut.
Remains == {SubSeq(tree, 1, n) : n \in 0..Len(tree)}

\* The process ends; a save the worker is at is cut.
EndProcess ==
  /\ main' = "gone"
  /\ saved' \in IF worker.step = "running" /\ worker.task.kind = "q" THEN Remains \cup {saved}
               ELSE {saved}
  /\ dangling' = (dangling \/ saved' # saved)
  /\ UNCHANGED <<clientVars, queue, results, worker, tree, listening, submitted, overwritten>>

\* A q that comes to the assertion after another one's exchange aborts the process.
StopAgain(c) ==
  /\ main # "gone" /\ handler[c] = "stop" /\ ~listening
  /\ EndProcess

\* No response: the read of the client timed out while the handler goes on, or the
\* process is gone.  The client reads on.
PostFails(c) ==
  /\ client[c] = "posting" /\ (c \in Impatient \/ main = "gone")
  /\ client' = [client EXCEPT ![c] = "idle"]
  /\ UNCHANGED <<handler, task, queue, results, worker, tree, saved, listening, main, nextId, before, ghosts>>

\* Fault: the task is queued before its fields are set.
PushEmpty(c) ==
  /\ main # "gone" /\ handler[c] = "push"
  /\ queue' = Append(queue, NoTask)
  /\ handler' = [handler EXCEPT ![c] = "mark"]
  /\ UNCHANGED <<client, task, results, worker, tree, saved, listening, main, nextId, before, ghosts>>

\* Fault: the newest task is served first.
PushFront(c) ==
  /\ main # "gone" /\ handler[c] = "push"
  /\ queue' = <<task[c]>> \o queue
  /\ handler' = [handler EXCEPT ![c] = "mark"]
  /\ UNCHANGED <<client, task, results, worker, tree, saved, listening, main, nextId, before, ghosts>>

Push(c) ==
  /\ main # "gone" /\ handler[c] = "push"
  /\ queue' = Append(queue, task[c])
  /\ handler' = [handler EXCEPT ![c] = "mark"]
  /\ UNCHANGED <<client, task, results, worker, tree, saved, listening, main, nextId, before, ghosts>>

\* Only now the handler enters the task in results, whatever is there.
MarkProcessing(c) ==
  /\ main # "gone" /\ handler[c] = "mark"
  /\ results' = [results EXCEPT ![task[c].id] = Processing]
  /\ overwritten' = IF results[task[c].id] = Absent THEN overwritten
                    ELSE overwritten \cup {task[c].id}
  /\ handler' = [handler EXCEPT ![c] = "reply"]
  /\ UNCHANGED <<client, task, queue, worker, tree, saved, listening, main, nextId, before,
                 submitted, dangling>>

\* The client, if it still waits, has the task id: after q it leaves its loop, else
\* it polls.
Reply(c) ==
  /\ main # "gone" /\ handler[c] = "reply"
  /\ handler' = [handler EXCEPT ![c] = "none"]
  /\ client' = [client EXCEPT ![c] = IF @ # "posting" THEN @
                                    ELSE IF task[c].kind = "q" THEN "left" ELSE "polling"]
  /\ submitted' = IF client[c] = "posting" /\ task[c].kind = "p"
                  THEN submitted \cup {task[c].id} ELSE submitted
  /\ UNCHANGED <<task, queue, results, worker, tree, saved, listening, main, nextId, before,
                 overwritten, dangling>>

\* The /status handler, in one critical section, and what the client makes of
\* its response.  When nobody listens the client uses a null response.
Poll(c) ==
  LET id == task[c].id
      found == results[id]
  IN  /\ client[c] = "polling"
      /\ IF listening
         THEN /\ results' = [results EXCEPT ![id] = Absent]
              /\ client' = [client EXCEPT ![c] =
                              IF found \in {Absent, Processing} THEN "polling"
                              ELSE IF found.is = "shutdown-c" THEN "left" ELSE "idle"]
         ELSE client' = [client EXCEPT ![c] = "crashed"] /\ UNCHANGED results
      /\ UNCHANGED <<handler, task, queue, worker, tree, saved, listening, main, nextId, before, ghosts>>
-----------------------------------------------------------------------------
(* The worker, until the process is gone *)

Pop ==
  /\ main # "gone" /\ worker.step = "polling" /\ queue # <<>>
  /\ worker' = [worker EXCEPT !.step = "running", !.task = Head(queue)]
  /\ queue' = Tail(queue)
  /\ UNCHANGED <<clientVars, results, tree, saved, listening, main, ghosts>>

\* http_command_process on the tree.
Execute ==
  /\ main = "serving" /\ worker.step = "running"
  /\ worker' = [worker EXCEPT !.step = "storing",
                  !.ret = [is |-> AnswerTo(worker.task.kind),
                           seen |-> IF worker.task.kind = "g" THEN tree ELSE <<>>]]
  /\ tree' = IF worker.task.kind = "p" THEN Append(tree, worker.task.id) ELSE tree
  /\ saved' = IF worker.task.kind = "q" THEN tree ELSE saved
  /\ UNCHANGED <<clientVars, queue, results, listening, main, ghosts>>

\* The worker does not know that main has deleted the tree: what it finds there is
\* undefined, taken as any part of what was there; what it writes there is lost.
ExecuteOnDeleted ==
  /\ main = "deleted" /\ worker.step = "running"
  /\ \E left \in Remains :
       /\ worker' = [worker EXCEPT !.step = "storing",
                       !.ret = [is |-> AnswerTo(worker.task.kind),
                                seen |-> IF worker.task.kind = "g" THEN left ELSE <<>>]]
       /\ saved' = IF worker.task.kind = "q" THEN left ELSE saved
  /\ dangling' = TRUE
  /\ UNCHANGED <<clientVars, queue, results, tree, listening, main, submitted, overwritten>>

\* Fault: the result goes to the task posted last.
StoreForLatest ==
  /\ main # "gone" /\ worker.step = "storing"
  /\ results' = [results EXCEPT ![nextId - 1] = worker.ret]
  /\ worker' = [worker EXCEPT !.step = "polling", !.task = NoTask, !.ret = Absent]
  /\ UNCHANGED <<clientVars, queue, tree, saved, listening, main, ghosts>>

\* Fault: the result is stored only over a "Processing" that is there.
StoreIfMarked ==
  /\ main # "gone" /\ worker.step = "storing"
  /\ results' = [results EXCEPT ![worker.task.id] = IF @ = Processing THEN worker.ret ELSE @]
  /\ worker' = [worker EXCEPT !.step = "polling", !.task = NoTask, !.ret = Absent]
  /\ UNCHANGED <<clientVars, queue, tree, saved, listening, main, ghosts>>

StoreResult ==
  /\ main # "gone" /\ worker.step = "storing"
  /\ results' = [results EXCEPT ![worker.task.id] = worker.ret]
  /\ worker' = [worker EXCEPT !.step = "polling", !.task = NoTask, !.ret = Absent]
  /\ UNCHANGED <<clientVars, queue, tree, saved, listening, main, ghosts>>
-----------------------------------------------------------------------------
(* main, when listen returns: httplib has joined the threads of the handlers *)

DeleteTree ==
  /\ main = "serving" /\ ~listening /\ \A c \in Clients : handler[c] = "none"
  /\ main' = "deleted"
  /\ UNCHANGED <<clientVars, queue, results, worker, tree, saved, listening, ghosts>>

\* The return from main ends the worker wherever it is; so may its use of the
\* deleted tree.
Exit == main = "deleted" /\ EndProcess

Handle(c) == \/ Begin(c) \/ Drop(c) \/ StopServer(c) \/ CloseSocket(c) \/ StopAgain(c)
             \/ Push(c) \/ MarkProcessing(c) \/ Reply(c)

Next == \/ \E c \in Clients : (\E kind \in Kinds : Post(c, kind)) \/ PostFails(c) \/ Handle(c) \/ Poll(c)
        \/ Pop \/ Execute \/ ExecuteOnDeleted \/ StoreResult
        \/ DeleteTree \/ Exit

\* The threads of the server and the loops of the clients keep running; nobody
\* has to type a command.
Spec == /\ Init /\ [][Next]_vars
        /\ \A c \in Clients : WF_vars(Handle(c)) /\ WF_vars(Poll(c))
        /\ WF_vars(Pop \/ Execute \/ ExecuteOnDeleted \/ StoreResult)
        /\ WF_vars(DeleteTree \/ Exit)
-----------------------------------------------------------------------------
(* Properties *)

Answers == [is : {"absent", "Processing", "set", "got", "shutdown-c", "shutdown"},
            seen : Seq(Ids)]
InTree(seq) == {seq[j] : j \in DOMAIN seq}

\* Who works on a task, or waits for its answer, has one: a handler from the moment
\* its client posts (server.cpp:221-224), the worker from its pop on (155-162).
TypeOK == /\ client \in [Clients -> {"idle", "posting", "polling", "left", "crashed"}]
          /\ handler \in [Clients -> {"none", "accepted", "stop", "close", "push", "mark", "reply"}]
          /\ task \in [Clients -> Task \cup {NoTask}]
          /\ queue \in Seq(Task)
          /\ results \in [Ids -> Answers]
          /\ worker \in [step : {"polling", "running", "storing"},
                         task : Task \cup {NoTask}, ret : Answers]
          /\ tree \in Seq(Ids) /\ saved \in Seq(Ids)
          /\ listening \in BOOLEAN /\ main \in {"serving", "deleted", "gone"}
          /\ nextId \in 1..MaxTasks + 1
          /\ submitted \subseteq Ids /\ overwritten \subseteq Ids /\ dangling \in BOOLEAN
          /\ before \in [Ids -> SUBSET Ids]
          /\ \A c \in Clients : handler[c] # "none" \/ client[c] \in {"posting", "polling"} =>
               task[c] \in Task
          /\ worker.step # "polling" => worker.task \in Task

\* Until a command runs on the deleted tree a get sees every put whose post was
\* replied to before the get was posted, by whichever client and whether or not its
\* answer was read yet: the queue (task_queue.h) and the one worker keep the order.
GetSeesEarlierPuts ==
  ~dangling => \A i \in Ids : results[i].is = "got" => before[i] \subseteq InTree(results[i].seen)

\* So does the save of a command q that the worker runs before that and that the
\* end of the process does not cut.
SaveHasEarlierPuts ==
  ~dangling => \A i \in Ids : results[i].is = "shutdown" => before[i] \subseteq InTree(saved)

\* What a polling client can be handed is the answer to its own command.
AnswersAreOwn ==
  \A c \in Clients : client[c] = "polling" =>
    results[task[c].id].is \in {"absent", "Processing", AnswerTo(task[c].kind)}

PollsFor(c, i) == client[c] = "polling" /\ task[c].id = i

\* Polling ends with an answer, unless the handler's "Processing" overwrote it
\* (server.cpp:226-231 against 162).
AnsweredUnlessOverwritten ==
  \A c \in Clients, i \in Ids : PollsFor(c, i) ~> ~PollsFor(c, i) \/ i \in overwritten

\* The loop of client.cpp:30, "periodically check for results", ends.
EveryPollAnswered ==
  \A c \in Clients, i \in Ids : PollsFor(c, i) ~> ~PollsFor(c, i)

\* The server with its queue, worker and handlers is a queue of commands that
\* take effect one by one in the order they were pushed, until main deletes the
\* tree; after that none has an effect on the store.
Changes(kind) == kind = "p"
Queue == INSTANCE CommandQueue WITH
           Tasks <- Task, store <- tree, open <- main = "serving",
           pending <- (IF worker.step = "running" THEN <<worker.task>> ELSE <<>>) \o queue
IsCommandQueue == Queue!Spec
=============================================================================
