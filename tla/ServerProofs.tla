------------------------------ MODULE ServerProofs ------------------------------
(***************************************************************************)
(* Proofs about module Server, for any number of clients and of tasks: its *)
(* type invariant, the order in which commands are seen, that answers are  *)
(* a client's own, and the safety part of the refinement of CommandQueue.  *)
(* At the end, proofs about the library it runs on, module HttpServer.     *)
(***************************************************************************)
EXTENDS Server, HttpServer, SequenceTheorems, TLAPS
-----------------------------------------------------------------------------
(* Type correctness *)

LEMMA AnswerTypes ==
  /\ Absent \in Answers /\ Processing \in Answers
  /\ \A kind \in Kinds, seen \in Seq(Ids) : [is |-> AnswerTo(kind), seen |-> seen] \in Answers
<1>1. <<>> \in Seq(Ids)
  OBVIOUS
<1>2. \A kind \in Kinds : AnswerTo(kind) \in {"set", "got", "shutdown-c", "shutdown"}
  BY ServerAssumption DEF AnswerTo
<1>3. QED
  BY <1>1, <1>2 DEF Answers, Absent, Processing

LEMMA TaskTypes ==
  /\ \A t \in Task : t.id \in Ids /\ t.kind \in Kinds
  /\ \A i \in Ids, kind \in Kinds : [id |-> i, kind |-> kind] \in Task
  /\ NoTask.id = 0
BY DEF Task, NoTask

LEMMA PrefixTypes ==
  ASSUME tree \in Seq(Ids), NEW left \in Remains
  PROVE  left \in Seq(Ids)
<1>1. PICK n \in 0..Len(tree) : left = SubSeq(tree, 1, n)
  BY DEF Remains
<1>2. 1 \in Int /\ n \in Int /\ \A i \in 1..n : i \in 1..Len(tree)
  BY LenProperties
<1>3. QED
  BY <1>1, <1>2, SubSeqProperties

LEMMA TypeStep == TypeOK /\ [Next]_vars => TypeOK'
<1> SUFFICES ASSUME TypeOK, [Next]_vars
             PROVE  TypeOK'
  OBVIOUS
<1> USE AnswerTypes, TaskTypes DEF TypeOK
<1>1. ASSUME NEW c \in Clients, NEW kind \in Kinds, Post(c, kind)
      PROVE  TypeOK'
  BY <1>1, ServerAssumption DEF Post, ghosts, Ids
<1>2. ASSUME NEW c \in Clients, PostFails(c)
      PROVE  TypeOK'
  BY <1>2 DEF PostFails, ghosts
<1>3. ASSUME NEW c \in Clients, Begin(c)
      PROVE  TypeOK'
  BY <1>3 DEF Begin, ghosts
<1>4. ASSUME NEW c \in Clients, Drop(c)
      PROVE  TypeOK'
  BY <1>4 DEF Drop, ghosts
<1>5. ASSUME NEW c \in Clients, StopServer(c)
      PROVE  TypeOK'
  BY <1>5 DEF StopServer, ghosts
<1>6. ASSUME NEW c \in Clients, CloseSocket(c)
      PROVE  TypeOK'
  BY <1>6 DEF CloseSocket, ghosts
<1>7. ASSUME EndProcess
      PROVE  TypeOK'
  <2>1. saved' \in Seq(Ids) /\ dangling' \in BOOLEAN /\ main' = "gone"
    BY <1>7, PrefixTypes DEF EndProcess
  <2>2. QED
    BY <1>7, <2>1 DEF EndProcess, clientVars
<1>8. ASSUME NEW c \in Clients, Push(c)
      PROVE  TypeOK'
  BY <1>8 DEF Push, ghosts
<1>9. ASSUME NEW c \in Clients, MarkProcessing(c)
      PROVE  TypeOK'
  BY <1>9 DEF MarkProcessing
<1>10. ASSUME NEW c \in Clients, Reply(c)
       PROVE  TypeOK'
  BY <1>10 DEF Reply
<1>11. ASSUME NEW c \in Clients, Poll(c)
       PROVE  TypeOK'
  BY ZenonT(40), <1>11 DEF Poll, ghosts
<1>12. CASE Pop
  BY <1>12, HeadTailProperties DEF Pop, clientVars, ghosts
<1>13. CASE Execute
  <2>1. worker.task \in Task /\ tree \in Seq(Ids) /\ <<>> \in Seq(Ids)
    BY <1>13 DEF Execute
  <2>2. worker'.ret \in Answers /\ worker'.step = "storing" /\ worker'.task = worker.task
    BY <1>13, <2>1 DEF Execute
  <2>3. worker' \in [step : {"polling", "running", "storing"}, task : Task \cup {NoTask}, ret : Answers]
    BY <1>13, <2>1, <2>2 DEF Execute
  <2>4. tree' \in Seq(Ids) /\ saved' \in Seq(Ids)
    BY <1>13, <2>1 DEF Execute
  <2>5. QED
    BY <1>13, <2>1, <2>2, <2>3, <2>4 DEF Execute, clientVars, ghosts
<1>14. CASE StoreResult
  BY <1>14 DEF StoreResult, clientVars, ghosts
<1>15. CASE DeleteTree
  BY <1>15 DEF DeleteTree, clientVars, ghosts
<1>16. CASE ExecuteOnDeleted
  <2>1. PICK left \in Remains :
          /\ worker' = [worker EXCEPT !.step = "storing",
                          !.ret = [is |-> AnswerTo(worker.task.kind),
                                   seen |-> IF worker.task.kind = "g" THEN left ELSE <<>>]]
          /\ saved' = IF worker.task.kind = "q" THEN left ELSE saved
    BY <1>16 DEF ExecuteOnDeleted
  <2>2. worker.task \in Task /\ left \in Seq(Ids) /\ <<>> \in Seq(Ids)
    BY <1>16, PrefixTypes DEF ExecuteOnDeleted
  <2>3. worker'.ret \in Answers /\ worker'.step = "storing" /\ worker'.task = worker.task
    BY <2>1, <2>2
  <2>4. worker' \in [step : {"polling", "running", "storing"}, task : Task \cup {NoTask}, ret : Answers]
    BY <2>1, <2>2, <2>3
  <2>5. saved' \in Seq(Ids)
    BY <2>1, <2>2
  <2>6. QED
    BY <1>16, <2>2, <2>3, <2>4, <2>5 DEF ExecuteOnDeleted, clientVars
<1>17. CASE UNCHANGED vars
  BY <1>17 DEF vars
<1>18. QED
  BY <1>1, <1>2, <1>3, <1>4, <1>5, <1>6, <1>7, <1>8, <1>9, <1>10, <1>11, <1>12, <1>13,
     <1>14, <1>15, <1>16, <1>17 DEF Next, Handle, StopAgain, Exit

LEMMA InitTypes == Init => TypeOK
<1> SUFFICES ASSUME Init
             PROVE  TypeOK
  OBVIOUS
<1>1. Absent \in Answers /\ NoTask \in Task \cup {NoTask}
  BY AnswerTypes
<1>2. 1 \in 1..MaxTasks + 1
  BY ServerAssumption
<1>3. worker \in [step : {"polling", "running", "storing"}, task : Task \cup {NoTask}, ret : Answers]
  BY <1>1 DEF Init
<1>4. /\ client \in [Clients -> {"idle", "posting", "polling", "left", "crashed"}]
      /\ handler \in [Clients -> {"none", "accepted", "stop", "close", "push", "mark", "reply"}]
      /\ task \in [Clients -> Task \cup {NoTask}]
      /\ results \in [Ids -> Answers] /\ before \in [Ids -> SUBSET Ids]
  BY <1>1 DEF Init
<1>5. queue \in Seq(Task) /\ tree \in Seq(Ids) /\ saved \in Seq(Ids)
  BY DEF Init
<1>6. /\ listening \in BOOLEAN /\ main \in {"serving", "deleted", "gone"} /\ nextId \in 1..MaxTasks + 1
      /\ submitted \subseteq Ids /\ overwritten \subseteq Ids /\ dangling \in BOOLEAN
  BY <1>2 DEF Init
<1>7. /\ worker.step = "polling"
      /\ \A c \in Clients : handler[c] = "none" /\ client[c] = "idle"
  BY DEF Init
<1>8. QED
  BY <1>3, <1>4, <1>5, <1>6, <1>7 DEF TypeOK

\* Whatever the clients do, time out or leave behind, and whenever a q stops the
\* server, every state is well typed: a handler and the worker have the task they
\* work on, and a client that waits has the task it waits for.
THEOREM TypeCorrect == Spec => []TypeOK
BY InitTypes, TypeStep, PTL DEF Spec
-----------------------------------------------------------------------------
(* The order of arrival: what a command finds in the tree *)

\* The puts that took effect, run, or wait.
WaitingPuts == {queue[j].id : j \in {n \in DOMAIN queue : queue[n].kind = "p"}}
Running == {id \in {worker.task.id} : worker.step = "running" /\ worker.task.kind = "p"}
Ahead(j) == {queue[n].id : n \in {m \in 1..j - 1 : queue[m].kind = "p"}}
Taken == InTree(tree) \cup Running \cup WaitingPuts

\* Ids are handed out in order: nobody knows one that was not.
IdsKnown ==
  /\ \A c \in Clients : task[c].id < nextId
  /\ \A j \in DOMAIN queue : queue[j].id < nextId
  /\ worker.task.id < nextId
  /\ \A i \in Ids : i >= nextId => results[i] = Absent

\* Until a command runs on the deleted tree, puts that were replied to are in the
\* queue, run, or took effect; each task finds those submitted before it in front of
\* it.
OrderInv ==
  /\ TypeOK
  /\ IdsKnown
  /\ ~dangling
  /\ \A c \in Clients :
       handler[c] \in {"mark", "reply"} /\ task[c].kind = "p" => task[c].id \in Taken
  /\ submitted \subseteq Taken
  /\ \A i \in Ids : before[i] \subseteq Taken
  /\ \A j \in DOMAIN queue : before[queue[j].id] \subseteq InTree(tree) \cup Running \cup Ahead(j)
  /\ worker.step = "running" => before[worker.task.id] \subseteq InTree(tree)
  /\ InTree(saved) \subseteq InTree(tree)
  /\ worker.step = "storing" /\ worker.ret.is = "got" =>
       before[worker.task.id] \subseteq InTree(worker.ret.seen)
  /\ worker.step = "storing" /\ worker.ret.is = "shutdown" =>
       before[worker.task.id] \subseteq InTree(saved)
  /\ GetSeesEarlierPuts
  /\ SaveHasEarlierPuts

LEMMA AppendedPlaces ==
  ASSUME NEW S, NEW s \in Seq(S), NEW e \in S
  PROVE  \A j \in DOMAIN Append(s, e) :
           Append(s, e)[j] = e \/ (j \in DOMAIN s /\ Append(s, e)[j] = s[j])
<1>1. /\ DOMAIN Append(s, e) = 1..Len(s) + 1 /\ DOMAIN s = 1..Len(s) /\ Len(s) \in Nat
      /\ \A j \in 1..Len(s) : Append(s, e)[j] = s[j]
      /\ Append(s, e)[Len(s) + 1] = e
  OBVIOUS
<1>2. \A j \in 1..Len(s) + 1 : j \in 1..Len(s) \/ j = Len(s) + 1
  BY <1>1
<1>3. QED
  BY <1>1, <1>2

\* Ids leave nextId behind: only Post moves it, and results has an answer only for a
\* task that was posted.
LEMMA IdsStep == TypeOK /\ IdsKnown /\ [Next]_vars => IdsKnown'
<1> SUFFICES ASSUME TypeOK, IdsKnown, [Next]_vars
             PROVE  IdsKnown'
  OBVIOUS
<1>1. /\ nextId \in Int /\ nextId >= 1 /\ Ids \subseteq Int
      /\ task \in [Clients -> Task \cup {NoTask}] /\ results \in [Ids -> Answers]
      /\ queue \in Seq(Task) /\ worker.task \in Task \cup {NoTask}
      /\ NoTask.id = 0 /\ \A t \in Task : t.id \in Ids
  BY ServerAssumption, TaskTypes DEF TypeOK, Ids
<1>2. /\ \A d \in Clients : task[d].id \in Int
      /\ \A j \in DOMAIN queue : queue[j] \in Task /\ queue[j].id \in Int
      /\ worker.task.id \in Int
  <2>1. \A t \in Task \cup {NoTask} : t.id \in Int
    <3>1. \A t \in Task : t.id \in Int
      BY <1>1
    <3>2. NoTask.id \in Int
      BY <1>1
    <3>3. QED
      BY <3>1, <3>2
  <2>2. \A j \in DOMAIN queue : queue[j] \in Task
    BY <1>1
  <2>3. QED
    BY <1>1, <2>1, <2>2
<1>3. ASSUME NEW c \in Clients, NEW kind \in Kinds, Post(c, kind)
      PROVE  IdsKnown'
  <2>1. nextId' = nextId + 1 /\ task' = [task EXCEPT ![c] = [id |-> nextId, kind |-> kind]]
        /\ UNCHANGED <<queue, results, worker>>
    BY <1>3 DEF Post
  <2>2. \A d \in Clients : task'[d].id < nextId'
    BY <1>1, <1>2, <2>1 DEF IdsKnown
  <2>3. QED
    BY <1>1, <1>2, <2>1, <2>2 DEF IdsKnown
<1>4. ASSUME UNCHANGED <<task, queue, nextId>>, worker'.task = worker.task \/ worker'.task = NoTask,
             \A i \in Ids : results'[i] = results[i] \/ results'[i] = Absent \/ i < nextId
      PROVE  IdsKnown'
  <2>1. worker'.task.id < nextId
    <3>1. worker.task.id < nextId /\ NoTask.id < nextId
      BY <1>1 DEF IdsKnown
    <3>2. QED
      BY <1>4, <3>1
  <2>2. \A i \in Ids : i >= nextId => ~(i < nextId)
    <3>1. nextId \in Int /\ \A i \in Ids : i \in Int
      BY <1>1
    <3>2. QED
      BY <3>1
  <2>3. \A i \in Ids : i >= nextId => results'[i] = Absent
    BY <1>4, <2>2 DEF IdsKnown
  <2>4. QED
    BY <1>4, <2>1, <2>3 DEF IdsKnown
<1>5. ASSUME NEW c \in Clients, Push(c)
      PROVE  IdsKnown'
  <2>1. /\ task[c] \in Task /\ queue' = Append(queue, task[c])
        /\ UNCHANGED <<task, results, worker, nextId>>
    BY <1>5 DEF Push, TypeOK
  <2>2. \A j \in DOMAIN queue' : queue'[j] = task[c] \/ (j \in DOMAIN queue /\ queue'[j] = queue[j])
    BY <1>1, <2>1, AppendedPlaces
  <2>3. QED
    BY <2>1, <2>2 DEF IdsKnown
<1>6. CASE Pop
  <2>1. /\ queue # <<>> /\ queue' = Tail(queue) /\ worker'.task = queue[1]
        /\ UNCHANGED <<task, results, nextId>>
    BY <1>1, <1>6 DEF Pop, clientVars, TypeOK
  <2>2. 1 \in DOMAIN queue /\ \A j \in DOMAIN queue' : j + 1 \in DOMAIN queue /\ queue'[j] = queue[j + 1]
    BY <1>1, <2>1
  <2>3. QED
    BY <2>1, <2>2 DEF IdsKnown
<1>7. CASE Execute \/ ExecuteOnDeleted
  <2>1. worker'.task = worker.task /\ UNCHANGED <<task, queue, results, nextId>>
    BY <1>7 DEF Execute, ExecuteOnDeleted, clientVars, TypeOK
  <2>2. QED
    BY <1>4, <2>1
<1>8. CASE StoreResult
  <2>1. /\ results' = [results EXCEPT ![worker.task.id] = worker.ret] /\ worker'.task = NoTask
        /\ worker.task.id < nextId /\ UNCHANGED <<task, queue, nextId>>
    BY <1>8 DEF StoreResult, clientVars, TypeOK, IdsKnown
  <2>2. \A i \in Ids : results'[i] = results[i] \/ i < nextId
    BY <1>1, <2>1
  <2>3. QED
    BY <1>4, <2>1, <2>2
<1>9. ASSUME NEW c \in Clients, MarkProcessing(c)
      PROVE  IdsKnown'
  <2>1. /\ results' = [results EXCEPT ![task[c].id] = Processing] /\ task[c].id < nextId
        /\ UNCHANGED <<task, queue, worker, nextId>>
    BY <1>9 DEF MarkProcessing, IdsKnown
  <2>2. \A i \in Ids : results'[i] = results[i] \/ i < nextId
    BY <1>1, <2>1
  <2>3. QED
    BY <1>4, <2>1, <2>2
<1>10. ASSUME NEW c \in Clients, Poll(c)
       PROVE  IdsKnown'
  <2>1. /\ UNCHANGED <<task, queue, worker, nextId>>
        /\ results' = [results EXCEPT ![task[c].id] = Absent] \/ results' = results
    BY <1>10 DEF Poll
  <2>2. \A i \in Ids : results'[i] = results[i] \/ results'[i] = Absent
    BY <1>1, <2>1
  <2>3. QED
    BY <1>4, <2>1, <2>2
<1>11. ASSUME NEW c \in Clients,
              \/ Begin(c) \/ Drop(c) \/ StopServer(c) \/ CloseSocket(c) \/ PostFails(c) \/ Reply(c)
       PROVE  IdsKnown'
  BY <1>4, <1>11 DEF Begin, Drop, StopServer, CloseSocket, PostFails, Reply
<1>12. ASSUME DeleteTree \/ EndProcess \/ UNCHANGED vars
       PROVE  IdsKnown'
  BY <1>4, <1>12 DEF DeleteTree, EndProcess, clientVars, vars
<1>13. QED
  BY <1>3, <1>5, <1>6, <1>7, <1>8, <1>9, <1>10, <1>11, <1>12 DEF Next, Handle, StopAgain, Exit

\* Steps that move no task and answer nothing.
LEMMA OrderFrame ==
  ASSUME OrderInv, TypeOK', IdsKnown', ~dangling',
         UNCHANGED <<task, queue, worker, tree, saved, before, submitted, nextId>>,
         \A c \in Clients : handler'[c] \in {"mark", "reply"} => handler[c] \in {"mark", "reply"},
         \A i \in Ids : \/ results'[i] = results[i] \/ results'[i] = Absent
                        \/ results'[i] = Processing /\ i < nextId
  PROVE  OrderInv'
<1>2. Taken' = Taken /\ Running' = Running /\ InTree(tree)' = InTree(tree) /\ InTree(saved)' = InTree(saved)
      /\ \A j : Ahead(j)' = Ahead(j)
  BY DEF Taken, Running, WaitingPuts, InTree, Ahead
<1>4. GetSeesEarlierPuts' /\ SaveHasEarlierPuts'
  BY <1>2 DEF OrderInv, GetSeesEarlierPuts, SaveHasEarlierPuts, Absent, Processing, InTree
<1>5. QED
  BY <1>2, <1>4 DEF OrderInv, InTree

LEMMA PostKeepsOrder ==
  ASSUME OrderInv, TypeOK', IdsKnown', ~dangling', NEW c \in Clients, NEW kind \in Kinds, Post(c, kind)
  PROVE  OrderInv'
<1>1. /\ nextId \in Ids /\ Ids \subseteq Int /\ nextId' = nextId + 1 /\ before \in [Ids -> SUBSET Ids]
      /\ task \in [Clients -> Task \cup {NoTask}] /\ handler \in [Clients -> {"none", "accepted", "stop", "close", "push", "mark", "reply"}]
  BY ServerAssumption DEF OrderInv, TypeOK, Ids, Post
<1>2. Taken' = Taken /\ Running' = Running /\ InTree(tree)' = InTree(tree) /\ InTree(saved)' = InTree(saved)
      /\ \A j : Ahead(j)' = Ahead(j)
  BY DEF Taken, Running, WaitingPuts, InTree, Ahead, Post
<1>3. /\ \A d \in Clients : task[d].id < nextId
      /\ \A j \in DOMAIN queue : queue[j].id < nextId
      /\ worker.task.id < nextId
      /\ results[nextId] = Absent
  BY <1>1 DEF OrderInv, IdsKnown
<1>4. \A i \in Ids : before'[i] = IF i = nextId THEN submitted ELSE before[i]
  BY <1>1 DEF Post
<1>5. /\ \A d \in Clients : task[d].id \in Int
      /\ \A j \in DOMAIN queue : queue[j].id \in Int
      /\ worker.task.id \in Int /\ \A j \in DOMAIN queue : queue[j].id \in Ids
      /\ worker.step # "polling" => worker.task.id \in Ids
  <2>1. /\ queue \in Seq(Task) /\ worker.task \in Task \cup {NoTask}
        /\ worker.step # "polling" => worker.task \in Task
    BY DEF OrderInv, TypeOK
  <2>2. \A t \in Task : t.id \in Ids /\ t.id \in Int
    BY <1>1, TaskTypes
  <2>3. \A j \in DOMAIN queue : queue[j] \in Task
    BY <2>1
  <2>4. QED
    BY <1>1, <2>1, <2>2, <2>3, TaskTypes
<1>7. GetSeesEarlierPuts' /\ SaveHasEarlierPuts'
  BY <1>2, <1>3, <1>4 DEF OrderInv, GetSeesEarlierPuts, SaveHasEarlierPuts, Absent, Post, ghosts, InTree
<1>8. \A d \in Clients : handler'[d] \in {"mark", "reply"} => handler[d] \in {"mark", "reply"} /\ task'[d] = task[d]
  BY <1>1 DEF Post
<1>9. \A i \in Ids : before'[i] \subseteq Taken
  BY <1>4 DEF OrderInv
<1>10. \A j \in DOMAIN queue : before'[queue[j].id] = before[queue[j].id]
  BY <1>3, <1>4, <1>5
<1>11. worker.step # "polling" => before'[worker.task.id] = before[worker.task.id]
  BY <1>3, <1>4, <1>5
<1>12. UNCHANGED <<queue, worker, tree, saved, submitted>>
  BY DEF Post, ghosts
<1>13. QED
  BY <1>2, <1>7, <1>8, <1>9, <1>10, <1>11, <1>12 DEF OrderInv, InTree

LEMMA PushKeepsOrder ==
  ASSUME OrderInv, TypeOK', IdsKnown', ~dangling', NEW c \in Clients, Push(c)
  PROVE  OrderInv'
<1>1. /\ task[c] \in Task /\ queue \in Seq(Task) /\ queue' = Append(queue, task[c])
      /\ UNCHANGED <<task, results, worker, tree, saved, nextId, before, submitted>>
  BY DEF OrderInv, TypeOK, Push, ghosts
<1>2. /\ DOMAIN queue' = 1..Len(queue) + 1 /\ DOMAIN queue = 1..Len(queue) /\ Len(queue) \in Nat
      /\ \A j \in 1..Len(queue) : queue'[j] = queue[j]
      /\ queue'[Len(queue) + 1] = task[c]
  BY <1>1
<1>3. WaitingPuts' = WaitingPuts \cup {id \in {task[c].id} : task[c].kind = "p"}
  BY <1>2 DEF WaitingPuts
<1>4. Running' = Running /\ InTree(tree)' = InTree(tree) /\ InTree(saved)' = InTree(saved)
  BY <1>1 DEF Running, InTree
<1>5. Taken' = Taken \cup {id \in {task[c].id} : task[c].kind = "p"}
  BY <1>3, <1>4 DEF Taken
<1>6. \A j \in 1..Len(queue) : Ahead(j)' = Ahead(j)
  BY <1>2 DEF Ahead
<1>7. \A n \in Nat : n = Len(queue) + 1 => Ahead(n)' = WaitingPuts
  <2>1. SUFFICES ASSUME NEW n \in Nat, n = Len(queue) + 1
                 PROVE  Ahead(n)' = WaitingPuts
    OBVIOUS
  <2>2. 1..n - 1 = DOMAIN queue
    BY <1>2, <2>1
  <2>3. {m \in 1..n - 1 : queue'[m].kind = "p"} = {m \in DOMAIN queue : queue[m].kind = "p"}
    BY <1>2, <2>2
  <2>4. QED
    BY <1>2, <2>3 DEF Ahead, WaitingPuts
<1>9. GetSeesEarlierPuts' /\ SaveHasEarlierPuts'
  BY <1>1 DEF OrderInv, GetSeesEarlierPuts, SaveHasEarlierPuts, InTree
<1>10. \A d \in Clients : handler'[d] \in {"mark", "reply"} /\ task'[d].kind = "p" => task'[d].id \in Taken'
  BY <1>1, <1>5 DEF OrderInv, TypeOK, Push
<1>11. \A j \in DOMAIN queue' : before'[queue'[j].id] \subseteq InTree(tree)' \cup Running' \cup Ahead(j)'
  <2>1. SUFFICES ASSUME NEW j \in 1..Len(queue) + 1
                 PROVE  before[queue'[j].id] \subseteq InTree(tree) \cup Running \cup Ahead(j)'
    BY <1>1, <1>2, <1>4
  <2>2. CASE j \in 1..Len(queue)
    BY <1>2, <1>6, <2>2 DEF OrderInv
  <2>3. CASE j = Len(queue) + 1
    <3>1. before[task[c].id] \subseteq InTree(tree) \cup Running \cup WaitingPuts
      BY <1>1, TaskTypes DEF OrderInv, Taken
    <3>2. QED
      BY <1>2, <1>7, <2>3, <3>1
  <2>4. QED
    BY <1>2, <2>2, <2>3
<1>12. QED
  BY ZenonT(40), <1>1, <1>4, <1>5, <1>9, <1>10, <1>11 DEF OrderInv, InTree

LEMMA ReplyKeepsOrder ==
  ASSUME OrderInv, TypeOK', IdsKnown', ~dangling', NEW c \in Clients, Reply(c)
  PROVE  OrderInv'
<1>1. /\ UNCHANGED <<task, queue, results, worker, tree, saved, nextId, before>>
      /\ submitted' = submitted \/ (task[c].kind = "p" /\ submitted' = submitted \cup {task[c].id})
      /\ \A d \in Clients : handler'[d] \in {"mark", "reply"} => handler[d] \in {"mark", "reply"}
      /\ handler[c] = "reply"
  <2>1. handler \in [Clients -> {"none", "accepted", "stop", "close", "push", "mark", "reply"}]
    BY DEF OrderInv, TypeOK
  <2>2. /\ UNCHANGED <<task, queue, results, worker, tree, saved, nextId, before>>
        /\ submitted' = submitted \/ (task[c].kind = "p" /\ submitted' = submitted \cup {task[c].id})
    BY DEF Reply
  <2>3. handler[c] = "reply" /\ handler' = [handler EXCEPT ![c] = "none"]
    BY DEF Reply
  <2>4. \A d \in Clients : handler'[d] \in {"mark", "reply"} => handler[d] \in {"mark", "reply"}
    BY <2>1, <2>3
  <2>5. QED
    BY <2>2, <2>3, <2>4
<1>2. Taken' = Taken /\ Running' = Running /\ InTree(tree)' = InTree(tree) /\ InTree(saved)' = InTree(saved)
      /\ \A j : Ahead(j)' = Ahead(j)
  BY <1>1 DEF Taken, Running, WaitingPuts, InTree, Ahead
<1>3. submitted' \subseteq Taken'
  BY <1>1, <1>2 DEF OrderInv
<1>4. GetSeesEarlierPuts' /\ SaveHasEarlierPuts'
  BY <1>1 DEF OrderInv, GetSeesEarlierPuts, SaveHasEarlierPuts, InTree
<1>5. QED
  BY <1>1, <1>2, <1>3, <1>4 DEF OrderInv, InTree

LEMMA PopKeepsOrder ==
  ASSUME OrderInv, TypeOK', IdsKnown', ~dangling', Pop
  PROVE  OrderInv'
<1>1. /\ queue \in Seq(Task) /\ queue # <<>> /\ queue' = Tail(queue) /\ worker.step = "polling"
      /\ worker' = [worker EXCEPT !.step = "running", !.task = queue[1]]
      /\ UNCHANGED <<task, handler, results, tree, saved, nextId, before, submitted>>
  BY DEF OrderInv, TypeOK, Pop, clientVars, ghosts
<1>2. /\ worker'.step = "running" /\ worker'.task = queue[1]
  BY <1>1 DEF OrderInv, TypeOK
<1>3. /\ Len(queue) \in Nat /\ Len(queue) >= 1 /\ DOMAIN queue = 1..Len(queue)
      /\ DOMAIN queue' = 1..Len(queue) - 1
      /\ \A j \in 1..Len(queue) - 1 : queue'[j] = queue[j + 1]
  BY <1>1
<1>4. Running = {} /\ Running' = {id \in {queue[1].id} : queue[1].kind = "p"}
  BY <1>1, <1>2 DEF Running
<1>5. \A j \in 1..Len(queue) - 1 : Ahead(j + 1) = Running' \cup Ahead(j)'
  <2>1. SUFFICES ASSUME NEW j \in 1..Len(queue) - 1, NEW id
                 PROVE  id \in Ahead(j + 1) <=> id \in Running' \cup Ahead(j)'
    OBVIOUS
  <2>2. ASSUME id \in Ahead(j + 1)
        PROVE  id \in Running' \cup Ahead(j)'
    <3>1. PICK m \in 1..j : queue[m].kind = "p" /\ queue[m].id = id
      BY <1>3, <2>2 DEF Ahead
    <3>2. CASE m = 1
      BY <1>4, <3>1, <3>2
    <3>3. CASE m > 1
      <4>1. m - 1 \in 1..j - 1 /\ m - 1 \in 1..Len(queue) - 1 /\ (m - 1) + 1 = m
        BY <1>3, <3>3
      <4>2. queue'[m - 1] = queue[m]
        BY <1>3, <4>1
      <4>3. QED
        BY <3>1, <4>1, <4>2 DEF Ahead
    <3>4. QED
      BY <3>2, <3>3
  <2>3. ASSUME id \in Running'
        PROVE  id \in Ahead(j + 1)
    BY <1>3, <1>4, <2>3 DEF Ahead
  <2>4. ASSUME id \in Ahead(j)'
        PROVE  id \in Ahead(j + 1)
    <3>1. PICK m \in 1..j - 1 : queue'[m].kind = "p" /\ queue'[m].id = id
      BY <2>4 DEF Ahead
    <3>2. m + 1 \in 1..(j + 1) - 1 /\ queue'[m] = queue[m + 1]
      BY <1>3
    <3>3. QED
      BY <3>1, <3>2 DEF Ahead
  <2>5. QED
    BY <2>2, <2>3, <2>4
<1>6. WaitingPuts = Running' \cup WaitingPuts'
  <2>1. SUFFICES ASSUME NEW id
                 PROVE  id \in WaitingPuts <=> id \in Running' \cup WaitingPuts'
    OBVIOUS
  <2>2. ASSUME id \in WaitingPuts
        PROVE  id \in Running' \cup WaitingPuts'
    <3>1. PICK m \in 1..Len(queue) : queue[m].kind = "p" /\ queue[m].id = id
      BY <1>3, <2>2 DEF WaitingPuts
    <3>2. CASE m = 1
      BY <1>4, <3>1, <3>2
    <3>3. CASE m > 1
      <4>1. m - 1 \in DOMAIN queue' /\ queue'[m - 1] = queue[m]
        BY <1>3, <3>3
      <4>2. QED
        BY <3>1, <4>1 DEF WaitingPuts
    <3>4. QED
      BY <3>2, <3>3
  <2>3. ASSUME id \in Running'
        PROVE  id \in WaitingPuts
    BY <1>3, <1>4, <2>3 DEF WaitingPuts
  <2>4. ASSUME id \in WaitingPuts'
        PROVE  id \in WaitingPuts
    <3>1. PICK m \in 1..Len(queue) - 1 : queue'[m].kind = "p" /\ queue'[m].id = id
      BY <1>3, <2>4 DEF WaitingPuts
    <3>2. m + 1 \in DOMAIN queue /\ queue'[m] = queue[m + 1]
      BY <1>3
    <3>3. QED
      BY <3>1, <3>2 DEF WaitingPuts
  <2>5. QED
    BY <2>2, <2>3, <2>4
<1>7. Taken' = Taken /\ InTree(tree)' = InTree(tree) /\ InTree(saved)' = InTree(saved)
  BY <1>1, <1>4, <1>6 DEF Taken, InTree
<1>8. \A j \in DOMAIN queue' : before'[queue'[j].id] \subseteq InTree(tree)' \cup Running' \cup Ahead(j)'
  <2>1. SUFFICES ASSUME NEW j \in 1..Len(queue) - 1
                 PROVE  before[queue'[j].id] \subseteq InTree(tree) \cup Running' \cup Ahead(j)'
    BY <1>1, <1>3, <1>7
  <2>2. j + 1 \in DOMAIN queue /\ queue'[j] = queue[j + 1]
    BY <1>3
  <2>3. QED
    BY <1>4, <1>5, <2>2 DEF OrderInv
<1>9. before'[worker'.task.id] \subseteq InTree(tree)'
  <2>1. Ahead(1) = {} /\ 1 \in DOMAIN queue
    BY <1>3 DEF Ahead
  <2>2. QED
    BY <1>1, <1>2, <1>4, <1>7, <2>1 DEF OrderInv
<1>11. GetSeesEarlierPuts' /\ SaveHasEarlierPuts'
  BY <1>1 DEF OrderInv, GetSeesEarlierPuts, SaveHasEarlierPuts, InTree
<1>12. QED
  BY <1>1, <1>2, <1>7, <1>8, <1>9, <1>11 DEF OrderInv, InTree

LEMMA ExecuteKeepsOrder ==
  ASSUME OrderInv, TypeOK', IdsKnown', ~dangling', Execute
  PROVE  OrderInv'
<1> DEFINE t == worker.task
<1>1. /\ worker.step = "running" /\ t \in Task /\ tree \in Seq(Ids) /\ saved \in Seq(Ids)
      /\ worker'.step = "storing" /\ worker'.task = t
      /\ worker'.ret = [is |-> AnswerTo(t.kind), seen |-> IF t.kind = "g" THEN tree ELSE <<>>]
      /\ tree' = IF t.kind = "p" THEN Append(tree, t.id) ELSE tree
      /\ saved' = IF t.kind = "q" THEN tree ELSE saved
      /\ UNCHANGED <<task, handler, queue, results, nextId, before, submitted>>
  BY DEF OrderInv, TypeOK, Execute, clientVars, ghosts
<1>2. InTree(tree)' = InTree(tree) \cup Running /\ Running' = {}
  <2>1. CASE t.kind = "p"
    <3>1. /\ DOMAIN tree' = 1..Len(tree) + 1 /\ DOMAIN tree = 1..Len(tree) /\ Len(tree) \in Nat
          /\ \A j \in 1..Len(tree) : tree'[j] = tree[j]
          /\ tree'[Len(tree) + 1] = t.id
      BY <1>1, <2>1, TaskTypes
    <3>2. QED
      BY <1>1, <2>1, <3>1 DEF InTree, Running
  <2>2. CASE t.kind # "p"
    BY <1>1, <2>2 DEF InTree, Running
  <2>3. QED
    BY <2>1, <2>2
<1>3. WaitingPuts' = WaitingPuts /\ Taken' = Taken /\ \A j : Ahead(j)' = Ahead(j)
  BY <1>1, <1>2 DEF Taken, WaitingPuts, Ahead
<1>4. /\ worker'.ret.is = "got" => t.kind = "g" /\ worker'.ret.seen = tree
      /\ worker'.ret.is = "shutdown" => t.kind = "q" /\ saved' = tree
  <2>1. t.kind \in Kinds /\ Kinds \subseteq {"p", "g", "cq", "q"}
    BY <1>1, TaskTypes, ServerAssumption
  <2>2. /\ AnswerTo(t.kind) = "got" => t.kind = "g"
        /\ AnswerTo(t.kind) = "shutdown" => t.kind = "q"
    BY <2>1 DEF AnswerTo
  <2>3. QED
    BY <1>1, <2>2
<1>5. InTree(saved) \subseteq InTree(saved)' /\ InTree(saved)' \subseteq InTree(tree)'
  BY <1>1, <1>2 DEF OrderInv, InTree
<1>6. before[t.id] \subseteq InTree(tree)
  BY <1>1 DEF OrderInv
<1>7. /\ worker'.ret.is = "got" => before'[t.id] \subseteq InTree(worker'.ret.seen)
      /\ worker'.ret.is = "shutdown" => before'[t.id] \subseteq InTree(saved)'
  BY <1>1, <1>4, <1>6 DEF InTree
<1>8. GetSeesEarlierPuts' /\ SaveHasEarlierPuts'
  <2>2. GetSeesEarlierPuts'
    BY <1>1 DEF OrderInv, GetSeesEarlierPuts, InTree
  <2>3. SaveHasEarlierPuts'
    BY <1>1, <1>5 DEF OrderInv, SaveHasEarlierPuts
  <2>4. QED
    BY <2>2, <2>3
<1>9. \A j \in DOMAIN queue' : before'[queue'[j].id] \subseteq InTree(tree)' \cup Running' \cup Ahead(j)'
  BY <1>1, <1>2, <1>3 DEF OrderInv
<1>10. QED
  BY <1>1, <1>3, <1>5, <1>7, <1>8, <1>9 DEF OrderInv, InTree

LEMMA StoreResultKeepsOrder ==
  ASSUME OrderInv, TypeOK', IdsKnown', ~dangling', StoreResult
  PROVE  OrderInv'
<1>1. /\ worker.step = "storing" /\ worker.task.id \in Ids
      /\ results' = [results EXCEPT ![worker.task.id] = worker.ret] /\ results \in [Ids -> Answers]
      /\ worker'.step = "polling" /\ worker'.task = NoTask /\ nextId \in Int /\ nextId >= 1
      /\ UNCHANGED <<task, handler, queue, tree, saved, nextId, before, submitted>>
  BY TaskTypes, ServerAssumption DEF OrderInv, TypeOK, StoreResult, clientVars, ghosts
<1>2. Running = {} /\ Running' = {}
  BY <1>1 DEF Running
<1>3. Taken' = Taken /\ InTree(tree)' = InTree(tree) /\ InTree(saved)' = InTree(saved)
      /\ \A j : Ahead(j)' = Ahead(j)
  BY <1>1, <1>2 DEF Taken, WaitingPuts, InTree, Ahead
<1>5. \A i \in Ids : results'[i] = IF i = worker.task.id THEN worker.ret ELSE results[i]
  BY <1>1
<1>6. GetSeesEarlierPuts' /\ SaveHasEarlierPuts'
  BY <1>1, <1>3, <1>5 DEF OrderInv, GetSeesEarlierPuts, SaveHasEarlierPuts, InTree
<1>7. QED
  BY <1>1, <1>2, <1>3, <1>6 DEF OrderInv, InTree

\* What holds whether or not a command has run on the deleted tree.
ServerInv == TypeOK /\ IdsKnown /\ (dangling \/ OrderInv)

LEMMA OrderStep == OrderInv /\ TypeOK' /\ IdsKnown' /\ [Next]_vars => dangling' \/ OrderInv'
<1> SUFFICES ASSUME OrderInv, TypeOK', IdsKnown', [Next]_vars, ~dangling'
             PROVE  OrderInv'
  OBVIOUS
<1>1. handler \in [Clients -> {"none", "accepted", "stop", "close", "push", "mark", "reply"}]
  BY DEF OrderInv, TypeOK
<1>2. ASSUME NEW c \in Clients, Begin(c) \/ Drop(c) \/ StopServer(c) \/ CloseSocket(c)
      PROVE  OrderInv'
  BY <1>1, <1>2, OrderFrame DEF Begin, Drop, StopServer, CloseSocket, ghosts
<1>3. ASSUME NEW c \in Clients, PostFails(c)
      PROVE  OrderInv'
  BY <1>3, OrderFrame DEF PostFails, ghosts
<1>4. ASSUME NEW c \in Clients, MarkProcessing(c)
      PROVE  OrderInv'
  <2>1. task[c].id < nextId /\ results \in [Ids -> Answers]
    BY DEF OrderInv, IdsKnown, TypeOK
  <2>2. QED
    BY <1>1, <1>4, <2>1, OrderFrame DEF MarkProcessing
<1>5. ASSUME NEW c \in Clients, Poll(c)
      PROVE  OrderInv'
  <2>1. results \in [Ids -> Answers]
    BY DEF OrderInv, TypeOK
  <2>2. QED
    BY <1>5, <2>1, OrderFrame DEF Poll, ghosts
<1>6. CASE DeleteTree
  BY <1>6, OrderFrame DEF DeleteTree, clientVars, ghosts
<1>7. CASE EndProcess
  <2>1. saved' = saved
    BY <1>7 DEF EndProcess
  <2>2. QED
    BY <1>7, <2>1, OrderFrame DEF EndProcess, clientVars
<1>8. ~ExecuteOnDeleted
  BY DEF ExecuteOnDeleted
<1>9. CASE UNCHANGED vars
  BY <1>9, OrderFrame DEF vars
<1>10. QED
  BY <1>2, <1>3, <1>4, <1>5, <1>6, <1>7, <1>8, <1>9, PostKeepsOrder, PushKeepsOrder, ReplyKeepsOrder,
     PopKeepsOrder, ExecuteKeepsOrder, StoreResultKeepsOrder DEF Next, Handle, StopAgain, Exit

\* A command that has run on the deleted tree stays a fact.
LEMMA DanglingStays == TypeOK /\ [Next]_vars => (dangling => dangling')
BY DEF TypeOK, Next, Handle, Post, Begin, Drop, StopServer, CloseSocket, StopAgain, EndProcess, PostFails,
       Push, MarkProcessing, Reply, Poll, Pop, Execute, ExecuteOnDeleted, StoreResult, DeleteTree,
       Exit, ghosts, vars

LEMMA OrderInit == Init => ServerInv
<1> SUFFICES ASSUME Init
             PROVE  ServerInv
  OBVIOUS
<1>1. TypeOK
  BY InitTypes
<1>2. /\ nextId = 1 /\ NoTask.id = 0 /\ Absent.is = "absent"
      /\ \A c \in Clients : task[c] = NoTask /\ handler[c] = "none"
      /\ queue = <<>> /\ tree = <<>> /\ saved = <<>> /\ submitted = {} /\ ~dangling
      /\ worker.step = "polling" /\ worker.task = NoTask
      /\ \A i \in Ids : results[i] = Absent /\ before[i] = {}
  BY TaskTypes DEF Init, Absent
<1>3. IdsKnown
  BY <1>2 DEF IdsKnown
<1>4. GetSeesEarlierPuts /\ SaveHasEarlierPuts
  BY <1>2 DEF GetSeesEarlierPuts, SaveHasEarlierPuts
<1>5. InTree(saved) \subseteq InTree(tree)
  BY <1>2 DEF InTree
<1>6. QED
  BY <1>1, <1>2, <1>3, <1>4, <1>5 DEF ServerInv, OrderInv

LEMMA ServerStep == ServerInv /\ [Next]_vars => ServerInv'
BY TypeStep, IdsStep, OrderStep, DanglingStays DEF ServerInv

\* A get sees every put whose post was replied to before it was posted, for any
\* number of clients: such a put took effect, runs, or stands in the queue in
\* front of the get, because the one worker takes tasks in their order.
THEOREM GetsCorrect == Spec => []GetSeesEarlierPuts
<1>1. ServerInv => GetSeesEarlierPuts
  BY DEF ServerInv, OrderInv, GetSeesEarlierPuts
<1>2. QED
  BY <1>1, OrderInit, ServerStep, PTL DEF Spec

\* Whatever q the worker runs on the tree and to its end, its save holds every put
\* that was replied to before the q was posted, and no later save holds less.
THEOREM SavesCorrect == Spec => []SaveHasEarlierPuts
<1>1. ServerInv => SaveHasEarlierPuts
  BY DEF ServerInv, OrderInv, SaveHasEarlierPuts
<1>2. QED
  BY <1>1, OrderInit, ServerStep, PTL DEF Spec
-----------------------------------------------------------------------------
(* Whose answers they are *)

\* A task id stands for one command wherever it is met, and what results holds
\* for it is an answer to that command.
OwnInv ==
  /\ \A c, d \in Clients : task[c].id = task[d].id => task[c] = task[d]
  /\ \A c \in Clients : \A j \in DOMAIN queue : queue[j].id = task[c].id => queue[j] = task[c]
  /\ \A c \in Clients : worker.task.id = task[c].id => worker.task = task[c]
  /\ worker.step = "storing" => worker.ret.is = AnswerTo(worker.task.kind)
  /\ \A c \in Clients : task[c].id \in Ids =>
       results[task[c].id].is \in {"absent", "Processing", AnswerTo(task[c].kind)}

\* Steps that move no task; they answer nothing.
LEMMA OwnFrame ==
  ASSUME OwnInv, UNCHANGED <<task, queue, worker>>,
         \A i \in Ids : results'[i] = results[i] \/ results'[i] \in {Absent, Processing}
  PROVE  OwnInv'
BY DEF OwnInv, Absent, Processing

LEMMA OwnStep == OwnInv /\ ServerInv /\ [Next]_vars => OwnInv'
<1> SUFFICES ASSUME OwnInv, ServerInv, [Next]_vars
             PROVE  OwnInv'
  OBVIOUS
<1> DEFINE t == worker.task
<1>1. /\ queue \in Seq(Task) /\ task \in [Clients -> Task \cup {NoTask}] /\ results \in [Ids -> Answers]
      /\ worker.step # "polling" => t.id \in Ids
      /\ \A c \in Clients : handler[c] # "none" => task[c] \in Task
  BY TaskTypes DEF ServerInv, TypeOK
<1>2. ASSUME NEW c \in Clients, NEW kind \in Kinds, Post(c, kind)
      PROVE  OwnInv'
  <2>1. /\ nextId \in Ids /\ Ids \subseteq Int /\ UNCHANGED <<queue, results, worker>>
        /\ task' = [task EXCEPT ![c] = [id |-> nextId, kind |-> kind]]
    BY <1>2, ServerAssumption DEF ServerInv, TypeOK, Ids, Post, ghosts
  <2>2. /\ \A d \in Clients : task[d].id # nextId
        /\ \A j \in DOMAIN queue : queue[j].id # nextId
        /\ t.id # nextId
        /\ results[nextId].is = "absent"
    <3>1. \A i \in Ids : ~(i < i)
      BY <2>1
    <3>2. QED
      BY <2>1, <3>1 DEF ServerInv, IdsKnown, Absent
  <2>3. task'[c].id = nextId /\ \A d \in Clients \ {c} : task'[d] = task[d]
    BY <1>1, <2>1
  <2>4. /\ \A d, e \in Clients : task'[d].id = task'[e].id => task'[d] = task'[e]
        /\ \A d \in Clients : \A j \in DOMAIN queue : queue[j].id = task'[d].id => queue[j] = task'[d]
        /\ \A d \in Clients : t.id = task'[d].id => t = task'[d]
    BY <2>2, <2>3 DEF OwnInv
  <2>5. \A d \in Clients : task'[d].id \in Ids =>
          results[task'[d].id].is \in {"absent", "Processing", AnswerTo(task'[d].kind)}
    BY <2>2, <2>3 DEF OwnInv
  <2>6. QED
    BY <2>1, <2>4, <2>5 DEF OwnInv
<1>3. ASSUME NEW c \in Clients, Push(c)
      PROVE  OwnInv'
  <2>1. /\ task[c] \in Task /\ queue' = Append(queue, task[c]) /\ UNCHANGED <<task, results, worker>>
    BY <1>1, <1>3 DEF Push
  <2>2. \A j \in DOMAIN queue' : queue'[j] = task[c] \/ (j \in DOMAIN queue /\ queue'[j] = queue[j])
    <3>1. /\ DOMAIN queue' = 1..Len(queue) + 1 /\ DOMAIN queue = 1..Len(queue) /\ Len(queue) \in Nat
          /\ \A j \in 1..Len(queue) : queue'[j] = queue[j]
          /\ queue'[Len(queue) + 1] = task[c]
      BY <1>1, <2>1
    <3>2. SUFFICES ASSUME NEW j \in 1..Len(queue) + 1
                   PROVE  queue'[j] = task[c] \/ (j \in 1..Len(queue) /\ queue'[j] = queue[j])
      BY <3>1
    <3>3. j \in 1..Len(queue) \/ j = Len(queue) + 1
      BY <3>1
    <3>4. CASE j = Len(queue) + 1
      BY <3>1, <3>4
    <3>5. CASE j \in 1..Len(queue)
      BY <3>1, <3>5
    <3>6. QED
      BY <3>3, <3>4, <3>5
  <2>3. \A d \in Clients : \A j \in DOMAIN queue' : queue'[j].id = task[d].id => queue'[j] = task[d]
    BY <2>2 DEF OwnInv
  <2>4. QED
    BY <2>1, <2>3 DEF OwnInv
<1>4. CASE Pop
  <2>1. /\ queue # <<>> /\ queue' = Tail(queue) /\ UNCHANGED <<task, results>>
        /\ worker' = [worker EXCEPT !.step = "running", !.task = Head(queue)]
    BY <1>4 DEF Pop, clientVars
  <2>2. \A j \in DOMAIN queue' : \E m \in DOMAIN queue : queue'[j] = queue[m]
    <3>1. \A j \in DOMAIN queue' : j + 1 \in DOMAIN queue /\ queue'[j] = queue[j + 1]
      BY <1>1, <2>1
    <3>2. QED
      BY <3>1
  <2>3. worker'.task = queue[1] /\ 1 \in DOMAIN queue /\ worker'.step = "running"
    BY <1>1, <2>1 DEF ServerInv, TypeOK
  <2>4. QED
    BY <2>1, <2>2, <2>3 DEF OwnInv
<1>5. CASE Execute \/ ExecuteOnDeleted
  <2>1. UNCHANGED <<task, queue, results>>
    BY <1>5 DEF Execute, ExecuteOnDeleted, clientVars
  <2>2. \E seen : worker' = [worker EXCEPT !.step = "storing",
                               !.ret = [is |-> AnswerTo(t.kind), seen |-> seen]]
    BY <1>5 DEF Execute, ExecuteOnDeleted
  <2>3. worker'.step = "storing" /\ worker'.task = t /\ worker'.ret.is = AnswerTo(t.kind)
    BY <2>2 DEF ServerInv, TypeOK
  <2>4. QED
    BY <2>1, <2>3 DEF OwnInv
<1>6. CASE StoreResult
  <2>1. /\ worker.step = "storing" /\ worker'.step = "polling" /\ worker'.task = NoTask
        /\ results' = [results EXCEPT ![t.id] = worker.ret] /\ UNCHANGED <<task, queue>>
    BY <1>6 DEF StoreResult, clientVars, ServerInv, TypeOK
  <2>2. \A c \in Clients : NoTask.id = task[c].id => NoTask = task[c]
    BY <1>1, TaskTypes DEF Ids
  <2>3. \A i \in Ids : results'[i] = IF i = t.id THEN worker.ret ELSE results[i]
    BY <1>1, <2>1
  <2>4. \A c \in Clients : task[c].id \in Ids =>
          results'[task[c].id].is \in {"absent", "Processing", AnswerTo(task[c].kind)}
    BY <2>1, <2>3 DEF OwnInv
  <2>5. QED
    BY <2>1, <2>2, <2>4 DEF OwnInv
<1>7. ASSUME NEW c \in Clients,
             \/ Begin(c) \/ Drop(c) \/ StopServer(c) \/ CloseSocket(c) \/ PostFails(c)
             \/ Reply(c)
      PROVE  OwnInv'
  BY <1>7, OwnFrame DEF Begin, Drop, StopServer, CloseSocket, PostFails, Reply, clientVars
<1>8. ASSUME NEW c \in Clients, MarkProcessing(c) \/ Poll(c)
      PROVE  OwnInv'
  BY <1>1, <1>8, OwnFrame DEF MarkProcessing, Poll
<1>9. CASE DeleteTree \/ EndProcess
  BY <1>9, OwnFrame DEF DeleteTree, EndProcess, clientVars
<1>10. CASE UNCHANGED vars
  BY <1>10, OwnFrame DEF vars
<1>11. QED
  BY <1>2, <1>3, <1>4, <1>5, <1>6, <1>7, <1>8, <1>9, <1>10 DEF Next, Handle, StopAgain, Exit

\* A client that polls can only be handed the answer to its own command: ids
\* are handed out once, and no step writes an answer under another's id.
THEOREM AnswersCorrect == Spec => []AnswersAreOwn
<1>1. Init => OwnInv
  BY ServerAssumption DEF Init, OwnInv, Absent, Ids
<1>2. OwnInv /\ ServerInv => AnswersAreOwn
  BY TaskTypes DEF OwnInv, ServerInv, TypeOK, AnswersAreOwn
<1>3. QED
  BY <1>1, <1>2, OrderInit, ServerStep, OwnStep, PTL DEF Spec
-----------------------------------------------------------------------------
(* The server implements the queue of commands *)

LEMMA HeadAndTail ==
  ASSUME NEW S, NEW s \in Seq(S), NEW e \in S
  PROVE  /\ s # <<>> => <<Head(s)>> \o Tail(s) = s
         /\ <<e>> \o s # <<>> /\ Head(<<e>> \o s) = e /\ Tail(<<e>> \o s) = s
<1>1. ASSUME s # <<>>
      PROVE  <<Head(s)>> \o Tail(s) = s
  <2>1. /\ Head(s) \in S /\ Tail(s) \in Seq(S) /\ <<Head(s)>> \in Seq(S) /\ Len(s) \in Nat \ {0}
        /\ Len(Tail(s)) = Len(s) - 1
        /\ \A i \in 1..Len(s) - 1 : Tail(s)[i] = s[i + 1]
    BY <1>1, HeadTailProperties, EmptySeq
  <2>2. Head(s) = s[1]
    BY <1>1
  <2>3. /\ <<Head(s)>> \o Tail(s) \in Seq(S) /\ Len(<<Head(s)>> \o Tail(s)) = Len(s)
        /\ \A i \in 1..Len(s) : (<<Head(s)>> \o Tail(s))[i] = IF i <= 1 THEN s[1] ELSE Tail(s)[i - 1]
    BY <2>1, <2>2, ConcatProperties
  <2>4. \A i \in 1..Len(s) : (<<Head(s)>> \o Tail(s))[i] = s[i]
    BY <2>1, <2>3
  <2>5. QED
    BY <2>3, <2>4, SeqEqual
<1>2. /\ <<e>> \o s \in Seq(S) /\ Len(<<e>> \o s) = Len(s) + 1 /\ Len(s) \in Nat
      /\ \A i \in 1..Len(s) + 1 : (<<e>> \o s)[i] = IF i <= 1 THEN e ELSE s[i - 1]
  BY ConcatProperties
<1>3. <<e>> \o s # <<>> /\ Head(<<e>> \o s) = e
  BY <1>2
<1>4. Tail(<<e>> \o s) = s
  <2>1. /\ Tail(<<e>> \o s) \in Seq(S) /\ Len(Tail(<<e>> \o s)) = Len(s)
        /\ \A i \in 1..Len(s) : Tail(<<e>> \o s)[i] = (<<e>> \o s)[i + 1]
    BY <1>2, <1>3, HeadTailProperties
  <2>2. \A i \in 1..Len(s) : Tail(<<e>> \o s)[i] = s[i]
    BY <1>2, <2>1
  <2>3. QED
    BY <2>1, <2>2, SeqEqual
<1>5. QED
  BY <1>1, <1>3, <1>4

LEMMA QueueStep == TypeOK /\ [Next]_vars => [Queue!Next]_Queue!vars
<1> SUFFICES ASSUME TypeOK, [Next]_vars
             PROVE  [Queue!Next]_Queue!vars
  OBVIOUS
<1> DEFINE running == IF worker.step = "running" THEN <<worker.task>> ELSE <<>>
<1>1. queue \in Seq(Task) /\ <<>> \o queue = queue /\ (worker.step # "polling" => worker.task \in Task)
  BY ConcatEmptySeq DEF TypeOK
<1>2. ASSUME NEW c \in Clients, Push(c)
      PROVE  Queue!Take(task[c]) /\ task[c] \in Task
  <2>1. task[c] \in Task /\ queue' = Append(queue, task[c]) /\ UNCHANGED <<worker, tree, main>>
    BY <1>2 DEF Push, TypeOK
  <2>2. running \in Seq(Task)
    BY <1>1
  <2>3. running \o Append(queue, task[c]) = Append(running \o queue, task[c])
    BY <1>1, <2>1, <2>2
  <2>4. QED
    BY <2>1, <2>3 DEF Queue!Take
<1>3. CASE Pop
  <2>1. /\ worker.step = "polling" /\ queue # <<>> /\ queue' = Tail(queue) /\ UNCHANGED <<tree, main>>
        /\ worker'.step = "running" /\ worker'.task = Head(queue)
    BY <1>3 DEF Pop, TypeOK
  <2>2. Head(queue) \in Task
    BY <1>1, <2>1, HeadTailProperties
  <2>3. <<Head(queue)>> \o Tail(queue) = queue
    BY <1>1, <2>1, <2>2, HeadAndTail
  <2>4. running \o queue = queue /\ (running \o queue)' = queue
    BY <1>1, <2>1, <2>3
  <2>5. QED
    BY <2>1, <2>4 DEF Queue!vars
<1>4. CASE Execute
  <2>1. /\ main = "serving" /\ worker.step = "running" /\ worker'.step = "storing" /\ UNCHANGED <<queue, main>>
        /\ tree' = IF worker.task.kind = "p" THEN Append(tree, worker.task.id) ELSE tree
    BY <1>4 DEF Execute, TypeOK
  <2>2. worker.task \in Task
    BY <1>1, <2>1
  <2>3. /\ <<worker.task>> \o queue # <<>>
        /\ Head(<<worker.task>> \o queue) = worker.task
        /\ Tail(<<worker.task>> \o queue) = queue
    BY <1>1, <2>2, HeadAndTail
  <2>4. running \o queue = <<worker.task>> \o queue /\ (running \o queue)' = queue
    BY <1>1, <2>1
  <2>5. /\ running \o queue # <<>> /\ Head(running \o queue) = worker.task
        /\ (running \o queue)' = Tail(running \o queue)
    BY <2>3, <2>4
  <2>6. tree' = IF Changes(Head(running \o queue).kind)
                THEN Append(tree, Head(running \o queue).id) ELSE tree
    BY <2>1, <2>5 DEF Changes
  <2>7. QED
    BY <2>1, <2>5, <2>6 DEF Queue!Perform, Queue!Next
<1>5. CASE StoreResult
  <2>1. worker.step = "storing" /\ worker'.step = "polling" /\ UNCHANGED <<queue, tree, main>>
    BY <1>5 DEF StoreResult, TypeOK
  <2>2. QED
    BY <2>1 DEF Queue!vars
<1>6. ASSUME UNCHANGED <<queue, tree, worker>>, main' \in {"deleted", "gone"}
      PROVE  Queue!Close \/ UNCHANGED Queue!vars
  BY <1>6 DEF Queue!Close, Queue!vars
<1>7. ASSUME UNCHANGED <<queue, tree, worker, main>>
      PROVE  UNCHANGED Queue!vars
  BY <1>7 DEF Queue!vars
<1>8. ASSUME NEW c \in Clients, NEW kind \in Kinds, Post(c, kind)
      PROVE  UNCHANGED <<queue, tree, worker, main>>
  BY <1>8 DEF Post
<1>9. ASSUME NEW c \in Clients,
             \/ Begin(c) \/ Drop(c) \/ StopServer(c) \/ CloseSocket(c) \/ PostFails(c)
             \/ MarkProcessing(c) \/ Reply(c) \/ Poll(c)
      PROVE  UNCHANGED <<queue, tree, worker, main>>
  BY <1>9 DEF Begin, Drop, StopServer, CloseSocket, PostFails, MarkProcessing, Reply, Poll
<1>10. ASSUME DeleteTree \/ EndProcess
       PROVE  UNCHANGED <<queue, tree, worker>> /\ main' \in {"deleted", "gone"}
  BY <1>10 DEF DeleteTree, EndProcess
<1>11. CASE UNCHANGED vars
  BY <1>7, <1>11 DEF vars
<1>12. CASE ExecuteOnDeleted
  <2>1. /\ main = "deleted" /\ worker.step = "running" /\ worker'.step = "storing"
        /\ UNCHANGED <<queue, main, tree>>
    BY <1>12 DEF ExecuteOnDeleted, TypeOK
  <2>2. /\ <<worker.task>> \o queue # <<>> /\ Tail(<<worker.task>> \o queue) = queue
    BY <1>1, <2>1, HeadAndTail
  <2>3. running \o queue = <<worker.task>> \o queue /\ (running \o queue)' = queue
    BY <1>1, <2>1
  <2>4. QED
    BY <2>1, <2>2, <2>3 DEF Queue!Discard, Queue!Next
<1>13. QED
  BY <1>2, <1>3, <1>4, <1>5, <1>6, <1>7, <1>8, <1>9, <1>10, <1>11, <1>12
     DEF Next, Handle, StopAgain, Exit, Queue!Next

\* The server implements CommandQueue as far as safety goes: until main deletes the
\* tree commands take effect one by one in the order they were pushed, and those the
\* worker runs later change nothing.  That each does is the fairness TLC checks.
THEOREM ImplementsQueue == Spec => Queue!Init /\ [][Queue!Next]_Queue!vars
<1>1. Init => Queue!Init /\ TypeOK
  BY OrderInit DEF Init, Queue!Init, ServerInv
<1>2. QED
  BY <1>1, TypeStep, QueueStep, PTL DEF Spec
-----------------------------------------------------------------------------
(***************************************************************************)
(* The library the server runs on, module HttpServer: a connection has one *)
(* place at a time, in the backlog, in the queue of the pool or with one   *)
(* thread, so that its request is handled at most once, and when listen    *)
(* returns there is none left in any of them; for every number of threads  *)
(* and connections.                                                        *)
(***************************************************************************)
Resting == {"awake", "waiting", "gone"}
BeforeClose == {"test", "keep alive", "assert", "exchange", "answer"}
Steps == Resting \cup BeforeClose \cup {"close"}
Mains == {"accept", "notify", "notify all", "join", "returned", "aborted"}

HttpTypeInv ==
  /\ socket \in BOOLEAN /\ stop \in BOOLEAN /\ made \in 0..MaxConns /\ listener \in Mains
  /\ backlog \in Seq(1..made) /\ jobs \in Seq(1..made)
  /\ thread \in [Workers -> [at : Steps, conn : 0..made]]
  /\ \A w \in Workers : N(w) = 0 <=> thread[w].at \in Resting
  /\ conn \in [Conns -> [kind : Requests \cup {"none"}, client : {"none", "connected", "waiting", "done"},
                         open : BOOLEAN, handled : Nat]]

\* A connection has one place at a time.
OnePlace ==
  /\ \A i, j \in 1..Len(backlog) : backlog[i] = backlog[j] => i = j
  /\ \A i, j \in 1..Len(jobs) : jobs[i] = jobs[j] => i = j
  /\ \A i \in 1..Len(jobs), j \in 1..Len(backlog) : jobs[i] # backlog[j]
  /\ \A w \in Workers : \A i \in 1..Len(jobs) : jobs[i] # N(w)
  /\ \A w \in Workers : \A i \in 1..Len(backlog) : backlog[i] # N(w)
  /\ \A v, w \in Workers : N(v) = N(w) /\ N(v) # 0 => v = w

\* Its request is handled when it has left the queues and before it is closed.
HandledLast ==
  /\ \A n \in Conns : conn[n].handled <= 1
  /\ \A n \in Conns : n > made => conn[n].handled = 0 /\ ~conn[n].open
  /\ \A i \in 1..Len(backlog) : conn[backlog[i]].handled = 0
  /\ \A i \in 1..Len(jobs) : conn[jobs[i]].handled = 0
  /\ \A w \in Workers : thread[w].at \in BeforeClose => conn[N(w)].handled = 0

\* While it is open it has a place; the places are empty when listen returns.
OpenHasPlace ==
  \A n \in Conns : conn[n].open => \/ \E i \in 1..Len(backlog) : backlog[i] = n
                                   \/ \E i \in 1..Len(jobs) : jobs[i] = n
                                   \/ \E w \in Workers : N(w) = n

StopsInOrder ==
  /\ ~socket => backlog = <<>>
  /\ stop => ~socket /\ listener \notin {"accept", "notify"}
  /\ \A w \in Workers : thread[w].at = "gone" => stop /\ jobs = <<>>
  /\ listener = "returned" => \A w \in Workers : thread[w].at = "gone"

ServeInv == HttpTypeInv /\ OnePlace /\ HandledLast /\ OpenHasPlace /\ StopsInOrder
-----------------------------------------------------------------------------
\* What has a place is a connection that was made.
LEMMA Places ==
  ASSUME HttpTypeInv
  PROVE  /\ made \in Nat /\ 1..made \subseteq Conns
         /\ Len(backlog) \in Nat /\ \A i \in 1..Len(backlog) : backlog[i] \in 1..made
         /\ Len(jobs) \in Nat /\ \A i \in 1..Len(jobs) : jobs[i] \in 1..made
         /\ \A w \in Workers : N(w) \in 0..made /\ thread[w].at \in Steps
         /\ \A w \in Workers : thread[w].at \notin Resting => N(w) \in 1..made
<1>1. made \in Nat /\ made <= MaxConns /\ MaxConns \in Nat
  BY HttpAssumption DEF HttpTypeInv
<1>2. 1..made \subseteq Conns
  BY <1>1 DEF Conns
<1>3. Len(backlog) \in Nat /\ \A i \in 1..Len(backlog) : backlog[i] \in 1..made
  BY DEF HttpTypeInv
<1>4. Len(jobs) \in Nat /\ \A i \in 1..Len(jobs) : jobs[i] \in 1..made
  BY DEF HttpTypeInv
<1>5. \A w \in Workers : N(w) \in 0..made /\ thread[w].at \in Steps
  BY DEF HttpTypeInv, N
<1>6. \A w \in Workers : thread[w].at \notin Resting => N(w) # 0
  BY DEF HttpTypeInv
<1>7. \A w \in Workers : thread[w].at \notin Resting => N(w) \in 1..made
  BY <1>1, <1>5, <1>6
<1> QED
  BY <1>1, <1>2, <1>3, <1>4, <1>5, <1>7

LEMMA BeforeBusy == BeforeClose \cap Resting = {} /\ "close" \notin Resting
  BY DEF BeforeClose, Resting

LEMMA InvServedOnce == ServeInv => ServedOnce
<1> SUFFICES ASSUME ServeInv PROVE ServedOnce
  OBVIOUS
<1>1. \A v, w \in Workers : N(v) = N(w) /\ N(v) # 0 => v = w
  BY DEF ServeInv, OnePlace
<1>2. ASSUME listener = "returned" PROVE \A n \in Conns : ~conn[n].open
  <2>1. /\ \A w \in Workers : thread[w].at = "gone" /\ N(w) = 0
        /\ Workers # {}
    BY <1>2, HttpAssumption DEF ServeInv, StopsInOrder, HttpTypeInv, Resting
  <2>2. jobs = <<>> /\ backlog = <<>>
    BY <2>1 DEF ServeInv, StopsInOrder
  <2> QED
    BY <2>1, <2>2 DEF ServeInv, OpenHasPlace, Conns
<1>3. listener = "returned" => \A w \in Workers : thread[w].at = "gone"
  BY DEF ServeInv, StopsInOrder
<1>4. \A n \in Conns : conn[n].handled <= 1
  BY DEF ServeInv, HandledLast
<1> QED
  BY <1>1, <1>2, <1>3, <1>4 DEF ServedOnce

LEMMA InitServe == HttpInit => ServeInv
<1> SUFFICES ASSUME HttpInit PROVE ServeInv
  OBVIOUS
<1>1. /\ \A w \in Workers : thread[w].at = "awake" /\ thread[w].conn = 0
      /\ \A n \in Conns : conn[n] = [kind |-> "none", client |-> "none", open |-> FALSE, handled |-> 0]
      /\ backlog = <<>> /\ jobs = <<>> /\ made = 0 /\ socket = TRUE /\ stop = FALSE /\ listener = "accept"
  BY DEF HttpInit, Unused, At
<1>2. HttpTypeInv
  <2>1. thread \in [Workers -> [at : Steps, conn : 0..made]]
    BY <1>1 DEF HttpInit, At, Steps, Resting
  <2>2. conn \in [Conns -> [kind : Requests \cup {"none"}, client : {"none", "connected", "waiting", "done"},
                            open : BOOLEAN, handled : Nat]]
    BY <1>1 DEF HttpInit, Unused
  <2>3. backlog \in Seq(1..made) /\ jobs \in Seq(1..made)
    BY <1>1
  <2>4. \A w \in Workers : N(w) = 0 <=> thread[w].at \in Resting
    BY <1>1 DEF N, Resting
  <2>5. made \in 0..MaxConns
    BY <1>1, HttpAssumption
  <2> QED
    BY <1>1, <2>1, <2>2, <2>3, <2>4, <2>5 DEF HttpTypeInv, Mains
<1>3. OnePlace
  BY <1>1 DEF OnePlace, N
<1>4. HandledLast
  <2>1. \A n \in Conns : conn[n].handled = 0 /\ ~conn[n].open
    BY <1>1
  <2>2. \A w \in Workers : thread[w].at \notin BeforeClose
    BY <1>1 DEF BeforeClose
  <2> QED
    BY <1>1, <2>1, <2>2 DEF HandledLast
<1>5. OpenHasPlace /\ StopsInOrder
  BY <1>1 DEF OpenHasPlace, StopsInOrder
<1> QED
  BY <1>2, <1>3, <1>4, <1>5 DEF ServeInv

\* A thread that goes on with its connection, to its closing or without having
\* handled the request.
LEMMA StepServe ==
  ASSUME ServeInv, NEW w \in Workers, NEW step,
         thread[w].at \in BeforeClose,
         step \in BeforeClose \cup {"close"},
         Step(w, step),
         UNCHANGED <<socket, listener, backlog, jobs, stop, conn, made>>
  PROVE  ServeInv'
<1>1. /\ thread'[w].at = step /\ thread'[w].conn = N(w)
      /\ \A v \in Workers \ {w} : thread'[v] = thread[v]
      /\ \A v \in Workers : N(v)' = N(v)
  BY DEF Step, N, ServeInv, HttpTypeInv
<1>2. thread' \in [Workers -> [at : Steps, conn : 0..made]]
  BY DEF Step, ServeInv, HttpTypeInv, Steps
<1>3. HttpTypeInv'
  BY <1>1, <1>2 DEF ServeInv, HttpTypeInv, Steps, Resting, BeforeClose
<1>4. OnePlace'
  BY <1>1 DEF ServeInv, OnePlace
<1>5. HandledLast'
  BY <1>1 DEF ServeInv, HandledLast
<1>6. OpenHasPlace'
  BY <1>1 DEF ServeInv, OpenHasPlace
<1>7. StopsInOrder'
  BY <1>1 DEF ServeInv, StopsInOrder, BeforeClose
<1> QED
  BY <1>3, <1>4, <1>5, <1>6, <1>7 DEF ServeInv

\* What a client does with its own connection.
LEMMA ClientServe ==
  ASSUME ServeInv, NEW n \in Conns,
         NEW from, NEW to \in {"waiting", "done"}, Client(n, from, to)
  PROVE  ServeInv'
<1>1. /\ \A m \in Conns : conn'[m].open = conn[m].open /\ conn'[m].handled = conn[m].handled
      /\ conn' \in [Conns -> [kind : Requests \cup {"none"}, client : {"none", "connected", "waiting", "done"},
                             open : BOOLEAN, handled : Nat]]
  BY DEF Client, ServeInv, HttpTypeInv
<1>2. UNCHANGED <<socket, listener, backlog, jobs, stop, thread, made>>
  BY DEF Client, poolVars
<1>3. HttpTypeInv'
  BY <1>1, <1>2 DEF ServeInv, HttpTypeInv, N
<1>4. OnePlace'
  BY <1>2 DEF ServeInv, OnePlace, N
<1>5. HandledLast'
  <2>1. /\ \A i \in 1..Len(backlog) : backlog[i] \in Conns
        /\ \A i \in 1..Len(jobs) : jobs[i] \in Conns
        /\ \A w \in Workers : thread[w].at \in BeforeClose => N(w) \in Conns
    BY Places, BeforeBusy DEF ServeInv
  <2> QED
    BY <1>1, <1>2, <2>1 DEF ServeInv, HandledLast, N
<1>6. OpenHasPlace'
  BY <1>1, <1>2 DEF ServeInv, OpenHasPlace, N
<1>7. StopsInOrder'
  BY <1>2 DEF ServeInv, StopsInOrder
<1> QED
  BY <1>3, <1>4, <1>5, <1>6, <1>7 DEF ServeInv

LEMMA ConnectServe ==
  ASSUME ServeInv, NEW kind \in Requests, Connect(kind)
  PROVE  ServeInv'
<1> DEFINE m == made + 1
<1>1. /\ made' = m /\ m \in Conns /\ made \in Nat /\ backlog' = Append(backlog, m)
      /\ conn' = [conn EXCEPT ![m] = [kind |-> kind, client |-> "connected", open |-> TRUE, handled |-> 0]]
      /\ UNCHANGED <<socket, listener, jobs, stop, thread>> /\ socket
  BY HttpAssumption DEF Connect, poolVars, ServeInv, HttpTypeInv, Conns
<1>2. /\ conn'[m].open /\ conn'[m].handled = 0
      /\ \A n \in Conns \ {m} : conn'[n] = conn[n]
      /\ conn' \in [Conns -> [kind : Requests \cup {"none"}, client : {"none", "connected", "waiting", "done"},
                             open : BOOLEAN, handled : Nat]]
  BY <1>1 DEF ServeInv, HttpTypeInv
<1>3. /\ backlog \in Seq(1..made) /\ Len(backlog) \in Nat
      /\ Len(backlog') = Len(backlog) + 1 /\ backlog'[Len(backlog) + 1] = m
      /\ \A i \in 1..Len(backlog) : backlog'[i] = backlog[i] /\ backlog[i] \in 1..made
  BY <1>1 DEF ServeInv, HttpTypeInv
<1>4. /\ \A i \in 1..Len(jobs) : jobs[i] \in 1..made
      /\ \A w \in Workers : N(w) \in 0..made /\ N(w)' = N(w)
      /\ \A w \in Workers : thread[w].at \in BeforeClose => N(w) \in 1..made
  BY <1>1, Places, BeforeBusy DEF ServeInv, N
<1>5. HttpTypeInv'
  <2>1. backlog \in Seq(1..m) /\ jobs \in Seq(1..m)
    BY <1>1 DEF ServeInv, HttpTypeInv
  <2>2. backlog' \in Seq(1..m)
    BY <1>1, <2>1
  <2>3. thread \in [Workers -> [at : Steps, conn : 0..m]]
    BY <1>1 DEF ServeInv, HttpTypeInv
  <2>4. m \in 0..MaxConns
    BY <1>1, HttpAssumption DEF Conns
  <2> HIDE DEF m
  <2> QED
    BY <1>1, <1>2, <2>1, <2>2, <2>3, <2>4 DEF ServeInv, HttpTypeInv, N
<1>6. OnePlace'
  BY <1>1, <1>3, <1>4 DEF ServeInv, OnePlace
<1>7. HandledLast'
  <2>1. \A n \in 1..made : n \in Conns \ {m}
    BY <1>1, Places DEF ServeInv
  <2>2. \A n \in Conns : n > m => n > made /\ n # m
    BY <1>1 DEF Conns
  <2> HIDE DEF m
  <2>3. \A n \in Conns : conn'[n].handled <= 1
    BY <1>2 DEF ServeInv, HandledLast
  <2>4. \A n \in Conns : n > made' => conn'[n].handled = 0 /\ ~conn'[n].open
    BY <1>1, <1>2, <2>2 DEF ServeInv, HandledLast
  <2>5. \A i \in 1..Len(backlog') : conn'[backlog'[i]].handled = 0
    BY <1>2, <1>3, <2>1 DEF ServeInv, HandledLast
  <2>6. \A i \in 1..Len(jobs) : conn'[jobs[i]].handled = 0
    BY <1>2, <1>4, <2>1 DEF ServeInv, HandledLast
  <2>7. \A w \in Workers : thread[w].at \in BeforeClose => conn'[N(w)].handled = 0
    BY <1>2, <1>4, <2>1 DEF ServeInv, HandledLast
  <2> QED
    BY <1>1, <1>4, <2>3, <2>4, <2>5, <2>6, <2>7 DEF HandledLast
<1>8. OpenHasPlace'
  <2> SUFFICES ASSUME NEW n \in Conns, conn'[n].open
               PROVE  \/ \E i \in 1..Len(backlog') : backlog'[i] = n
                      \/ \E i \in 1..Len(jobs) : jobs[i] = n
                      \/ \E w \in Workers : N(w) = n
    BY <1>1, <1>4 DEF OpenHasPlace
  <2>1. CASE n = m
    BY <2>1, <1>3
  <2>2. CASE n # m
    <3>1. \/ \E i \in 1..Len(backlog) : backlog[i] = n
          \/ \E i \in 1..Len(jobs) : jobs[i] = n
          \/ \E w \in Workers : N(w) = n
      BY <2>2, <1>2 DEF ServeInv, OpenHasPlace
    <3>2. 1..Len(backlog) \subseteq 1..Len(backlog')
      BY <1>3
    <3> QED
      BY <3>1, <3>2, <1>3
  <2> QED
    BY <2>1, <2>2
<1>9. StopsInOrder'
  BY <1>1 DEF ServeInv, StopsInOrder
<1> QED
  BY <1>5, <1>6, <1>7, <1>8, <1>9 DEF ServeInv

LEMMA AcceptServe == ServeInv /\ Accept => ServeInv'
<1> SUFFICES ASSUME ServeInv, Accept PROVE ServeInv'
  OBVIOUS
<1> DEFINE m == Head(backlog)
<1>1. /\ listener = "accept" /\ socket /\ listener' = "notify" /\ backlog # <<>>
      /\ jobs' = Append(jobs, m) /\ backlog' = Tail(backlog)
      /\ UNCHANGED <<socket, stop, thread, conn, made>>
  BY DEF Accept
<1>2. /\ Len(backlog) \in Nat \ {0} /\ m = backlog[1] /\ 1 \in 1..Len(backlog) /\ m \in 1..made
      /\ Len(backlog') = Len(backlog) - 1
      /\ \A i \in 1..Len(backlog') : i + 1 \in 2..Len(backlog) /\ backlog'[i] = backlog[i + 1]
  BY <1>1 DEF ServeInv, HttpTypeInv
<1>3. /\ Len(jobs) \in Nat /\ Len(jobs') = Len(jobs) + 1 /\ jobs'[Len(jobs) + 1] = m
      /\ \A i \in 1..Len(jobs) : jobs'[i] = jobs[i]
  BY <1>1 DEF ServeInv, HttpTypeInv
<1>4. 2..Len(backlog) \subseteq 1..Len(backlog)
  BY <1>2
<1>5. \A w \in Workers : N(w)' = N(w)
  BY <1>1 DEF N
<1>6. HttpTypeInv'
  <2>1. jobs' \in Seq(1..made) /\ backlog' \in Seq(1..made)
    BY <1>1, <1>2 DEF ServeInv, HttpTypeInv
  <2> QED
    BY <1>1, <1>5, <2>1 DEF ServeInv, HttpTypeInv, Mains
<1> HIDE DEF m
<1>7. OnePlace'
  <2>1. \A i, j \in 1..Len(backlog') : backlog'[i] = backlog'[j] => i = j
    BY <1>2, <1>4 DEF ServeInv, OnePlace
  <2>2. \A i, j \in 1..Len(jobs') : jobs'[i] = jobs'[j] => i = j
    BY <1>2, <1>3 DEF ServeInv, OnePlace
  <2>3. \A i \in 1..Len(jobs'), j \in 1..Len(backlog') : jobs'[i] # backlog'[j]
    BY <1>2, <1>3, <1>4 DEF ServeInv, OnePlace
  <2>4. \A w \in Workers : \A i \in 1..Len(jobs') : jobs'[i] # N(w)
    BY <1>2, <1>3 DEF ServeInv, OnePlace
  <2>5. \A w \in Workers : \A i \in 1..Len(backlog') : backlog'[i] # N(w)
    BY <1>2, <1>4 DEF ServeInv, OnePlace
  <2> QED
    BY <1>5, <2>1, <2>2, <2>3, <2>4, <2>5 DEF ServeInv, OnePlace
<1>8. HandledLast'
  <2>1. \A i \in 1..Len(backlog') : conn[backlog'[i]].handled = 0
    BY <1>2, <1>4 DEF ServeInv, HandledLast
  <2>2. \A i \in 1..Len(jobs') : conn[jobs'[i]].handled = 0
    BY <1>2, <1>3 DEF ServeInv, HandledLast
  <2> QED
    BY <1>1, <1>5, <2>1, <2>2 DEF ServeInv, HandledLast
<1>9. OpenHasPlace'
  <2> SUFFICES ASSUME NEW n \in Conns, conn[n].open
               PROVE  \/ \E i \in 1..Len(backlog') : backlog'[i] = n
                      \/ \E i \in 1..Len(jobs') : jobs'[i] = n
                      \/ \E w \in Workers : N(w) = n
    BY <1>1, <1>5 DEF OpenHasPlace
  <2>1. ASSUME NEW i \in 1..Len(backlog), backlog[i] = n, i # 1
        PROVE  \E j \in 1..Len(backlog') : backlog'[j] = n
    <3>1. i - 1 \in 1..Len(backlog') /\ backlog'[i - 1] = backlog[i]
      BY <2>1, <1>2
    <3> QED
      BY <2>1, <3>1
  <2>2. \A i \in 1..Len(jobs) : i \in 1..Len(jobs')
    BY <1>3
  <2>3. Len(jobs) + 1 \in 1..Len(jobs')
    BY <1>3
  <2> QED
    BY <2>1, <2>2, <2>3, <1>2, <1>3 DEF ServeInv, OpenHasPlace
<1>10. StopsInOrder'
  BY <1>1 DEF ServeInv, StopsInOrder
<1> QED
  BY <1>6, <1>7, <1>8, <1>9, <1>10 DEF ServeInv

LEMMA Awake == HttpTypeInv => At("awake", 0) \in [at : Steps, conn : 0..made]
  BY Places DEF At, Steps, Resting

\* What a notification, of one thread or none or all, changes of the threads.
Woken ==
  /\ thread' \in [Workers -> [at : Steps, conn : 0..made]]
  /\ \A w \in Workers : \/ thread'[w] = thread[w]
                        \/ thread[w].at = "waiting" /\ thread'[w] = At("awake", 0)

LEMMA WakeServe ==
  ASSUME ServeInv,
         Woken,
         UNCHANGED <<socket, backlog, jobs, stop, conn, made>>,
         listener' \in {"accept", "join"},
         listener' = "accept" => ~stop
  PROVE  ServeInv'
<1>1. \A w \in Workers : thread[w].at = "waiting" => N(w) = 0
  BY DEF ServeInv, HttpTypeInv, Resting
<1>2. /\ \A w \in Workers : N(w)' = N(w)
      /\ \A w \in Workers : thread'[w].at = thread[w].at
                            \/ (thread'[w].at = "awake" /\ thread[w].at = "waiting")
      /\ thread' \in [Workers -> [at : Steps, conn : 0..made]]
  BY <1>1 DEF N, At, Woken
<1>4. HttpTypeInv'
  BY <1>2 DEF ServeInv, HttpTypeInv, Resting, Mains
<1>5. OnePlace'
  BY <1>2 DEF ServeInv, OnePlace
<1>6. HandledLast'
  BY <1>2 DEF ServeInv, HandledLast, BeforeClose
<1>7. OpenHasPlace'
  BY <1>2 DEF ServeInv, OpenHasPlace
<1>8. StopsInOrder'
  BY <1>2 DEF ServeInv, StopsInOrder
<1> QED
  BY <1>4, <1>5, <1>6, <1>7, <1>8 DEF ServeInv

LEMMA AcceptEndsServe == ServeInv /\ AcceptEnds => ServeInv'
<1> SUFFICES ASSUME ServeInv, AcceptEnds PROVE ServeInv'
  OBVIOUS
<1>1. /\ ~socket /\ stop' = TRUE /\ listener' = "notify all"
      /\ UNCHANGED <<socket, backlog, jobs, thread, conn, made>>
  BY DEF AcceptEnds
<1>2. HttpTypeInv'
  BY <1>1 DEF ServeInv, HttpTypeInv, Mains, N
<1>3. OnePlace' /\ HandledLast' /\ OpenHasPlace'
  BY <1>1 DEF ServeInv, OnePlace, HandledLast, OpenHasPlace, N
<1>4. StopsInOrder'
  BY <1>1 DEF ServeInv, StopsInOrder
<1> QED
  BY <1>2, <1>3, <1>4 DEF ServeInv

LEMMA JoinServe == ServeInv /\ Join => ServeInv'
<1> SUFFICES ASSUME ServeInv, Join PROVE ServeInv'
  OBVIOUS
<1>1. /\ listener' = "returned" /\ \A w \in Workers : thread[w].at = "gone"
      /\ UNCHANGED <<socket, backlog, jobs, stop, thread, conn, made>>
  BY DEF Join, poolVars
<1>2. HttpTypeInv'
  BY <1>1 DEF ServeInv, HttpTypeInv, Mains, N
<1>3. OnePlace' /\ HandledLast' /\ OpenHasPlace'
  BY <1>1 DEF ServeInv, OnePlace, HandledLast, OpenHasPlace, N
<1>4. StopsInOrder'
  BY <1>1 DEF ServeInv, StopsInOrder
<1> QED
  BY <1>2, <1>3, <1>4 DEF ServeInv

\* A thread that takes the first job.
LEMMA TakeJobServe ==
  ASSUME ServeInv, NEW w \in Workers, thread[w].at = "awake", jobs # <<>>,
         thread' = [thread EXCEPT ![w] = At("test", Head(jobs))],
         jobs' = Tail(jobs),
         UNCHANGED <<socket, listener, backlog, stop, conn, made>>
  PROVE  ServeInv'
<1> DEFINE m == Head(jobs)
<1>1. /\ Len(jobs) \in Nat \ {0} /\ m = jobs[1] /\ 1 \in 1..Len(jobs) /\ m \in 1..made
      /\ Len(jobs') = Len(jobs) - 1
      /\ \A i \in 1..Len(jobs') : i + 1 \in 2..Len(jobs) /\ jobs'[i] = jobs[i + 1]
      /\ jobs' \in Seq(1..made)
  BY DEF ServeInv, HttpTypeInv
<1>2. 2..Len(jobs) \subseteq 1..Len(jobs)
  BY <1>1
<1>3. /\ thread'[w].at = "test" /\ N(w)' = m
      /\ \A v \in Workers \ {w} : thread'[v] = thread[v] /\ N(v)' = N(v)
      /\ N(w) = 0
  BY DEF At, N, ServeInv, HttpTypeInv, Resting
<1>4. HttpTypeInv'
  <2>1. At("test", m) \in [at : Steps, conn : 0..made]
    <3>1. m \in 0..made
      BY <1>1, Places DEF ServeInv
    <3> HIDE DEF m
    <3> QED
      BY <3>1 DEF At, Steps, BeforeClose
  <2>2. thread' \in [Workers -> [at : Steps, conn : 0..made]]
    BY <2>1 DEF ServeInv, HttpTypeInv
  <2>3. \A v \in Workers : N(v)' = 0 <=> thread'[v].at \in Resting
    BY <1>1, <1>3 DEF ServeInv, HttpTypeInv, Resting
  <2> QED
    BY <1>1, <2>2, <2>3 DEF ServeInv, HttpTypeInv
<1> HIDE DEF m
<1>5. OnePlace'
  <2>1. \A i, j \in 1..Len(jobs') : jobs'[i] = jobs'[j] => i = j
    BY <1>1, <1>2 DEF ServeInv, OnePlace
  <2>2. \A i \in 1..Len(jobs'), j \in 1..Len(backlog) : jobs'[i] # backlog[j]
    BY <1>1, <1>2 DEF ServeInv, OnePlace
  <2>3. \A i \in 1..Len(jobs') : jobs'[i] # m
    BY <1>1, <1>2 DEF ServeInv, OnePlace
  <2>4. \A i \in 1..Len(backlog) : backlog[i] # m
    BY <1>1 DEF ServeInv, OnePlace
  <2>5. \A v \in Workers : \A i \in 1..Len(jobs') : jobs'[i] # N(v)'
    BY <1>1, <1>2, <1>3, <2>3 DEF ServeInv, OnePlace
  <2>6. \A v \in Workers : \A i \in 1..Len(backlog) : backlog[i] # N(v)'
    BY <1>3, <2>4 DEF ServeInv, OnePlace
  <2>7. \A v \in Workers : N(v) # m
    BY <1>1 DEF ServeInv, OnePlace
  <2>8. \A u, v \in Workers : N(u)' = N(v)' /\ N(u)' # 0 => u = v
    BY <1>3, <2>7 DEF ServeInv, OnePlace
  <2> QED
    BY <2>1, <2>2, <2>5, <2>6, <2>8 DEF ServeInv, OnePlace
<1>6. HandledLast'
  <2>1. conn[m].handled = 0
    BY <1>1 DEF ServeInv, HandledLast
  <2>2. \A i \in 1..Len(jobs') : conn[jobs'[i]].handled = 0
    BY <1>1, <1>2 DEF ServeInv, HandledLast
  <2>3. \A v \in Workers : thread'[v].at \in BeforeClose => conn[N(v)'].handled = 0
    BY <1>3, <2>1 DEF ServeInv, HandledLast
  <2> QED
    BY <2>2, <2>3 DEF ServeInv, HandledLast
<1>7. OpenHasPlace'
  <2> SUFFICES ASSUME NEW n \in Conns, conn[n].open
               PROVE  \/ \E i \in 1..Len(backlog) : backlog[i] = n
                      \/ \E i \in 1..Len(jobs') : jobs'[i] = n
                      \/ \E v \in Workers : N(v)' = n
    BY DEF OpenHasPlace
  <2>1. ASSUME NEW i \in 1..Len(jobs), jobs[i] = n, i # 1
        PROVE  \E j \in 1..Len(jobs') : jobs'[j] = n
    <3>1. i - 1 \in 1..Len(jobs') /\ jobs'[i - 1] = jobs[i]
      BY <2>1, <1>1
    <3> QED
      BY <2>1, <3>1
  <2>2. n # 0
    BY DEF Conns
  <2> QED
    BY <2>1, <2>2, <1>1, <1>3 DEF ServeInv, OpenHasPlace
<1>8. StopsInOrder'
  <2>1. \A v \in Workers : thread[v].at # "gone"
    BY DEF ServeInv, StopsInOrder
  <2>2. \A v \in Workers : thread'[v].at # "gone"
    BY <2>1, <1>3
  <2>3. listener # "returned"
    BY <2>1 DEF ServeInv, StopsInOrder
  <2> QED
    BY <2>2, <2>3 DEF ServeInv, StopsInOrder
<1> QED
  BY <1>4, <1>5, <1>6, <1>7, <1>8 DEF ServeInv

\* A thread that finds no job leaves, or waits.
LEMMA TakeNothingServe ==
  ASSUME ServeInv, NEW w \in Workers, thread[w].at = "awake", jobs = <<>>,
         thread' = [thread EXCEPT ![w] = At(IF stop THEN "gone" ELSE "waiting", 0)],
         UNCHANGED <<socket, listener, backlog, jobs, stop, conn, made>>
  PROVE  ServeInv'
<1>1. /\ thread'[w].at \in {"gone", "waiting"} /\ (thread'[w].at = "gone" => stop)
      /\ \A v \in Workers \ {w} : thread'[v] = thread[v]
      /\ \A v \in Workers : N(v)' = N(v)
      /\ N(w) = 0
  BY DEF At, N, ServeInv, HttpTypeInv, Resting
<1>2. HttpTypeInv'
  <2>1. At(IF stop THEN "gone" ELSE "waiting", 0) \in [at : Steps, conn : 0..made]
    BY DEF At, Steps, Resting, ServeInv, HttpTypeInv
  <2>2. thread' \in [Workers -> [at : Steps, conn : 0..made]]
    BY <2>1 DEF ServeInv, HttpTypeInv
  <2>3. \A v \in Workers : N(v)' = 0 <=> thread'[v].at \in Resting
    BY <1>1 DEF ServeInv, HttpTypeInv, Resting
  <2> QED
    BY <2>2, <2>3 DEF ServeInv, HttpTypeInv
<1>3. OnePlace'
  BY <1>1 DEF ServeInv, OnePlace
<1>4. HandledLast'
  BY <1>1 DEF ServeInv, HandledLast, BeforeClose
<1>5. OpenHasPlace'
  BY <1>1 DEF ServeInv, OpenHasPlace
<1>6. StopsInOrder'
  BY <1>1 DEF ServeInv, StopsInOrder
<1> QED
  BY <1>2, <1>3, <1>4, <1>5, <1>6 DEF ServeInv

\* The second stop ends the process.
LEMMA AbortServe ==
  ASSUME ServeInv, NEW w \in Workers, listener # "aborted", thread[w].at = "assert", ~socket,
         listener' = "aborted",
         conn' = [n \in Conns |-> [conn[n] EXCEPT !.open = FALSE]],
         UNCHANGED <<socket, backlog, jobs, stop, thread, made>>
  PROVE  ServeInv'
<1>1. /\ \A n \in Conns : ~conn'[n].open /\ conn'[n].handled = conn[n].handled
      /\ conn' \in [Conns -> [kind : Requests \cup {"none"}, client : {"none", "connected", "waiting", "done"},
                             open : BOOLEAN, handled : Nat]]
  BY DEF ServeInv, HttpTypeInv
<1>2. HttpTypeInv'
  BY <1>1 DEF ServeInv, HttpTypeInv, Mains, N
<1>3. OnePlace'
  BY DEF ServeInv, OnePlace, N
<1>4. HandledLast'
  <2>1. /\ \A i \in 1..Len(backlog) : backlog[i] \in Conns
        /\ \A i \in 1..Len(jobs) : jobs[i] \in Conns
        /\ \A v \in Workers : thread[v].at \in BeforeClose => N(v) \in Conns
    BY Places, BeforeBusy DEF ServeInv
  <2> QED
    BY <1>1, <2>1 DEF ServeInv, HandledLast, N
<1>5. OpenHasPlace'
  BY <1>1 DEF OpenHasPlace
<1>6. StopsInOrder'
  BY DEF ServeInv, StopsInOrder
<1> QED
  BY <1>2, <1>3, <1>4, <1>5, <1>6 DEF ServeInv

LEMMA ExchangeServe ==
  ASSUME ServeInv, NEW w \in Workers, StopExchanges(w)
  PROVE  ServeInv'
<1>1. /\ thread[w].at = "exchange" /\ socket' = FALSE /\ backlog' = <<>>
      /\ Step(w, "answer")
      /\ UNCHANGED <<listener, jobs, stop, made>>
      /\ conn' = [n \in Conns |-> [conn[n] EXCEPT !.open = @ /\ ~Queued(n)]]
  BY DEF StopExchanges, Going, poolVars
<1>2. /\ thread'[w].at = "answer" /\ \A v \in Workers \ {w} : thread'[v] = thread[v]
      /\ \A v \in Workers : N(v)' = N(v)
      /\ thread' \in [Workers -> [at : Steps, conn : 0..made]]
  BY <1>1 DEF Step, N, ServeInv, HttpTypeInv, Steps, BeforeClose
<1>3. /\ \A n \in Conns : conn'[n].handled = conn[n].handled
      /\ \A n \in Conns : conn'[n].open => conn[n].open /\ ~Queued(n)
      /\ conn' \in [Conns -> [kind : Requests \cup {"none"}, client : {"none", "connected", "waiting", "done"},
                             open : BOOLEAN, handled : Nat]]
  <2>1. \A n \in Conns : Queued(n) \in BOOLEAN
    BY DEF Queued
  <2>2. ASSUME NEW n \in Conns
        PROVE  /\ conn'[n].handled = conn[n].handled
               /\ conn'[n].open => conn[n].open /\ ~Queued(n)
               /\ conn'[n] \in [kind : Requests \cup {"none"}, client : {"none", "connected", "waiting", "done"},
                               open : BOOLEAN, handled : Nat]
    <3> DEFINE o == conn[n].open /\ ~Queued(n)
    <3>1. conn'[n] = [conn[n] EXCEPT !.open = o]
      BY <1>1
    <3>2. o \in BOOLEAN
      OBVIOUS
    <3>3. o => conn[n].open /\ ~Queued(n)
      OBVIOUS
    <3> HIDE DEF o
    <3>4. conn[n] \in [kind : Requests \cup {"none"}, client : {"none", "connected", "waiting", "done"},
                      open : BOOLEAN, handled : Nat]
      BY DEF ServeInv, HttpTypeInv
    <3>5. conn'[n].open = o /\ conn'[n].handled = conn[n].handled
      BY <3>1, <3>2, <3>4
    <3>6. conn'[n] \in [kind : Requests \cup {"none"}, client : {"none", "connected", "waiting", "done"},
                       open : BOOLEAN, handled : Nat]
      BY <3>1, <3>2, <3>4
    <3> QED
      BY <3>3, <3>5, <3>6
  <2>3. conn' = [n \in Conns |-> conn'[n]]
    BY <1>1
  <2> QED
    BY <2>2, <2>3
<1>4. HttpTypeInv'
  <2>1. backlog' \in Seq(1..made)
    BY <1>1
  <2>3. socket' \in BOOLEAN
    BY <1>1
  <2>2. \A v \in Workers : N(v)' = 0 <=> thread'[v].at \in Resting
    BY <1>1, <1>2 DEF ServeInv, HttpTypeInv, Resting
  <2> QED
    BY <1>1, <1>2, <1>3, <2>1, <2>2, <2>3 DEF ServeInv, HttpTypeInv
<1>5. OnePlace'
  BY <1>1, <1>2 DEF ServeInv, OnePlace
<1>6. HandledLast'
  <2>1. /\ \A i \in 1..Len(jobs) : jobs[i] \in Conns
        /\ \A v \in Workers : thread[v].at \in BeforeClose => N(v) \in Conns
    BY Places, BeforeBusy DEF ServeInv
  <2>2. thread[w].at \in BeforeClose
    BY <1>1 DEF BeforeClose
  <2>3. \A v \in Workers : thread'[v].at \in BeforeClose => conn'[N(v)].handled = 0
    BY <1>2, <1>3, <2>1, <2>2 DEF ServeInv, HandledLast
  <2>4. \A n \in Conns : conn'[n].handled <= 1 /\ (n > made => conn'[n].handled = 0 /\ ~conn'[n].open)
    BY <1>3 DEF ServeInv, HandledLast
  <2>5. \A i \in 1..Len(jobs) : conn'[jobs[i]].handled = 0
    BY <1>3, <2>1 DEF ServeInv, HandledLast
  <2>6. 1..Len(backlog') = {}
    BY <1>1
  <2> QED
    BY <1>1, <1>2, <2>3, <2>4, <2>5, <2>6 DEF HandledLast
<1>7. OpenHasPlace'
  <2> SUFFICES ASSUME NEW n \in Conns, conn'[n].open
               PROVE  \/ \E i \in 1..Len(jobs) : jobs[i] = n
                      \/ \E v \in Workers : N(v) = n
    BY <1>1, <1>2 DEF OpenHasPlace
  <2>1. conn[n].open /\ ~Queued(n)
    BY <1>3
  <2>2. \A i \in 1..Len(backlog) : backlog[i] # n
    BY <2>1 DEF Queued, ServeInv, HttpTypeInv
  <2> QED
    BY <2>1, <2>2 DEF ServeInv, OpenHasPlace
<1>8. StopsInOrder'
  BY <1>1, <1>2 DEF ServeInv, StopsInOrder
<1> QED
  BY <1>4, <1>5, <1>6, <1>7, <1>8 DEF ServeInv

LEMMA AnswerServe ==
  ASSUME ServeInv, NEW w \in Workers, Answer(w)
  PROVE  ServeInv'
<1> DEFINE m == N(w)
<1>1. /\ thread[w].at = "answer" /\ Step(w, "close")
      /\ conn' = [conn EXCEPT ![m].handled = @ + 1]
      /\ UNCHANGED <<socket, listener, backlog, jobs, stop, made>>
  BY DEF Answer, Going, poolVars
<1>2. m \in 1..made /\ m \in Conns /\ thread[w].at \in BeforeClose /\ made \in Nat
  BY <1>1, Places, BeforeBusy DEF ServeInv, BeforeClose
<1>3. conn[m].handled = 0
  BY <1>2 DEF ServeInv, HandledLast
<1>4. /\ thread'[w].at = "close" /\ \A v \in Workers \ {w} : thread'[v] = thread[v]
      /\ \A v \in Workers : N(v)' = N(v)
      /\ thread' \in [Workers -> [at : Steps, conn : 0..made]]
  BY <1>1 DEF Step, N, ServeInv, HttpTypeInv, Steps
<1>5. /\ \A n \in Conns \ {m} : conn'[n] = conn[n]
      /\ conn'[m].handled = 1 /\ conn'[m].open = conn[m].open
      /\ conn' \in [Conns -> [kind : Requests \cup {"none"}, client : {"none", "connected", "waiting", "done"},
                             open : BOOLEAN, handled : Nat]]
  <2>1. conn' = [conn EXCEPT ![m] = [conn[m] EXCEPT !.handled = 1]]
    BY <1>1, <1>2, <1>3 DEF ServeInv, HttpTypeInv
  <2> QED
    BY <1>2, <2>1 DEF ServeInv, HttpTypeInv
<1>6. \A v \in Workers \ {w} : N(v) # m
  <2>1. m # 0
    BY <1>2
  <2> QED
    BY <2>1 DEF ServeInv, OnePlace
<1> HIDE DEF m
<1>7. HttpTypeInv'
  BY <1>1, <1>4, <1>5 DEF ServeInv, HttpTypeInv, Resting
<1>8. OnePlace'
  BY <1>1, <1>4 DEF ServeInv, OnePlace
<1>9. HandledLast'
  <2>1. /\ \A i \in 1..Len(backlog) : backlog[i] \in Conns \ {m}
        /\ \A i \in 1..Len(jobs) : jobs[i] \in Conns \ {m}
        /\ \A v \in Workers \ {w} : thread[v].at \in BeforeClose => N(v) \in Conns \ {m}
    BY <1>6, Places, BeforeBusy DEF ServeInv, OnePlace, m
  <2>2. \A n \in Conns : n > made => n # m
    BY <1>2
  <2>3. thread'[w].at \notin BeforeClose
    BY <1>4 DEF BeforeClose
  <2>4. \A n \in Conns : conn'[n].handled <= 1
    BY <1>5 DEF ServeInv, HandledLast
  <2>5. \A n \in Conns : n > made => conn'[n].handled = 0 /\ ~conn'[n].open
    BY <1>5, <2>2 DEF ServeInv, HandledLast
  <2>6. \A v \in Workers : thread'[v].at \in BeforeClose => conn'[N(v)].handled = 0
    BY <1>4, <1>5, <2>1, <2>3 DEF ServeInv, HandledLast
  <2> QED
    BY <1>1, <1>4, <1>5, <2>1, <2>4, <2>5, <2>6 DEF ServeInv, HandledLast
<1>10. OpenHasPlace'
  BY <1>1, <1>4, <1>5 DEF ServeInv, OpenHasPlace
<1>11. StopsInOrder'
  BY <1>1, <1>4 DEF ServeInv, StopsInOrder
<1> QED
  BY <1>7, <1>8, <1>9, <1>10, <1>11 DEF ServeInv

LEMMA CloseServe ==
  ASSUME ServeInv, NEW w \in Workers, CloseConn(w)
  PROVE  ServeInv'
<1> DEFINE m == N(w)
<1>1. /\ thread[w].at = "close" /\ thread' = [thread EXCEPT ![w] = At("awake", 0)]
      /\ conn' = [conn EXCEPT ![m].open = FALSE]
      /\ UNCHANGED <<socket, listener, backlog, jobs, stop, made>>
  BY DEF CloseConn, Going, poolVars
<1>2. m \in 1..made /\ m \in Conns
  BY <1>1, Places, BeforeBusy DEF ServeInv
<1>3. /\ thread'[w].at = "awake" /\ N(w)' = 0
      /\ \A v \in Workers \ {w} : thread'[v] = thread[v] /\ N(v)' = N(v)
      /\ thread' \in [Workers -> [at : Steps, conn : 0..made]]
  <2>1. At("awake", 0) \in [at : Steps, conn : 0..made]
    BY Places DEF At, Steps, Resting, ServeInv
  <2> QED
    BY <1>1, <2>1 DEF At, N, ServeInv, HttpTypeInv
<1>4. /\ \A n \in Conns : conn'[n].handled = conn[n].handled
      /\ \A n \in Conns : conn'[n].open => conn[n].open /\ n # m
      /\ conn' \in [Conns -> [kind : Requests \cup {"none"}, client : {"none", "connected", "waiting", "done"},
                             open : BOOLEAN, handled : Nat]]
  BY <1>1, <1>2 DEF ServeInv, HttpTypeInv
<1> HIDE DEF m
<1>5. HttpTypeInv'
  BY <1>1, <1>3, <1>4 DEF ServeInv, HttpTypeInv, Resting
<1>6. OnePlace'
  <2>1. 0 \notin 1..made
    BY Places DEF ServeInv
  <2>2. \A v \in Workers : \A i \in 1..Len(jobs) : jobs[i] # N(v)'
    BY <1>3, <2>1, Places DEF ServeInv, OnePlace
  <2>3. \A v \in Workers : \A i \in 1..Len(backlog) : backlog[i] # N(v)'
    BY <1>3, <2>1, Places DEF ServeInv, OnePlace
  <2>4. \A u, v \in Workers : N(u)' = N(v)' /\ N(u)' # 0 => u = v
    BY <1>3 DEF ServeInv, OnePlace
  <2> QED
    BY <1>1, <2>2, <2>3, <2>4 DEF ServeInv, OnePlace
<1>7. HandledLast'
  <2>1. /\ \A i \in 1..Len(backlog) : backlog[i] \in Conns
        /\ \A i \in 1..Len(jobs) : jobs[i] \in Conns
        /\ \A v \in Workers : thread[v].at \in BeforeClose => N(v) \in Conns
    BY Places, BeforeBusy DEF ServeInv
  <2>2. thread'[w].at \notin BeforeClose
    BY <1>3 DEF BeforeClose
  <2> QED
    BY <1>1, <1>3, <1>4, <2>1, <2>2 DEF ServeInv, HandledLast
<1>8. OpenHasPlace'
  BY <1>1, <1>3, <1>4 DEF ServeInv, OpenHasPlace, m
<1>9. StopsInOrder'
  BY <1>1, <1>3 DEF ServeInv, StopsInOrder
<1> QED
  BY <1>5, <1>6, <1>7, <1>8, <1>9 DEF ServeInv
-----------------------------------------------------------------------------
LEMMA ServeStep ==
  ASSUME ServeInv, NEW w \in Workers, Serve(w)
  PROVE  ServeInv'
<1>1. CASE Take(w)
  BY <1>1, TakeJobServe, TakeNothingServe DEF Take, Going
<1>2. CASE TestSocket(w)
  <2> DEFINE step == IF socket THEN "keep alive" ELSE "close"
  <2>1. /\ thread[w].at \in BeforeClose /\ step \in BeforeClose \cup {"close"} /\ Step(w, step)
        /\ UNCHANGED <<socket, listener, backlog, jobs, stop, conn, made>>
    BY <1>2 DEF TestSocket, Going, poolVars, BeforeClose
  <2> HIDE DEF step
  <2> QED
    BY <2>1, StepServe
<1>3. CASE Readable(w)
  BY <1>3, StepServe DEF Readable, Going, poolVars, BeforeClose
<1>4. CASE KeepAliveEnds(w)
  <2>1. /\ thread[w].at \in BeforeClose /\ Step(w, "close")
        /\ UNCHANGED <<socket, listener, backlog, jobs, stop, conn, made>>
    BY <1>4 DEF KeepAliveEnds, Going, poolVars, BeforeClose
  <2> QED
    BY <2>1, StepServe
<1>5. CASE StopAsserts(w)
  <2>1. CASE socket
    BY <1>5, <2>1, StepServe DEF StopAsserts, Going, poolVars, BeforeClose
  <2>2. CASE ~socket
    BY <1>5, <2>2, AbortServe DEF StopAsserts, Going, poolVars
  <2> QED
    BY <2>1, <2>2
<1>6. CASE StopExchanges(w)
  BY <1>6, ExchangeServe
<1>7. CASE Answer(w)
  BY <1>7, AnswerServe
<1>8. CASE CloseConn(w)
  BY <1>8, CloseServe
<1> QED
  BY <1>1, <1>2, <1>3, <1>4, <1>5, <1>6, <1>7, <1>8 DEF Serve

LEMMA ListenStep == ServeInv /\ Listen => ServeInv'
<1> SUFFICES ASSUME ServeInv, Listen PROVE ServeInv'
  OBVIOUS
<1>1. CASE Accept
  BY <1>1, AcceptServe
<1>2. CASE NotifyOne
  <2>1. \A w \in Workers : \/ thread'[w] = thread[w]
                           \/ thread[w].at = "waiting" /\ thread'[w] = At("awake", 0)
    BY <1>2 DEF NotifyOne, WakeOne, Waiting, ServeInv, HttpTypeInv
  <2>2. thread' \in [Workers -> [at : Steps, conn : 0..made]]
    BY <1>2, Awake DEF NotifyOne, WakeOne, Waiting, ServeInv, HttpTypeInv
  <2>3. (listener' = "accept" => ~stop) /\ listener' \in {"accept", "join"} /\ UNCHANGED <<socket, backlog, jobs, stop, conn, made>>
    BY <1>2 DEF NotifyOne, poolVars, ServeInv, StopsInOrder
  <2>4. Woken
    BY <2>1, <2>2 DEF Woken
  <2> QED
    BY <2>4, <2>3, WakeServe
<1>3. CASE AcceptEnds
  BY <1>3, AcceptEndsServe
<1>4. CASE NotifyAll
  <2>1. \A w \in Workers : \/ thread'[w] = thread[w]
                           \/ thread[w].at = "waiting" /\ thread'[w] = At("awake", 0)
    BY <1>4 DEF NotifyAll, Waiting
  <2>2. thread' \in [Workers -> [at : Steps, conn : 0..made]]
    BY <1>4, Awake DEF NotifyAll, ServeInv, HttpTypeInv
  <2>3. (listener' = "accept" => ~stop) /\ listener' \in {"accept", "join"} /\ UNCHANGED <<socket, backlog, jobs, stop, conn, made>>
    BY <1>4 DEF NotifyAll, poolVars
  <2>4. Woken
    BY <2>1, <2>2 DEF Woken
  <2> QED
    BY <2>4, <2>3, WakeServe
<1>5. CASE Join
  BY <1>5, JoinServe
<1> QED
  BY <1>1, <1>2, <1>3, <1>4, <1>5 DEF Listen

LEMMA NextServe == ServeInv /\ [HttpNext]_httpVars => ServeInv'
<1> SUFFICES ASSUME ServeInv, [HttpNext]_httpVars PROVE ServeInv'
  OBVIOUS
<1>1. ASSUME NEW kind \in Requests, Connect(kind) PROVE ServeInv'
  BY <1>1, ConnectServe
<1>2. ASSUME NEW n \in Conns, Send(n) \/ Receive(n) \/ GiveUp(n) PROVE ServeInv'
  BY <1>2, ClientServe DEF Send, Receive, GiveUp
<1>3. CASE Listen
  BY <1>3, ListenStep
<1>4. ASSUME NEW w \in Workers, Serve(w) PROVE ServeInv'
  BY <1>4, ServeStep
<1>5. CASE UNCHANGED httpVars
  BY <1>5 DEF httpVars, ServeInv, HttpTypeInv, OnePlace, HandledLast, OpenHasPlace, StopsInOrder, N
<1> QED
  BY <1>1, <1>2, <1>3, <1>4, <1>5 DEF HttpNext

\* However many threads and connections there are, and however many handlers
\* call stop: a request is handled at most once, by one thread, and when listen
\* returns every thread is gone and every connection closed (httplib.h:701-705,
\* server.cpp:254-256).
THEOREM ServedCorrect == HttpSpec => []ServedOnce
<1>1. HttpInit => ServeInv
  BY InitServe
<1>2. ServeInv /\ [HttpNext]_httpVars => ServeInv'
  BY NextServe
<1>3. ServeInv => ServedOnce
  BY InvServedOnce
<1> QED
  BY <1>1, <1>2, <1>3, PTL DEF HttpSpec
=============================================================================
