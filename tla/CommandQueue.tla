------------------------------- MODULE CommandQueue -------------------------------
(***************************************************************************)
(* What the HTTP server promises of the commands it takes: while it is     *)
(* open they take effect one at a time, in the order they were taken, and  *)
(* none waits for ever.  Module Server implements it with a queue, a       *)
(* worker and handlers (src/server.cpp, src/task_queue.h).                 *)
(***************************************************************************)
EXTENDS Integers, Sequences

CONSTANTS Tasks,      \* the commands, each with an id and a kind
          Changes(_)  \* the kinds that change the store

VARIABLES pending,  \* the commands taken that have no effect yet
          store,    \* the ids of the changes, in order of effect
          open      \* commands take effect
vars == <<pending, store, open>>

Init == pending = <<>> /\ store = <<>> /\ open = TRUE

Take(task) == /\ pending' = Append(pending, task)
              /\ UNCHANGED <<store, open>>

\* The oldest command takes effect.
Perform == /\ open /\ pending # <<>>
           /\ pending' = Tail(pending)
           /\ store' = IF Changes(Head(pending).kind) THEN Append(store, Head(pending).id)
                       ELSE store
           /\ UNCHANGED open

\* The server closes: what is pending, or taken after, never has an effect.
Close == open /\ open' = FALSE /\ UNCHANGED <<pending, store>>
Discard == /\ ~open /\ pending # <<>>
           /\ pending' = Tail(pending)
           /\ UNCHANGED <<store, open>>

Next == (\E task \in Tasks : Take(task)) \/ Perform \/ Close \/ Discard

Spec == Init /\ [][Next]_vars /\ WF_vars(Perform)
=============================================================================
