------------------------------ MODULE WorkQueue ------------------------------
(***************************************************************************)
(* What the download, encoder and archive queues have in common: a queue,  *)
(* a history and a worker, as a record.  Every critical section of theirs  *)
(* is one step, since none of them blocks but the encoder's, which         *)
(* EncQueue adds.  busy_ is set exactly while the worker is away from its  *)
(* wait with an item, so that the waiting predicate never finds it set.    *)
(***************************************************************************)
EXTENDS Sequences

CONSTANT NoItem

\* worker: at its "test", "waiting", "working" at the item, in the section
\* after it ("finish"), or "ended".
New == [queue |-> <<>>, history |-> <<>>, item |-> NoItem, worker |-> "test", quit |-> FALSE]

Notified(q) == IF q.worker = "waiting" THEN "test" ELSE q.worker

\* Mutant: nobody is notified.
PushSilent(q, x) == [q EXCEPT !.queue = Append(@, x)]

Push(q, x) == [q EXCEPT !.queue = Append(@, x), !.worker = Notified(q)]

\* The destructor, up to the join.
Quit(q) == [q EXCEPT !.quit = TRUE, !.worker = Notified(q)]

\* The predicate fails; the predicate holds and there is work; it holds
\* because of quit_, which ends the loop.
CanWait(q) == q.worker = "test" /\ q.queue = <<>> /\ ~q.quit
CanTake(q) == q.worker = "test" /\ q.queue # <<>> /\ ~q.quit
CanEnd(q) == q.worker = "test" /\ q.quit

Wait(q) == [q EXCEPT !.worker = "waiting"]
End(q) == [q EXCEPT !.worker = "ended"]

\* The oldest item is recorded and worked at.
Take(q) ==
  [q EXCEPT !.queue = Tail(@), !.history = Append(@, Head(q.queue)),
            !.item = Head(q.queue), !.worker = "working"]

\* Mutant: the history is kept.
NextKeeps(q) ==
  [q EXCEPT !.item = NoItem, !.worker = IF q.quit THEN "ended" ELSE "test"]

\* The work is done: with nothing queued the history is cleared, and the loop
\* goes round or ends.
Next(q) ==
  [q EXCEPT !.history = IF q.queue = <<>> THEN <<>> ELSE @,
            !.item = NoItem,
            !.worker = IF q.quit THEN "ended" ELSE "test"]

\* What the scheduler's waiter goes by: while the worker has an item, the
\* item is the last of the history, and a worker with nothing to do has no history.
HistoryTellsWork(q) ==
  /\ q.item # NoItem => q.history # <<>> /\ q.history[Len(q.history)] = q.item
  /\ q.worker = "waiting" => q.history = <<>>

\* A queue of members of S whose worker is about to test or to wait has no item, a
\* history only with something queued, and nothing queued while it waits.
Consistent(q, S) ==
  /\ q \in [queue : Seq(S), history : Seq(S), item : S \union {NoItem}, quit : BOOLEAN,
            worker : {"test", "waiting", "working", "adding", "finish", "stuck", "ended"}]
  /\ HistoryTellsWork(q)
  /\ q.worker \in {"test", "waiting"} =>
       q.item = NoItem /\ (q.queue = <<>> => q.history = <<>>)
  /\ q.worker = "waiting" => q.queue = <<>>
  /\ q.worker \in {"working", "adding", "finish", "stuck"} => q.item \in S

\* Nothing is queued twice, nor while it is worked at.
Once(q) ==
  /\ \A i, j \in DOMAIN q.queue : i # j => q.queue[i] # q.queue[j]
  /\ q.worker \in {"working", "adding"} => \A i \in DOMAIN q.queue : q.queue[i] # q.item

\* x is queued or worked at.
Pending(q, x) ==
  \/ \E i \in DOMAIN q.queue : q.queue[i] = x
  \/ q.worker \in {"working", "adding"} /\ q.item = x
=============================================================================
