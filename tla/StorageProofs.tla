--------------------------- MODULE StorageProofs ---------------------------
(***************************************************************************)
(* Audio is kept whatever the workers that share the files do, the         *)
(* histories tell the scheduler what is at work, and what is handed on has *)
(* been written: for any downloads, speeches and dates.                    *)
(***************************************************************************)
EXTENDS Storage, DecodeUtilProofs, SequenceTheorems, TLAPS

-----------------------------------------------------------------------------
(* Sequences *)

LEMMA Appended ==
  ASSUME NEW S, NEW s \in Seq(S), NEW x \in S
  PROVE  /\ Append(s, x) \in Seq(S)
         /\ Append(s, x) # <<>>
         /\ Append(s, x)[Len(Append(s, x))] = x
         /\ \A i \in DOMAIN s : i \in DOMAIN Append(s, x) /\ Append(s, x)[i] = s[i]
         /\ \A i \in DOMAIN Append(s, x) : i \in DOMAIN s \/ i = Len(Append(s, x))
         /\ Len(Append(s, x)) \in DOMAIN Append(s, x) /\ Len(Append(s, x)) \notin DOMAIN s
BY AppendProperties, LenProperties

LEMMA Taken ==
  ASSUME NEW S, NEW s \in Seq(S), s # <<>>
  PROVE  /\ Head(s) \in S /\ Head(s) = s[1] /\ 1 \in DOMAIN s
         /\ Tail(s) \in Seq(S)
         /\ \A i \in DOMAIN Tail(s) : i + 1 \in DOMAIN s /\ i + 1 # 1 /\ i \in Int /\ Tail(s)[i] = s[i + 1]
         /\ \A i \in DOMAIN s : i = 1 \/ (i - 1 \in DOMAIN Tail(s) /\ Tail(s)[i - 1] = s[i])
<1>1. Len(s) \in Nat \ {0} /\ DOMAIN s = 1 .. Len(s)
  BY EmptySeq, LenProperties
<1>2. /\ Head(s) \in S /\ Tail(s) \in Seq(S) /\ Len(Tail(s)) = Len(s) - 1
      /\ \A i \in 1 .. Len(Tail(s)) : Tail(s)[i] = s[i + 1]
  BY HeadTailProperties
<1>3. DOMAIN Tail(s) = 1 .. Len(Tail(s))
  BY <1>2, LenProperties
<1>4. Head(s) = s[1]
  BY DEF Head
<1> QED
  BY <1>1, <1>2, <1>3, <1>4

-----------------------------------------------------------------------------
(* The operations of a queue *)

Workers == {"test", "waiting", "working", "adding", "finish", "stuck", "ended"}

LEMMA Types ==
  ASSUME NEW S, NEW q, Queue!Consistent(q, S)
  PROVE  /\ q.queue \in Seq(S) /\ q.history \in Seq(S) /\ q.item \in S \union {NoItem}
         /\ q.quit \in BOOLEAN /\ q.worker \in Workers
         /\ q.worker \in {"working", "adding", "finish", "stuck"} => q.item \in S
BY DEF Queue!Consistent, Workers

\* The record of a queue, written out.
Fields(a, b, c, d, e) == [queue |-> a, history |-> b, item |-> c, worker |-> d, quit |-> e]

LEMMA IsRecord ==
  ASSUME NEW S, NEW q, Queue!Consistent(q, S)
  PROVE  q = Fields(q.queue, q.history, q.item, q.worker, q.quit)
BY DEF Queue!Consistent, Fields

LEMMA Made ==
  ASSUME NEW S, NEW q, Queue!Consistent(q, S), NEW x
  PROVE  /\ Queue!Push(q, x) = Fields(Append(q.queue, x), q.history, q.item, Queue!Notified(q), q.quit)
         /\ Queue!Quit(q) = Fields(q.queue, q.history, q.item, Queue!Notified(q), TRUE)
         /\ Queue!Take(q) = Fields(Tail(q.queue), Append(q.history, Head(q.queue)),
                                   Head(q.queue), "working", q.quit)
         /\ Queue!Next(q) = Fields(q.queue, IF q.queue = <<>> THEN <<>> ELSE q.history,
                                   NoItem, IF q.quit THEN "ended" ELSE "test", q.quit)
         /\ \A w : [q EXCEPT !.worker = w] = Fields(q.queue, q.history, q.item, w, q.quit)
<1>1. q = Fields(q.queue, q.history, q.item, q.worker, q.quit)
  BY IsRecord
<1>2. Queue!Push(q, x) = Fields(Append(q.queue, x), q.history, q.item, Queue!Notified(q), q.quit)
  <2> DEFINE v == Append(q.queue, x)
             r == [q EXCEPT !.queue = v]
             w == Queue!Notified(q)
  <2>1. Queue!Push(q, x) = [r EXCEPT !.worker = w]
    BY DEF Queue!Push
  <2> HIDE DEF v, w
  <2>2. r = Fields(v, q.history, q.item, q.worker, q.quit)
    BY <1>1 DEF Fields
  <2> HIDE DEF r
  <2>3. [r EXCEPT !.worker = w] = Fields(v, q.history, q.item, w, q.quit)
    BY <2>2 DEF Fields
  <2> QED
    BY <2>1, <2>3 DEF v, w
<1>3. Queue!Quit(q) = Fields(q.queue, q.history, q.item, Queue!Notified(q), TRUE)
  <2> DEFINE v == TRUE
             r == [q EXCEPT !.quit = v]
             w == Queue!Notified(q)
  <2>1. Queue!Quit(q) = [r EXCEPT !.worker = w]
    BY DEF Queue!Quit
  <2> HIDE DEF v, w
  <2>2. r = Fields(q.queue, q.history, q.item, q.worker, v)
    BY <1>1 DEF Fields
  <2> HIDE DEF r
  <2>3. [r EXCEPT !.worker = w] = Fields(q.queue, q.history, q.item, w, v)
    BY <2>2 DEF Fields
  <2> QED
    BY <2>1, <2>3 DEF v, w
<1>4. Queue!Take(q) = Fields(Tail(q.queue), Append(q.history, Head(q.queue)), Head(q.queue), "working", q.quit)
  <2> DEFINE t == Tail(q.queue)
             h == Append(q.history, Head(q.queue))
             x1 == Head(q.queue)
             w == "working"
             r == [q EXCEPT !.queue = t]
             r1 == [r EXCEPT !.history = h]
             r2 == [r1 EXCEPT !.item = x1]
  <2>1. Queue!Take(q) = [r2 EXCEPT !.worker = w]
    <3>1. r.history = q.history
      BY <1>1 DEF Fields
    <3> QED
      BY <3>1 DEF Queue!Take
  <2> HIDE DEF t, h, x1, w
  <2>2. r = Fields(t, q.history, q.item, q.worker, q.quit)
    BY <1>1 DEF Fields
  <2> HIDE DEF r
  <2>3. r1 = Fields(t, h, q.item, q.worker, q.quit)
    BY <2>2 DEF Fields
  <2> HIDE DEF r1
  <2>4. r2 = Fields(t, h, x1, q.worker, q.quit)
    BY <2>3 DEF Fields
  <2> HIDE DEF r2
  <2>5. [r2 EXCEPT !.worker = w] = Fields(t, h, x1, w, q.quit)
    BY <2>4 DEF Fields
  <2> QED
    BY <2>1, <2>5 DEF t, h, x1, w
<1>5. Queue!Next(q) = Fields(q.queue, IF q.queue = <<>> THEN <<>> ELSE q.history,
                             NoItem, IF q.quit THEN "ended" ELSE "test", q.quit)
  <2> DEFINE h == IF q.queue = <<>> THEN <<>> ELSE q.history
             x1 == NoItem
             w == IF q.quit THEN "ended" ELSE "test"
             r == [q EXCEPT !.history = h]
             r1 == [r EXCEPT !.item = x1]
  <2>1. Queue!Next(q) = [r1 EXCEPT !.worker = w]
    BY DEF Queue!Next
  <2> HIDE DEF h, x1, w
  <2>2. r = Fields(q.queue, h, q.item, q.worker, q.quit)
    BY <1>1 DEF Fields
  <2> HIDE DEF r
  <2>3. r1 = Fields(q.queue, h, x1, q.worker, q.quit)
    BY <2>2 DEF Fields
  <2> HIDE DEF r1
  <2>4. [r1 EXCEPT !.worker = w] = Fields(q.queue, h, x1, w, q.quit)
    BY <2>3 DEF Fields
  <2> QED
    BY <2>1, <2>4 DEF h, x1, w
<1>6. ASSUME NEW w PROVE [q EXCEPT !.worker = w] = Fields(q.queue, q.history, q.item, w, q.quit)
  BY <1>1 DEF Fields
<1> QED
  BY <1>2, <1>3, <1>4, <1>5, <1>6

LEMMA NewConsistent ==
  ASSUME NEW S
  PROVE  /\ Queue!Consistent(Queue!New, S) /\ Queue!Once(Queue!New)
         /\ \A x : ~Queue!Pending(Queue!New, x)
BY EmptySeq DEF Queue!Consistent, Queue!New, Queue!Once, Queue!Pending, Queue!HistoryTellsWork

LEMMA PushKeeps ==
  ASSUME NEW S, NEW q, NEW x \in S, Queue!Consistent(q, S)
  PROVE  /\ Queue!Consistent(Queue!Push(q, x), S)
         /\ Queue!Once(q) /\ ~Queue!Pending(q, x) => Queue!Once(Queue!Push(q, x))
         /\ \A y : Queue!Pending(Queue!Push(q, x), y) <=> Queue!Pending(q, y) \/ y = x
<1> DEFINE p == Queue!Push(q, x)
<1>1. p = Fields(Append(q.queue, x), q.history, q.item,
                 IF q.worker = "waiting" THEN "test" ELSE q.worker, q.quit)
  BY Made DEF Queue!Notified
<1>2. /\ p.queue = Append(q.queue, x) /\ p.history = q.history /\ p.item = q.item
      /\ p.quit = q.quit /\ p.worker = IF q.worker = "waiting" THEN "test" ELSE q.worker
  BY <1>1 DEF Fields
<1> DEFINE t == Append(q.queue, x)
<1>3. /\ t \in Seq(S) /\ t # <<>> /\ t[Len(t)] = x
      /\ \A i \in DOMAIN q.queue : i \in DOMAIN t /\ t[i] = q.queue[i]
      /\ \A i \in DOMAIN t : i \in DOMAIN q.queue \/ i = Len(t)
      /\ Len(t) \in DOMAIN t /\ Len(t) \notin DOMAIN q.queue
  BY Types, Appended
<1> HIDE DEF p
<1>4. Queue!Consistent(p, S)
  BY <1>1, <1>2, <1>3 DEF Queue!Consistent, Queue!HistoryTellsWork, Fields
<1> HIDE DEF t
<1>5. p.queue = t /\ (p.worker \in {"working", "adding"} <=> q.worker \in {"working", "adding"})
  BY <1>2 DEF t
<1>6. ASSUME NEW y PROVE Queue!Pending(p, y) <=> Queue!Pending(q, y) \/ y = x
  BY <1>2, <1>3, <1>5 DEF Queue!Pending
<1>7. ASSUME Queue!Once(q), ~Queue!Pending(q, x) PROVE Queue!Once(p)
  <2>1. ASSUME NEW i \in DOMAIN t, NEW j \in DOMAIN t, i # j PROVE t[i] # t[j]
    BY <1>3, <1>7, <2>1 DEF Queue!Once, Queue!Pending
  <2>2. ASSUME p.worker \in {"working", "adding"}, NEW i \in DOMAIN t PROVE t[i] # p.item
    BY <1>2, <1>3, <1>5, <1>7, <2>2 DEF Queue!Once, Queue!Pending
  <2> QED
    BY <1>5, <2>1, <2>2 DEF Queue!Once
<1> QED
  BY <1>4, <1>6, <1>7 DEF p

LEMMA QuitKeeps ==
  ASSUME NEW S, NEW q, Queue!Consistent(q, S)
  PROVE  /\ Queue!Consistent(Queue!Quit(q), S)
         /\ Queue!Once(q) => Queue!Once(Queue!Quit(q))
         /\ \A y : Queue!Pending(Queue!Quit(q), y) <=> Queue!Pending(q, y)
<1> DEFINE p == Queue!Quit(q)
<1>1. p = [queue |-> q.queue, history |-> q.history, item |-> q.item,
           worker |-> IF q.worker = "waiting" THEN "test" ELSE q.worker, quit |-> TRUE]
  BY Made DEF Queue!Notified, Fields
<1> HIDE DEF p
<1>2. Queue!Consistent(p, S)
  BY <1>1 DEF Queue!Consistent, Queue!HistoryTellsWork
<1>3. (Queue!Once(q) => Queue!Once(p)) /\ \A y : Queue!Pending(p, y) <=> Queue!Pending(q, y)
  BY <1>1 DEF Queue!Once, Queue!Pending
<1> QED
  BY <1>2, <1>3 DEF p

\* The worker goes on with the item it has, or with none.
LEMMA WorkerMoves ==
  ASSUME NEW S, NEW q, Queue!Consistent(q, S), NEW w,
         \/ q.worker \in {"working", "adding"} /\ w \in {"adding", "finish", "stuck"}
         \/ q.worker = "finish" /\ w = "stuck"
         \/ Queue!CanWait(q) /\ w = "waiting"
         \/ Queue!CanEnd(q) /\ w = "ended"
  PROVE  /\ Queue!Consistent([q EXCEPT !.worker = w], S)
         /\ Queue!Once(q) => Queue!Once([q EXCEPT !.worker = w])
         /\ \A y : Queue!Pending([q EXCEPT !.worker = w], y) => Queue!Pending(q, y)
         /\ w = "adding" => \A y : Queue!Pending([q EXCEPT !.worker = w], y) <=> Queue!Pending(q, y)
         /\ Queue!Once(q) /\ q.worker \in {"working", "adding"} /\ w \in {"finish", "stuck"} =>
              ~Queue!Pending([q EXCEPT !.worker = w], q.item)
<1> DEFINE p == [q EXCEPT !.worker = w]
<1>1. p = [queue |-> q.queue, history |-> q.history, item |-> q.item, worker |-> w, quit |-> q.quit]
  BY Made DEF Fields
<1> HIDE DEF p
<1>2. Queue!Consistent(p, S)
  BY <1>1 DEF Queue!Consistent, Queue!HistoryTellsWork, Queue!CanWait, Queue!CanEnd
<1>3. /\ Queue!Once(q) => Queue!Once(p)
      /\ \A y : Queue!Pending(p, y) => Queue!Pending(q, y)
      /\ w = "adding" => \A y : Queue!Pending(p, y) <=> Queue!Pending(q, y)
      /\ Queue!Once(q) /\ q.worker \in {"working", "adding"} /\ w \in {"finish", "stuck"} =>
           ~Queue!Pending(p, q.item)
  BY <1>1 DEF Queue!Once, Queue!Pending, Queue!CanWait, Queue!CanEnd
<1> QED
  BY <1>2, <1>3 DEF p

LEMMA TakeKeeps ==
  ASSUME NEW S, NEW q, Queue!Consistent(q, S), Queue!CanTake(q)
  PROVE  /\ Queue!Consistent(Queue!Take(q), S)
         /\ Queue!Once(q) => Queue!Once(Queue!Take(q))
         /\ \A y : Queue!Pending(Queue!Take(q), y) <=> Queue!Pending(q, y)
<1> DEFINE p == Queue!Take(q)
           h == Append(q.history, Head(q.queue))
           t == Tail(q.queue)
<1>1. p = [queue |-> t, history |-> h, item |-> Head(q.queue), worker |-> "working", quit |-> q.quit]
  BY Made DEF Fields
<1>2. /\ Head(q.queue) \in S /\ Head(q.queue) = q.queue[1] /\ 1 \in DOMAIN q.queue
      /\ t \in Seq(S)
      /\ \A i \in DOMAIN t : i + 1 \in DOMAIN q.queue /\ i + 1 # 1 /\ i \in Int /\ t[i] = q.queue[i + 1]
      /\ \A i \in DOMAIN q.queue : i = 1 \/ (i - 1 \in DOMAIN t /\ t[i - 1] = q.queue[i])
  BY Types, Taken DEF Queue!CanTake
<1>3. h \in Seq(S) /\ h # <<>> /\ h[Len(h)] = Head(q.queue)
  BY Types, Appended, <1>2
<1> HIDE DEF p, h, t
<1>4. Queue!Consistent(p, S)
  BY <1>1, <1>2, <1>3, Types DEF Queue!Consistent, Queue!HistoryTellsWork
<1>5. \A y : Queue!Pending(p, y) <=> Queue!Pending(q, y)
  <2>1. \A y : Queue!Pending(p, y) <=> (\E i \in DOMAIN t : t[i] = y) \/ Head(q.queue) = y
    BY <1>1 DEF Queue!Pending
  <2>2. \A y : Queue!Pending(q, y) <=> \E i \in DOMAIN q.queue : q.queue[i] = y
    BY DEF Queue!Pending, Queue!CanTake
  <2> QED
    BY <1>2, <2>1, <2>2
<1>6. ASSUME Queue!Once(q) PROVE Queue!Once(p)
  <2>1. ASSUME NEW i \in DOMAIN t PROVE t[i] # Head(q.queue)
    BY <1>2, <1>6, <2>1 DEF Queue!Once
  <2>2. ASSUME NEW i \in DOMAIN t, NEW j \in DOMAIN t, i # j PROVE t[i] # t[j]
    <3>1. i + 1 # j + 1
      BY <1>2, <2>2
    <3> QED
      BY <1>2, <1>6, <2>2, <3>1 DEF Queue!Once
  <2> QED
    BY <1>1, <2>1, <2>2 DEF Queue!Once
<1> QED
  BY <1>4, <1>5, <1>6 DEF p

LEMMA NextKeeps ==
  ASSUME NEW S, NEW q, Queue!Consistent(q, S), q.worker = "finish"
  PROVE  /\ Queue!Consistent(Queue!Next(q), S)
         /\ Queue!Once(q) => Queue!Once(Queue!Next(q))
         /\ \A y : Queue!Pending(Queue!Next(q), y) <=> Queue!Pending(q, y)
<1> DEFINE p == Queue!Next(q)
           h == IF q.queue = <<>> THEN <<>> ELSE q.history
<1>1. p = [queue |-> q.queue, history |-> h, item |-> NoItem,
           worker |-> IF q.quit THEN "ended" ELSE "test", quit |-> q.quit]
  BY Made DEF Fields
<1>2. h \in Seq(S) /\ (q.queue = <<>> => h = <<>>)
  BY Types, EmptySeq
<1> HIDE DEF p, h
<1>3. Queue!Consistent(p, S)
  BY <1>1, <1>2, Types DEF Queue!Consistent, Queue!HistoryTellsWork
<1>4. (Queue!Once(q) => Queue!Once(p)) /\ \A y : Queue!Pending(p, y) <=> Queue!Pending(q, y)
  BY <1>1 DEF Queue!Once, Queue!Pending
<1> QED
  BY <1>3, <1>4 DEF p

-----------------------------------------------------------------------------
(* The three queues are such queues *)

LEMMA DownloadQueueIs ==
  /\ D!Queue!New = Queue!New
  /\ \A q, x : D!Queue!Push(q, x) = Queue!Push(q, x)
  /\ \A q : /\ D!Queue!Quit(q) = Queue!Quit(q) /\ D!Queue!Take(q) = Queue!Take(q)
            /\ D!Queue!Next(q) = Queue!Next(q) /\ D!Queue!Wait(q) = [q EXCEPT !.worker = "waiting"]
            /\ D!Queue!End(q) = [q EXCEPT !.worker = "ended"]
            /\ (D!Queue!CanWait(q) <=> Queue!CanWait(q)) /\ (D!Queue!CanTake(q) <=> Queue!CanTake(q))
            /\ (D!Queue!CanEnd(q) <=> Queue!CanEnd(q))
BY DEF D!Queue!New, D!Queue!Push, D!Queue!Quit, D!Queue!Take, D!Queue!Next, D!Queue!Wait, D!Queue!End,
       D!Queue!CanWait, D!Queue!CanTake, D!Queue!CanEnd, D!Queue!Notified,
       Queue!New, Queue!Push, Queue!Quit, Queue!Take, Queue!Next, Queue!CanWait, Queue!CanTake,
       Queue!CanEnd, Queue!Notified

LEMMA EncoderQueueIs ==
  /\ E!Queue!New = Queue!New
  /\ \A q, x : E!Queue!Push(q, x) = Queue!Push(q, x)
  /\ \A q : /\ E!Queue!Quit(q) = Queue!Quit(q) /\ E!Queue!Take(q) = Queue!Take(q)
            /\ E!Queue!Next(q) = Queue!Next(q) /\ E!Queue!Wait(q) = [q EXCEPT !.worker = "waiting"]
            /\ E!Queue!End(q) = [q EXCEPT !.worker = "ended"]
            /\ (E!Queue!CanWait(q) <=> Queue!CanWait(q)) /\ (E!Queue!CanTake(q) <=> Queue!CanTake(q))
            /\ (E!Queue!CanEnd(q) <=> Queue!CanEnd(q))
BY DEF E!Queue!New, E!Queue!Push, E!Queue!Quit, E!Queue!Take, E!Queue!Next, E!Queue!Wait, E!Queue!End,
       E!Queue!CanWait, E!Queue!CanTake, E!Queue!CanEnd, E!Queue!Notified,
       Queue!New, Queue!Push, Queue!Quit, Queue!Take, Queue!Next, Queue!CanWait, Queue!CanTake,
       Queue!CanEnd, Queue!Notified

LEMMA ArchiveQueueIs ==
  /\ A!Queue!New = Queue!New
  /\ \A q, x : A!Queue!Push(q, x) = Queue!Push(q, x)
  /\ \A q : /\ A!Queue!Quit(q) = Queue!Quit(q) /\ A!Queue!Take(q) = Queue!Take(q)
            /\ A!Queue!Next(q) = Queue!Next(q) /\ A!Queue!Wait(q) = [q EXCEPT !.worker = "waiting"]
            /\ A!Queue!End(q) = [q EXCEPT !.worker = "ended"]
            /\ (A!Queue!CanWait(q) <=> Queue!CanWait(q)) /\ (A!Queue!CanTake(q) <=> Queue!CanTake(q))
            /\ (A!Queue!CanEnd(q) <=> Queue!CanEnd(q))
BY DEF A!Queue!New, A!Queue!Push, A!Queue!Quit, A!Queue!Take, A!Queue!Next, A!Queue!Wait, A!Queue!End,
       A!Queue!CanWait, A!Queue!CanTake, A!Queue!CanEnd, A!Queue!Notified,
       Queue!New, Queue!Push, Queue!Quit, Queue!Take, Queue!Next, Queue!CanWait, Queue!CanTake,
       Queue!CanEnd, Queue!Notified

-----------------------------------------------------------------------------
(* What the workers do to the files *)

\* A download is stored: c is what is in its file then.
Stored(c) ==
  /\ dwq.item \in Download /\ Queue!Pending(dwq, dwq.item) /\ ~Queue!Pending(dwq', dwq.item)
  /\ c \in Held \union {Empty}
  /\ c # Empty => c.audio \in {"page", dwq.item} /\ (~full => c.whole)
  /\ disk' = [disk EXCEPT ![Target[dwq.item]] = c]
  /\ \A h \in handed' :
       h \in handed \/ (h.content = c /\ (~full => c # Empty) /\ h.file # "embedded")

LEMMA StoreStep ==
  ASSUME TypeOK, D!Store
  PROVE  \E c : Stored(c)
<1>1. /\ dwq.worker = "working" /\ dwq.item \in Download
      /\ Queue!Consistent(dwq, Download) /\ Queue!Once(dwq)
  BY Types DEF TypeOK, D!Store
<1>2. Queue!Pending(dwq, dwq.item)
  BY <1>1 DEF Queue!Pending
<1>3. ~Queue!Pending(dwq', dwq.item)
  <2>1. \E w \in {"finish", "stuck"} : dwq' = [dwq EXCEPT !.worker = w]
    BY DEF D!Store, D!OnDownload
  <2> QED
    BY <1>1, <2>1, WorkerMoves
<1> DEFINE body == IF fetched = "page" THEN "page" ELSE dwq.item
<1>4. PICK c \in {Empty, D!Content(body, FALSE), D!Content(body, TRUE)} :
        /\ disk' = [disk EXCEPT ![Target[dwq.item]] = c]
        /\ \/ /\ handed' = handed \union {[file |-> Target[dwq.item], content |-> c]}
              /\ ~full => c # Empty
           \/ handed' = handed
        /\ ~full => c \in {Empty, D!Content(body, TRUE)}
  <2>1. PICK c \in D!Written :
          /\ disk' = [disk EXCEPT ![Target[dwq.item]] = c]
          /\ \/ D!Body # Empty /\ D!OnDownload(Target[dwq.item], c)
             \/ handed' = handed
    BY DEF D!Store
  <2>2. D!Body \in {Empty, D!Content(body, TRUE)}
    BY DEF D!Body
  <2>3. D!Content(body, TRUE).audio = body
    BY DEF D!Content
  <2>4. /\ c \in {Empty, D!Content(body, FALSE), D!Content(body, TRUE)}
        /\ ~full => c = D!Body
    BY <2>2, <2>3 DEF D!Written
  <2>5. \/ /\ handed' = handed \union {[file |-> Target[dwq.item], content |-> c]}
           /\ D!Body # Empty
        \/ handed' = handed
    BY <2>1 DEF D!OnDownload
  <2> QED
    BY <2>1, <2>2, <2>4, <2>5
<1>5. /\ c \in Held \union {Empty}
      /\ c # Empty => c.audio \in {"page", dwq.item} /\ (~full => c.whole)
  <2>1. body \in Download \union Speech \union {"page"} /\ body \in {"page", dwq.item}
    BY <1>1
  <2> HIDE DEF body
  <2>2. \A w \in BOOLEAN : D!Content(body, w) \in Held
    BY <2>1 DEF D!Content, Held
  <2>3. \A w \in BOOLEAN : D!Content(body, w).audio = body /\ D!Content(body, w).whole = w
    BY DEF D!Content
  <2>4. CASE full
    BY <2>1, <2>2, <2>3, <2>4, <1>4
  <2>5. CASE ~full
    BY <2>1, <2>2, <2>3, <2>5, <1>4
  <2> QED
    BY <2>4, <2>5
<1>6. \A h \in handed' :
        h \in handed \/ (h.content = c /\ (~full => c # Empty) /\ h.file # "embedded")
  <2>1. Target[dwq.item] # "embedded"
    BY <1>1, StorageConstants
  <2> QED
    BY <1>4, <2>1
<1> QED
  BY <1>1, <1>2, <1>3, <1>4, <1>5, <1>6 DEF Stored

LEMMA DownloadsStep ==
  ASSUME TypeOK, DownloadsNew, Downloads
  PROVE  /\ Queue!Consistent(dwq', Download) /\ Queue!Once(dwq')
         /\ fetched' \in {NoItem, "audio", "page", "nothing"}
         /\ asked' \subseteq Download /\ asked \subseteq asked' /\ full' = full
         /\ \A y : Queue!Pending(dwq', y) => Queue!Pending(dwq, y) \/ y \in asked' \ asked
         /\ \A y \in asked' : y \in asked \/ Queue!Pending(dwq', y)
         /\ \/ disk' = disk /\ handed' = handed
            \/ asked' = asked /\ \E c : Stored(c)
<1>0. /\ Queue!Consistent(dwq, Download) /\ Queue!Once(dwq)
      /\ fetched \in {NoItem, "audio", "page", "nothing"} /\ asked \subseteq Download
      /\ setup.downloads \subseteq Download
  BY StorageConstants DEF TypeOK
<1>1. ASSUME NEW d \in setup.downloads, D!PushDownload(d) PROVE 
        /\ Queue!Consistent(dwq', Download) /\ Queue!Once(dwq')
        /\ asked' = asked \union {d} /\ d \notin asked /\ UNCHANGED <<disk, full, fetched, handed>>
        /\ \A y : Queue!Pending(dwq', y) <=> Queue!Pending(dwq, y) \/ y = d
  <2>1. /\ dwq' = Queue!Push(dwq, d) /\ d \notin asked /\ asked' = asked \union {d}
        /\ UNCHANGED <<disk, full, fetched, handed>>
    BY <1>1, DownloadQueueIs DEF D!PushDownload
  <2>2. ~Queue!Pending(dwq, d)
    BY <1>0, <2>1 DEF DownloadsNew
  <2> QED
    BY <1>0, <2>1, <2>2, PushKeeps
<1>2. ASSUME D!DownloadHandler \/ D!QuitDownloads \/ D!GiveUp \/ D!Fetch \/ D!FetchThrows \/ D!Store
      PROVE  /\ Queue!Consistent(dwq', Download) /\ Queue!Once(dwq')
             /\ \A y : Queue!Pending(dwq', y) => Queue!Pending(dwq, y)
             /\ fetched' \in {NoItem, "audio", "page", "nothing"} /\ UNCHANGED <<full, asked>>
             /\ D!Store \/ UNCHANGED <<disk, handed>>
  <2>1. CASE D!DownloadHandler
    <3>1. /\ fetched' = fetched /\ UNCHANGED <<full, asked, disk, handed>>
          /\ \/ Queue!CanWait(dwq) /\ dwq' = [dwq EXCEPT !.worker = "waiting"]
             \/ Queue!CanTake(dwq) /\ dwq' = Queue!Take(dwq)
             \/ Queue!CanEnd(dwq) /\ dwq' = [dwq EXCEPT !.worker = "ended"]
             \/ dwq.worker = "finish" /\ dwq' = Queue!Next(dwq)
      BY <2>1, DownloadQueueIs DEF D!DownloadHandler
    <3> QED
      BY <1>0, <3>1, WorkerMoves, TakeKeeps, NextKeeps
  <2>2. CASE D!QuitDownloads
    BY <1>0, <2>2, DownloadQueueIs, QuitKeeps DEF D!QuitDownloads
  <2>3. CASE D!GiveUp \/ D!Store
    <3>1. /\ dwq.worker = "working"
          /\ \E w \in {"finish", "stuck"} : dwq' = [dwq EXCEPT !.worker = w]
          /\ fetched' = NoItem /\ UNCHANGED <<full, asked>>
          /\ D!Store \/ UNCHANGED <<disk, handed>>
      BY <2>3 DEF D!GiveUp, D!Store, D!OnDownload
    <3> QED
      BY <1>0, <3>1, WorkerMoves
  <2>4. CASE D!Fetch \/ D!FetchThrows
    BY <1>0, <2>4 DEF D!Fetch, D!FetchThrows
  <2> QED
    BY <1>2, <2>1, <2>2, <2>3, <2>4
<1>3. CASE \E d \in setup.downloads : D!PushDownload(d)
  BY <1>0, <1>1, <1>3
<1>4. CASE D!DownloadStep \/ D!QuitDownloads
  BY <1>0, <1>2, <1>4, StoreStep DEF D!DownloadStep
<1> QED
  BY <1>3, <1>4 DEF Downloads

\* What the encoder does: it looks on; opens the .mp3 file of what it has; writes it,
\* or what was moved of it; or deletes .wav files whose .mp3 files are there.
EncoderLooks ==
  /\ UNCHANGED <<disk, dirs, opened>>
  /\ opened => encq'.worker = "working" /\ encq'.item = encq.item

EncoderOpens ==
  /\ encq.worker = "working" /\ encq' = encq /\ ~opened /\ opened'
  /\ disk[Wav[encq.item]] # Absent
  /\ disk' = [disk EXCEPT ![Mp3[encq.item]] = Empty]
  /\ dirs' = dirs

EncoderWrites(c) ==
  /\ encq.worker = "working" /\ opened /\ ~opened'
  /\ c = [disk[Wav[encq.item]] EXCEPT !.whole = @ /\ ~full]
  /\ \/ /\ disk[Mp3[encq.item]] # Absent
        /\ disk' = [disk EXCEPT ![Mp3[encq.item]] = c]
        /\ dirs' = dirs
     \/ /\ disk[Mp3[encq.item]] = Absent
        /\ disk' = disk
        /\ dirs' = [d \in DOMAIN dirs |->
             IF d \in {m \in A!Directory : dirs[m] # Absent /\ Mp3[encq.item] \in DOMAIN dirs[m]
                                          /\ dirs[m][Mp3[encq.item]] = Empty}
             THEN [dirs[d] EXCEPT ![Mp3[encq.item]] = c] ELSE dirs[d]]

EncoderDeletes ==
  /\ ~opened /\ UNCHANGED <<dirs, opened>>
  /\ \E gone \in SUBSET {n \in Speech : disk[Mp3[n]] # Absent} :
       disk' = [f \in DOMAIN disk |-> IF \E n \in gone : f = Wav[n] THEN Absent ELSE disk[f]]

LEMMA EncoderStep ==
  ASSUME TypeOK, FilesTellAudio, Encoding \/ \E n \in setup.speeches : Played(n)
  PROVE  /\ Queue!Consistent(encq', Speech)
         /\ opened' \in BOOLEAN
         /\ UNCHANGED <<full, downloads, arcq, zips, left>>
         /\ EncoderLooks \/ EncoderOpens \/ (\E c : EncoderWrites(c)) \/ EncoderDeletes
<1>0. /\ Queue!Consistent(encq, Speech) /\ opened \in BOOLEAN
      /\ setup.speeches \subseteq Speech
      /\ opened => encq.worker = "working"
  BY StorageConstants DEF TypeOK, FilesTellAudio
<1>1. ASSUME NEW n \in setup.speeches, Played(n)
      PROVE  /\ Queue!Consistent(encq', Speech) /\ EncoderLooks
             /\ UNCHANGED <<full, downloads, arcq, zips, left, opened>>
  <2>1. /\ encq' = Queue!Push(encq, n) /\ n \in Speech
        /\ UNCHANGED <<disk, full, downloads, archive, opened>>
    BY <1>0, <1>1, EncoderQueueIs DEF Played, E!PushWav
  <2>2. opened => encq'.worker = "working" /\ encq'.item = encq.item
    BY <1>0, <2>1, Made DEF Fields, Queue!Notified
  <2>3. Queue!Consistent(encq', Speech)
    BY <1>0, <2>1, PushKeeps
  <2> QED
    BY <2>1, <2>2, <2>3 DEF EncoderLooks, archive
<1>2. ASSUME E!EncodeStep \/ E!QuitEncoder, UNCHANGED <<downloads, archive>>
      PROVE  /\ Queue!Consistent(encq', Speech) /\ opened' \in BOOLEAN
             /\ UNCHANGED <<full, downloads, arcq, zips, left>>
             /\ EncoderLooks \/ EncoderOpens \/ EncoderDeletes
  <2>0. UNCHANGED <<downloads, arcq, zips, left, dirs>>
    BY <1>2 DEF archive
  <2>1. CASE E!EncodeHandler
    <3>1. /\ UNCHANGED <<disk, full, opened>>
          /\ \/ Queue!CanWait(encq) /\ encq' = [encq EXCEPT !.worker = "waiting"]
             \/ Queue!CanTake(encq) /\ encq' = Queue!Take(encq)
             \/ Queue!CanEnd(encq) /\ encq' = [encq EXCEPT !.worker = "ended"]
             \/ encq.worker = "finish" /\ encq' = Queue!Next(encq)
      BY <2>1, EncoderQueueIs DEF E!EncodeHandler
    <3>2. ~opened
      BY <1>0, <3>1 DEF Queue!CanWait, Queue!CanTake, Queue!CanEnd
    <3>3. Queue!Consistent(encq', Speech)
      BY <1>0, <3>1, WorkerMoves, TakeKeeps, NextKeeps
    <3> QED
      BY <1>0, <2>0, <3>1, <3>2, <3>3 DEF EncoderLooks
  <2>2. CASE E!QuitEncoder
    <3>1. encq' = Queue!Quit(encq) /\ UNCHANGED <<disk, full, opened>>
      BY <2>2, EncoderQueueIs DEF E!QuitEncoder
    <3>2. opened => encq'.worker = "working" /\ encq'.item = encq.item
      BY <1>0, <3>1, Made DEF Fields, Queue!Notified
    <3>3. Queue!Consistent(encq', Speech)
      BY <1>0, <3>1, QuitKeeps
    <3> QED
      BY <1>0, <2>0, <3>1, <3>2, <3>3 DEF EncoderLooks
  <2>3. CASE E!EncodeMisses
    <3>1. UNCHANGED <<disk, full, encq, opened>>
      BY <2>3 DEF E!EncodeMisses
    <3> QED
      BY <1>0, <2>0, <3>1 DEF EncoderLooks
  <2>4. CASE E!FinishBlocks
    <3>1. /\ UNCHANGED <<disk, full, opened>>
          /\ encq.worker = "finish" /\ encq' = [encq EXCEPT !.worker = "stuck"]
      BY <2>4 DEF E!FinishBlocks
    <3>2. Queue!Consistent(encq', Speech) /\ ~opened
      BY <1>0, <3>1, WorkerMoves
    <3> QED
      BY <1>0, <2>0, <3>1, <3>2 DEF EncoderLooks
  <2>5. CASE E!EncodeOpens
    <3>1. /\ UNCHANGED <<full, encq>> /\ encq.worker = "working" /\ ~opened /\ opened' = TRUE
          /\ disk[Wav[encq.item]] # Absent
          /\ disk' = [disk EXCEPT ![Mp3[encq.item]] = Empty]
      BY <2>5 DEF E!EncodeOpens
    <3> QED
      BY <1>0, <2>0, <3>1 DEF EncoderOpens
  <2>6. CASE E!FinishDeletes
    <3>1. /\ UNCHANGED <<full, opened>> /\ encq.worker = "finish" /\ encq' = Queue!Next(encq)
          /\ \E gone \in SUBSET {n \in E!ToSet(encq.history) : disk[Mp3[n]] # Absent} :
               disk' = [f \in DOMAIN disk |-> IF \E n \in gone : f = Wav[n] THEN Absent ELSE disk[f]]
      BY <2>6, EncoderQueueIs DEF E!FinishDeletes, E!Deletes
    <3>2. E!ToSet(encq.history) \subseteq Speech
      <4>1. encq.history \in Seq(Speech)
        BY <1>0, Types
      <4> QED
        BY <4>1, LenProperties DEF E!ToSet
    <3>3. Queue!Consistent(encq', Speech) /\ ~opened
      BY <1>0, <3>1, NextKeeps
    <3> QED
      BY <1>0, <2>0, <3>1, <3>2, <3>3 DEF EncoderDeletes
  <2> QED
    BY <1>2, <2>1, <2>2, <2>3, <2>4, <2>5, <2>6 DEF E!EncodeStep
<1>3. ASSUME EncodeWrites
      PROVE  /\ Queue!Consistent(encq', Speech) /\ opened' \in BOOLEAN
             /\ UNCHANGED <<full, downloads, arcq, zips, left>>
             /\ \E c : EncoderWrites(c)
  <2>1. PICK c : /\ encq.worker = "working" /\ opened /\ opened' = FALSE
                 /\ c = [disk[Wav[encq.item]] EXCEPT !.whole = @ /\ ~full]
                 /\ encq' = [encq EXCEPT !.worker = "finish"] /\ full' = full
                 /\ EncoderWrites(c)
    BY <1>3 DEF EncodeWrites, E!EncodeWrites, EncoderWrites
  <2>2. UNCHANGED <<downloads, arcq, zips, left>>
    BY <1>3 DEF EncodeWrites
  <2>3. Queue!Consistent(encq', Speech)
    BY <1>0, <2>1, WorkerMoves
  <2> QED
    BY <2>1, <2>2, <2>3
<1> QED
  BY <1>0, <1>1, <1>2, <1>3 DEF Encoding

\* What the archiver does: it looks on, opens an archive, adds an entry, or removes what it
\* archived.
ArchiverLooks ==
  /\ UNCHANGED <<dirs, zips>>
  /\ arcq'.worker = "adding" => arcq.worker = "adding" /\ arcq'.item = arcq.item /\ left' = left

ArchiverOpens ==
  /\ arcq.item \in A!Directory /\ Queue!Pending(arcq, arcq.item)
  /\ arcq'.worker = "adding" /\ arcq'.item = arcq.item
  /\ zips' = [zips EXCEPT ![arcq.item] = {}]
  /\ left' = DOMAIN dirs[arcq.item] /\ dirs' = dirs

ArchiverAdds(f) ==
  /\ arcq.worker = "adding" /\ arcq' = arcq
  /\ f \in left /\ left' = left \ {f} /\ dirs' = dirs
  /\ zips' = [zips EXCEPT ![arcq.item] = @ \union
       {IF full /\ dirs[arcq.item][f] # Empty THEN [dirs[arcq.item][f] EXCEPT !.whole = FALSE]
        ELSE dirs[arcq.item][f]}]

ArchiverRemoves ==
  /\ arcq.worker = "adding" /\ left = {} /\ arcq'.worker # "adding"
  /\ arcq.item \in A!Directory /\ ~Queue!Pending(arcq', arcq.item)
  /\ dirs' = [dirs EXCEPT ![arcq.item] = Absent] /\ zips' = zips

LEMMA ArchiverStep ==
  ASSUME TypeOK, Archiving
  PROVE  /\ Queue!Consistent(arcq', A!Directory) /\ Queue!Once(arcq')
         /\ \A y : Queue!Pending(arcq', y) => Queue!Pending(arcq, y)
         /\ UNCHANGED <<disk, full, downloads, encoder>>
         /\ ArchiverLooks \/ ArchiverOpens \/ (\E f : ArchiverAdds(f)) \/ ArchiverRemoves
<1>0. /\ Queue!Consistent(arcq, A!Directory) /\ Queue!Once(arcq)
      /\ arcq.worker \in {"working", "adding"} =>
           arcq.item \in A!Directory /\ Queue!Pending(arcq, arcq.item)
  BY Types DEF TypeOK, Queue!Pending
<1>1. UNCHANGED <<disk, full, downloads, encoder>>
  BY DEF Archiving, A!ArchiveStep, A!ArchiveHandler, A!CompressOpens, A!CompressFails, A!AddEntry,
         A!AddEntryFails, A!CompressEnds, A!QuitArchive
<1>2. CASE A!ArchiveHandler
  <2>1. /\ UNCHANGED <<dirs, zips, left>>
        /\ \/ Queue!CanWait(arcq) /\ arcq' = [arcq EXCEPT !.worker = "waiting"]
           \/ Queue!CanTake(arcq) /\ arcq' = Queue!Take(arcq)
           \/ Queue!CanEnd(arcq) /\ arcq' = [arcq EXCEPT !.worker = "ended"]
           \/ arcq.worker = "finish" /\ arcq' = Queue!Next(arcq)
    BY <1>2, ArchiveQueueIs DEF A!ArchiveHandler
  <2>2. arcq'.worker # "adding"
    <3>1. arcq' \in {Queue!Take(arcq), Queue!Next(arcq), [arcq EXCEPT !.worker = "waiting"],
                      [arcq EXCEPT !.worker = "ended"]}
      BY <2>1
    <3>2. /\ Queue!Take(arcq).worker = "working" /\ Queue!Next(arcq).worker \in {"test", "ended"}
          /\ \A w : [arcq EXCEPT !.worker = w].worker = w
      BY <1>0, Made DEF Fields
    <3> QED
      BY <3>1, <3>2
  <2>3. /\ Queue!Consistent(arcq', A!Directory) /\ Queue!Once(arcq')
        /\ \A y : Queue!Pending(arcq', y) => Queue!Pending(arcq, y)
    <3>1. CASE \/ Queue!CanWait(arcq) /\ arcq' = [arcq EXCEPT !.worker = "waiting"]
               \/ Queue!CanEnd(arcq) /\ arcq' = [arcq EXCEPT !.worker = "ended"]
      BY <1>0, <3>1, WorkerMoves
    <3>2. CASE Queue!CanTake(arcq) /\ arcq' = Queue!Take(arcq)
      BY <1>0, <3>2, TakeKeeps
    <3>3. CASE arcq.worker = "finish" /\ arcq' = Queue!Next(arcq)
      BY <1>0, <3>3, NextKeeps
    <3> QED
      BY <2>1, <3>1, <3>2, <3>3
  <2> QED
    BY <1>1, <2>1, <2>2, <2>3 DEF ArchiverLooks
<1>3. CASE A!QuitArchive
  <2>1. arcq' = Queue!Quit(arcq) /\ UNCHANGED <<dirs, zips, left>>
    BY <1>3, ArchiveQueueIs DEF A!QuitArchive
  <2>2. arcq'.worker = "adding" => arcq.worker = "adding" /\ arcq'.item = arcq.item
    BY <1>0, <2>1, Made DEF Fields, Queue!Notified
  <2> QED
    BY <1>0, <1>1, <2>1, <2>2, QuitKeeps DEF ArchiverLooks
<1>4. CASE A!CompressOpens
  <2>1. arcq.worker = "working" /\ arcq' = [arcq EXCEPT !.worker = "adding"]
    BY <1>4 DEF A!CompressOpens
  <2>2. arcq'.worker = "adding" /\ arcq'.item = arcq.item
    BY <1>0, <2>1, Made DEF Fields
  <2>3. ArchiverOpens
    BY <1>0, <1>4, <2>1, <2>2 DEF A!CompressOpens, ArchiverOpens
  <2> QED
    BY <1>0, <1>1, <2>1, <2>3, WorkerMoves
<1>5. CASE A!CompressFails \/ A!AddEntryFails
  <2>1. /\ arcq.worker \in {"working", "adding"} /\ arcq' = [arcq EXCEPT !.worker = "finish"]
        /\ UNCHANGED <<dirs, zips>>
    BY <1>5 DEF A!CompressFails, A!AddEntryFails
  <2>2. arcq'.worker = "finish"
    BY <1>0, <2>1, Made DEF Fields
  <2> QED
    BY <1>0, <1>1, <2>1, <2>2, WorkerMoves DEF ArchiverLooks
<1>6. CASE \E f \in left : A!AddEntry(f)
  <2>1. PICK f \in left : A!AddEntry(f)
    BY <1>6
  <2>2. ArchiverAdds(f) /\ arcq' = arcq
    BY <2>1 DEF A!AddEntry, ArchiverAdds
  <2> QED
    BY <1>0, <1>1, <2>2
<1>7. CASE A!CompressEnds
  <2>1. arcq.worker = "adding" /\ arcq' = [arcq EXCEPT !.worker = "finish"]
    BY <1>7 DEF A!CompressEnds
  <2>2. arcq'.worker = "finish"
    BY <1>0, <2>1, Made DEF Fields
  <2>3. ~Queue!Pending(arcq', arcq.item)
    BY <1>0, <2>1, WorkerMoves
  <2>4. ArchiverRemoves
    BY <1>0, <1>7, <2>1, <2>2, <2>3 DEF A!CompressEnds, ArchiverRemoves
  <2> QED
    BY <1>0, <1>1, <2>1, <2>4, WorkerMoves
<1> QED
  BY <1>2, <1>3, <1>4, <1>5, <1>6, <1>7 DEF Archiving, A!ArchiveStep

\* The task moves some of the files that are not .wav files to a new directory.
TaskMoves(new, moved) ==
  /\ new \in A!Directory /\ dirs[new] = Absent
  /\ moved \subseteq Files /\ \A f \in moved : disk[f] # Absent
  /\ \A n \in Speech : Wav[n] \notin moved
  /\ disk' = [f \in DOMAIN disk |-> IF f \in moved THEN Absent ELSE disk[f]]
  /\ dirs' = [dirs EXCEPT ![new] = [f \in moved |-> disk[f]]]
  /\ \A y : Queue!Pending(arcq', y) <=> Queue!Pending(arcq, y) \/ y = new

LEMMA TaskStep ==
  ASSUME TypeOK, DirectoriesExist, Task
  PROVE  /\ Queue!Consistent(arcq', A!Directory) /\ Queue!Once(arcq')
         /\ UNCHANGED <<full, downloads, encoder, zips, left>>
         /\ arcq'.worker = "adding" => arcq.worker = "adding" /\ arcq'.item = arcq.item
         /\ \/ UNCHANGED <<disk, dirs, arcq>>
            \/ \E new, moved : TaskMoves(new, moved)
<1>0. /\ Queue!Consistent(arcq, A!Directory) /\ Queue!Once(arcq)
      /\ setup.dates \subseteq Date
  BY StorageConstants DEF TypeOK
<1>1. UNCHANGED <<full, downloads, encoder, zips, left>>
  BY DEF Task, A!MoveFiles
<1>2. PICK d \in setup.dates : A!MoveFiles(Files \ {Wav[n] : n \in Speech}, d)
  BY DEF Task
<1> DEFINE new == A!NewDirectory(d)
           files == Files \ {Wav[n] : n \in Speech}
<1>3. new \in A!Directory
  BY <1>0, <1>2 DEF A!NewDirectory, A!Directory
<1>4. CASE UNCHANGED <<disk, dirs, arcq>>
  BY <1>0, <1>1, <1>4
<1>5. ASSUME NEW moved \in SUBSET {f \in files : disk[f] # Absent}, dirs[new] = Absent,
             disk' = [f \in DOMAIN disk |-> IF f \in moved THEN Absent ELSE disk[f]],
             dirs' = [dirs EXCEPT ![new] = [f \in moved |-> disk[f]]],
             arcq' = Queue!Push(arcq, new)
      PROVE  /\ Queue!Consistent(arcq', A!Directory) /\ Queue!Once(arcq')
             /\ arcq'.worker = "adding" => arcq.worker = "adding" /\ arcq'.item = arcq.item
             /\ TaskMoves(new, moved)
  <2>1. ~Queue!Pending(arcq, new)
    BY <1>3, <1>5 DEF DirectoriesExist
  <2>2. /\ Queue!Consistent(arcq', A!Directory) /\ Queue!Once(arcq')
        /\ \A y : Queue!Pending(arcq', y) <=> Queue!Pending(arcq, y) \/ y = new
    BY <1>0, <1>3, <1>5, <2>1, PushKeeps
  <2>3. arcq'.worker = "adding" => arcq.worker = "adding" /\ arcq'.item = arcq.item
    BY <1>0, <1>5, Made DEF Fields, Queue!Notified
  <2>4. moved \subseteq Files /\ (\A f \in moved : disk[f] # Absent) /\ \A n \in Speech : Wav[n] \notin moved
    BY <1>5
  <2> HIDE DEF new, files
  <2> QED
    BY <1>3, <1>5, <2>2, <2>3, <2>4 DEF TaskMoves
<1>6. \/ UNCHANGED <<disk, dirs, arcq>>
      \/ \E moved \in SUBSET {f \in files : disk[f] # Absent} :
           /\ dirs[new] = Absent
           /\ disk' = [f \in DOMAIN disk |-> IF f \in moved THEN Absent ELSE disk[f]]
           /\ dirs' = [dirs EXCEPT ![new] = [f \in moved |-> disk[f]]]
           /\ arcq' = Queue!Push(arcq, new)
  BY <1>2, ArchiveQueueIs DEF A!MoveFiles
<1> HIDE DEF new, files
<1> QED
  BY <1>1, <1>4, <1>5, <1>6

-----------------------------------------------------------------------------
(* Names and contents *)

LEMMA Names ==
  /\ \A d \in Download : Target[d] \in Files /\ Mp3Of(d) = Target[d]
  /\ \A n \in Speech :
       Wav[n] \in Files /\ Mp3[n] \in Files /\ Mp3Of(n) = Mp3[n] /\ n \notin Download
  /\ \A m, n \in Speech :
       (Wav[m] = Wav[n] => m = n) /\ (Mp3[m] = Mp3[n] => m = n) /\ Wav[m] # Mp3[n]
  /\ \A d \in Download, n \in Speech : Target[d] # Wav[n]
  /\ \A a \in (Download \union Speech) \ Shared, b \in Download \union Speech :
       Mp3Of(a) = Mp3Of(b) => a = b
<1>1. \A d \in Download : Target[d] \in Files /\ Mp3Of(d) = Target[d]
  BY DEF Files, Mp3Of
<1>2. \A n \in Speech : n \notin Download /\ Wav[n] \in Files /\ Mp3[n] \in Files
  BY StorageConstants DEF Files
<1>3. \A n \in Speech : Mp3Of(n) = Mp3[n]
  BY <1>2 DEF Mp3Of
<1>4. \A a \in (Download \union Speech) \ Shared, b \in Download \union Speech :
        Mp3Of(a) = Mp3Of(b) => a = b
  BY DEF Shared
<1> QED
  BY <1>1, <1>2, <1>3, <1>4, StorageConstants

LEMMA Contents ==
  /\ Absent # Empty /\ Absent \notin Held /\ Empty \notin Held
  /\ \A a \in Download \union Speech : Whole(a) \in Held /\ a # "page"
  /\ \A a, b : Whole(a) = Whole(b) => a = b
  /\ \A a : Whole(a).audio = a /\ Whole(a).whole = TRUE
<1>1. \A a \in Download \union Speech : Whole(a) \in Held
  BY DEF Whole, Held
<1>2. \A a : Whole(a).audio = a /\ Whole(a).whole = TRUE
  BY DEF Whole
<1> QED
  BY <1>1, <1>2, AbsentConstants, StorageConstants

\* What the encoder writes is what it reads, cut off by a full disk.
LEMMA WrittenIs ==
  ASSUME TypeOK, FilesTellAudio, NEW c, EncoderWrites(c)
  PROVE  /\ encq.item \in Speech /\ disk[Wav[encq.item]] = Whole(encq.item)
         /\ c \in Held /\ c.audio = encq.item
         /\ ~full => c = Whole(encq.item)
<1>1. encq.item \in Speech /\ disk[Wav[encq.item]] = Whole(encq.item)
  BY Types DEF TypeOK, FilesTellAudio, EncoderWrites
<1>2. full \in BOOLEAN
  BY DEF TypeOK
<1> DEFINE n == encq.item
<1>3. c = [Whole(n) EXCEPT !.whole = @ /\ ~full]
  BY <1>1 DEF EncoderWrites
<1>4. n \in Speech
  BY <1>1
<1> HIDE DEF n
<1>5. CASE full
  <2>1. c = [audio |-> n, whole |-> FALSE]
    BY <1>3, <1>5 DEF Whole
  <2> QED
    BY <1>1, <1>4, <1>5, <2>1 DEF Held, n
<1>6. CASE ~full
  <2>1. c = [audio |-> n, whole |-> TRUE]
    BY <1>3, <1>6 DEF Whole
  <2> QED
    BY <1>1, <1>4, <2>1 DEF Held, Whole, n
<1> QED
  BY <1>2, <1>5, <1>6

\* What is whole on the disk stays there, unless the task moves it.
LEMMA DiskKeeps ==
  ASSUME TypeOK, DownloadsNew, FilesTellAudio, ~full,
         NEW a \in (Download \union Speech) \ Shared, OnDisk(a),
         (\E c : Stored(c)) \/ EncoderOpens \/ (\E c : EncoderWrites(c)) \/ EncoderDeletes
  PROVE  OnDisk(a)'
<1>1. PICK f \in Files : disk[f] = Whole(a)
  BY DEF OnDisk
<1>2. f = Mp3Of(a) \/ (a \in Speech /\ f = Wav[a])
  BY <1>1 DEF FilesTellAudio
<1>3. disk \in [Files -> Held \union {Absent, Empty}]
  BY DEF TypeOK
<1>4. ASSUME NEW c, Stored(c) PROVE OnDisk(a)'
  <2>1. dwq.item \in Download /\ ~OnDisk(dwq.item) /\ disk' = [disk EXCEPT ![Target[dwq.item]] = c]
    BY <1>4 DEF Stored, DownloadsNew
  <2>2. f # Target[dwq.item]
    BY <1>2, <2>1, Names
  <2> QED
    BY <1>1, <1>3, <2>1, <2>2 DEF OnDisk
<1>5. ASSUME NEW c, disk' = [disk EXCEPT ![Mp3[encq.item]] = c], encq.worker = "working",
             disk[Wav[encq.item]] # Absent
      PROVE  OnDisk(a)'
  <2>1. encq.item \in Speech /\ disk[Wav[encq.item]] = Whole(encq.item)
    BY <1>5, Types DEF TypeOK, FilesTellAudio
  <2>2. Wav[encq.item] \in Files /\ Wav[encq.item] # Mp3[encq.item]
    BY <2>1, Names
  <2>3. CASE f = Mp3[encq.item]
    <3>1. a = encq.item
      BY <1>2, <2>1, <2>3, Names
    <3> QED
      BY <1>3, <1>5, <2>1, <2>2, <3>1 DEF OnDisk
  <2>4. CASE f # Mp3[encq.item]
    BY <1>1, <1>3, <1>5, <2>4 DEF OnDisk
  <2> QED
    BY <2>3, <2>4
<1>6. CASE EncoderOpens
  BY <1>5, <1>6 DEF EncoderOpens
<1>7. ASSUME NEW c, EncoderWrites(c) PROVE OnDisk(a)'
  <2>1. disk[Wav[encq.item]] # Absent
    BY <1>7, WrittenIs, Contents
  <2> QED
    BY <1>5, <1>7, <2>1 DEF EncoderWrites, OnDisk
<1>8. CASE EncoderDeletes
  <2>1. PICK gone \in SUBSET {n \in Speech : disk[Mp3[n]] # Absent} :
          disk' = [g \in DOMAIN disk |-> IF \E n \in gone : g = Wav[n] THEN Absent ELSE disk[g]]
    BY <1>8 DEF EncoderDeletes
  <2>2. CASE \E n \in gone : f = Wav[n]
    <3>1. PICK n \in Speech : n \in gone /\ f = Wav[n] /\ disk[Mp3[n]] # Absent
      BY <2>1, <2>2
    <3>2. a = n
      BY <1>1, <3>1, Contents DEF FilesTellAudio
    <3>3. disk[Mp3[n]] = Whole(n)
      BY <1>8, <3>1, <3>2 DEF FilesTellAudio, EncoderDeletes
    <3>4. Mp3[n] \in Files /\ \A m \in gone : Mp3[n] # Wav[m]
      BY <3>1, Names
    <3> QED
      BY <1>3, <2>1, <3>2, <3>3, <3>4 DEF OnDisk
  <2>3. CASE ~\E n \in gone : f = Wav[n]
    BY <1>1, <1>3, <2>1, <2>3 DEF OnDisk
  <2> QED
    BY <2>2, <2>3
<1> QED
  BY <1>4, <1>6, <1>7, <1>8

-----------------------------------------------------------------------------
(* The invariant holds *)

LEMMA InvInit == Init => IInv
<1> SUFFICES ASSUME Init PROVE IInv
  OBVIOUS
<1>1. /\ dwq = Queue!New /\ encq = Queue!New /\ arcq = Queue!New
      /\ fetched = NoItem /\ asked = {} /\ handed = {} /\ opened = FALSE
      /\ dirs = [d \in A!Directory |-> Absent] /\ zips = [d \in A!Directory |-> Absent]
      /\ full = FALSE /\ setup \in Setup
  BY DownloadQueueIs, EncoderQueueIs, ArchiveQueueIs
     DEF Init, D!DownloadInit, E!EncodeInit, A!ArchiveInit, A!Directory
<1>2. ASSUME NEW f \in Files
      PROVE  \/ disk[f] = Absent /\ ~\E n \in Speech : f = Wav[n]
             \/ \E n \in Speech : f = Wav[n] /\ disk[f] = Whole(n)
  <2>1. CASE \E n \in Speech : f = Wav[n]
    <3>1. disk[f] = Whole(CHOOSE n \in Speech : f = Wav[n])
      BY <2>1 DEF Init, Whole
    <3>2. (CHOOSE n \in Speech : f = Wav[n]) \in Speech /\ f = Wav[CHOOSE n \in Speech : f = Wav[n]]
      BY <2>1, Zenon
    <3> QED
      BY <3>1, <3>2
  <2>2. CASE ~\E n \in Speech : f = Wav[n]
    BY <2>2 DEF Init
  <2> QED
    BY <2>1, <2>2
<1>3. disk \in [Files -> Held \union {Absent, Empty}]
  <2>1. \A f \in Files : disk[f] \in Held \union {Absent, Empty}
    BY <1>2, Contents
  <2>2. disk = [f \in Files |-> disk[f]]
    BY DEF Init
  <2> QED
    BY <2>1, <2>2
<1>4. TypeOK
  BY <1>1, <1>3, NewConsistent DEF TypeOK
<1>5. ASSUME NEW a \in Download \union Speech, NEW f \in Files, disk[f] = Whole(a)
      PROVE  a \in Speech /\ f = Wav[a] /\ a \notin Download
  BY <1>2, <1>5, Contents, Names
<1>6. DownloadsNew
  BY <1>1, <1>5, NewConsistent DEF DownloadsNew, OnDisk
<1>7. FilesTellAudio
  <2>1. \A n \in Speech : disk[Wav[n]] = Whole(n)
    BY <1>2, Names
  <2>2. \A n \in Speech : disk[Mp3[n]] = Absent
    BY <1>2, Names
  <2> QED
    BY <1>1, <1>5, <2>1, <2>2, Contents DEF FilesTellAudio
<1>8. DirectoriesExist /\ KeptSafely /\ HandedWhole
  BY <1>1, NewConsistent DEF DirectoriesExist, KeptSafely, HandedWhole, Queue!New
<1> QED
  BY <1>4, <1>6, <1>7, <1>8 DEF IInv

LEMMA DownloadsKeep == IInv /\ Downloads /\ UNCHANGED setup => IInv'
<1> SUFFICES ASSUME IInv, Downloads, UNCHANGED setup PROVE IInv'
  OBVIOUS
<1>1. TypeOK /\ DownloadsNew /\ FilesTellAudio /\ DirectoriesExist /\ KeptSafely /\ HandedWhole
  BY DEF IInv
<1>2. /\ Queue!Consistent(dwq', Download) /\ Queue!Once(dwq')
      /\ fetched' \in {NoItem, "audio", "page", "nothing"}
      /\ asked' \subseteq Download /\ asked \subseteq asked' /\ full' = full
      /\ \A y : Queue!Pending(dwq', y) => Queue!Pending(dwq, y) \/ y \in asked' \ asked
      /\ \A y \in asked' : y \in asked \/ Queue!Pending(dwq', y)
      /\ \/ disk' = disk /\ handed' = handed
         \/ asked' = asked /\ \E c : Stored(c)
  BY <1>1, DownloadsStep
<1>3. UNCHANGED <<encq, opened, arcq, dirs, zips, left>>
  BY DEF Downloads, encoder, archive
<1>4. disk \in [Files -> Held \union {Absent, Empty}]
  BY <1>1 DEF TypeOK
<1>5. TypeOK'
  <2>1. disk' \in [Files -> Held \union {Absent, Empty}]
    BY <1>2, <1>4 DEF Stored
  <2> QED
    BY <1>1, <1>2, <1>3, <2>1 DEF TypeOK
<1> DEFINE Came(a, f) == /\ a \in Download /\ f = Target[a]
                         /\ Queue!Pending(dwq, a) /\ ~Queue!Pending(dwq', a)
<1>6. ASSUME NEW a \in Download \union Speech, NEW f \in Files, disk'[f] = Whole(a)
      PROVE  disk[f] = Whole(a) \/ Came(a, f)
  <2>1. CASE disk' = disk
    BY <1>6, <2>1
  <2>2. ASSUME NEW c, Stored(c) PROVE disk[f] = Whole(a) \/ Came(a, f)
    <3>1. CASE f = Target[dwq.item]
      <4>1. c = Whole(a)
        BY <1>4, <1>6, <2>2, <3>1 DEF Stored
      <4>2. a = dwq.item
        BY <2>2, <4>1, Contents DEF Stored
      <4> QED
        BY <2>2, <3>1, <4>2 DEF Stored
    <3>2. CASE f # Target[dwq.item]
      BY <1>4, <1>6, <2>2, <3>2 DEF Stored
    <3> QED
      BY <3>1, <3>2
  <2> QED
    BY <1>2, <2>1, <2>2
<1>7. DownloadsNew'
  <2>1. ASSUME NEW d \in Download, Queue!Pending(dwq', d) PROVE d \in asked'
    BY <1>1, <1>2, <2>1 DEF DownloadsNew
  <2>2. ASSUME NEW d \in Download, d \notin asked' \/ Queue!Pending(dwq', d), NEW f \in Files,
               disk'[f] = Whole(d)
        PROVE  FALSE
    <3>1. d \notin asked \/ Queue!Pending(dwq, d)
      BY <1>2, <2>2
    <3>2. disk[f] # Whole(d)
      BY <1>1, <3>1 DEF DownloadsNew, OnDisk
    <3>3. Queue!Pending(dwq, d) /\ ~Queue!Pending(dwq', d)
      BY <1>6, <2>2, <3>2
    <3>4. d \in asked
      BY <1>1, <3>3 DEF DownloadsNew
    <3> QED
      BY <1>2, <2>2, <3>3, <3>4
  <2> QED
    BY <2>1, <2>2 DEF DownloadsNew, OnDisk
<1>8. FilesTellAudio'
  <2>1. \A n \in Speech : disk'[Wav[n]] = disk[Wav[n]]
    BY <1>2, <1>4, Names DEF Stored
  <2>2. \A n \in Speech \ Shared : disk'[Mp3[n]] = disk[Mp3[n]]
    <3>1. ASSUME NEW n \in Speech \ Shared, NEW d \in Download PROVE Mp3[n] # Target[d]
      BY Names
    <3> QED
      BY <1>2, <1>4, <3>1, Names DEF Stored
  <2>3. \A a \in (Download \union Speech) \ Shared : \A f \in Files :
          disk'[f] = Whole(a) => f = Mp3Of(a) \/ (a \in Speech /\ f = Wav[a])
    BY <1>1, <1>6, Names DEF FilesTellAudio
  <2>4. opened' => encq'.worker = "working" /\ disk'[Wav[encq'.item]] # Absent
    BY <1>1, <1>3, <2>1, Types DEF FilesTellAudio, TypeOK
  <2> QED
    BY <1>1, <1>2, <1>3, <2>1, <2>2, <2>3, <2>4 DEF FilesTellAudio
<1>9. DirectoriesExist'
  BY <1>1, <1>3 DEF DirectoriesExist
<1>10. KeptSafely'
  <2>1. ASSUME NEW a \in (Download \union Speech) \ Shared, ~full, arcq.worker = "adding", Kept(a)'
        PROVE  OnDisk(a)' \/ Archived(a) \/ Left(a) \/ \E d \in A!Directory \ {arcq.item} : InDirectory(a, d)
    <3>1. (\A d : InDirectory(a, d)' <=> InDirectory(a, d)) /\ (Archived(a)' <=> Archived(a))
      BY <1>3 DEF InDirectory, Archived
    <3>2. CASE OnDisk(a)'
      BY <3>2
    <3>3. CASE ~OnDisk(a)'
      <4>1. Kept(a)
        BY <2>1, <3>1, <3>3 DEF Kept
      <4>2. ~OnDisk(a)
        <5>1. CASE disk' = disk
          BY <3>3, <5>1 DEF OnDisk
        <5>2. CASE \E c : Stored(c)
          BY <1>1, <2>1, <3>3, <5>2, DiskKeeps
        <5> QED
          BY <1>2, <5>1, <5>2
      <4> QED
        BY <1>1, <2>1, <4>1, <4>2 DEF KeptSafely
    <3> QED
      BY <3>2, <3>3
  <2>2. ASSUME NEW a PROVE /\ Archived(a)' <=> Archived(a)
                           /\ Left(a)' <=> Left(a)
                           /\ \A d : InDirectory(a, d)' <=> InDirectory(a, d)
    BY <1>3 DEF Archived, Left, InDirectory
  <2> QED
    BY <1>2, <1>3, <2>1, <2>2 DEF KeptSafely
<1>11. HandedWhole'
  BY <1>1, <1>2 DEF HandedWhole, Stored
<1> QED
  BY <1>5, <1>7, <1>8, <1>9, <1>10, <1>11 DEF IInv

\* The encoder adds to what is whole, in directories too, and changes nothing else there.
LEMMA EncoderFiles ==
  ASSUME TypeOK, FilesTellAudio,
         EncoderLooks \/ EncoderOpens \/ (\E c : EncoderWrites(c)) \/ EncoderDeletes
  PROVE  /\ disk' \in [Files -> Held \union {Absent, Empty}]
         /\ \A n \in Speech : disk'[Wav[n]] \in {Absent, disk[Wav[n]]}
         /\ \A f \in Files : \/ disk'[f] \in {Absent, Empty, disk[f]}
                            \/ /\ encq.item \in Speech /\ f = Mp3[encq.item]
                               /\ disk'[f].audio = encq.item
                               /\ ~full => disk'[f] = Whole(encq.item)
<1>1. disk \in [Files -> Held \union {Absent, Empty}]
  BY DEF TypeOK
<1>2. CASE EncoderLooks
  BY <1>1, <1>2 DEF EncoderLooks
<1>3. CASE EncoderOpens
  <2>1. /\ encq.item \in Speech /\ disk' = [disk EXCEPT ![Mp3[encq.item]] = Empty]
    BY <1>3, Types DEF EncoderOpens, TypeOK
  <2> QED
    BY <1>1, <2>1, Names
<1>4. ASSUME NEW c, EncoderWrites(c)
      PROVE  /\ disk' \in [Files -> Held \union {Absent, Empty}]
             /\ \A n \in Speech : disk'[Wav[n]] = disk[Wav[n]]
             /\ \A f \in Files : \/ disk'[f] = disk[f]
                                \/ /\ encq.item \in Speech /\ f = Mp3[encq.item]
                                   /\ disk'[f].audio = encq.item
                                   /\ ~full => disk'[f] = Whole(encq.item)
  <2>1. /\ encq.item \in Speech /\ c \in Held /\ c.audio = encq.item
        /\ ~full => c = Whole(encq.item)
    BY <1>4, WrittenIs
  <2>2. disk' = disk \/ disk' = [disk EXCEPT ![Mp3[encq.item]] = c]
    BY <1>4 DEF EncoderWrites
  <2> QED
    BY <1>1, <2>1, <2>2, Names
<1>5. CASE EncoderDeletes
  <2>1. \A f \in Files : disk'[f] \in {Absent, disk[f]}
    BY <1>1, <1>5 DEF EncoderDeletes
  <2>2. disk' = [f \in Files |-> disk'[f]]
    BY <1>1, <1>5 DEF EncoderDeletes
  <2> QED
    BY <1>1, <2>1, <2>2, Names
<1> QED
  BY <1>2, <1>3, <1>4, <1>5

LEMMA EncoderDirectories ==
  ASSUME TypeOK, FilesTellAudio,
         EncoderLooks \/ EncoderOpens \/ (\E c : EncoderWrites(c)) \/ EncoderDeletes
  PROVE  /\ dirs' \in [A!Directory -> {dirs'[d] : d \in A!Directory}]
         /\ \A d \in A!Directory : dirs'[d] = Absent <=> dirs[d] = Absent
         /\ \A d \in A!Directory : dirs[d] # Absent =>
              /\ DOMAIN dirs'[d] = DOMAIN dirs[d]
              /\ dirs'[d] \in [DOMAIN dirs[d] -> Held \union {Empty}]
              /\ \A f \in DOMAIN dirs[d] :
                   \/ dirs'[d][f] = dirs[d][f]
                   \/ /\ dirs[d][f] = Empty /\ dirs'[d][f].audio = encq.item
                      /\ encq.item \in Speech /\ OnDisk(encq.item)
<1>0. /\ dirs \in [A!Directory -> {dirs[d] : d \in A!Directory}]
      /\ \A d \in A!Directory : dirs[d] # Absent =>
           DOMAIN dirs[d] \subseteq Files /\ dirs[d] \in [DOMAIN dirs[d] -> Held \union {Empty}]
  BY DEF TypeOK
<1>1. CASE dirs' = dirs
  BY <1>0, <1>1
<1>2. ASSUME NEW c, EncoderWrites(c), dirs' # dirs
      PROVE  /\ dirs' \in [A!Directory -> {dirs'[d] : d \in A!Directory}]
             /\ \A d \in A!Directory : dirs'[d] = Absent <=> dirs[d] = Absent
             /\ \A d \in A!Directory : dirs[d] # Absent =>
                  /\ DOMAIN dirs'[d] = DOMAIN dirs[d]
                  /\ dirs'[d] \in [DOMAIN dirs[d] -> Held \union {Empty}]
                  /\ \A f \in DOMAIN dirs[d] :
                       \/ dirs'[d][f] = dirs[d][f]
                       \/ /\ dirs[d][f] = Empty /\ dirs'[d][f].audio = encq.item
                          /\ encq.item \in Speech /\ OnDisk(encq.item)
  <2>1. /\ encq.item \in Speech /\ disk[Wav[encq.item]] = Whole(encq.item)
        /\ c \in Held /\ c.audio = encq.item
    BY <1>2, WrittenIs
  <2>2. OnDisk(encq.item)
    BY <2>1, Names DEF OnDisk
  <2> DEFINE m == Mp3[encq.item]
             moved == {d \in A!Directory : dirs[d] # Absent /\ m \in DOMAIN dirs[d] /\ dirs[d][m] = Empty}
  <2>3. dirs' = [d \in A!Directory |-> IF d \in moved THEN [dirs[d] EXCEPT ![m] = c] ELSE dirs[d]]
    BY <1>0, <1>2 DEF EncoderWrites
  <2>4. \A d \in moved : d \in A!Directory /\ dirs[d] # Absent /\ m \in DOMAIN dirs[d] /\ dirs[d][m] = Empty
    OBVIOUS
  <2> HIDE DEF m, moved
  <2>5. ASSUME NEW d \in A!Directory, dirs[d] # Absent
        PROVE  /\ dirs'[d] # Absent
               /\ DOMAIN dirs'[d] = DOMAIN dirs[d]
               /\ dirs'[d] \in [DOMAIN dirs[d] -> Held \union {Empty}]
               /\ \A f \in DOMAIN dirs[d] :
                    dirs'[d][f] = dirs[d][f] \/ (dirs[d][f] = Empty /\ dirs'[d][f] = c)
    <3>1. DOMAIN dirs[d] \in SUBSET Files /\ dirs[d] \in [DOMAIN dirs[d] -> Held \union {Empty}]
      BY <1>0, <2>5
    <3>2. CASE d \in moved
      <4>1. dirs'[d] = [dirs[d] EXCEPT ![m] = c]
        BY <2>3, <3>2
      <4>2. /\ DOMAIN dirs'[d] = DOMAIN dirs[d]
            /\ dirs'[d] \in [DOMAIN dirs[d] -> Held \union {Empty}]
            /\ \A f \in DOMAIN dirs[d] :
                    dirs'[d][f] = dirs[d][f] \/ (dirs[d][f] = Empty /\ dirs'[d][f] = c)
        BY <2>1, <2>4, <3>1, <3>2, <4>1
      <4> QED
        BY <3>1, <4>2, AbsentConstants
    <3>3. CASE d \notin moved
      BY <2>3, <2>5, <3>1, <3>3
    <3> QED
      BY <3>2, <3>3
  <2>6. ASSUME NEW d \in A!Directory, dirs[d] = Absent PROVE dirs'[d] = Absent
    BY <2>3, <2>4, <2>6
  <2>7. dirs' \in [A!Directory -> {dirs'[d] : d \in A!Directory}]
    BY <2>3
  <2> QED
    BY <2>1, <2>2, <2>5, <2>6, <2>7
<1> QED
  BY <1>1, <1>2 DEF EncoderLooks, EncoderOpens, EncoderDeletes

LEMMA EncoderKeeps ==
  IInv /\ (Encoding \/ \E n \in setup.speeches : Played(n)) /\ UNCHANGED setup => IInv'
<1> SUFFICES ASSUME IInv, Encoding \/ \E n \in setup.speeches : Played(n), UNCHANGED setup PROVE IInv'
  OBVIOUS
<1>1. TypeOK /\ DownloadsNew /\ FilesTellAudio /\ DirectoriesExist /\ KeptSafely /\ HandedWhole
  BY DEF IInv
<1>2. /\ Queue!Consistent(encq', Speech) /\ opened' \in BOOLEAN
      /\ UNCHANGED <<full, downloads, arcq, zips, left>>
      /\ EncoderLooks \/ EncoderOpens \/ (\E c : EncoderWrites(c)) \/ EncoderDeletes
  BY <1>1, EncoderStep
<1>3. UNCHANGED <<full, dwq, fetched, asked, handed, arcq, zips, left>>
  BY <1>2 DEF downloads
<1>4. /\ disk' \in [Files -> Held \union {Absent, Empty}]
      /\ \A n \in Speech : disk'[Wav[n]] \in {Absent, disk[Wav[n]]}
      /\ \A f \in Files : \/ disk'[f] \in {Absent, Empty, disk[f]}
                         \/ /\ encq.item \in Speech /\ f = Mp3[encq.item]
                            /\ disk'[f].audio = encq.item
                            /\ ~full => disk'[f] = Whole(encq.item)
  BY <1>1, <1>2, EncoderFiles
<1>5. /\ dirs' \in [A!Directory -> {dirs'[d] : d \in A!Directory}]
      /\ \A d \in A!Directory : dirs'[d] = Absent <=> dirs[d] = Absent
      /\ \A d \in A!Directory : dirs[d] # Absent =>
           /\ DOMAIN dirs'[d] = DOMAIN dirs[d]
           /\ dirs'[d] \in [DOMAIN dirs[d] -> Held \union {Empty}]
           /\ \A f \in DOMAIN dirs[d] :
                \/ dirs'[d][f] = dirs[d][f]
                \/ /\ dirs[d][f] = Empty /\ dirs'[d][f].audio = encq.item
                   /\ encq.item \in Speech /\ OnDisk(encq.item)
  BY <1>1, <1>2, EncoderDirectories
<1>6. ASSUME NEW a \in Download \union Speech, NEW f \in Files, disk'[f] = Whole(a)
      PROVE  disk[f] = Whole(a) \/ (a = encq.item /\ a \in Speech /\ f = Mp3[a])
  BY <1>4, <1>6, Contents
<1>7. TypeOK'
  BY <1>1, <1>2, <1>3, <1>4, <1>5 DEF TypeOK
<1>8. DownloadsNew'
  <2>1. ASSUME NEW d \in Download, OnDisk(d)' PROVE OnDisk(d)
    BY <1>6, <2>1, Names DEF OnDisk
  <2> QED
    BY <1>1, <1>3, <2>1 DEF DownloadsNew
<1>9. FilesTellAudio'
  <2>1. \A n \in Speech : disk'[Wav[n]] \in {Absent, Whole(n)}
    BY <1>1, <1>4 DEF FilesTellAudio
  <2>2. \A a \in (Download \union Speech) \ Shared : \A f \in Files :
          disk'[f] = Whole(a) => f = Mp3Of(a) \/ (a \in Speech /\ f = Wav[a])
    BY <1>1, <1>6, Names DEF FilesTellAudio
  <2>3. opened' => encq'.worker = "working" /\ disk'[Wav[encq'.item]] # Absent
    <3>1. CASE EncoderLooks
      BY <1>1, <3>1 DEF EncoderLooks, FilesTellAudio
    <3>2. CASE EncoderOpens
      <4>1. encq.item \in Speech
        BY <1>1, <3>2, Types DEF EncoderOpens, TypeOK
      <4> QED
        BY <1>1, <3>2, <4>1, Names DEF EncoderOpens, TypeOK
    <3>3. CASE (\E c : EncoderWrites(c)) \/ EncoderDeletes
      <4>1. ~opened'
        BY <3>3 DEF EncoderWrites, EncoderDeletes
      <4> QED
        BY <4>1
    <3> QED
      BY <1>2, <3>1, <3>2, <3>3
  <2>4. ASSUME NEW n \in Speech \ Shared, ~full PROVE disk'[Mp3[n]] \in {Absent, Empty, Whole(n)}
    <3>1. disk[Mp3[n]] \in {Absent, Empty, Whole(n)} /\ Mp3[n] \in Files
      BY <1>1, <2>4, Names DEF FilesTellAudio
    <3> QED
      BY <1>4, <2>4, <3>1, Names
  <2>5. ASSUME NEW n \in Speech \ Shared, disk'[Mp3[n]] = Empty PROVE opened' /\ encq'.item = n
    <3>0. Mp3[n] \in Files /\ disk \in [Files -> Held \union {Absent, Empty}]
      BY <1>1, Names DEF TypeOK
    <3>1. CASE EncoderLooks
      BY <1>1, <2>5, <3>1 DEF EncoderLooks, FilesTellAudio
    <3>2. CASE EncoderOpens
      <4>1. encq.item \in Speech
        BY <1>1, <3>2, Types DEF EncoderOpens, TypeOK
      <4>2. CASE n = encq.item
        BY <3>2, <4>2 DEF EncoderOpens
      <4>3. CASE n # encq.item
        <5>1. disk'[Mp3[n]] = disk[Mp3[n]]
          BY <3>0, <3>2, <4>1, <4>3, Names DEF EncoderOpens
        <5> QED
          BY <1>1, <2>5, <3>2, <5>1 DEF EncoderOpens, FilesTellAudio
      <4> QED
        BY <4>2, <4>3
    <3>3. ASSUME NEW c, EncoderWrites(c) PROVE FALSE
      <4>1. encq.item \in Speech /\ c \in Held
        BY <1>1, <3>3, WrittenIs
      <4>2. \/ disk'[Mp3[encq.item]] = c
            \/ disk'[Mp3[encq.item]] = Absent
        BY <3>3, <4>1, <3>0, Names DEF EncoderWrites
      <4>3. disk'[Mp3[encq.item]] # Empty
        BY <4>1, <4>2, Contents
      <4>4. n # encq.item
        BY <2>5, <4>3
      <4>5. disk'[Mp3[n]] = disk[Mp3[n]]
        BY <3>0, <3>3, <4>1, <4>4, Names DEF EncoderWrites
      <4> QED
        BY <1>1, <2>5, <4>4, <4>5 DEF FilesTellAudio
    <3>4. CASE EncoderDeletes
      <4>1. disk[Mp3[n]] = Empty
        BY <2>5, <3>0, <3>4, Contents DEF EncoderDeletes
      <4> QED
        BY <1>1, <3>4, <4>1 DEF EncoderDeletes, FilesTellAudio
    <3> QED
      BY <1>2, <3>1, <3>2, <3>3, <3>4
  <2> QED
    BY <1>3, <2>1, <2>2, <2>3, <2>4, <2>5 DEF FilesTellAudio
<1>10. DirectoriesExist'
  <2>1. ASSUME arcq.worker = "adding"
        PROVE  arcq.item \in A!Directory /\ dirs[arcq.item] # Absent /\ Queue!Pending(arcq, arcq.item)
    BY <1>1, <2>1, Types DEF TypeOK, DirectoriesExist, Queue!Pending
  <2> QED
    BY <1>1, <1>3, <1>5, <2>1 DEF DirectoriesExist
<1>11. KeptSafely'
  <2> SUFFICES ASSUME arcq.worker = "adding", ~full, NEW a \in (Download \union Speech) \ Shared, Kept(a)', ~OnDisk(a)'
               PROVE  Archived(a)' \/ Left(a)' \/ \E d \in A!Directory \ {arcq.item} : InDirectory(a, d)'
    BY <1>3 DEF KeptSafely
  <2>1. ~OnDisk(a)
    BY <1>1, <1>2, DiskKeeps DEF EncoderLooks, OnDisk
  <2>2. Archived(a)' <=> Archived(a)
    BY <1>3 DEF Archived
  <2>3. ASSUME NEW d \in A!Directory, NEW f, dirs[d] # Absent, f \in DOMAIN dirs[d]
        PROVE  dirs'[d][f] = Whole(a) <=> dirs[d][f] = Whole(a)
    BY <1>5, <2>1, <2>3, Contents
  <2>4. ASSUME NEW d \in A!Directory PROVE InDirectory(a, d)' <=> InDirectory(a, d)
    BY <1>5, <2>3 DEF InDirectory
  <2>5. Left(a)' <=> Left(a)
    <3>1. /\ arcq.item \in A!Directory /\ Queue!Pending(arcq, arcq.item)
          /\ left \subseteq DOMAIN dirs[arcq.item]
      BY <1>1, Types DEF TypeOK, DirectoriesExist, Queue!Pending
    <3>2. dirs[arcq.item] # Absent
      BY <1>1, <3>1 DEF DirectoriesExist
    <3> QED
      BY <1>3, <2>3, <3>1, <3>2 DEF Left
  <2>6. Kept(a)
    BY <2>2, <2>4 DEF Kept
  <2> QED
    BY <1>1, <2>1, <2>2, <2>4, <2>5, <2>6 DEF KeptSafely
<1>12. HandedWhole'
  BY <1>1, <1>3 DEF HandedWhole
<1> QED
  BY <1>7, <1>8, <1>9, <1>10, <1>11, <1>12 DEF IInv

LEMMA ArchiverKeeps == IInv /\ Archiving /\ UNCHANGED setup => IInv'
<1> SUFFICES ASSUME IInv, Archiving, UNCHANGED setup PROVE IInv'
  OBVIOUS
<1>1. TypeOK /\ DownloadsNew /\ FilesTellAudio /\ DirectoriesExist /\ KeptSafely /\ HandedWhole
  BY DEF IInv
<1>2. /\ Queue!Consistent(arcq', A!Directory) /\ Queue!Once(arcq')
      /\ \A y : Queue!Pending(arcq', y) => Queue!Pending(arcq, y)
      /\ UNCHANGED <<disk, full, downloads, encoder>>
      /\ ArchiverLooks \/ ArchiverOpens \/ (\E f : ArchiverAdds(f)) \/ ArchiverRemoves
  BY <1>1, ArchiverStep
<1>3. UNCHANGED <<disk, full, dwq, fetched, asked, handed, encq, opened>>
  BY <1>2 DEF downloads, encoder
<1>4. /\ dirs \in [A!Directory -> {dirs[d] : d \in A!Directory}]
      /\ zips \in [A!Directory -> {Absent} \union SUBSET (Held \union {Empty})]
      /\ \A d \in A!Directory : dirs[d] # Absent =>
           DOMAIN dirs[d] \subseteq Files /\ dirs[d] \in [DOMAIN dirs[d] -> Held \union {Empty}]
      /\ full \in BOOLEAN
  BY <1>1 DEF TypeOK
<1>5. arcq.worker = "adding" =>
        /\ arcq.item \in A!Directory /\ dirs[arcq.item] # Absent /\ zips[arcq.item] # Absent
        /\ left \subseteq DOMAIN dirs[arcq.item]
  BY <1>1, Types DEF TypeOK, DirectoriesExist, Queue!Pending
\* What an entry adds to the archive.
<1>6. ASSUME NEW f, ArchiverAdds(f)
      PROVE  \E c \in Held \union {Empty} :
               /\ zips' = [zips EXCEPT ![arcq.item] = zips[arcq.item] \union {c}]
               /\ ~full => c = dirs[arcq.item][f]
  <2> DEFINE e == dirs[arcq.item][f]
             c == IF full /\ e # Empty THEN [e EXCEPT !.whole = FALSE] ELSE e
  <2>1. e \in Held \union {Empty}
    BY <1>4, <1>5, <1>6 DEF ArchiverAdds
  <2>2. zips' = [zips EXCEPT ![arcq.item] = zips[arcq.item] \union {c}]
    BY <1>6 DEF ArchiverAdds
  <2> HIDE DEF e
  <2>3. c \in Held \union {Empty} /\ (~full => c = e)
    BY <2>1 DEF Held
  <2> QED
    BY <2>2, <2>3 DEF e
<1>7. zips' \in [A!Directory -> {Absent} \union SUBSET (Held \union {Empty})]
  <2>1. ASSUME NEW f, ArchiverAdds(f) PROVE zips' \in [A!Directory -> {Absent} \union SUBSET (Held \union {Empty})]
    <3>1. zips[arcq.item] \in SUBSET (Held \union {Empty})
      BY <1>4, <1>5, <2>1 DEF ArchiverAdds
    <3> QED
      BY <1>4, <1>6, <2>1, <3>1
  <2> QED
    BY <1>2, <1>4, <2>1 DEF ArchiverLooks, ArchiverOpens, ArchiverRemoves
<1>8. TypeOK'
  <2>1. /\ dirs' \in [A!Directory -> {dirs'[d] : d \in A!Directory}]
        /\ \A d \in A!Directory : dirs'[d] = dirs[d] \/ dirs'[d] = Absent
    BY <1>2, <1>4 DEF ArchiverLooks, ArchiverOpens, ArchiverAdds, ArchiverRemoves
  <2> QED
    BY <1>1, <1>2, <1>3, <1>4, <1>7, <2>1 DEF TypeOK
<1>9. DownloadsNew'
  BY <1>1, <1>3 DEF DownloadsNew, OnDisk
<1>10. FilesTellAudio'
  BY <1>1, <1>3 DEF FilesTellAudio
<1>11. DirectoriesExist'
  <2>1. CASE ArchiverLooks
    BY <1>1, <1>2, <2>1 DEF ArchiverLooks, DirectoriesExist
  <2>2. CASE ArchiverOpens
    <3>1. zips'[arcq.item] = {} /\ {} # Absent
      BY <1>4, <2>2, AbsentConstants DEF ArchiverOpens
    <3> QED
      BY <1>1, <1>2, <2>2, <3>1 DEF ArchiverOpens, DirectoriesExist
  <2>3. ASSUME NEW f, ArchiverAdds(f) PROVE DirectoriesExist'
    <3>1. PICK c \in Held \union {Empty} : zips' = [zips EXCEPT ![arcq.item] = zips[arcq.item] \union {c}]
      BY <1>6, <2>3
    <3>2. zips'[arcq.item] = zips[arcq.item] \union {c} /\ zips[arcq.item] \in SUBSET (Held \union {Empty})
      BY <1>4, <1>5, <2>3, <3>1 DEF ArchiverAdds
    <3>3. zips'[arcq.item] # Absent
      BY <3>2, AbsentConstants
    <3> QED
      BY <1>1, <1>2, <2>3, <3>3 DEF ArchiverAdds, DirectoriesExist
  <2>4. CASE ArchiverRemoves
    BY <1>1, <1>2, <1>4, <2>4 DEF ArchiverRemoves, DirectoriesExist
  <2> QED
    BY <1>2, <2>1, <2>2, <2>3, <2>4
<1>12. KeptSafely'
  <2> SUFFICES ASSUME arcq'.worker = "adding", ~full, NEW a \in (Download \union Speech) \ Shared, Kept(a)', ~OnDisk(a)'
               PROVE  Archived(a)' \/ Left(a)' \/ \E d \in A!Directory \ {arcq'.item} : InDirectory(a, d)'
    BY <1>3 DEF KeptSafely
  <2>1. ~OnDisk(a)
    BY <1>3 DEF OnDisk
  <2>2. CASE ArchiverLooks
    <3>1. /\ Archived(a)' <=> Archived(a)
          /\ Left(a)' <=> Left(a)
          /\ \A d : InDirectory(a, d)' <=> InDirectory(a, d)
      BY <2>2 DEF ArchiverLooks, Archived, Left, InDirectory
    <3>2. Kept(a)
      BY <2>1, <3>1 DEF Kept
    <3> QED
      BY <1>1, <2>1, <2>2, <3>1, <3>2 DEF ArchiverLooks, KeptSafely
  <2>3. CASE ArchiverOpens
    <3>1. \A d : InDirectory(a, d)' <=> InDirectory(a, d)
      BY <2>3 DEF ArchiverOpens, InDirectory
    <3>2. InDirectory(a, arcq.item) => Left(a)'
      BY <2>3 DEF ArchiverOpens, InDirectory, Left
    <3> QED
      BY <2>3, <3>1, <3>2 DEF ArchiverOpens, Kept
  <2>4. ASSUME NEW f, ArchiverAdds(f)
        PROVE  Archived(a)' \/ Left(a)' \/ \E d \in A!Directory \ {arcq'.item} : InDirectory(a, d)'
    <3>1. \A d : InDirectory(a, d)' <=> InDirectory(a, d)
      BY <2>4 DEF ArchiverAdds, InDirectory
    <3>2. PICK c \in Held \union {Empty} :
            /\ zips' = [zips EXCEPT ![arcq.item] = zips[arcq.item] \union {c}]
            /\ c = dirs[arcq.item][f]
      BY <1>6, <2>4
    <3>3. zips'[arcq.item] = zips[arcq.item] \union {c} /\ zips[arcq.item] \in SUBSET (Held \union {Empty})
      BY <1>4, <1>5, <2>4, <3>2 DEF ArchiverAdds
    <3>4. zips'[arcq.item] # Absent
      BY <3>3, AbsentConstants
    <3>5. ASSUME Archived(a) PROVE Archived(a)'
      BY <1>4, <3>2, <3>3, <3>4, <3>5 DEF Archived
    <3>6. ASSUME Left(a) PROVE Left(a)' \/ Archived(a)'
      <4>1. PICK g \in left : dirs[arcq.item][g] = Whole(a)
        BY <3>6 DEF Left
      <4>2. CASE g = f
        <5>1. Whole(a) \in zips'[arcq.item]
          BY <3>2, <3>3, <4>1, <4>2
        <5> QED
          BY <1>5, <2>4, <3>4, <5>1 DEF Archived, ArchiverAdds
      <4>3. CASE g # f
        BY <2>4, <4>1, <4>3 DEF Left, ArchiverAdds
      <4> QED
        BY <4>2, <4>3
    <3>7. Kept(a) \/ Archived(a)'
      BY <3>1 DEF Kept
    <3> QED
      BY <1>1, <2>1, <2>4, <3>1, <3>5, <3>6, <3>7 DEF KeptSafely, ArchiverAdds
  <2> QED
    BY <1>2, <2>2, <2>3, <2>4 DEF ArchiverRemoves
<1>13. HandedWhole'
  BY <1>1, <1>3 DEF HandedWhole
<1> QED
  BY <1>8, <1>9, <1>10, <1>11, <1>12, <1>13 DEF IInv

LEMMA TaskKeeps == IInv /\ Task /\ UNCHANGED setup => IInv'
<1> SUFFICES ASSUME IInv, Task, UNCHANGED setup PROVE IInv'
  OBVIOUS
<1>1. TypeOK /\ DownloadsNew /\ FilesTellAudio /\ DirectoriesExist /\ KeptSafely /\ HandedWhole
  BY DEF IInv
<1>2. /\ Queue!Consistent(arcq', A!Directory) /\ Queue!Once(arcq')
      /\ UNCHANGED <<full, downloads, encoder, zips, left>>
      /\ arcq'.worker = "adding" => arcq.worker = "adding" /\ arcq'.item = arcq.item
      /\ \/ UNCHANGED <<disk, dirs, arcq>>
         \/ \E new, moved : TaskMoves(new, moved)
  BY <1>1, TaskStep
<1>3. UNCHANGED <<full, dwq, fetched, asked, handed, encq, opened, zips, left>>
  BY <1>2 DEF downloads, encoder
<1>4. CASE UNCHANGED <<disk, dirs, arcq>>
  BY <1>1, <1>3, <1>4 DEF IInv, TypeOK, DownloadsNew, OnDisk, FilesTellAudio, DirectoriesExist,
       KeptSafely, Kept, InDirectory, Archived, Left, HandedWhole
<1>5. ASSUME NEW new, NEW moved, TaskMoves(new, moved) PROVE IInv'
  <2>0. /\ disk \in [Files -> Held \union {Absent, Empty}]
        /\ dirs \in [A!Directory -> {dirs[d] : d \in A!Directory}]
        /\ \A d \in A!Directory : dirs[d] # Absent =>
             DOMAIN dirs[d] \subseteq Files /\ dirs[d] \in [DOMAIN dirs[d] -> Held \union {Empty}]
    BY <1>1 DEF TypeOK
  <2>1. /\ disk' \in [Files -> Held \union {Absent, Empty}]
        /\ \A f \in Files : f \notin moved => disk'[f] = disk[f]
        /\ \A f \in moved : disk'[f] = Absent
    BY <1>5, <2>0 DEF TaskMoves
  <2>2. /\ new \in A!Directory /\ dirs[new] = Absent
        /\ dirs'[new] = [f \in moved |-> disk[f]]
        /\ \A d \in A!Directory : d # new => dirs'[d] = dirs[d]
        /\ dirs' \in [A!Directory -> {dirs'[d] : d \in A!Directory}]
    BY <1>5, <2>0 DEF TaskMoves
  <2>3. /\ DOMAIN dirs'[new] = moved /\ moved \subseteq Files
        /\ \A f \in moved : dirs'[new][f] = disk[f]
        /\ dirs'[new] \in [moved -> Held \union {Empty}]
    <3>1. moved \subseteq Files /\ \A f \in moved : disk[f] \in Held \union {Empty}
      BY <1>5, <2>0 DEF TaskMoves
    <3> QED
      BY <2>2, <3>1
  <2>4. dirs'[new] # Absent
    BY <2>3, AbsentConstants
  <2>5. TypeOK'
    <3>1. \A d \in A!Directory : dirs'[d] # Absent =>
            DOMAIN dirs'[d] \subseteq Files /\ dirs'[d] \in [DOMAIN dirs'[d] -> Held \union {Empty}]
      BY <2>0, <2>2, <2>3
    <3> QED
      BY <1>1, <1>2, <1>3, <2>1, <2>2, <3>1 DEF TypeOK
  <2>6. ASSUME NEW a \in Download \union Speech, NEW f \in Files, disk'[f] = Whole(a) PROVE disk[f] = Whole(a)
    BY <2>1, <2>6, Contents
  <2>7. DownloadsNew'
    <3>1. \A d \in Download : OnDisk(d)' => OnDisk(d)
      BY <2>6 DEF OnDisk
    <3> QED
      BY <1>1, <1>3, <3>1 DEF DownloadsNew
  <2>8. FilesTellAudio'
    <3>1. \A n \in Speech : disk'[Wav[n]] = disk[Wav[n]] /\ disk'[Mp3[n]] \in {Absent, disk[Mp3[n]]}
      BY <1>5, <2>1, Names DEF TaskMoves
    <3>2. opened => encq.item \in Speech
      BY <1>1, Types DEF TypeOK, FilesTellAudio
    <3> QED
      BY <1>1, <1>3, <2>6, <3>1, <3>2, AbsentConstants DEF FilesTellAudio
  <2>9. DirectoriesExist'
    <3>1. \A d \in A!Directory : Queue!Pending(arcq', d) => dirs'[d] # Absent
      BY <1>1, <1>5, <2>2, <2>4 DEF TaskMoves, DirectoriesExist
    <3>2. ASSUME arcq'.worker = "adding"
          PROVE  zips[arcq'.item] # Absent /\ left \subseteq DOMAIN dirs'[arcq'.item]
      <4>1. /\ arcq.item \in A!Directory /\ Queue!Pending(arcq, arcq.item)
            /\ arcq.worker = "adding" /\ arcq'.item = arcq.item
        BY <1>1, <1>2, <3>2, Types DEF TypeOK, Queue!Pending
      <4>2. arcq.item # new
        BY <1>1, <2>2, <4>1 DEF DirectoriesExist
      <4> QED
        BY <1>1, <2>2, <4>1, <4>2 DEF DirectoriesExist
    <3> QED
      BY <1>3, <3>1, <3>2 DEF DirectoriesExist
  <2>10. KeptSafely'
    <3> SUFFICES ASSUME arcq'.worker = "adding", ~full, NEW a \in (Download \union Speech) \ Shared, Kept(a)', ~OnDisk(a)'
                 PROVE  Archived(a)' \/ Left(a)' \/ \E d \in A!Directory \ {arcq'.item} : InDirectory(a, d)'
      BY <1>3 DEF KeptSafely
    <3>1. /\ arcq.item \in A!Directory /\ Queue!Pending(arcq, arcq.item)
          /\ arcq.worker = "adding" /\ arcq'.item = arcq.item
      BY <1>1, <1>2, Types DEF TypeOK, Queue!Pending
    <3>2. arcq.item # new
      BY <1>1, <2>2, <3>1 DEF DirectoriesExist
    <3>3. Archived(a)' <=> Archived(a)
      BY <1>3 DEF Archived
    <3>4. Left(a)' <=> Left(a)
      BY <1>3, <2>2, <3>1, <3>2 DEF Left
    <3>5. \A d \in A!Directory \ {new} : InDirectory(a, d)' <=> InDirectory(a, d)
      BY <2>2 DEF InDirectory
    <3>6. CASE InDirectory(a, new)'
      BY <2>2, <3>1, <3>2, <3>6
    <3>7. CASE ~InDirectory(a, new)'
      <4>1. ~OnDisk(a)
        <5>1. ASSUME NEW f \in Files, disk[f] = Whole(a) PROVE FALSE
          <6>1. CASE f \in moved
            BY <2>3, <2>4, <3>7, <5>1, <6>1 DEF InDirectory
          <6>2. CASE f \notin moved
            BY <2>1, <5>1, <6>2 DEF OnDisk
          <6> QED
            BY <6>1, <6>2
        <5> QED
          BY <5>1 DEF OnDisk
      <4>2. ~InDirectory(a, new)
        BY <2>2 DEF InDirectory
      <4>3. Kept(a)
        BY <3>3, <3>5, <3>7 DEF Kept
      <4> QED
        BY <1>1, <3>1, <3>3, <3>4, <3>5, <4>1, <4>2, <4>3 DEF KeptSafely
    <3> QED
      BY <3>6, <3>7
  <2>11. HandedWhole'
    BY <1>1, <1>3 DEF HandedWhole
  <2> QED
    BY <2>5, <2>7, <2>8, <2>9, <2>10, <2>11 DEF IInv
<1> QED
  BY <1>2, <1>4, <1>5

\* Nothing else touches a file, or a queue.
LEMMA OthersKeep ==
  IInv /\ (\/ \E t \in setup.texts : DecodeToFile(t)
           \/ AskEncoder \/ AskDownloads \/ DiskFills \/ UNCHANGED vars) /\ UNCHANGED setup => IInv'
<1> SUFFICES ASSUME IInv, UNCHANGED setup,
                    \/ \E t \in setup.texts : DecodeToFile(t)
                    \/ AskEncoder \/ AskDownloads \/ DiskFills \/ UNCHANGED vars
             PROVE IInv'
  OBVIOUS
<1>1. /\ UNCHANGED <<disk, dwq, fetched, asked, encq, opened, arcq, dirs, zips, left>>
      /\ full' \in BOOLEAN /\ (~full' => ~full)
      /\ ~full =>
           \A h \in handed' :
             \/ h \in handed
             \/ /\ h.file = "embedded" /\ h.content.text \in Base64
                /\ h.content.bytes = DecodeAndWrite(h.content.text)
  <2>0. full \in BOOLEAN
    BY DEF IInv, TypeOK
  <2>1. CASE \E t \in setup.texts : DecodeToFile(t)
    <3>1. \A t \in setup.texts : t \in Base64
      BY StorageConstants DEF IInv, TypeOK
    <3>2. PICK t \in setup.texts : DecodeToFile(t)
      BY <2>1
    <3>3. /\ UNCHANGED <<disk, full, dwq, fetched, asked, encq, opened, arcq, dirs, zips, left>>
          /\ \/ \E w \in Reached(t) :
                  handed' = handed \union {[file |-> "embedded", content |-> [text |-> t, bytes |-> w]]}
             \/ handed' = handed
      BY <3>2 DEF DecodeToFile, encoder, archive
    <3>4. ~full => Reached(t) = {DecodeAndWrite(t)}
      BY DEF Reached
    <3> QED
      BY <2>0, <3>1, <3>3, <3>4
  <2>2. CASE AskEncoder \/ AskDownloads \/ UNCHANGED vars
    BY <2>0, <2>2 DEF AskEncoder, AskDownloads, vars, downloads, encoder, archive
  <2>3. CASE DiskFills
    BY <2>0, <2>3 DEF DiskFills, downloads, encoder, archive
  <2> QED
    BY <2>1, <2>2, <2>3
<1>2. TypeOK' /\ DownloadsNew' /\ DirectoriesExist'
  BY <1>1 DEF IInv, TypeOK, DownloadsNew, OnDisk, DirectoriesExist
<1>3. FilesTellAudio'
  <2>1. FilesTellAudio
    BY DEF IInv
  <2> QED
    BY <1>1, <2>1 DEF FilesTellAudio
<1>4. KeptSafely'
  <2>1. ASSUME NEW a PROVE /\ Kept(a)' <=> Kept(a)
                           /\ OnDisk(a)' <=> OnDisk(a)
                           /\ Archived(a)' <=> Archived(a)
                           /\ Left(a)' <=> Left(a)
                           /\ \A d : InDirectory(a, d)' <=> InDirectory(a, d)
    BY <1>1 DEF Kept, OnDisk, InDirectory, Archived, Left
  <2>2. KeptSafely
    BY DEF IInv
  <2> QED
    BY <1>1, <2>1, <2>2 DEF KeptSafely
<1>5. HandedWhole'
  <2>1. HandedWhole
    BY DEF IInv
  <2> QED
    BY <1>1, <2>1 DEF HandedWhole
<1> QED
  BY <1>2, <1>3, <1>4, <1>5 DEF IInv

LEMMA InvStep == IInv /\ [Next]_vars => IInv'
<1> SUFFICES ASSUME IInv, [Next]_vars PROVE IInv'
  OBVIOUS
<1>1. UNCHANGED setup
  BY DEF Next, vars
<1>2. CASE Downloads
  BY <1>1, <1>2, DownloadsKeep
<1>3. CASE Encoding \/ \E n \in setup.speeches : Played(n)
  BY <1>1, <1>3, EncoderKeeps
<1>4. CASE Archiving
  BY <1>1, <1>4, ArchiverKeeps
<1>5. CASE Task
  BY <1>1, <1>5, TaskKeeps
<1>6. CASE \/ \E t \in setup.texts : DecodeToFile(t)
           \/ AskEncoder \/ AskDownloads \/ DiskFills \/ UNCHANGED vars
  BY <1>1, <1>6, OthersKeep
<1> QED
  BY <1>2, <1>3, <1>4, <1>5, <1>6 DEF Next

\* The invariant holds in every state.
THEOREM InvariantHolds == Spec => []IInv
<1>1. Init => IInv
  BY InvInit
<1>2. IInv /\ [Next]_vars => IInv'
  BY InvStep
<1> QED
  BY <1>1, <1>2, PTL DEF Spec

\* The histories the waiter asks for tell of every worker that has something to do, in
\* each of the three queues.
THEOREM HistoriesTell == Spec => []HistoriesTellWork
<1>1. IInv => HistoriesTellWork
  BY DEF IInv, TypeOK, HistoriesTellWork, Queue!Consistent
<1> QED
  BY <1>1, InvariantHolds, PTL

\* Unless the disk is full no file is handed on as a download that holds nothing or was cut
\* off, and what is in the file of a clean embedded text is what was encoded
\* (downloadqueue.cpp:101-106, decodeutil.cpp:14-53).
THEOREM HandedOnHolds == Spec => []HandedOn
<1>1. IInv => HandedOn
  <2> SUFFICES ASSUME IInv, ~full, NEW h \in handed
               PROVE  /\ h.file = "embedded" /\ Clean(h.content.text) =>
                           WhatWasEncoded(h.content.bytes, h.content.text)
                      /\ h.file # "embedded" => h.content # Empty /\ h.content.whole
    BY DEF HandedOn
  <2>1. h.file # "embedded" => h.content # Empty /\ h.content.whole
    BY DEF IInv, HandedWhole
  <2>2. h.file = "embedded" =>
          h.content.text \in Text /\ h.content.bytes = DecodeAndWrite(h.content.text)
    BY StorageConstants DEF IInv, HandedWhole
  <2> QED
    BY <2>1, <2>2, DecodesAll DEF DecodesWhatWasEncoded
<1> QED
  BY <1>1, InvariantHolds, PTL

-----------------------------------------------------------------------------
(* What is kept *)

LEMMA KeptStep ==
  ASSUME IInv, [Next]_vars, ~full, NEW a \in (Download \union Speech) \ Shared, Kept(a), ~Kept(a)'
  PROVE  \E d \in A!Directory : zips[d] # Absent /\ zips'[d] = {}
<1>1. TypeOK /\ DownloadsNew /\ FilesTellAudio /\ DirectoriesExist /\ KeptSafely
  BY DEF IInv
<1>2. CASE Downloads
  <2>1. UNCHANGED <<arcq, dirs, zips, left>>
    BY <1>2 DEF Downloads, archive
  <2>2. (\A d : InDirectory(a, d)' <=> InDirectory(a, d)) /\ (Archived(a)' <=> Archived(a))
    BY <2>1 DEF InDirectory, Archived
  <2>3. disk' = disk \/ \E c : Stored(c)
    BY <1>1, <1>2, DownloadsStep
  <2>4. OnDisk(a) => OnDisk(a)'
    BY <1>1, <2>3, DiskKeeps DEF OnDisk
  <2> QED
    BY <2>2, <2>4 DEF Kept
<1>3. CASE Encoding \/ \E n \in setup.speeches : Played(n)
  <2>1. /\ UNCHANGED <<full, downloads, arcq, zips, left>>
        /\ EncoderLooks \/ EncoderOpens \/ (\E c : EncoderWrites(c)) \/ EncoderDeletes
    BY <1>1, <1>3, EncoderStep
  <2>2. Archived(a)' <=> Archived(a)
    BY <2>1 DEF Archived
  <2>3. OnDisk(a) => OnDisk(a)'
    BY <1>1, <2>1, DiskKeeps DEF EncoderLooks, OnDisk
  <2>4. ASSUME NEW d \in A!Directory, InDirectory(a, d) PROVE InDirectory(a, d)'
    <3>1. PICK f \in DOMAIN dirs[d] : dirs[d][f] = Whole(a)
      BY <2>4 DEF InDirectory
    <3>2. /\ DOMAIN dirs'[d] = DOMAIN dirs[d] /\ dirs'[d] # Absent
          /\ dirs'[d][f] = dirs[d][f] \/ dirs[d][f] = Empty
      BY <1>1, <2>1, <2>4, <3>1, EncoderDirectories DEF InDirectory
    <3>3. Whole(a) # Empty
      BY Contents
    <3> QED
      BY <3>1, <3>2, <3>3 DEF InDirectory
  <2> QED
    BY <2>2, <2>3, <2>4 DEF Kept
<1>4. CASE Archiving
  <2>1. /\ UNCHANGED <<disk, full, downloads, encoder>>
        /\ ArchiverLooks \/ ArchiverOpens \/ (\E f : ArchiverAdds(f)) \/ ArchiverRemoves
    BY <1>1, <1>4, ArchiverStep
  <2>2. OnDisk(a)' <=> OnDisk(a)
    BY <2>1 DEF OnDisk
  <2>3. zips \in [A!Directory -> {Absent} \union SUBSET (Held \union {Empty})]
    BY <1>1 DEF TypeOK
  <2>4. CASE ArchiverLooks
    BY <2>2, <2>4 DEF ArchiverLooks, Kept, InDirectory, Archived
  <2>5. CASE ArchiverOpens
    <3>1. \A d : InDirectory(a, d)' <=> InDirectory(a, d)
      BY <2>5 DEF ArchiverOpens, InDirectory
    <3>2. Archived(a) /\ ~Archived(a)'
      BY <2>2, <3>1 DEF Kept
    <3>3. PICK d \in A!Directory : zips[d] # Absent /\ Whole(a) \in zips[d]
      BY <3>2 DEF Archived
    <3>4. d = arcq.item /\ zips'[d] = {}
      BY <2>3, <2>5, <3>2, <3>3 DEF ArchiverOpens, Archived
    <3> QED
      BY <3>3, <3>4
  <2>6. ASSUME NEW f, ArchiverAdds(f) PROVE FALSE
    <3>1. /\ arcq.worker = "adding" /\ arcq.item \in A!Directory /\ zips[arcq.item] # Absent
      BY <1>1, <2>6, Types DEF TypeOK, DirectoriesExist, ArchiverAdds
    <3>2. zips[arcq.item] \subseteq zips'[arcq.item] /\ \A d \in A!Directory \ {arcq.item} : zips'[d] = zips[d]
      BY <2>3, <2>6, <3>1 DEF ArchiverAdds
    <3>3. zips'[arcq.item] # Absent
      <4>1. IInv'
        BY InvStep
      <4>2. arcq' = arcq
        BY <2>6 DEF ArchiverAdds
      <4> QED
        BY <3>1, <4>1, <4>2 DEF IInv, DirectoriesExist
    <3>4. Archived(a) => Archived(a)'
      BY <3>2, <3>3 DEF Archived
    <3>5. \A d : InDirectory(a, d)' <=> InDirectory(a, d)
      BY <2>6 DEF ArchiverAdds, InDirectory
    <3> QED
      BY <2>2, <3>4, <3>5 DEF Kept
  \* What the directory held is in its archive, or elsewhere.
  <2>7. CASE ArchiverRemoves
    <3>1. ~Left(a) /\ arcq.worker = "adding"
      BY <2>7 DEF ArchiverRemoves, Left
    <3>2. OnDisk(a) \/ Archived(a) \/ \E d \in A!Directory \ {arcq.item} : InDirectory(a, d)
      BY <1>1, <3>1 DEF KeptSafely
    <3>3. Archived(a)' <=> Archived(a)
      BY <2>7 DEF ArchiverRemoves, Archived
    <3>4. \A d \in A!Directory \ {arcq.item} : dirs'[d] = dirs[d]
      BY <1>1, <2>7 DEF ArchiverRemoves, TypeOK
    <3>5. \A d \in A!Directory \ {arcq.item} : InDirectory(a, d)' <=> InDirectory(a, d)
      BY <3>4 DEF InDirectory
    <3> QED
      BY <2>2, <3>2, <3>3, <3>5 DEF Kept
  <2> QED
    BY <2>1, <2>4, <2>5, <2>6, <2>7
<1>5. CASE Task
  <2>1. /\ zips' = zips
        /\ \/ UNCHANGED <<disk, dirs, arcq>>
           \/ \E new, moved : TaskMoves(new, moved)
    BY <1>1, <1>5, TaskStep
  <2>2. Archived(a)' <=> Archived(a)
    BY <2>1 DEF Archived
  <2>3. CASE UNCHANGED <<disk, dirs, arcq>>
    BY <2>2, <2>3 DEF Kept, OnDisk, InDirectory
  <2>4. ASSUME NEW new, NEW moved, TaskMoves(new, moved) PROVE FALSE
    <3>0. /\ disk \in [Files -> Held \union {Absent, Empty}]
          /\ dirs \in [A!Directory -> {dirs[d] : d \in A!Directory}]
      BY <1>1 DEF TypeOK
    <3>1. /\ new \in A!Directory /\ dirs[new] = Absent /\ moved \subseteq Files
          /\ dirs'[new] = [f \in moved |-> disk[f]]
          /\ \A f \in moved : disk[f] \in Held \union {Empty}
          /\ \A f \in Files \ moved : disk'[f] = disk[f]
          /\ \A d \in A!Directory \ {new} : dirs'[d] = dirs[d]
      BY <2>4, <3>0 DEF TaskMoves
    <3>2. dirs'[new] # Absent
      BY <3>1, AbsentConstants
    <3>3. ASSUME NEW d \in A!Directory, InDirectory(a, d) PROVE InDirectory(a, d)'
      BY <3>1, <3>3 DEF InDirectory
    <3>4. ASSUME NEW f \in Files, disk[f] = Whole(a) PROVE OnDisk(a)' \/ InDirectory(a, new)'
      <4>1. CASE f \in moved
        BY <3>1, <3>2, <3>4, <4>1 DEF InDirectory
      <4>2. CASE f \notin moved
        BY <3>1, <3>4, <4>2 DEF OnDisk
      <4> QED
        BY <4>1, <4>2
    <3> QED
      BY <2>2, <3>1, <3>3, <3>4 DEF Kept, OnDisk
  <2> QED
    BY <2>1, <2>3, <2>4
<1>6. CASE \/ \E t \in setup.texts : DecodeToFile(t)
           \/ AskEncoder \/ AskDownloads \/ DiskFills \/ UNCHANGED vars
  <2>1. UNCHANGED <<disk, dirs, zips>>
    <3>1. CASE \E t \in setup.texts : DecodeToFile(t)
      BY <3>1 DEF DecodeToFile, archive
    <3>2. CASE AskEncoder \/ AskDownloads \/ DiskFills \/ UNCHANGED vars
      BY <3>2 DEF AskEncoder, AskDownloads, DiskFills, vars, archive
    <3> QED
      BY <1>6, <3>1, <3>2
  <2> QED
    BY <2>1 DEF Kept, OnDisk, InDirectory, Archived
<1> QED
  BY <1>2, <1>3, <1>4, <1>5, <1>6 DEF Next

\* Whatever fails, audio on the disk is kept, as it came, encoded, moved or archived: whenever
\* the task comes and whatever the three workers are at, but for a full disk, files of one
\* name, and an archive written over.
THEOREM AudioIsKept == Spec => AudioKept
<1>1. IInv /\ [Next]_vars =>
        [\A a \in Download \union Speech :
           Kept(a) /\ ~Kept(a)' =>
             \/ full
             \/ a \in Shared
             \/ \E d \in A!Directory : zips[d] # Absent /\ zips'[d] = {}]_vars
  BY KeptStep
<1> QED
  BY <1>1, InvariantHolds, PTL DEF Spec, AudioKept
=============================================================================
