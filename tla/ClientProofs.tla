---------------------------- MODULE ClientProofs ----------------------------
(***************************************************************************)
(* What Client does for any number of clients, any heartbeat and pause,    *)
(* and any number of read errors.                                          *)
(***************************************************************************)
EXTENDS Client, SequenceTheorems, TLAPS

(* Has and Once along the operations on ready. *)

LEMMA HasConcat ==
  ASSUME NEW S, NEW s \in Seq(S), NEW t \in Seq(S), NEW H
  PROVE  Has(s \o t, H) <=> Has(s, H) \/ Has(t, H)
<1> DEFINE m == Len(s)
           n == Len(t)
<1>1. /\ DOMAIN s = 1..m /\ DOMAIN t = 1..n /\ DOMAIN (s \o t) = 1..(m + n)
      /\ m \in Nat /\ n \in Nat
      /\ \A i \in 1..m : (s \o t)[i] = s[i]
      /\ \A i \in 1..n : (s \o t)[m + i] = t[i]
  BY LenProperties, ConcatProperties
<1>2. \A i \in 1..(m + n) : i \in 1..m \/ (i - m \in 1..n /\ i = m + (i - m))
  BY <1>1
<1>3. \A i \in 1..n : m + i \in 1..(m + n)
  BY <1>1
<1>4. \A i \in 1..m : i \in 1..(m + n)
  BY <1>1
<1>5. ASSUME Has(s \o t, H), ~Has(s, H)
      PROVE  Has(t, H)
  <2>1. PICK i \in 1..(m + n) : (s \o t)[i] \in H
    BY <1>1, <1>5 DEF Has
  <2>2. i - m \in 1..n /\ (s \o t)[m + (i - m)] \in H
    BY <1>1, <1>2, <1>5, <2>1 DEF Has
  <2>3. t[i - m] \in H
    BY <1>1, <2>2
  <2> QED
    BY <1>1, <2>2, <2>3 DEF Has
<1>6. ASSUME Has(s, H)
      PROVE  Has(s \o t, H)
  BY <1>1, <1>4, <1>6 DEF Has
<1>7. ASSUME Has(t, H)
      PROVE  Has(s \o t, H)
  <2>1. PICK i \in 1..n : t[i] \in H
    BY <1>1, <1>7 DEF Has
  <2> QED
    BY <1>1, <1>3, <2>1 DEF Has
<1> QED
  BY <1>5, <1>6, <1>7

LEMMA OnceConcat ==
  ASSUME NEW S, NEW s \in Seq(S), NEW t \in Seq(S), NEW H,
         \/ Once(s, H) /\ ~Has(t, H)
         \/ ~Has(s, H) /\ Once(t, H)
  PROVE  Once(s \o t, H)
<1> DEFINE m == Len(s)
           n == Len(t)
<1>1. /\ DOMAIN s = 1..m /\ DOMAIN t = 1..n /\ DOMAIN (s \o t) = 1..(m + n)
      /\ m \in Nat /\ n \in Nat
      /\ \A i \in 1..m : (s \o t)[i] = s[i]
      /\ \A i \in 1..n : (s \o t)[m + i] = t[i]
  BY LenProperties, ConcatProperties
<1>2. \A i \in 1..(m + n) : i \in 1..m \/ (i - m \in 1..n /\ i = m + (i - m))
  BY <1>1
<1>3. CASE Once(s, H) /\ ~Has(t, H)
  BY <1>1, <1>2, <1>3 DEF Once, Has
<1>4. CASE ~Has(s, H) /\ Once(t, H)
  <2>1. PICK k \in 1..n : t[k] \in H /\ \A j \in 1..n : t[j] \in H => j = k
    BY <1>1, <1>4 DEF Once
  <2>2. m + k \in 1..(m + n) /\ (s \o t)[m + k] \in H
    BY <1>1, <2>1
  <2>3. ASSUME NEW j \in 1..(m + n), (s \o t)[j] \in H
        PROVE  j = m + k
    <3>1. j \notin 1..m
      BY <1>1, <1>4, <2>3 DEF Has
    <3>2. j - m \in 1..n /\ t[j - m] \in H
      BY <1>1, <1>2, <2>3, <3>1
    <3>3. j - m = k
      BY <2>1, <3>2
    <3> QED
      BY <3>3, <1>1
  <2> QED
    BY <1>1, <2>2, <2>3 DEF Once
<1> QED
  BY <1>3, <1>4

LEMMA HeadTail ==
  ASSUME NEW S, NEW s \in Seq(S), s # <<>>, NEW H
  PROVE  /\ Head(s) \in S /\ Tail(s) \in Seq(S)
         /\ Has(s, H) <=> Head(s) \in H \/ Has(Tail(s), H)
         /\ Once(s, H) /\ Head(s) \in H => ~Has(Tail(s), H)
         /\ Once(s, H) /\ Head(s) \notin H => Once(Tail(s), H)
<1> DEFINE n == Len(s)
<1>1. /\ Head(s) \in S /\ Tail(s) \in Seq(S)
      /\ n \in Nat \ {0} /\ DOMAIN s = 1..n /\ DOMAIN Tail(s) = 1..(n - 1)
      /\ Head(s) = s[1]
      /\ \A i \in 1..(n - 1) : Tail(s)[i] = s[i + 1]
  BY LenProperties, EmptySeq, HeadTailProperties
<1>2. \A i \in 1..n : i = 1 \/ (i - 1 \in 1..(n - 1) /\ i = (i - 1) + 1)
  BY <1>1
<1>3. \A i \in 1..(n - 1) : i + 1 \in 1..n /\ i + 1 # 1
  BY <1>1
<1>4. Has(s, H) <=> Head(s) \in H \/ Has(Tail(s), H)
  <2>1. ASSUME Has(s, H), Head(s) \notin H
        PROVE  Has(Tail(s), H)
    <3>1. PICK i \in 1..n : s[i] \in H
      BY <1>1, <2>1 DEF Has
    <3>2. i - 1 \in 1..(n - 1) /\ s[(i - 1) + 1] \in H
      BY <1>1, <1>2, <2>1, <3>1
    <3> QED
      BY <1>1, <3>2 DEF Has
  <2>2. ASSUME Head(s) \in H
        PROVE  Has(s, H)
    BY <1>1, <2>2 DEF Has
  <2>3. ASSUME Has(Tail(s), H)
        PROVE  Has(s, H)
    <3>1. PICK i \in 1..(n - 1) : Tail(s)[i] \in H
      BY <1>1, <2>3 DEF Has
    <3> QED
      BY <1>1, <1>3, <3>1 DEF Has
  <2> QED
    BY <2>1, <2>2, <2>3
<1>5. ASSUME Once(s, H), Head(s) \in H
      PROVE  ~Has(Tail(s), H)
  BY <1>1, <1>3, <1>5 DEF Once, Has
<1>6. ASSUME Once(s, H), Head(s) \notin H
      PROVE  Once(Tail(s), H)
  <2>1. PICK k \in 1..n : s[k] \in H /\ \A j \in 1..n : s[j] \in H => j = k
    BY <1>1, <1>6 DEF Once
  <2>2. k - 1 \in 1..(n - 1) /\ Tail(s)[k - 1] \in H
    BY <1>1, <1>2, <1>6, <2>1
  <2>3. ASSUME NEW j \in 1..(n - 1), Tail(s)[j] \in H
        PROVE  j = k - 1
    <3>1. j + 1 = k
      BY <1>1, <1>3, <2>1, <2>3
    <3> QED
      BY <3>1, <1>1
  <2> QED
    BY <1>1, <2>2, <2>3 DEF Once
<1> QED
  BY <1>1, <1>4, <1>5, <1>6

LEMMA Single ==
  ASSUME NEW S, NEW h \in S, NEW H
  PROVE  /\ <<h>> \in Seq(S) /\ <<>> \in Seq(S)
         /\ Has(<<h>>, H) <=> h \in H
         /\ Once(<<h>>, H) <=> h \in H
         /\ ~Has(<<>>, H)
<1>1. DOMAIN <<h>> = {1} /\ <<h>>[1] = h
  OBVIOUS
<1>2. DOMAIN <<>> = {}
  OBVIOUS
<1> QED
  BY <1>1, <1>2 DEF Has, Once

LEMMA Appended ==
  ASSUME NEW S, NEW s \in Seq(S), NEW h \in S, NEW H
  PROVE  /\ Append(s, h) \in Seq(S)
         /\ Has(Append(s, h), H) <=> Has(s, H) \/ h \in H
         /\ ~Has(s, H) /\ h \in H => Once(Append(s, h), H)
         /\ Once(s, H) /\ h \notin H => Once(Append(s, h), H)
<1>1. Append(s, h) = s \o <<h>> /\ Append(s, h) \in Seq(S)
  BY AppendIsConcat, AppendProperties
<1>2. <<h>> \in Seq(S) /\ (Has(<<h>>, H) <=> h \in H) /\ (Once(<<h>>, H) <=> h \in H)
  BY Single
<1>3. Has(s \o <<h>>, H) <=> Has(s, H) \/ Has(<<h>>, H)
  BY <1>2, HasConcat
<1>4. \/ Once(s, H) /\ ~Has(<<h>>, H)
      \/ ~Has(s, H) /\ Once(<<h>>, H)
      => Once(s \o <<h>>, H)
  BY <1>2, OnceConcat
<1> QED
  BY <1>1, <1>2, <1>3, <1>4

LEMMA Joined ==
  ASSUME NEW s \in Seq(Handler), NEW t \in Seq(Handler), NEW H
  PROVE  /\ s \o t \in Seq(Handler)
         /\ Has(s \o t, H) <=> Has(s, H) \/ Has(t, H)
         /\ Once(s, H) /\ ~Has(t, H) => Once(s \o t, H)
         /\ ~Has(s, H) /\ Once(t, H) => Once(s \o t, H)
BY HasConcat, OnceConcat, ConcatProperties

-----------------------------------------------------------------------------
(* The handlers that actions add to ready and take from it. *)

LEMMA DoneIn ==
  ASSUME NEW c \in Conn, NEW d \in Conn, NEW r \in Result,
         NEW k \in Operation \union {"wait"}
  PROVE  /\ Done(c, k, r) \in Handler
         /\ Done(c, k, r) \in Chain(d) <=> c = d /\ k \in Operation
         /\ Done(c, k, r) \in Waits(d) <=> c = d /\ k = "wait"
         /\ Done(c, k, r) \in Data(d) <=> c = d /\ k = "receive" /\ r = "ok"
BY DEF Done, Handler, Chain, Waits, Data, Operation, Result

LEMMA DataInChain ==
  ASSUME NEW c \in Conn, NEW s, Has(s, Data(c))
  PROVE  Has(s, Chain(c))
BY DEF Has, Data, Chain, Operation, Result

\* n waits of c that become ready together.
LEMMA WaitHandlers ==
  ASSUME NEW c \in Conn, NEW r \in Result, NEW n \in Nat, NEW d \in Conn,
         NEW w \in [1..n -> Handler], \A i \in 1..n : w[i] = Done(c, "wait", r)
  PROVE  /\ w \in Seq(Handler)
         /\ ~Has(w, Chain(d)) /\ ~Has(w, Data(d))
         /\ Has(w, Waits(d)) <=> c = d /\ n > 0
<1>1. /\ Done(c, "wait", r) \notin Chain(d) /\ Done(c, "wait", r) \notin Data(d)
      /\ Done(c, "wait", r) \in Waits(d) <=> c = d
  BY DoneIn DEF Operation, Result
<1>2. w \in Seq(Handler)
  BY SeqDef
<1>3. DOMAIN w = 1..n
  OBVIOUS
<1>4. ~Has(w, Chain(d)) /\ ~Has(w, Data(d))
  BY <1>1, <1>3 DEF Has
<1>5. Has(w, Waits(d)) => c = d /\ n > 0
  BY <1>1, <1>3 DEF Has
<1>6. ASSUME c = d, n > 0
      PROVE  Has(w, Waits(d))
  <2>1. 1 \in 1..n
    BY <1>6
  <2> QED
    BY <1>1, <1>3, <1>6, <2>1 DEF Has
<1> QED
  BY <1>2, <1>4, <1>5, <1>6

\* The completion with an error that a closed socket adds, if any.
LEMMA ErrorHandler ==
  ASSUME NEW c \in Conn, NEW k \in Operation, NEW d \in Conn
  PROVE  LET e == <<Done(c, k, "error")>>
         IN  /\ e \in Seq(Handler)
             /\ ~Has(e, Waits(d)) /\ ~Has(e, Data(d))
             /\ c = d => Once(e, Chain(d))
             /\ c # d => ~Has(e, Chain(d))
<1>1. /\ Done(c, k, "error") \in Handler
      /\ Done(c, k, "error") \notin Waits(d) /\ Done(c, k, "error") \notin Data(d)
      /\ Done(c, k, "error") \in Chain(d) <=> c = d
  BY DoneIn DEF Operation, Result
<1> HIDE DEF Done
<1> QED
  BY <1>1, Single

LEMMA NoHandler ==
  ASSUME NEW H
  PROVE  <<>> \in Seq(Handler) /\ ~Has(<<>>, H)
<1>1. DOMAIN <<>> = {}
  OBVIOUS
<1> QED
  BY <1>1, EmptySeq DEF Has

\* What is left of ready when a handler of c is taken to run.
LEMMA Taken ==
  ASSUME TypeOK, ChainUnique, NEW c \in Conn, NEW k \in Operation \union {"wait"},
         NEW r \in Result, Runs(c, k, r), NEW d \in Conn
  PROVE  /\ Tail(ready) \in Seq(Handler)
         /\ c # d \/ k = "wait" =>
              /\ Once(ready, Chain(d)) => Once(Tail(ready), Chain(d))
              /\ ~Has(ready, Chain(d)) => ~Has(Tail(ready), Chain(d))
         /\ c = d /\ k # "wait" => op[c] = "none" /\ ~Has(Tail(ready), Chain(d))
         /\ c # d \/ k # "wait" => (Has(Tail(ready), Waits(d)) <=> Has(ready, Waits(d)))
         /\ Has(Tail(ready), Data(d)) => Has(ready, Data(d))
         /\ c = d /\ k = "receive" /\ r = "ok" => Has(ready, Data(d))
<1>1. ready \in Seq(Handler) /\ ready # <<>> /\ Head(ready) = Done(c, k, r)
  BY DEF TypeOK, Runs
<1>2. \A H : /\ Tail(ready) \in Seq(Handler)
             /\ Has(ready, H) <=> Head(ready) \in H \/ Has(Tail(ready), H)
             /\ Once(ready, H) /\ Head(ready) \in H => ~Has(Tail(ready), H)
             /\ Once(ready, H) /\ Head(ready) \notin H => Once(Tail(ready), H)
  BY <1>1, HeadTail
<1>3. /\ Head(ready) \in Chain(d) <=> c = d /\ k \in Operation
      /\ Head(ready) \in Waits(d) <=> c = d /\ k = "wait"
      /\ Head(ready) \in Data(d) <=> c = d /\ k = "receive" /\ r = "ok"
  BY <1>1, DoneIn
<1>4. c = d /\ k # "wait" => op[c] = "none" /\ Once(ready, Chain(d))
  BY <1>2, <1>3 DEF ChainUnique, OneTask
<1> QED
  BY <1>2, <1>3, <1>4 DEF Operation

-----------------------------------------------------------------------------
(* The invariant *)

LEMMA InvInit == Init => IInv
<1> SUFFICES ASSUME Init PROVE IInv
  OBVIOUS
<1>1. ready = <<>> /\ ready \in Seq(Handler) /\ \A H : ~Has(ready, H)
  BY NoHandler DEF Init
<1>2. TypeOK
  BY <1>1, TimesPositive, DropsBounded DEF Init, TypeOK, Operation
<1>3. ChainUnique /\ OpenAttended
  BY <1>1 DEF Init, ChainUnique, OneTask, OpenAttended, AttendedWhileOpen
<1> QED
  BY <1>2, <1>3 DEF IInv

\* DoWait and the passing of time keep the timers between 0 and a heartbeat.
LEMMA ElapseType ==
  ASSUME TypeOK, NEW n \in Nat, Elapse(n)
  PROVE  ttl' \in [Conn -> 0..Heartbeat]
BY TimesPositive DEF TypeOK, Elapse

\* An operation of c that the system completes with data, success or error.
LEMMA CompletionKeeps ==
  ASSUME IInv, NEW c \in Conn, NEW k \in Operation, NEW r \in Result,
         op[c] = k, op' = [op EXCEPT ![c] = "none"],
         ready' = Append(ready, Done(c, k, r)),
         waits' = waits,
         \/ open' = open /\ (k = "receive" \/ r = "error" \/ k = "resolve")
         \/ k = "connect" /\ open' = [open EXCEPT ![c] = (r = "ok")]
  PROVE  ready' \in Seq(Handler) /\ ChainUnique' /\ OpenAttended'
<1> USE DEF IInv
<1>1. /\ ready \in Seq(Handler) /\ op \in [Conn -> Operation \union {"none"}]
      /\ open \in [Conn -> BOOLEAN]
  BY DEF TypeOK
<1>2. Done(c, k, r) \in Handler
  BY DoneIn
<1>3. ready' \in Seq(Handler)
  BY <1>1, <1>2, Appended
<1>4. ASSUME NEW d \in Conn
      PROVE  OneTask(d)' /\ AttendedWhileOpen(d)'
  <2>1. /\ Done(c, k, r) \in Chain(d) <=> c = d
        /\ Done(c, k, r) \notin Waits(d)
        /\ Done(c, k, r) \in Data(d) <=> c = d /\ k = "receive" /\ r = "ok"
    BY DoneIn DEF Operation
  <2>2. \A H : /\ Has(ready', H) <=> Has(ready, H) \/ Done(c, k, r) \in H
               /\ ~Has(ready, H) /\ Done(c, k, r) \in H => Once(ready', H)
               /\ Once(ready, H) /\ Done(c, k, r) \notin H => Once(ready', H)
    BY <1>1, <1>2, Appended
  <2>3. OneTask(d) /\ AttendedWhileOpen(d) /\ (c = d => ~Has(ready, Chain(d)))
    BY DEF ChainUnique, OpenAttended, OneTask, Operation
  <2>4. c = d => ~Has(ready, Data(d))
    BY <2>3, DataInChain
  <2>5. OneTask(d)'
    BY <1>1, <2>1, <2>2, <2>3 DEF OneTask, Operation
  <2>6. AttendedWhileOpen(d)'
    BY <1>1, <2>1, <2>2, <2>3, <2>4 DEF AttendedWhileOpen, Attended, Operation
  <2> QED
    BY <2>5, <2>6
<1> QED
  BY <1>3, <1>4 DEF ChainUnique, OpenAttended

\* t has handlers of c alone, and brings no data.
Of(c, t) ==
  /\ t \in Seq(Handler)
  /\ ~Has(t, Data(c))
  /\ \A d \in Conn \ {c} : ~Has(t, Chain(d)) /\ ~Has(t, Waits(d)) /\ ~Has(t, Data(d))

LEMMA OfConcat ==
  ASSUME NEW c \in Conn, NEW s, NEW t, Of(c, s), Of(c, t)
  PROVE  Of(c, s \o t)
BY Joined DEF Of

\* What every handler step establishes, but for ttl and drops.
Kept ==
  /\ op' \in [Conn -> Operation \union {"none"}] /\ open' \in [Conn -> BOOLEAN]
  /\ waits' \in [Conn -> Nat] /\ ready' \in Seq(Handler)
  /\ ChainUnique' /\ OpenAttended'

\* A handler of c that leaves o, v and w as c's operation, connection and
\* waits, and t at the end of ready.
LEMMA HandlerKeeps ==
  ASSUME IInv, NEW c \in Conn, NEW k \in Operation \union {"wait"}, NEW r \in Result,
         Runs(c, k, r), NEW t, Of(c, t), ready' = Tail(ready) \o t,
         NEW o \in Operation \union {"none"}, op' = [op EXCEPT ![c] = o],
         NEW v \in BOOLEAN, open' = [open EXCEPT ![c] = v],
         NEW w \in Nat, waits' = [waits EXCEPT ![c] = w],
         k # "wait" /\ o = "none" => Once(t, Chain(c)),
         k # "wait" /\ o # "none" => ~Has(t, Chain(c)),
         k = "wait" => \/ o = op[c] /\ ~Has(t, Chain(c))
                       \/ op[c] # "none" /\ o = "none" /\ Once(t, Chain(c)),
         k = "wait" => (v => w > 0) /\ (o = "receive" => v),
         k # "wait" /\ o = "receive" =>
           v /\ (w > 0 \/ Has(t, Waits(c)) \/ Has(Tail(ready), Waits(c)))
  PROVE  Kept
<1>1. /\ TypeOK /\ ChainUnique
      /\ op \in [Conn -> Operation \union {"none"}] /\ open \in [Conn -> BOOLEAN]
      /\ waits \in [Conn -> Nat]
  BY DEF IInv, TypeOK
<1>2. \A d \in Conn :
        /\ Tail(ready) \in Seq(Handler)
        /\ c # d \/ k = "wait" =>
             /\ Once(ready, Chain(d)) => Once(Tail(ready), Chain(d))
             /\ ~Has(ready, Chain(d)) => ~Has(Tail(ready), Chain(d))
        /\ c = d /\ k # "wait" => op[c] = "none" /\ ~Has(Tail(ready), Chain(d))
        /\ c # d \/ k # "wait" => (Has(Tail(ready), Waits(d)) <=> Has(ready, Waits(d)))
        /\ Has(Tail(ready), Data(d)) => Has(ready, Data(d))
  BY <1>1, Taken
<1>3. t \in Seq(Handler)
  BY DEF Of
<1>4. \A H : /\ ready' \in Seq(Handler)
             /\ Has(ready', H) <=> Has(Tail(ready), H) \/ Has(t, H)
             /\ Once(Tail(ready), H) /\ ~Has(t, H) => Once(ready', H)
             /\ ~Has(Tail(ready), H) /\ Once(t, H) => Once(ready', H)
  BY <1>2, <1>3, Joined
<1>5. ASSUME NEW d \in Conn, d # c
      PROVE  OneTask(d)' /\ AttendedWhileOpen(d)'
  <2>1. op'[d] = op[d] /\ open'[d] = open[d] /\ waits'[d] = waits[d]
    BY <1>1, <1>5
  <2>2. ~Has(t, Chain(d)) /\ ~Has(t, Waits(d)) /\ ~Has(t, Data(d))
    BY <1>5 DEF Of
  <2>3. OneTask(d) /\ AttendedWhileOpen(d)
    BY DEF IInv, ChainUnique, OpenAttended
  <2>4. OneTask(d)'
    BY <1>2, <1>4, <1>5, <2>1, <2>2, <2>3 DEF OneTask
  <2>5. AttendedWhileOpen(d)'
    BY <1>2, <1>4, <1>5, <2>1, <2>2, <2>3 DEF AttendedWhileOpen, Attended
  <2> QED
    BY <2>4, <2>5
<1>6. op'[c] = o /\ open'[c] = v /\ waits'[c] = w
  BY <1>1
<1>7. OneTask(c)'
  <2>1. OneTask(c)
    BY DEF IInv, ChainUnique
  <2> QED
    BY <1>2, <1>4, <1>6, <2>1 DEF OneTask
<1>8. AttendedWhileOpen(c)'
  <2>1. k # "wait" => ~Has(ready', Data(c))
    <3>1. k # "wait" => ~Has(Tail(ready), Chain(c))
      BY <1>2
    <3>2. k # "wait" => ~Has(Tail(ready), Data(c))
      BY <3>1, DataInChain
    <3> QED
      BY <1>4, <3>2 DEF Of
  <2> QED
    BY <1>4, <1>6, <2>1 DEF AttendedWhileOpen, Attended
<1> QED
  BY <1>1, <1>4, <1>5, <1>7, <1>8 DEF ChainUnique, OpenAttended, Kept

\* What the handlers of c put at the end of ready.
LEMMA Pieces ==
  ASSUME TypeOK, NEW c \in Conn
  PROVE  /\ Of(c, <<>>) /\ ~Has(<<>>, Chain(c))
         /\ Of(c, Cancelled(c)) /\ ~Has(Cancelled(c), Chain(c))
         /\ waits[c] > 0 => Has(Cancelled(c), Waits(c))
         /\ Of(c, ReadFails(c))
         /\ DoRead(c) = "none" => Once(ReadFails(c), Chain(c))
         /\ DoRead(c) # "none" => ~Has(ReadFails(c), Chain(c))
         /\ Of(c, Aborted(c))
         /\ IF op[c] # "none" /\ AfterAbort(c) = "none"
              THEN Once(Aborted(c), Chain(c))
              ELSE Aborted(c) = <<>> /\ AfterAbort(c) = op[c]
<1>1. /\ waits[c] \in Nat /\ open[c] \in BOOLEAN
      /\ op[c] \in {"none", "resolve", "connect", "receive"}
  BY DEF TypeOK, Operation
<1>2. \A H : <<>> \in Seq(Handler) /\ ~Has(<<>>, H)
  BY NoHandler
<1>3. Of(c, <<>>)
  BY <1>2 DEF Of
<1>4. \A d \in Conn : /\ Cancelled(c) \in Seq(Handler)
                      /\ ~Has(Cancelled(c), Chain(d)) /\ ~Has(Cancelled(c), Data(d))
                      /\ Has(Cancelled(c), Waits(d)) <=> c = d /\ waits[c] > 0
  <2> SUFFICES ASSUME NEW d \in Conn
      PROVE  /\ Cancelled(c) \in Seq(Handler)
             /\ ~Has(Cancelled(c), Chain(d)) /\ ~Has(Cancelled(c), Data(d))
             /\ Has(Cancelled(c), Waits(d)) <=> c = d /\ waits[c] > 0
    OBVIOUS
  <2>1. "error" \in Result /\ Done(c, "wait", "error") \in Handler
    BY DoneIn DEF Result
  <2>2. /\ Cancelled(c) \in [1..waits[c] -> Handler]
        /\ \A i \in 1..waits[c] : Cancelled(c)[i] = Done(c, "wait", "error")
    BY <2>1 DEF Cancelled
  <2> DEFINE n == waits[c]
             r == "error"
             w == Cancelled(c)
  <2>3. /\ n \in Nat /\ r \in Result /\ w \in [1..n -> Handler]
        /\ \A i \in 1..n : w[i] = Done(c, "wait", r)
    BY <1>1, <2>1, <2>2
  <2> HIDE DEF n, r, w
  <2>4. /\ w \in Seq(Handler)
        /\ ~Has(w, Chain(d)) /\ ~Has(w, Data(d))
        /\ Has(w, Waits(d)) <=> c = d /\ n > 0
    BY <2>3, WaitHandlers
  <2> QED
    BY <2>4 DEF n, w
<1>5. ASSUME NEW k \in Operation
      PROVE  Of(c, <<Done(c, k, "error")>>) /\ Once(<<Done(c, k, "error")>>, Chain(c))
  <2> DEFINE e == <<Done(c, k, "error")>>
  <2>1. \A d \in Conn : /\ e \in Seq(Handler)
                        /\ ~Has(e, Waits(d)) /\ ~Has(e, Data(d))
                        /\ c = d => Once(e, Chain(d))
                        /\ c # d => ~Has(e, Chain(d))
    BY ErrorHandler
  <2> HIDE DEF e
  <2>2. Of(c, e) /\ Once(e, Chain(c))
    BY <2>1 DEF Of
  <2> QED
    BY <2>2 DEF e
<1>6. /\ Of(c, ReadFails(c))
      /\ DoRead(c) = "none" => Once(ReadFails(c), Chain(c))
      /\ DoRead(c) # "none" => ~Has(ReadFails(c), Chain(c))
  <2>1. CASE open[c]
    BY <1>2, <1>3, <2>1 DEF ReadFails, DoRead
  <2>2. CASE ~open[c]
    BY <1>5, <2>2 DEF ReadFails, DoRead, Operation
  <2> QED
    BY <2>1, <2>2
<1>7. /\ Of(c, Aborted(c))
      /\ IF op[c] # "none" /\ AfterAbort(c) = "none"
           THEN Once(Aborted(c), Chain(c))
           ELSE Aborted(c) = <<>> /\ AfterAbort(c) = op[c]
  <2>1. CASE op[c] \in {"connect", "receive"}
    BY <1>5, <2>1 DEF Aborted, AfterAbort, Operation
  <2>2. CASE op[c] \in {"none", "resolve"}
    BY <1>3, <2>2 DEF Aborted, AfterAbort
  <2> QED
    BY <1>1, <2>1, <2>2
<1>8. Of(c, Cancelled(c))
  BY <1>4 DEF Of
<1> QED
  BY <1>2, <1>3, <1>4, <1>6, <1>7, <1>8

LEMMA HandlerStep ==
  ASSUME IInv, RunHandler
  PROVE  IInv'
<1>1. /\ TypeOK /\ ChainUnique /\ OpenAttended
      /\ op \in [Conn -> Operation \union {"none"}] /\ open \in [Conn -> BOOLEAN]
      /\ waits \in [Conn -> Nat] /\ ttl \in [Conn -> 0..Heartbeat]
      /\ drops \in [Conn -> 0..MaxDrops] /\ Heartbeat \in 0..Heartbeat /\ Pause \in Nat
  BY TimesPositive DEF IInv, TypeOK
<1>2. PICK c \in Conn : \/ OnResolve(c) \/ OnResolveError(c)
                        \/ OnConnect(c) \/ OnConnectError(c)
                        \/ OnReceive(c) \/ OnReceiveError(c)
                        \/ OnTimeout(c) \/ OnTimeoutAborted(c)
  BY DEF RunHandler
<1>3. ttl' \in [Conn -> 0..Heartbeat] /\ drops' = drops
  <2>1. CASE Elapse(Pause)
    BY <1>1, <1>2, <2>1, ElapseType DEF OnResolve, OnResolveError, OnConnect, OnConnectError,
         OnReceive, OnReceiveError, OnTimeout, OnTimeoutAborted
  <2>2. CASE ~Elapse(Pause)
    BY <1>1, <1>2, <2>2 DEF OnResolve, OnResolveError, OnConnect, OnConnectError,
         OnReceive, OnReceiveError, OnTimeout, OnTimeoutAborted
  <2> QED
    BY <2>1, <2>2
<1>4. /\ \A k \in Operation, r \in Result : Runs(c, k, r) => op[c] = "none"
      /\ \A k \in Operation \union {"wait"}, r \in Result : Runs(c, k, r) =>
           /\ Tail(ready) \in Seq(Handler)
           /\ Tail(ready) \o <<>> = Tail(ready)
  <2>1. ASSUME NEW k \in Operation \union {"wait"}, NEW r \in Result, Runs(c, k, r)
        PROVE  Tail(ready) \in Seq(Handler) /\ (k # "wait" => op[c] = "none")
    BY <1>1, <2>1, Taken
  <2> QED
    BY <2>1, ConcatEmptySeq DEF Operation
<1>5. /\ Of(c, <<>>) /\ ~Has(<<>>, Chain(c))
      /\ Of(c, Cancelled(c)) /\ ~Has(Cancelled(c), Chain(c))
      /\ waits[c] > 0 => Has(Cancelled(c), Waits(c))
      /\ Of(c, ReadFails(c))
      /\ DoRead(c) = "none" => Once(ReadFails(c), Chain(c))
      /\ DoRead(c) # "none" => ~Has(ReadFails(c), Chain(c))
      /\ Of(c, Aborted(c))
      /\ IF op[c] # "none" /\ AfterAbort(c) = "none"
           THEN Once(Aborted(c), Chain(c))
           ELSE Aborted(c) = <<>> /\ AfterAbort(c) = op[c]
  BY <1>1, Pieces
<1>6. /\ [op EXCEPT ![c] = op[c]] = op
      /\ [open EXCEPT ![c] = open[c]] = open
      /\ [waits EXCEPT ![c] = waits[c]] = waits
      /\ op[c] \in Operation \union {"none"} /\ open[c] \in BOOLEAN /\ waits[c] \in Nat
  BY <1>1
<1>7. DoRead(c) \in Operation \union {"none"} /\ AfterAbort(c) \in Operation \union {"none"}
  BY DEF DoRead, AfterAbort, Operation
<1>8. "resolve" \in Operation /\ "connect" \in Operation /\ "receive" \in Operation
      /\ "ok" \in Result /\ "error" \in Result
  BY DEF Operation, Result
<1>9. ASSUME OnResolve(c) PROVE Kept
  <2> DEFINE k == "resolve"
             o == "connect"
  <2>1. /\ Runs(c, k, "ok") /\ ready' = Tail(ready) \o <<>>
        /\ op' = [op EXCEPT ![c] = o] /\ open' = [open EXCEPT ![c] = open[c]]
        /\ waits' = [waits EXCEPT ![c] = waits[c]]
        /\ k \in Operation /\ o \in Operation /\ k # "wait" /\ o # "none" /\ o # "receive"
    BY <1>4, <1>6, <1>8, <1>9 DEF OnResolve
  <2> HIDE DEF k, o
  <2> QED
    BY <1>5, <1>6, <1>8, <2>1, HandlerKeeps
<1>10. ASSUME OnResolveError(c) PROVE Kept
  <2> DEFINE k == "resolve"
  <2>1. /\ Runs(c, k, "error") /\ ready' = Tail(ready) \o <<>>
        /\ op' = [op EXCEPT ![c] = k] /\ open' = [open EXCEPT ![c] = open[c]]
        /\ waits' = [waits EXCEPT ![c] = waits[c]]
        /\ k \in Operation /\ k # "wait" /\ k # "none" /\ k # "receive"
    BY <1>4, <1>6, <1>8, <1>10 DEF OnResolveError
  <2> HIDE DEF k
  <2> QED
    BY <1>5, <1>6, <1>8, <2>1, HandlerKeeps
<1>11. ASSUME OnConnect(c) PROVE Kept
  <2> DEFINE k == "connect"
             w == waits[c] + 1
  <2>1. /\ Runs(c, k, "ok") /\ ready' = Tail(ready) \o ReadFails(c)
        /\ op' = [op EXCEPT ![c] = DoRead(c)] /\ open' = [open EXCEPT ![c] = open[c]]
        /\ waits' = [waits EXCEPT ![c] = w] /\ w \in Nat /\ w > 0
        /\ k \in Operation /\ k # "wait" /\ (DoRead(c) = "receive" => open[c])
    BY <1>1, <1>6, <1>8, <1>11 DEF OnConnect, DoRead
  <2>2. /\ Of(c, ReadFails(c))
        /\ DoRead(c) = "none" => Once(ReadFails(c), Chain(c))
        /\ DoRead(c) # "none" => ~Has(ReadFails(c), Chain(c))
    BY <1>5
  <2> HIDE DEF k, w
  <2> QED
    BY <1>6, <1>7, <1>8, <2>1, <2>2, HandlerKeeps
<1>12. ASSUME OnConnectError(c) PROVE Kept
  <2> DEFINE k == "connect"
  <2>1. /\ Runs(c, k, "error") /\ ready' = Tail(ready) \o <<>>
        /\ op' = [op EXCEPT ![c] = k] /\ open' = [open EXCEPT ![c] = FALSE]
        /\ waits' = [waits EXCEPT ![c] = waits[c]]
        /\ k \in Operation /\ k # "wait" /\ k # "none" /\ k # "receive"
    BY <1>4, <1>5, <1>6, <1>8, <1>12 DEF OnConnectError
  <2> HIDE DEF k
  <2> QED
    BY <1>5, <1>6, <1>8, <2>1, HandlerKeeps
<1>13. ASSUME OnReceiveError(c) PROVE Kept
  <2> DEFINE k == "receive"
             o == "connect"
  <2>1. /\ Runs(c, k, "error") /\ ready' = Tail(ready) \o <<>>
        /\ op' = [op EXCEPT ![c] = o] /\ open' = [open EXCEPT ![c] = FALSE]
        /\ waits' = [waits EXCEPT ![c] = waits[c]]
        /\ k \in Operation /\ o \in Operation /\ k # "wait" /\ o # "none" /\ o # "receive"
    BY <1>4, <1>5, <1>6, <1>8, <1>13 DEF OnReceiveError
  <2> HIDE DEF k, o
  <2> QED
    BY <1>5, <1>6, <1>8, <2>1, HandlerKeeps
<1>14. ASSUME OnReceive(c) PROVE Kept
  <2> DEFINE k == "receive"
             t == Cancelled(c) \o ReadFails(c)
  <2>1. /\ Runs(c, k, "ok") /\ k \in Operation /\ k # "wait"
        /\ op' = [op EXCEPT ![c] = DoRead(c)] /\ open' = [open EXCEPT ![c] = open[c]]
        /\ waits' = [waits EXCEPT ![c] = 0] /\ (DoRead(c) = "receive" => open[c])
    BY <1>6, <1>8, <1>14 DEF OnReceive, DoRead
  <2>2. Tail(ready) \in Seq(Handler)
    BY <1>4, <1>8, <2>1
  <2>3. Cancelled(c) \in Seq(Handler) /\ ReadFails(c) \in Seq(Handler)
    BY <1>5 DEF Of
  <2>4. ready' = Tail(ready) \o t
    BY <1>14, <2>2, <2>3, ConcatAssociative DEF OnReceive
  <2>5. /\ Of(c, t) /\ (waits[c] > 0 => Has(t, Waits(c)))
        /\ DoRead(c) = "none" => Once(t, Chain(c))
        /\ DoRead(c) # "none" => ~Has(t, Chain(c))
    BY <1>5, <2>3, OfConcat, Joined
  <2>6. open[c] => Has(t, Waits(c)) \/ Has(Tail(ready), Waits(c))
    <3>1. Has(ready, Data(c)) /\ (Has(Tail(ready), Waits(c)) <=> Has(ready, Waits(c)))
      BY <1>1, <1>8, <2>1, Taken
    <3>2. open[c] => waits[c] > 0 \/ Has(ready, Waits(c))
      BY <1>1, <3>1 DEF OpenAttended, AttendedWhileOpen, Attended
    <3> QED
      BY <2>5, <3>1, <3>2
  <2>7. 0 \in Nat
    OBVIOUS
  <2> HIDE DEF k, t
  <2> QED
    BY <1>6, <1>7, <1>8, <2>1, <2>4, <2>5, <2>6, <2>7, HandlerKeeps
<1>15. ASSUME OnTimeout(c) PROVE Kept
  <2> DEFINE k == "wait"
             t == Aborted(c) \o Cancelled(c)
  <2>1. /\ Runs(c, k, "ok") /\ k \in Operation \union {"wait"}
        /\ op' = [op EXCEPT ![c] = AfterAbort(c)] /\ open' = [open EXCEPT ![c] = FALSE]
        /\ waits' = [waits EXCEPT ![c] = 0] /\ AfterAbort(c) # "receive"
    BY <1>15 DEF OnTimeout, AfterAbort
  <2>2. Tail(ready) \in Seq(Handler)
    BY <1>4, <1>8, <2>1
  <2>3. Aborted(c) \in Seq(Handler) /\ Cancelled(c) \in Seq(Handler)
    BY <1>5 DEF Of
  <2>4. ready' = Tail(ready) \o t
    BY <1>15, <2>2, <2>3, ConcatAssociative DEF OnTimeout
  <2>5. Of(c, t)
    BY <1>5, OfConcat
  <2>6. \/ AfterAbort(c) = op[c] /\ ~Has(t, Chain(c))
        \/ op[c] # "none" /\ AfterAbort(c) = "none" /\ Once(t, Chain(c))
    BY <1>5, <2>3, Joined
  <2>7. 0 \in Nat /\ k = "wait"
    OBVIOUS
  <2> HIDE DEF k, t
  <2> QED
    BY <1>7, <1>8, <2>1, <2>4, <2>5, <2>6, <2>7, HandlerKeeps
<1>16. ASSUME OnTimeoutAborted(c) PROVE Kept
  <2> DEFINE k == "wait"
  <2>1. /\ Runs(c, k, "error") /\ k \in Operation \union {"wait"} /\ k = "wait"
        /\ op' = [op EXCEPT ![c] = op[c]] /\ open' = [open EXCEPT ![c] = open[c]]
        /\ waits' = [waits EXCEPT ![c] = 1] /\ 1 \in Nat /\ 1 > 0
        /\ ready' = Tail(ready) \o Cancelled(c)
    BY <1>6, <1>16 DEF OnTimeoutAborted
  <2>2. op[c] = "receive" => open[c]
    BY <1>1 DEF OpenAttended, AttendedWhileOpen
  <2> HIDE DEF k
  <2> QED
    BY <1>5, <1>6, <1>8, <2>1, <2>2, HandlerKeeps
<1> QED
  BY <1>2, <1>3, <1>9, <1>10, <1>11, <1>12, <1>13, <1>14, <1>15, <1>16 DEF Kept, IInv, TypeOK

\* A step of the system, or of time.
LEMMA SystemStep ==
  ASSUME IInv, NEW c \in Conn,
         Tick \/ Completes(c) \/ DataArrives(c) \/ PeerDrops(c) \/ Expire(c)
  PROVE  IInv'
<1>1. /\ TypeOK /\ ChainUnique /\ OpenAttended
      /\ op \in [Conn -> Operation \union {"none"}] /\ open \in [Conn -> BOOLEAN]
      /\ waits \in [Conn -> Nat] /\ ttl \in [Conn -> 0..Heartbeat]
      /\ ready \in Seq(Handler) /\ drops \in [Conn -> 0..MaxDrops]
  BY DEF IInv, TypeOK
<1>2. CASE Tick
  <2>1. ttl' \in [Conn -> 0..Heartbeat]
    BY <1>1, <1>2, ElapseType DEF Tick
  <2>2. TypeOK'
    BY <1>1, <1>2, <2>1 DEF Tick, TypeOK
  <2>3. ChainUnique' /\ OpenAttended'
    BY <1>1, <1>2 DEF Tick, ChainUnique, OneTask, OpenAttended, AttendedWhileOpen, Attended
  <2> QED
    BY <2>2, <2>3 DEF IInv
<1>3. CASE Completes(c)
  <2>1. PICK r \in Result : Resolved(c, r) \/ Connected(c, r)
    BY <1>3 DEF Completes
  <2>2. CASE Resolved(c, r)
    <3>1. ready' \in Seq(Handler) /\ ChainUnique' /\ OpenAttended'
      BY <2>2, CompletionKeeps DEF Resolved, Operation
    <3> QED
      BY <1>1, <2>2, <3>1 DEF IInv, TypeOK, Resolved
  <2>3. CASE Connected(c, r)
    <3>1. ready' \in Seq(Handler) /\ ChainUnique' /\ OpenAttended'
      BY <2>3, CompletionKeeps DEF Connected, Operation
    <3> QED
      BY <1>1, <2>3, <3>1 DEF IInv, TypeOK, Connected
  <2> QED
    BY <2>1, <2>2, <2>3
<1>4. CASE DataArrives(c)
  <2>1. ready' \in Seq(Handler) /\ ChainUnique' /\ OpenAttended'
    BY <1>4, CompletionKeeps DEF DataArrives, Operation, Result
  <2> QED
    BY <1>1, <1>4, <2>1 DEF IInv, TypeOK, DataArrives
<1>5. CASE PeerDrops(c)
  <2>1. ready' \in Seq(Handler) /\ ChainUnique' /\ OpenAttended'
    BY <1>5, CompletionKeeps DEF PeerDrops, Operation, Result
  <2>2. drops' \in [Conn -> 0..MaxDrops]
    BY <1>1, <1>5, DropsBounded DEF PeerDrops
  <2> QED
    BY <1>1, <1>5, <2>1, <2>2 DEF IInv, TypeOK, PeerDrops
<1>6. CASE Expire(c)
  <2>1. waits[c] \in Nat /\ waits[c] > 0 /\ "ok" \in Result /\ Done(c, "wait", "ok") \in Handler
    BY <1>1, <1>6, DoneIn DEF Expire, Result
  <2>2. PICK w : /\ w \in [1..waits[c] -> Handler]
                 /\ \A i \in 1..waits[c] : w[i] = Done(c, "wait", "ok")
                 /\ ready' = ready \o w
    <3>1. [i \in 1..waits[c] |-> Done(c, "wait", "ok")] \in [1..waits[c] -> Handler]
      BY <2>1
    <3> QED
      BY <1>6, <3>1 DEF Expire
  <2>3. ASSUME NEW d \in Conn
        PROVE  /\ ready' \in Seq(Handler)
               /\ Has(ready', Waits(d)) <=> Has(ready, Waits(d)) \/ c = d
               /\ Has(ready', Data(d)) => Has(ready, Data(d))
               /\ Has(ready', Chain(d)) => Has(ready, Chain(d))
               /\ Once(ready, Chain(d)) => Once(ready', Chain(d))
    <3> DEFINE n == waits[c]
               r == "ok"
    <3>1. /\ n \in Nat /\ r \in Result /\ w \in [1..n -> Handler]
          /\ \A i \in 1..n : w[i] = Done(c, "wait", r)
      BY <2>1, <2>2
    <3> HIDE DEF n, r
    <3>2. /\ w \in Seq(Handler)
          /\ ~Has(w, Chain(d)) /\ ~Has(w, Data(d))
          /\ Has(w, Waits(d)) <=> c = d /\ n > 0
      BY <3>1, WaitHandlers
    <3> QED
      BY <1>1, <2>1, <2>2, <3>2, Joined DEF n
  <2>4. \A d \in Conn : waits'[d] = IF d = c THEN 0 ELSE waits[d]
    BY <1>1, <1>6 DEF Expire
  <2>5. op' = op /\ open' = open
    BY <1>6 DEF Expire
  <2>6. ChainUnique'
    BY <1>1, <2>3, <2>5 DEF ChainUnique, OneTask
  <2>7. OpenAttended'
    BY <1>1, <2>3, <2>4, <2>5 DEF OpenAttended, AttendedWhileOpen, Attended
  <2>8. TypeOK'
    BY <1>1, <1>6, <2>1, <2>3 DEF Expire, TypeOK
  <2> QED
    BY <2>6, <2>7, <2>8 DEF IInv
<1> QED
  BY <1>2, <1>3, <1>4, <1>5, <1>6

LEMMA InvStep == IInv /\ [Next]_vars => IInv'
<1> SUFFICES ASSUME IInv, [Next]_vars PROVE IInv'
  OBVIOUS
<1>1. CASE RunHandler
  BY <1>1, HandlerStep
<1>2. CASE Tick
  <2>1. PICK c \in Conn : TRUE
    BY <1>2 DEF Tick
  <2> QED
    BY <1>2, SystemStep
<1>3. CASE \E c \in Conn : Completes(c) \/ DataArrives(c) \/ PeerDrops(c) \/ Expire(c)
  BY <1>3, SystemStep
<1>4. CASE UNCHANGED vars
  BY <1>4 DEF vars, IInv, TypeOK, ChainUnique, OneTask, OpenAttended, AttendedWhileOpen, Attended
<1> QED
  BY <1>1, <1>2, <1>3, <1>4 DEF Next

\* The chains and the waits of all clients keep the inductive invariant,
\* whatever the order in which the handlers become ready and run.
THEOREM InvariantHolds == Spec => []IInv
<1> QED
  BY InvInit, InvStep, PTL DEF Spec

\* Every client always has exactly one operation or one completion of its own,
\* although OnTimeout closes the socket from outside the chain, and a read under
\* way always has a wait on the timer, or one about to be renewed
\* (client.cpp:73-78, :94-123).
THEOREM SafetyHolds == Spec => [](ChainUnique /\ Watched)
<1>1. IInv => ChainUnique /\ Watched
  BY DEF IInv, Watched, OpenAttended, AttendedWhileOpen
<1> QED
  BY <1>1, InvariantHolds, PTL

\* No read is left without a wait on the timer that would end it (client.cpp:110-123).
THEOREM ReadsWatched == Spec => []Watched
<1> QED
  BY SafetyHolds, PTL
=============================================================================
