------------------------------- MODULE Client -------------------------------
(***************************************************************************)
(* The connections to the alert servers (libs/client): Client objects      *)
(* sharing one io_context that one thread runs (main.mm:269-271).          *)
(*                                                                         *)
(* A client has one chain of asynchronous operations (resolve, connect,    *)
(* receive, receive, ...) and one timer, pmxTimer_, on which any number of *)
(* async_wait may be pending.  Completion handlers run to their end, one   *)
(* at a time, in the order in which they became ready.  DoWait blocks the  *)
(* thread, so the timers of every client run on while it does.             *)
(*                                                                         *)
(* What is received goes to appendXml and is not modelled here.            *)
(***************************************************************************)
EXTENDS Naturals, Sequences

CONSTANTS
  Conn,       \* the clients: clientConn1, clientConn2
  Heartbeat,  \* heartbeatFreq_, in ticks
  Pause,      \* DoWait(5), in ticks
  MaxDrops    \* bound: read errors (the peer closes or resets) of one client

ASSUME TimesPositive == Heartbeat \in Nat \ {0} /\ Pause \in Nat \ {0}
ASSUME DropsBounded == MaxDrops \in Nat

VARIABLES
  op,     \* op[c]: the operation of c's chain the system is working on, or "none"
  open,   \* open[c]: tcpSocket_ is connected
  waits,  \* waits[c]: async_waits pending on pmxTimer_
  ttl,    \* ttl[c]: ticks until pmxTimer_ expires; 0 when it has
  ready,  \* handlers ready to run, oldest first
  drops   \* drops[c]: read errors so far

vars == <<op, open, waits, ttl, ready, drops>>

Operation == {"resolve", "connect", "receive"}
Result == {"ok", "error"}
Handler == [conn : Conn, kind : Operation \union {"wait"}, result : Result]
Done(c, k, r) == [conn |-> c, kind |-> k, result |-> r]

Init ==
  /\ op = [c \in Conn |-> "resolve"]
  /\ open = [c \in Conn |-> FALSE]
  /\ waits = [c \in Conn |-> 0]
  /\ ttl = [c \in Conn |-> Heartbeat]
  /\ ready = <<>>
  /\ drops = [c \in Conn |-> 0]

-----------------------------------------------------------------------------
(* What the system does with the operations and the timers. *)

Resolved(c, r) ==
  /\ op[c] = "resolve"
  /\ op' = [op EXCEPT ![c] = "none"]
  /\ ready' = Append(ready, Done(c, "resolve", r))
  /\ UNCHANGED <<open, waits, ttl, drops>>

Connected(c, r) ==
  /\ op[c] = "connect"
  /\ op' = [op EXCEPT ![c] = "none"]
  /\ open' = [open EXCEPT ![c] = (r = "ok")]
  /\ ready' = Append(ready, Done(c, "connect", r))
  /\ UNCHANGED <<waits, ttl, drops>>

DataArrives(c) ==
  /\ op[c] = "receive"
  /\ op' = [op EXCEPT ![c] = "none"]
  /\ ready' = Append(ready, Done(c, "receive", "ok"))
  /\ UNCHANGED <<open, waits, ttl, drops>>

PeerDrops(c) ==
  /\ op[c] = "receive"
  /\ drops[c] < MaxDrops
  /\ drops' = [drops EXCEPT ![c] = @ + 1]
  /\ op' = [op EXCEPT ![c] = "none"]
  /\ ready' = Append(ready, Done(c, "receive", "error"))
  /\ UNCHANGED <<open, waits, ttl>>

\* All waits of an expired timer become ready, without error.
Expire(c) ==
  /\ waits[c] > 0
  /\ ttl[c] = 0
  /\ ready' = ready \o [i \in 1..waits[c] |-> Done(c, "wait", "ok")]
  /\ waits' = [waits EXCEPT ![c] = 0]
  /\ UNCHANGED <<op, open, ttl, drops>>

Elapse(n) == ttl' = [c \in Conn |-> IF ttl[c] > n THEN ttl[c] - n ELSE 0]

\* Time passes whatever the thread does: a handler may take long (appendXml
\* can end up playing the siren, or waiting for the playback queue).
Tick ==
  /\ \E c \in Conn : ttl[c] > 0
  /\ Elapse(1)
  /\ UNCHANGED <<op, open, waits, ready, drops>>

-----------------------------------------------------------------------------
(* Steps the handlers are made of. *)

\* expires_from_now: the waits pending on the timer become ready, aborted.
Cancelled(c) == [i \in 1..waits[c] |-> Done(c, "wait", "error")]

\* ~basic_stream_socket: a connect or receive under way becomes ready, aborted.
Aborted(c) == IF op[c] \in {"connect", "receive"} THEN <<Done(c, op[c], "error")>> ELSE <<>>
AfterAbort(c) == IF op[c] = "resolve" THEN "resolve" ELSE "none"

\* DoRead: async_receive on a socket that was closed fails at once.
DoRead(c) == IF open[c] THEN "receive" ELSE "none"
ReadFails(c) == IF open[c] THEN <<>> ELSE <<Done(c, "receive", "error")>>

\* The handler of c for k, with result r, is the next to run.
Runs(c, k, r) == ready # <<>> /\ Head(ready) = Done(c, k, r)

OnResolveError(c) ==
  /\ Runs(c, "resolve", "error")
  /\ Elapse(Pause)
  /\ op' = [op EXCEPT ![c] = "resolve"]
  /\ ready' = Tail(ready)
  /\ UNCHANGED <<open, waits, drops>>

OnResolve(c) ==
  /\ Runs(c, "resolve", "ok")
  /\ op' = [op EXCEPT ![c] = "connect"]
  /\ ready' = Tail(ready)
  /\ UNCHANGED <<open, waits, ttl, drops>>

\* DoConnect's success: one more async_wait, whatever is pending already.
OnConnect(c) ==
  /\ Runs(c, "connect", "ok")
  /\ waits' = [waits EXCEPT ![c] = @ + 1]
  /\ op' = [op EXCEPT ![c] = DoRead(c)]
  /\ ready' = Tail(ready) \o ReadFails(c)
  /\ UNCHANGED <<open, ttl, drops>>

OnConnectError(c) ==
  /\ Runs(c, "connect", "error")
  /\ open' = [open EXCEPT ![c] = FALSE]
  /\ Elapse(Pause)
  /\ op' = [op EXCEPT ![c] = "connect"]
  /\ ready' = Tail(ready) \o Aborted(c)
  /\ UNCHANGED <<waits, drops>>

\* DoRead's success: the timer restarts, which aborts the waits on it.
OnReceive(c) ==
  /\ Runs(c, "receive", "ok")
  /\ ttl' = [ttl EXCEPT ![c] = Heartbeat]
  /\ waits' = [waits EXCEPT ![c] = 0]
  /\ op' = [op EXCEPT ![c] = DoRead(c)]
  /\ ready' = Tail(ready) \o Cancelled(c) \o ReadFails(c)
  /\ UNCHANGED <<open, drops>>

\* DoRead's failure: reconnect at once; waits on the timer stay.
OnReceiveError(c) ==
  /\ Runs(c, "receive", "error")
  /\ open' = [open EXCEPT ![c] = FALSE]
  /\ op' = [op EXCEPT ![c] = "connect"]
  /\ ready' = Tail(ready) \o Aborted(c)
  /\ UNCHANGED <<waits, ttl, drops>>

\* Mutant: the reconnect of client.cpp:112 is no longer commented out.
OnTimeoutReconnects(c) ==
  /\ Runs(c, "wait", "ok")
  /\ open' = [open EXCEPT ![c] = FALSE]
  /\ op' = [op EXCEPT ![c] = "connect"]
  /\ ttl' = [ttl EXCEPT ![c] = Heartbeat]
  /\ waits' = [waits EXCEPT ![c] = 0]
  /\ ready' = Tail(ready) \o Aborted(c) \o Cancelled(c)
  /\ UNCHANGED drops

\* Mutant: the silent connection is not closed.
OnTimeoutKeepsSocket(c) ==
  /\ Runs(c, "wait", "ok")
  /\ ttl' = [ttl EXCEPT ![c] = Heartbeat]
  /\ waits' = [waits EXCEPT ![c] = 0]
  /\ ready' = Tail(ready) \o Cancelled(c)
  /\ UNCHANGED <<op, open, drops>>

\* OnTimeout without error, "SERVER NOT SENDING!": close the socket and
\* restart the timer; the aborted operation's own handler reconnects.
OnTimeout(c) ==
  /\ Runs(c, "wait", "ok")
  /\ open' = [open EXCEPT ![c] = FALSE]
  /\ op' = [op EXCEPT ![c] = AfterAbort(c)]
  /\ ttl' = [ttl EXCEPT ![c] = Heartbeat]
  /\ waits' = [waits EXCEPT ![c] = 0]
  /\ ready' = Tail(ready) \o Aborted(c) \o Cancelled(c)
  /\ UNCHANGED drops

\* Mutant: an aborted wait is not renewed.
OnTimeoutAbortedNoWait(c) ==
  /\ Runs(c, "wait", "error")
  /\ ttl' = [ttl EXCEPT ![c] = Heartbeat]
  /\ waits' = [waits EXCEPT ![c] = 0]
  /\ ready' = Tail(ready) \o Cancelled(c)
  /\ UNCHANGED <<op, open, drops>>

\* OnTimeout of an aborted wait: restart the timer, which aborts the waits
\* on it, and wait again.
OnTimeoutAborted(c) ==
  /\ Runs(c, "wait", "error")
  /\ ttl' = [ttl EXCEPT ![c] = Heartbeat]
  /\ waits' = [waits EXCEPT ![c] = 1]
  /\ ready' = Tail(ready) \o Cancelled(c)
  /\ UNCHANGED <<op, open, drops>>

-----------------------------------------------------------------------------
RunHandler ==
  \E c \in Conn :
    \/ OnResolve(c) \/ OnResolveError(c)
    \/ OnConnect(c) \/ OnConnectError(c)
    \/ OnReceive(c) \/ OnReceiveError(c)
    \/ OnTimeout(c) \/ OnTimeoutAborted(c)

Completes(c) == \E r \in Result : Resolved(c, r) \/ Connected(c, r)

Next ==
  \/ RunHandler
  \/ Tick
  \/ \E c \in Conn : Completes(c) \/ DataArrives(c) \/ PeerDrops(c) \/ Expire(c)

Spec == Init /\ [][Next]_vars

\* The io thread is in appendXml, or about to be.
Appending == \E c \in Conn : Runs(c, "receive", "ok")

\* The io thread runs, but for appendXml, which may never return; time passes, and a
\* lookup or a connect ends one way or the other.  A server may stay silent for
\* ever, or refuse for ever.
FairSpec ==
  /\ Spec
  /\ WF_vars(~Appending /\ RunHandler)
  /\ WF_vars(Tick)
  /\ \A c \in Conn : WF_vars(Completes(c)) /\ WF_vars(Expire(c))

-----------------------------------------------------------------------------
TypeOK ==
  /\ op \in [Conn -> Operation \union {"none"}]
  /\ open \in [Conn -> BOOLEAN]
  /\ waits \in [Conn -> Nat]
  /\ ttl \in [Conn -> 0..Heartbeat]
  /\ ready \in Seq(Handler)
  /\ drops \in [Conn -> 0..MaxDrops]

\* Some, or exactly one, of the handlers H is in the sequence s.
Has(s, H) == \E i \in DOMAIN s : s[i] \in H
Once(s, H) == \E i \in DOMAIN s : s[i] \in H /\ \A j \in DOMAIN s : s[j] \in H => j = i

Chain(c) == {Done(c, k, r) : k \in Operation, r \in Result}
Waits(c) == {Done(c, "wait", r) : r \in Result}
Data(c) == {Done(c, "receive", "ok")}

\* A client is always working on exactly one thing: it has one operation
\* under way, or one completion waiting to run, never none (it would be dead)
\* and never two (two chains would share one socket and one buffer).  OnTimeout
\* closes the socket from outside the chain and relies on the abort to restart
\* it (client.cpp:94-123, :73-78).
OneTask(c) == IF op[c] = "none" THEN Once(ready, Chain(c)) ELSE ~Has(ready, Chain(c))
ChainUnique == \A c \in Conn : OneTask(c)

\* A wait is pending on the timer, or its handler is about to run.
Attended(c) == waits[c] > 0 \/ Has(ready, Waits(c))

\* No read is left unattended: while one is under way a wait is pending on the
\* timer or its handler is about to renew it (client.cpp:50, :116-121).
Watched == \A c \in Conn : op[c] = "receive" => Attended(c)

\* What keeps Watched true: a connection that is read from is open, and as
\* long as it is open it is attended, also while its data waits to be handled.
AttendedWhileOpen(c) ==
  /\ op[c] = "receive" => open[c]
  /\ open[c] /\ (op[c] = "receive" \/ Has(ready, Data(c))) => Attended(c)
OpenAttended == \A c \in Conn : AttendedWhileOpen(c)

\* The invariant that is inductive.
IInv == TypeOK /\ ChainUnique /\ OpenAttended

WaitsInUse(c) == waits[c] + Len(SelectSeq(ready, LAMBDA h : h \in Waits(c)))

\* A silent server is noticed: a read does not stay under way for ever, it is
\* answered or the timer closes the socket (client.cpp:106-113: "SERVER NOT
\* SENDING!").  Excepted: appendXml does not return.  It pushes audio that came
\* with an alert to the playback queue, which may be locked for ever (main.mm:154).
SilenceDetected ==
  []<>~Appending => \A c \in Conn : (op[c] = "receive") ~> (op[c] # "receive")

\* A silent server is noticed as long as no client ever has two waits: whoever
\* closes and connects, in whatever order the handlers run, and although
\* DoWait of one client blocks the thread of both (client.cpp:94-123, :139-143).
SilenceDetectedByOneWait ==
  [](\A c \in Conn : WaitsInUse(c) <= 1) => SilenceDetected
=============================================================================
