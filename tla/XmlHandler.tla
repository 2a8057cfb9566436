----------------------------- MODULE XmlHandler -----------------------------
(***************************************************************************)
(* The intake of alerts (libs/xmlhandler): every chunk a client receives   *)
(* is appended to the buffer of its host, complete documents are cut out   *)
(* of it into one queue, and one document of that queue is processed.      *)
(* Everything runs on the io thread, so a call of append is one action.    *)
(*                                                                         *)
(* A document is sent in two pieces, its beginning (with "<?xml") and its  *)
(* end (with "</alert>"), and a chunk may cut it anywhere in between.      *)
(***************************************************************************)
EXTENDS Integers, Sequences, FiniteSets, Functions

CONSTANTS
  Host,       \* the alert servers
  Doc,        \* documents a server may send
  None,       \* no document is being sent
  Short,      \* the documents that fit into one chunk: heartbeats
  Status,     \* Status[d]: <status>, or "missing" without a mandatory element
  Ident,      \* Ident[d]: <identifier>
  Sent,       \* Sent[d]: <sent>, in seconds
  Infos,      \* Infos[d]: the sequence of its <info> elements
  Setup,      \* bound: places of the station, each with the documents that are sent there
  Inside,     \* Inside[<<p, s>>]: checkArea for polygon p and the station at s
  MaxBuffer,  \* bound: pieces in one buffer
  MaxQueue    \* bound: documents found and not yet processed

ASSUME IntakeConstants ==
  /\ \A s \in Setup : s.sent \subseteq Doc
  /\ None \notin Doc
  /\ Short \subseteq Doc
  /\ Sent \in [Doc -> Int]
  /\ \A d \in Doc : Len(Infos[d]) \in Nat /\ DOMAIN Infos[d] = 1 .. Len(Infos[d])
  /\ \A d \in Doc : \A k \in DOMAIN Infos[d] :
       LET rs == Infos[d][k].resources IN Len(rs) \in Nat /\ DOMAIN rs = 1 .. Len(rs)
  /\ \A d, e \in Doc : Ident[d] = Ident[e] => d = e

VARIABLES
  setup,    \* GeoUtil's station_, set once from the settings, and what is sent
  sending,  \* sending[h]: the document h has begun to send and not ended
  buffer,   \* fullBuffer_[h]: pieces of documents
  matches,  \* matches_: one queue for both hosts
  history,  \* history_: what is remembered of the infos taken so far
  stored,   \* identifiers written as .xml files
  doing,    \* the document whose infos the loop of process_matches is at, or None
  past,     \* how many of them it is past
  handed,   \* jobs given to the decoder, the downloads and the speech queue
  running   \* FALSE: an exception nobody catches has ended the process

vars == <<setup, sending, buffer, matches, history, stored,
          doing, past, handed, running>>

Begin(d) == [doc |-> d, part |-> "begin"]
End(d) == [doc |-> d, part |-> "end"]
Whole(d) == <<Begin(d), End(d)>>

-----------------------------------------------------------------------------
(* HistoryItem *)

Language(info) ==
  IF info.language \in {"none", "en-CA"} THEN "en-US" ELSE info.language

\* What is remembered of info number k of d.
Item(d, k) ==
  [id |-> Ident[d], event |-> Infos[d][k].event, sent |-> Sent[d],
   language |-> Language(Infos[d][k])]

Piece == {Begin(d) : d \in Doc} \union {End(d) : d \in Doc}

Remembered == UNION {{Item(d, k) : k \in DOMAIN Infos[d]} : d \in Doc}

\* is_basically_same: the same alert, or the same event within 15 minutes.
Same(x, y) ==
  /\ x.language = y.language
  /\ \/ x.id = y.id
     \/ x.event = y.event /\ x.sent - y.sent \in -900 .. 900

-----------------------------------------------------------------------------
(* find_match *)

Ends(b) == {i \in DOMAIN b : b[i].part = "end"}

\* The n-th end of b, what precedes it up to the end before (where the
\* expression matches, which takes the earliest beginning and the next end), and
\* what comes after it.
EndNo(b, n) == IF n = 0 THEN 0 ELSE
  CHOOSE i \in Ends(b) : Cardinality({j \in Ends(b) : j <= i}) = n
Match(b, n) == SubSeq(b, EndNo(b, n - 1) + 1, EndNo(b, n))
After(b, n) == SubSeq(b, EndNo(b, n) + 1, Len(b))

\* A match that begins or ends some characters off.
Mangled == << >>

\* Mutant: a greedy expression runs on to the last end.
FoundGreedy(b, outcome) ==
  LET n == Cardinality(Ends(b))
  IN  [new |-> IF n = 0 THEN <<>> ELSE <<SubSeq(b, 1, EndNo(b, n))>>, rest |-> After(b, n)]

\* Mutant: the match is erased from its last beginning on.
FoundKeepsStale(b, outcome) ==
  LET n == Cardinality(Ends(b))
  IN  IF n = 0 THEN [new |-> <<>>, rest |-> b]
      ELSE [new |-> <<Match(b, 1)>>, rest |-> SubSeq(b, 1, EndNo(b, 1) - 2) \o After(b, 1)]

\* The first match of a call is right.  The buffer is then erased under the
\* iterator, so that a second one is found, found some characters off, or not
\* found, depending on what the memory behind the text still holds; or its position
\* is behind the end of the text, see Thrown.
Outcomes(b) == IF Cardinality(Ends(b)) <= 1 THEN {"found"} ELSE {"found", "mangled", "left"}

\* What find_match takes out of the buffer b and what it leaves.
Found(b, outcome) ==
  LET n == IF outcome = "left" THEN 1 ELSE Cardinality(Ends(b))
  IN  [new |-> [m \in 1 .. n |-> IF m > 1 /\ outcome = "mangled" THEN Mangled ELSE Match(b, m)],
       rest |-> After(b, n)]

-----------------------------------------------------------------------------
(* process_matches *)

\* No <area>, or the station is inside the first polygon of one of them.
Covered(info) ==
  \/ info.areas = {}
  \/ \E a \in info.areas : a # <<>> /\ Inside[<<a[1], setup.station>>]

\* Mutant: the history is only asked about the identifier.
SeenByIdentifier(item) ==
  \E i \in DOMAIN history : history[i].id = item.id /\ history[i].language = item.language

\* Mutant: only the alert taken last is looked at.
SeenNewest(item) == history # <<>> /\ Same(item, history[Len(history)])

\* check_update_history finds something basically the same.
Seen(item) == \E i \in DOMAIN history : Same(item, history[i])

\* A resource has no resourceDesc, or is broadcast audio without a mimeType.
Faulty(info) == \E r \in DOMAIN info.resources : "faulty" \in info.resources[r]

\* The resources that are broadcast audio, as places in the <resource> elements.
Audio(info) == {r \in DOMAIN info.resources : "broadcast" \in info.resources[r]}

Extension(resource) == IF "mpeg" \in resource THEN ".mp3" ELSE ".wav"

\* uri when resource r is reached, as the resource it was read from: one without a uri
\* of its own ("link" or "nolink") keeps that of the one before.  0: none yet.
Uri(info, r) ==
  LET said == {q \in Audio(info) : q <= r /\ info.resources[q] \intersect {"link", "nolink"} # {}}
  IN  IF said = {} THEN 0 ELSE CHOOSE q \in said : \A s \in said : s <= q

\* Mutant: every resource has the name of the info and its own extension.
NameOwnExtension(d, info, r) == <<Sent[d], Language(info), <<Extension(info.resources[r])>>>>

\* audioFileName when resource r is reached: time, language, and one extension
\* for every resource up to it.
Name(d, info, r) ==
  <<Sent[d], Language(info),
    [n \in 1 .. Cardinality({q \in Audio(info) : q <= r}) |->
      Extension(info.resources[CHOOSE q \in Audio(info) :
        Cardinality({s \in Audio(info) : s <= q}) = n])]>>

\* What info k of d is turned into: speech without broadcast audio, otherwise
\* for every resource what it embeds, in the working directory, and what uri links to.
Jobs(d, k) ==
  LET info == Infos[d][k]
      job(r, dir, name) == [item |-> Item(d, k), resource |-> r, file |-> <<dir, name>>]
      linked == {r \in Audio(info) : Uri(info, r) # 0 /\ "link" \in info.resources[Uri(info, r)]}
  IN  IF Audio(info) = {}
      THEN {job(0, "Storage", <<Sent[d], Language(info), <<".wav">>>>)}
      ELSE {job(r, ".", Name(d, info, r)) :
               r \in {q \in Audio(info) : "embedded" \in info.resources[q]}}
           \union
           {job(Uri(info, r), "Storage", Name(d, info, r)) : r \in linked}

\* The document m, unless it cannot be parsed: that is what becomes of pieces
\* of several documents and of a mangled match.
Handle(m) ==
  \/ /\ \A d \in Doc : m # Whole(d)
     /\ UNCHANGED <<stored, doing, running>>
  \/ \E d \in Doc :
       /\ m = Whole(d)
       /\ \/ /\ Status[d] = "missing"
             /\ running' = FALSE
             /\ UNCHANGED <<stored, doing>>
          \/ /\ Status[d] = "System"
             /\ UNCHANGED <<stored, doing, running>>
          \/ /\ Status[d] \notin {"missing", "System", "Actual"}
             /\ stored' = stored \union {Ident[d]}
             /\ UNCHANGED <<doing, running>>
          \/ /\ Status[d] = "Actual"
             /\ stored' = stored \union {Ident[d]}
             /\ doing' = d
             /\ UNCHANGED running

\* Mutant: the newest document is processed first.
ProcessNewest(q) ==
  \/ /\ q = <<>>
     /\ matches' = q
     /\ UNCHANGED <<stored, doing, running>>
  \/ /\ q # <<>>
     /\ matches' = SubSeq(q, 1, Len(q) - 1)
     /\ Handle(q[Len(q)])

\* One document, the oldest of either host, with the queue at q.
ProcessMatches(q) ==
  \/ /\ q = <<>>
     /\ matches' = q
     /\ UNCHANGED <<stored, doing, running>>
  \/ /\ q # <<>>
     /\ matches' = Tail(q)
     /\ Handle(Head(q))

-----------------------------------------------------------------------------
Init ==
  /\ setup \in Setup
  /\ sending = [h \in Host |-> None]
  /\ buffer = [h \in Host |-> <<>>]
  /\ matches = <<>>
  /\ history = <<>>
  /\ stored = {}
  /\ doing = None
  /\ past = 0
  /\ handed = {}
  /\ running = TRUE

\* substr is asked for a second match behind the end of the text: nobody catches
\* its out_of_range.
Thrown(b) ==
  /\ Cardinality(Ends(b)) > 1
  /\ running' = FALSE
  /\ UNCHANGED <<buffer, matches, stored, doing>>

FindAndProcess(h, b) ==
  \E outcome \in Outcomes(b) :
    LET found == Found(b, outcome)
    IN  /\ Len(found.rest) <= MaxBuffer
        /\ Len(matches) + Len(found.new) <= MaxQueue + 1
        /\ buffer' = [buffer EXCEPT ![h] = found.rest]
        /\ ProcessMatches(matches \o found.new)

Receive(h, pieces) ==
  /\ FindAndProcess(h, buffer[h] \o pieces) \/ Thrown(buffer[h] \o pieces)
  /\ UNCHANGED <<history, past, handed>>

\* The next info is elsewhere or was seen before, which ends the whole loop, or
\* there is none left.
InfoStops ==
  /\ running /\ doing # None
  /\ past < Len(Infos[doing]) =>
       ~Covered(Infos[doing][past + 1]) \/ Seen(Item(doing, past + 1))
  /\ doing' = None
  /\ past' = 0
  /\ UNCHANGED <<setup, sending, buffer, matches, history, stored, handed, running>>

\* The next info is remembered, and handed on unless get_child throws at one of its
\* resources.
InfoTaken ==
  /\ running /\ doing # None
  /\ past < Len(Infos[doing])
  /\ Covered(Infos[doing][past + 1])
  /\ ~Seen(Item(doing, past + 1))
  /\ history' = Append(history, Item(doing, past + 1))
  /\ past' = past + 1
  /\ \/ /\ ~Faulty(Infos[doing][past + 1])
        /\ handed' = handed \union Jobs(doing, past + 1)
        /\ UNCHANGED running
     \/ /\ Faulty(Infos[doing][past + 1])
        /\ running' = FALSE
        /\ UNCHANGED handed
  /\ UNCHANGED <<setup, sending, buffer, matches, stored, doing>>

\* append is called with text from the middle of a document.
AppendMiddle(h) ==
  /\ running /\ doing = None
  /\ sending[h] # None
  /\ Receive(h, <<>>)
  /\ UNCHANGED <<setup, sending>>

\* append is called with the end of the document being sent if there is one,
\* perhaps a short one as a whole, and the beginning of the next if it is not None.
AppendEnds(h, short, next) ==
  /\ running /\ doing = None
  /\ LET open == IF sending[h] = None THEN <<>> ELSE <<End(sending[h])>>
         whole == IF short = None THEN <<>> ELSE Whole(short)
         begun == IF next = None THEN <<>> ELSE <<Begin(next)>>
     IN  /\ open \o whole \o begun # <<>>
         /\ Receive(h, open \o whole \o begun)
  /\ sending' = [sending EXCEPT ![h] = next]
  /\ UNCHANGED setup

\* The connection is lost in the middle of a document; the buffer is kept, and
\* the server goes on with another document.
Cut(h) ==
  /\ running /\ doing = None
  /\ sending[h] # None
  /\ Len(buffer[h]) < MaxBuffer
  /\ sending' = [sending EXCEPT ![h] = None]
  /\ UNCHANGED <<setup, buffer, matches, history, stored, doing, past, handed, running>>

AppendChunk(h) ==
  \/ AppendMiddle(h)
  \/ \E short \in (Short \intersect setup.sent) \union {None}, next \in setup.sent \union {None} : AppendEnds(h, short, next)

Next ==
  \/ \E h \in Host : AppendChunk(h) \/ Cut(h)
  \/ InfoTaken
  \/ InfoStops

Spec == Init /\ [][Next]_vars

-----------------------------------------------------------------------------
(* Safety *)

TypeOK ==
  /\ setup \in Setup
  /\ sending \in [Host -> Doc \union {None}]
  /\ buffer \in [Host -> Seq(Piece)]
  /\ matches \in Seq(Range(matches))
  /\ history \in Seq(Remembered)
  /\ stored \subseteq {Ident[d] : d \in Doc}
  /\ doing \in Doc \union {None}
  /\ past \in Nat
  /\ running \in BOOLEAN

\* Whatever the two servers send, repeat or cut off, no two infos that were taken are
\* basically the same, although "the same" is not transitive (xmlhandler.cpp:149-150,
\* xmlhandler.hpp:40-47, :80-89).  One info may still be heard twice: a resource that
\* is embedded and linked to is decoded and downloaded (xmlhandler.cpp:214-225).
TakenDiffer ==
  \A i, j \in DOMAIN history : i # j => ~Same(history[i], history[j])

\* The identifier is left out of the file names (xmlhandler.cpp:152-153): two
\* jobs get one file only when they are different events of the same second.
FilesDiffer ==
  \A i, j \in handed :
    i # j /\ i.file = j.file => i.item.sent = j.item.sent /\ i.item.event # j.item.event

\* What the two returns in the loop lead to (xmlhandler.cpp:144, :150), which is no merit
\* of theirs: an info is only taken after those before it in its document, or the same
\* event, were.  NoneTurnedAway is not inductive without it.
TakenInOrder ==
  \A i \in DOMAIN history : \E d \in Doc : \E k \in DOMAIN Infos[d] :
    /\ history[i] = Item(d, k)
    /\ \A j \in 1 .. k - 1 : \E x \in 1 .. i - 1 : Same(Item(d, j), history[x])

\* Info j of d is basically the same as one before it in d, or as one that was taken
\* from another document: the loop ends there when it comes to it.
Repeats(d, j) ==
  \/ \E l \in 1 .. j - 1 : Same(Item(d, j), Item(d, l))
  \/ \E i \in DOMAIN history : history[i].id # Ident[d] /\ Same(Item(d, j), history[i])

\* Infos of an actual alert that are near are taken, or basically the same as one that
\* was, unless one before them repeats another one: that one ends the loop for all
\* that follow it (xmlhandler.cpp:150).  Those the loop has not come to, or never comes
\* to because it ended the process, are excepted.
NoneTurnedAway ==
  \A d \in Doc : \A k \in DOMAIN Infos[d] :
    /\ Status[d] = "Actual" /\ Ident[d] \in stored
    /\ \A j \in 1 .. k : Covered(Infos[d][j])
    => \/ Seen(Item(d, k))
       \/ \E j \in 1 .. k - 1 : Repeats(d, j)
       \/ /\ doing = d /\ past < k
          /\ \A j \in past + 1 .. k : Item(d, j) \notin Range(history)

\* What was taken has been stored, and its infos were near.
TakenStored == \A i \in DOMAIN history : history[i].id \in stored
HandedNear ==
  \A j \in handed : \E d \in Doc : \E k \in DOMAIN Infos[d] :
    j \in Jobs(d, k) /\ Covered(Infos[d][k])

\* The loop is past infos that are remembered, or basically the same as one.
LoopRemembered ==
  /\ doing = None => past = 0
  /\ doing # None =>
       /\ Ident[doing] \in stored
       /\ past \in 0 .. Len(Infos[doing])
       /\ \A j \in 1 .. past : Seen(Item(doing, j))

\* Jobs come from remembered infos, which their files are named after.
JobsRemembered ==
  \A j \in handed :
    /\ j.item \in Range(history)
    /\ j.file[2][1] = j.item.sent
    /\ j.file[2][2] = j.item.language

\* The invariant that is inductive.
IInv ==
  /\ TypeOK
  /\ LoopRemembered
  /\ JobsRemembered
  /\ TakenDiffer
  /\ FilesDiffer
  /\ TakenInOrder
  /\ NoneTurnedAway
  /\ TakenStored
  /\ HandedNear

\* A document that ends in a buffer with nothing else in it is processed at once
\* or queued, whatever comes behind it in the chunk (xmlhandler.cpp:12-26), unless that
\* ends the process (Thrown, which keeps the buffer).
CleanDocumentTaken ==
  [][ \A h \in Host, d \in Doc :
        buffer[h] = <<Begin(d)>> /\ sending[h] = d /\ buffer'[h] # buffer[h] =>
          \/ Whole(d) \in Range(matches')
          \/ Status[d] \in {"System", "missing"}
          \/ Ident[d] \in stored' ]_vars

\* The beginnings at the back of a buffer that no end has come for.
OpenBeginnings(b) ==
  Cardinality({i \in DOMAIN b : \A j \in i .. Len(b) : b[j].part = "begin"})

\* What a lost connection leaves in the buffer swallows one document and goes
\* with it: behind the next end only the document being sent is left.  A buffer in
\* which the erased iterator missed a match is excepted: it is one call behind.
CutLosesOne ==
  [][ \A h \in Host :
        sending[h] # None /\ Ends(buffer[h]) = {} /\ buffer'[h] # buffer[h] =>
          OpenBeginnings(buffer'[h]) <= 1 ]_vars

\* Every call of append takes each queued document one place forward, whatever
\* it adds: a document queued behind another one of its chunk waits for no more
\* chunks than there are documents in front of it (xmlhandler.cpp:31-33).
QueueMovesOn ==
  [][ buffer' # buffer \/ matches' # matches => 
         \A i \in 2 .. Len(matches) : i - 1 \in DOMAIN matches' /\ matches'[i - 1] = matches[i] ]_vars
=============================================================================
