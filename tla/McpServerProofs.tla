--------------------------- MODULE McpServerProofs ---------------------------
(***************************************************************************)
(* Theorems about McpServer, for any calls and any number of lines: its    *)
(* safety, given that no two requests have the same id.                    *)
(***************************************************************************)
EXTENDS McpServer, SequenceTheorems, TLAPS

\* A client gives each request an id of its own (idKey's comment).
OwnIds == \A c, d \in Calls : IdOf[c] = IdOf[d] => c = d

Message == [what : {"call", "cancel"}, of : Calls]

\* Where the response has not been let through yet, and where a goroutine is
\* still at work on a call.
Before == {"work", "child", "linger", "stopped", "store", "answer"}
Active == Before \cup {"write", "finish"}

\* A request waits on stdin once.
QueueFits ==
    /\ \A n \in 1 .. Len(stdin) : stdin[n].what = "call" => place[stdin[n].of] = "queued"
    /\ \A m, n \in 1 .. Len(stdin) :
          stdin[m].what = "call" /\ stdin[n].what = "call" /\ stdin[m].of = stdin[n].of => m = n

\* Only calls with a goroutine are registered, and only they leave a mark.
TrackFits ==
    /\ \A i \in Keys : inflight[i] # None => kind[inflight[i]] # "ping"
    /\ \A i \in cancelled :
          \E c \in Calls \ quiet : IdOf[c] = i /\ kind[c] # "ping" /\ place[c] \in Active

\* Until its response is let through, a call is marked exactly if it is to have
\* none; afterwards it has had one unless it was marked, or has no id.
AnswerFits ==
    \A c \in Calls :
        /\ place[c] \in {"unsent", "queued"} => c \notin silenced /\ got[c] = 0
        /\ place[c] \in Before => got[c] = 0 /\ (c \in silenced <=> KeyOf(c) \in cancelled)
        /\ place[c] = "write" => c \notin silenced \cup quiet /\ got[c] = 0
        /\ place[c] \in {"finish", "over"} => (got[c] = 1 <=> c \notin silenced \cup quiet)

Returned ==
    /\ main # "read" => ~open
    /\ main = "returned" => \A c \in Calls : place[c] \in {"unsent", "over"}

IInv == TypeOK /\ QueueFits /\ TrackFits /\ AnswerFits /\ CaptureReportsTheTruth /\ Returned

-----------------------------------------------------------------------------
\* What reading a line takes from stdin.
LEMMA Taken ==
    ASSUME TypeOK, QueueFits, NEW what \in {"call", "cancel"}, Reads(what)
    PROVE  /\ Head(stdin) \in Message
           /\ Head(stdin) = stdin[1] /\ 1 \in 1 .. Len(stdin)
           /\ stdin' \in Seq(Message) /\ Len(stdin') = Len(stdin) - 1
           /\ \A n \in 1 .. Len(stdin') : n + 1 \in 1 .. Len(stdin) /\ stdin'[n] = stdin[n + 1]
<1>1. stdin \in Seq(Message) /\ stdin # <<>> /\ stdin' = Tail(stdin)
  BY DEF TypeOK, Reads, Message
<1>2. Len(stdin) \in Nat /\ Len(stdin) # 0
  BY <1>1, EmptySeq
<1>3. /\ Head(stdin) \in Message /\ stdin' \in Seq(Message) /\ Len(stdin') = Len(stdin) - 1
      /\ Head(stdin) = stdin[1]
  BY <1>1, HeadTailProperties
<1>4. \A n \in 1 .. Len(stdin') : n + 1 \in 1 .. Len(stdin) /\ stdin'[n] = stdin[n + 1]
  BY <1>1, <1>2, <1>3
<1> QED BY <1>2, <1>3, <1>4

\* ... and leaves of it, if a request that is read goes on.
LEMMA ReadKeepsQueue ==
    ASSUME TypeOK, QueueFits, NEW what \in {"call", "cancel"}, Reads(what),
           \/ place' = place
           \/ what = "call" /\ \E where : Goto(Head(stdin).of, where)
    PROVE  QueueFits' /\ stdin' \in Seq(Message) /\ Len(stdin') <= MaxLines
<1>1. /\ Head(stdin) = stdin[1] /\ 1 \in 1 .. Len(stdin) /\ Head(stdin).of \in Calls
      /\ stdin' \in Seq(Message) /\ Len(stdin') = Len(stdin) - 1 /\ Len(stdin) \in Nat
      /\ \A n \in 1 .. Len(stdin') : n + 1 \in 1 .. Len(stdin) /\ stdin'[n] = stdin[n + 1]
  BY Taken DEF TypeOK, Message
<1>2. Head(stdin).what = what
  BY DEF Reads
<1>3. ASSUME NEW n \in 1 .. Len(stdin'), stdin'[n].what = "call"
      PROVE  place'[stdin'[n].of] = "queued"
  <2>1. place[stdin'[n].of] = "queued"
    BY <1>1, <1>3 DEF QueueFits
  <2>2. what = "call" => stdin'[n].of # Head(stdin).of
    <3>1. n + 1 # 1
      BY <1>1
    <3> QED BY <1>1, <1>2, <1>3, <3>1 DEF QueueFits
  <2>3. stdin'[n].of \in Calls
    <3>1. stdin'[n] \in Message
      BY <1>1, ElementOfSeq
    <3> QED BY <3>1 DEF Message
  <2> QED BY <2>1, <2>2, <2>3 DEF Goto, TypeOK
<1>4. ASSUME NEW m \in 1 .. Len(stdin'), NEW n \in 1 .. Len(stdin'),
             stdin'[m].what = "call", stdin'[n].what = "call", stdin'[m].of = stdin'[n].of
      PROVE  m = n
  <2>1. m + 1 = n + 1
    BY <1>1, <1>4 DEF QueueFits
  <2> QED BY <1>1, <2>1
<1>5. Len(stdin') <= MaxLines
  BY <1>1, LinesAreBounded DEF TypeOK
<1> QED BY <1>1, <1>3, <1>4, <1>5 DEF QueueFits

\* A new line, the first one of a request that was not sent before.
LEMMA LineKeepsQueue ==
    ASSUME TypeOK, QueueFits, NEW what \in {"call", "cancel"}, NEW c \in Calls, Line(what, c),
           \/ what = "cancel" /\ place' = place
           \/ what = "call" /\ place[c] = "unsent" /\ place' = [place EXCEPT ![c] = "queued"]
    PROVE  QueueFits' /\ stdin' \in Seq(Message) /\ Len(stdin') <= MaxLines
<1> DEFINE last == [what |-> what, of |-> c]
<1>1. stdin \in Seq(Message) /\ last \in Message /\ Len(stdin) \in Nat /\ Len(stdin) < MaxLines
  BY DEF TypeOK, Message, Line
<1>2. /\ stdin' \in Seq(Message) /\ Len(stdin') = Len(stdin) + 1
      /\ stdin'[Len(stdin')] = last
      /\ \A n \in 1 .. Len(stdin) : stdin'[n] = stdin[n]
  BY <1>1 DEF Line
<1>3. ASSUME NEW n \in 1 .. Len(stdin) PROVE stdin[n].of \in Calls
  <2>1. stdin[n] \in Message
    BY <1>1, ElementOfSeq
  <2> QED BY <2>1 DEF Message
<1>4. ASSUME NEW n \in 1 .. Len(stdin), stdin[n].what = "call"
      PROVE  /\ place[stdin[n].of] = "queued" /\ place'[stdin[n].of] = "queued"
             /\ what = "call" => stdin[n].of # c
  BY <1>3, <1>4 DEF QueueFits, TypeOK
<1>5. ASSUME NEW n \in 1 .. Len(stdin'), stdin'[n].what = "call"
      PROVE  place'[stdin'[n].of] = "queued"
  <2>1. CASE n \in 1 .. Len(stdin)
    BY <1>2, <1>4, <1>5, <2>1
  <2>2. CASE n = Len(stdin')
    BY <1>2, <1>5, <2>2 DEF TypeOK
  <2> QED BY <1>1, <1>2, <2>1, <2>2
<1>6. ASSUME NEW m \in 1 .. Len(stdin'), NEW n \in 1 .. Len(stdin'),
             stdin'[m].what = "call", stdin'[n].what = "call", stdin'[m].of = stdin'[n].of
      PROVE  m = n
  <2>1. CASE m \in 1 .. Len(stdin) /\ n \in 1 .. Len(stdin)
    BY <1>2, <1>6, <2>1 DEF QueueFits
  <2>2. CASE m \in 1 .. Len(stdin) /\ n = Len(stdin')
    BY <1>2, <1>4, <1>6, <2>2
  <2>3. CASE n \in 1 .. Len(stdin) /\ m = Len(stdin')
    BY <1>2, <1>4, <1>6, <2>3
  <2> QED BY <1>1, <1>2, <2>1, <2>2, <2>3
<1> QED BY <1>1, <1>2, <1>5, LinesAreBounded DEF QueueFits

\* A step of a call that is not waiting on stdin leaves the queue in order.
LEMMA QueueUntouched ==
    ASSUME TypeOK, QueueFits, stdin' = stdin,
           \A c \in Calls : place[c] = "queued" => place'[c] = "queued"
    PROVE  QueueFits'
<1>1. ASSUME NEW n \in 1 .. Len(stdin) PROVE stdin[n].of \in Calls
  <2>1. stdin \in Seq(Message) /\ Len(stdin) \in Nat
    BY DEF TypeOK, Message
  <2>2. stdin[n] \in Message
    BY <2>1, ElementOfSeq
  <2> QED BY <2>2 DEF Message
<1> QED BY <1>1 DEF QueueFits

-----------------------------------------------------------------------------
\* What is neither on stdin nor about the Vault.
Bookkept == TypeOK /\ TrackFits /\ AnswerFits /\ CaptureReportsTheTruth /\ Returned

LEMMA InitHolds == Init => IInv
<1> SUFFICES ASSUME Init PROVE IInv
  OBVIOUS
<1>1. TypeOK
  BY LinesAreBounded, NotCalls DEF Init, TypeOK, Places
<1>2. QueueFits
  BY DEF Init, QueueFits
<1> QED BY <1>1, <1>2 DEF Init, IInv, TrackFits, AnswerFits, CaptureReportsTheTruth,
               Returned

\* The client, and whoever else uses the Vault.
LEMMA ClientKeeps ==
    ASSUME IInv, Client
    PROVE  IInv'
<1> USE DEF IInv
<1>1. ASSUME NEW c \in Calls, Send(c) PROVE IInv'
  <2>1. QueueFits' /\ stdin' \in Seq(Message) /\ Len(stdin') <= MaxLines
    BY <1>1, LineKeepsQueue DEF Send
  <2>2. PICK k \in Kinds : kind' = [kind EXCEPT ![c] = k]
    BY <1>1 DEF Send
  <2>3. \A d \in Calls : d # c => KeyOf(d)' = KeyOf(d) /\ kind'[d] = kind[d] /\ place'[d] = place[d]
    BY <1>1 DEF Send, KeyOf
  <2>4. TypeOK'
    BY <1>1, <2>1, <2>3, NotCalls DEF Send, Line, tracking, TypeOK, Places
  <2>5. TrackFits'
    <3>1. /\ inflight' = inflight /\ cancelled' = cancelled /\ place[c] = "unsent"
          /\ quiet' \in {quiet, quiet \cup {c}}
      BY <1>1 DEF Send, Line, tracking
    <3>2. ASSUME NEW i \in Keys, inflight'[i] # None
          PROVE  kind'[inflight'[i]] # "ping"
      <4>1. inflight[i] \in Calls /\ inflight[i] # c
        BY <3>1, <3>2 DEF TypeOK
      <4> QED BY <2>3, <3>1, <3>2, <4>1 DEF TrackFits
    <3>3. ASSUME NEW i \in cancelled'
          PROVE  \E d \in Calls \ quiet' : IdOf[d] = i /\ kind'[d] # "ping" /\ place'[d] \in Active
      <4>1. PICK d \in Calls \ quiet : IdOf[d] = i /\ kind[d] # "ping" /\ place[d] \in Active
        BY <3>1, <3>3 DEF TrackFits
      <4>2. d # c
        BY <3>1, <4>1 DEF Active, Before
      <4> QED BY <2>3, <3>1, <4>1, <4>2
    <3> QED BY <3>2, <3>3 DEF TrackFits
  <2>6. AnswerFits'
    BY <1>1, <2>3 DEF Send, Line, tracking, AnswerFits, Before
  <2>7. CaptureReportsTheTruth' /\ Returned'
    BY <1>1 DEF Send, Line, CaptureReportsTheTruth, Returned
  <2> QED BY <2>1, <2>4, <2>5, <2>6, <2>7
<1>2. ASSUME NEW c \in Calls, AskToCancel(c) PROVE IInv'
  <2>1. QueueFits' /\ stdin' \in Seq(Message) /\ Len(stdin') <= MaxLines
    BY <1>2, LineKeepsQueue DEF AskToCancel
  <2>2. Bookkept'
    BY <1>2, <2>1 DEF AskToCancel, Line, tracking, call, Bookkept, TypeOK, TrackFits,
           AnswerFits, CaptureReportsTheTruth, Returned, KeyOf
  <2> QED BY <2>1, <2>2 DEF Bookkept
<1>3. CASE CloseStdin
  BY <1>3, QueueUntouched DEF CloseStdin, tracking, call, TypeOK, TrackFits, AnswerFits,
                              CaptureReportsTheTruth, Returned, KeyOf
<1>4. CASE OtherCapture
  BY <1>4, QueueUntouched, NotCalls DEF OtherCapture, reader, tracking, call, TypeOK, TrackFits,
                              AnswerFits, CaptureReportsTheTruth, Returned, KeyOf
<1> QED BY <1>1, <1>2, <1>3, <1>4 DEF Client

-----------------------------------------------------------------------------
\* Whoever has the id of a marked call is that call.
LEMMA MarkedIsItself ==
    ASSUME OwnIds, IInv, NEW c \in Calls, KeyOf(c) \in cancelled
    PROVE  kind[c] # "ping" /\ place[c] \in Active
<1>1. c \notin quiet /\ IdOf[c] \in cancelled
  BY IdsGiven DEF IInv, TypeOK, KeyOf
<1>2. PICK d \in Calls \ quiet : IdOf[d] = IdOf[c] /\ kind[d] # "ping" /\ place[d] \in Active
  BY <1>1 DEF IInv, TrackFits
<1>3. d = c
  BY <1>2 DEF OwnIds
<1> QED BY <1>2, <1>3

\* Serve: one line after the other.
LEMMA ServeKeeps ==
    ASSUME OwnIds, IInv, Serve
    PROVE  IInv'
<1> USE DEF IInv
<1> DEFINE h == Head(stdin).of
<1>1. ASSUME Reads("call")
      PROVE  /\ h \in Calls /\ place[h] = "queued" /\ KeyOf(h) \notin cancelled
             /\ \A i \in Keys : inflight[i] # h
             /\ stdin' \in Seq(Message) /\ Len(stdin') = Len(stdin) - 1
             /\ \A c \in Calls : KeyOf(c)' = KeyOf(c)
  <2>1. h \in Calls /\ place[h] = "queued" /\ stdin' \in Seq(Message) /\ Len(stdin') = Len(stdin) - 1
    BY <1>1, Taken DEF Reads, QueueFits, Message
  <2>2. KeyOf(h) \notin cancelled
    BY <2>1, MarkedIsItself DEF Active, Before
  <2>3. \A i \in Keys : inflight[i] # h
    BY <2>1, NotCalls DEF TypeOK
  <2>4. \A c \in Calls : KeyOf(c)' = KeyOf(c)
    BY <1>1 DEF Reads, call, KeyOf
  <2> QED BY <2>1, <2>2, <2>3, <2>4
<1>2. CASE ReadPing
  <2>1. Reads("call") /\ Goto(h, "answer") /\ kind[h] = "ping" /\ UNCHANGED tracking
    BY <1>2 DEF ReadPing
  <2>2. QueueFits' /\ stdin' \in Seq(Message) /\ Len(stdin') <= MaxLines
    BY <2>1, ReadKeepsQueue
  <2>3. TypeOK'
    BY <1>1, <2>1, <2>2 DEF Reads, Goto, call, tracking, TypeOK, Places
  <2>4. TrackFits' /\ AnswerFits'
    BY <1>1, <2>1 DEF Reads, Goto, call, tracking, TrackFits, AnswerFits
  <2>5. CaptureReportsTheTruth' /\ Returned'
    BY <2>1 DEF Reads, Reading, Goto, call, CaptureReportsTheTruth, Returned
  <2> QED BY <2>2, <2>3, <2>4, <2>5
<1>3. CASE CallAsync
  <2>1. /\ Reads("call") /\ Goto(h, "work") /\ kind[h] # "ping"
        /\ inflight' = [inflight EXCEPT ![KeyOf(h)] = h]
        /\ UNCHANGED <<cancelled, closed, silenced>>
    BY <1>3 DEF CallAsync
  <2>2. QueueFits' /\ stdin' \in Seq(Message) /\ Len(stdin') <= MaxLines
    BY <2>1, ReadKeepsQueue
  <2>3. KeyOf(h) \in Keys
    BY <1>1, <2>1, IdsGiven DEF KeyOf, Keys
  <2>4. TypeOK'
    BY <1>1, <2>1, <2>2, <2>3 DEF Reads, Goto, call, TypeOK, Places
  <2>5. TrackFits' /\ AnswerFits'
    BY <1>1, <2>1 DEF Reads, Goto, call, TrackFits, AnswerFits, KeyOf
  <2>6. CaptureReportsTheTruth' /\ Returned'
    BY <2>1 DEF Reads, Reading, Goto, call, CaptureReportsTheTruth, Returned
  <2> QED BY <2>2, <2>4, <2>5, <2>6
<1>4. CASE HandleCancelled
  <2> DEFINE i == KeyOf(h)
             c == inflight[i]
  <2>1. Reads("cancel") /\ place' = place
    BY <1>4 DEF HandleCancelled
  <2>2. QueueFits' /\ stdin' \in Seq(Message) /\ Len(stdin') <= MaxLines
    BY <2>1, ReadKeepsQueue
  <2>3. h \in Calls /\ (\A d \in Calls : KeyOf(d)' = KeyOf(d)) /\ main = "read"
    BY <2>1, Taken DEF Reads, Reading, call, KeyOf, Message
  <2>4. CaptureReportsTheTruth' /\ Returned'
    BY <2>1 DEF Reads, call, CaptureReportsTheTruth, Returned
  <2>5. CASE UNCHANGED tracking
    <3>1. TypeOK'
      BY <2>1, <2>2, <2>3, <2>5 DEF Reads, call, tracking, TypeOK
    <3>2. TrackFits' /\ AnswerFits'
      BY <2>1, <2>5 DEF Reads, call, tracking, TrackFits, AnswerFits, KeyOf
    <3> QED BY <2>2, <2>4, <3>1, <3>2
  <2>6. CASE /\ i # NoId /\ c # None
             /\ inflight' = [inflight EXCEPT ![i] = None]
             /\ cancelled' = cancelled \cup {i}
             /\ closed' = closed \cup {c}
             /\ silenced' = IF place[c] \in {"write", "finish"}
                            THEN silenced ELSE silenced \cup {c}
    <3>1. i \in Ids /\ i \in Keys
      BY <2>3, <2>6, IdsGiven DEF KeyOf, Keys
    <3>2. /\ c \in Calls /\ KeyOf(c) = i /\ kind[c] # "ping"
          /\ place[c] \in Active
      BY <2>6, <3>1 DEF TypeOK, TrackFits, Active, Before, Places
    <3>3. c \notin quiet /\ IdOf[c] = i
      BY <2>6, <3>2 DEF KeyOf
    <3>4. \A d \in Calls : KeyOf(d) = i => d = c
      <4> SUFFICES ASSUME NEW d \in Calls, KeyOf(d) = i PROVE d = c
        OBVIOUS
      <4>1. IdOf[d] = IdOf[c]
        BY <2>6, <3>3 DEF KeyOf
      <4> QED BY <3>2, <4>1 DEF OwnIds
    <3>5. TypeOK'
      <4>1. /\ inflight' \in [Keys -> Calls \cup {None}]
            /\ \A j \in Keys : inflight'[j] # None => inflight[j] # None /\ inflight'[j] = inflight[j]
            /\ cancelled' \subseteq Ids
            /\ closed' \subseteq Calls /\ silenced' \subseteq Calls
        BY <2>6, <3>1, <3>2 DEF TypeOK
      <4>2. \A j \in Keys : inflight'[j] # None =>
               (KeyOf(inflight[j]))' = j /\ place'[inflight'[j]] \notin {"unsent", "queued", "over"}
        BY <2>1, <2>3, <4>1 DEF TypeOK
      <4> QED BY <2>1, <2>2, <4>1, <4>2 DEF Reads, call, TypeOK
    <3>6. TrackFits'
      BY <2>1, <2>6, <3>2, <3>3 DEF Reads, call, TrackFits
    <3>7. AnswerFits'
      <4> SUFFICES ASSUME NEW d \in Calls
                   PROVE  /\ place[d] \in {"unsent", "queued"} => d \notin silenced' /\ got[d] = 0
                          /\ place[d] \in Before => got[d] = 0 /\ (d \in silenced' <=> KeyOf(d) \in cancelled')
                          /\ place[d] = "write" => d \notin silenced' \cup quiet /\ got[d] = 0
                          /\ place[d] \in {"finish", "over"} => (got[d] = 1 <=> d \notin silenced' \cup quiet)
        BY <2>1, <2>3 DEF Reads, call, AnswerFits
      <4>1. CASE d = c
        BY <2>6, <3>2, <4>1 DEF AnswerFits, Active, Before
      <4>2. CASE d # c
        BY <2>6, <3>4, <4>2 DEF AnswerFits
      <4> QED BY <4>1, <4>2
    <3> QED BY <2>2, <2>4, <3>5, <3>6, <3>7
  <2> QED BY <1>4, <2>5, <2>6 DEF HandleCancelled
<1>5. CASE Eof \/ Return
  <2>1. /\ UNCHANGED <<stdin, open, asked, tracking, call, place, result, vault, got>>
        /\ main' \in {"drain", "returned"} /\ ~open
        /\ main' = "returned" => \A c \in Calls : place[c] \in {"unsent", "over"}
    BY <1>5 DEF Eof, Return, Returned
  <2>2. QueueFits'
    BY <2>1, QueueUntouched
  <2>3. TypeOK'
    BY <2>1 DEF tracking, call, TypeOK, KeyOf
  <2>4. TrackFits' /\ AnswerFits' /\ CaptureReportsTheTruth' /\ Returned'
    BY <2>1 DEF tracking, call, TrackFits, AnswerFits, CaptureReportsTheTruth, Returned, KeyOf
  <2> QED BY <2>2, <2>3, <2>4
<1> QED BY <1>2, <1>3, <1>4, <1>5 DEF Serve

\* What a goroutine's step that writes no response comes down to: its call goes
\* on among the places where none was let through.
LEMMA GoesOnKeeps ==
    ASSUME IInv, NEW c \in Calls, NEW where \in Before,
           place[c] \in Before, Goto(c, where),
           UNCHANGED <<reader, tracking, call, got>>,
           result' \in [Calls -> {"none", "ok", "error"}],
           vault' \in Calls \cup {Other, None},
           CaptureReportsTheTruth'
    PROVE  IInv'
<1> USE DEF IInv
<1>1. /\ place' = [place EXCEPT ![c] = where]
      /\ (\A d \in Calls : KeyOf(d)' = KeyOf(d)) /\ place \in [Calls -> Places]
  BY DEF Goto, call, KeyOf, TypeOK
<1>2. QueueFits'
  BY <1>1, QueueUntouched DEF reader, Before
<1>3. TypeOK'
  BY <1>1 DEF reader, tracking, call, TypeOK, Places, Before
<1>4. TrackFits' /\ AnswerFits'
  BY <1>1 DEF tracking, call, TrackFits, AnswerFits, Active, Before
<1>5. Returned'
  BY <1>1 DEF reader, Returned, Before
<1> QED BY <1>2, <1>3, <1>4, <1>5

\* A call whose response is decided, until it is.
LEMMA DecidesKeeps ==
    ASSUME IInv, NEW c \in Calls, NEW where \in Before, NEW how \in {"ok", "error"},
           place[c] \in Before, Goto(c, where),
           result' \in {result, [result EXCEPT ![c] = how]},
           UNCHANGED <<reader, tracking, call, got>>,
           vault' \in {vault, c}, vault' = c => vault \in {None, c},
           kind[c] = "capture" /\ where = "answer" /\ result'[c] = "ok" => vault' = c
    PROVE  IInv'
<1>1. /\ place' = [place EXCEPT ![c] = where]
      /\ place \in [Calls -> Places] /\ result \in [Calls -> {"none", "ok", "error"}]
      /\ kind' = kind /\ vault \in Calls \cup {Other, None}
  BY DEF Goto, call, IInv, TypeOK
<1>2. result' \in [Calls -> {"none", "ok", "error"}] /\ vault' \in Calls \cup {Other, None}
  BY <1>1
<1>3. CaptureReportsTheTruth'
  <2> SUFFICES ASSUME NEW d \in Calls, kind[d] = "capture", result'[d] = "ok",
                      place'[d] \in {"answer", "write", "finish", "over"}
               PROVE  vault' = d
    BY <1>1 DEF CaptureReportsTheTruth
  <2>1. CASE d = c
    BY <1>1, <2>1 DEF Before
  <2>2. CASE d # c
    <3>1. vault = d
      BY <1>1, <2>2 DEF IInv, CaptureReportsTheTruth
    <3> QED BY <2>2, <3>1, NotCalls
  <2> QED BY <2>1, <2>2
<1> QED BY <1>2, <1>3, GoesOnKeeps

\* callRunWithSecrets and callCapture, up to their response.
LEMMA WorkKeeps ==
    ASSUME IInv, NEW c \in Calls,
           \/ Outside(c)
           \/ Kill(c) \/ ChildDone(c) \/ Store(c) \/ StoreFails(c)
    PROVE  IInv'
<1>1. CASE Refuses(c)
  BY <1>1, DecidesKeeps DEF Refuses, Decide, Before, IInv, TypeOK
<1>2. CASE StartChild(c)
  BY <1>2, DecidesKeeps DEF StartChild, Before
<1>3. CASE ChildExits(c)
  <2>1. PICK how \in {"ok", "error"} : result' = [result EXCEPT ![c] = how]
    BY <1>3 DEF ChildExits
  <2> QED BY <1>3, <2>1, DecidesKeeps DEF ChildExits, Before
<1>4. CASE OutputCloses(c)
  BY <1>4, DecidesKeeps DEF OutputCloses, Before
<1>5. CASE Kill(c)
  BY <1>5, DecidesKeeps DEF Kill, Before
<1>6. CASE ChildDone(c)
  <2>1. CASE kind[c] = "run"
    BY <1>6, <2>1, DecidesKeeps DEF ChildDone, Decide, Before
  <2>2. CASE kind[c] = "capture" /\ result[c] = "ok"
    BY <1>6, <2>2, DecidesKeeps DEF ChildDone, Before
  <2>3. CASE kind[c] # "run" /\ ~(kind[c] = "capture" /\ result[c] = "ok")
    <3>1. Decide(c, "error") /\ place[c] = "stopped" /\ UNCHANGED <<reader, tracking, call, vault, got>>
      BY <1>6, <2>3 DEF ChildDone
    <3> QED BY <3>1, DecidesKeeps DEF Decide, Before, IInv, TypeOK
  <2> QED BY <2>1, <2>2, <2>3
<1>7. CASE Store(c)
  BY <1>7, DecidesKeeps DEF Store, Decide, Before
<1>8. CASE StoreFails(c)
  BY <1>8, DecidesKeeps DEF StoreFails, Decide, Before, IInv, TypeOK
<1> QED BY <1>1, <1>2, <1>3, <1>4, <1>5, <1>6, <1>7, <1>8 DEF Outside

\* writeResult and writeError, and the deferred done.
LEMMA AnswerKeeps ==
    ASSUME OwnIds, IInv, NEW c \in Calls, Suppress(c) \/ Write(c) \/ Finish(c)
    PROVE  IInv'
<1> USE DEF IInv
<1>1. /\ UNCHANGED <<reader, call, result, vault, closed, silenced>>
      /\ place[c] \in {"answer", "write", "finish"}
  BY DEF Suppress, Write, Finish, tracking
<1>2. PICK where \in {"write", "finish", "over"} : place' = [place EXCEPT ![c] = where]
  BY DEF Suppress, Write, Finish, Leave, Goto
<1>3. \A d \in Calls : KeyOf(d)' = KeyOf(d) /\ (d # c => place'[d] = place[d])
  BY <1>1, <1>2 DEF call, KeyOf, TypeOK
<1>4. place'[c] = where
  BY <1>2 DEF TypeOK
<1>5. QueueFits'
  BY <1>1, <1>2, <1>3, QueueUntouched DEF reader
<1>6. CaptureReportsTheTruth' /\ Returned'
  BY <1>1, <1>3 DEF reader, call, CaptureReportsTheTruth, Returned
<1>7. \A d \in Calls : d # c /\ KeyOf(d) = KeyOf(c) => KeyOf(d) = NoId
  BY DEF KeyOf, OwnIds
<1>8. \A i \in cancelled : i # NoId
  BY IdsGiven DEF TypeOK
<1>9. /\ inflight' \in [Keys -> Calls \cup {None}]
      /\ \A i \in Keys : inflight'[i] # None =>
            inflight'[i] = inflight[i] /\ (inflight[i] = c => where # "over")
      /\ cancelled' \in {cancelled, cancelled \ {KeyOf(c)}}
      /\ where = "over" /\ kind[c] # "ping" => KeyOf(c) \notin cancelled'
      /\ got' \in [Calls -> 0 .. 1]
      /\ \A d \in Calls : d # c => got'[d] = got[d]
  <2>1. CASE Suppress(c)
    <3>1. inflight' = inflight /\ got' = got /\ cancelled' \in {cancelled, cancelled \ {KeyOf(c)}}
      BY <2>1 DEF Suppress
    <3>2. where = "over" => kind[c] = "ping"
      BY <1>2, <1>4, <2>1 DEF Suppress, Leave, Goto
    <3> QED BY <3>1, <3>2 DEF TypeOK, TrackFits
  <2>2. CASE Write(c)
    <3>1. inflight' = inflight /\ cancelled' = cancelled /\ got' = [got EXCEPT ![c] = 1]
      <4>1. place[c] = "write" /\ got' = [got EXCEPT ![c] = got[c] + 1] /\ UNCHANGED tracking
        BY <2>2 DEF Write
      <4>2. got[c] + 1 = 1
        BY <4>1 DEF AnswerFits
      <4> QED BY <4>1, <4>2 DEF tracking
    <3>2. where = "over" => kind[c] = "ping"
      BY <1>4, <2>2 DEF Write, Leave, Goto
    <3> QED BY <3>1, <3>2 DEF TypeOK, TrackFits
  <2>3. CASE Finish(c)
    <3>1. /\ inflight' = [i \in Keys |-> IF inflight[i] = c THEN None ELSE inflight[i]]
          /\ cancelled' = cancelled \ {KeyOf(c)} /\ got' = got
      BY <2>3 DEF Finish
    <3> QED BY <3>1, NotCalls DEF TypeOK
  <2> QED BY <2>1, <2>2, <2>3
<1>10. TypeOK'
  <2>1. \A i \in Keys : inflight'[i] # None =>
           (KeyOf(inflight[i]))' = i /\ place'[inflight'[i]] \notin {"unsent", "queued", "over"}
    <3> SUFFICES ASSUME NEW i \in Keys, inflight'[i] # None
                 PROVE  /\ (KeyOf(inflight[i]))' = i
                        /\ place'[inflight'[i]] \notin {"unsent", "queued", "over"}
      OBVIOUS
    <3>1. inflight'[i] = inflight[i] /\ inflight[i] \in Calls
      BY <1>9 DEF TypeOK
    <3>2. (KeyOf(inflight[i]))' = i
      BY <1>1, <3>1 DEF call, KeyOf, TypeOK
    <3>3. CASE inflight[i] = c
      BY <1>4, <1>9, <3>1, <3>2, <3>3
    <3>4. CASE inflight[i] # c
      BY <1>3, <3>1, <3>2, <3>4 DEF TypeOK
    <3> QED BY <3>3, <3>4
  <2> QED BY <1>1, <1>2, <1>9, <2>1 DEF reader, call, TypeOK, Places
<1>11. TrackFits'
  <2>1. \A i \in Keys : inflight'[i] # None => kind'[inflight'[i]] # "ping"
    BY <1>1, <1>9 DEF call, TrackFits
  <2>2. ASSUME NEW i \in cancelled'
        PROVE  \E d \in Calls \ quiet' : IdOf[d] = i /\ kind'[d] # "ping" /\ place'[d] \in Active
    <3>1. PICK d \in Calls \ quiet : IdOf[d] = i /\ kind[d] # "ping" /\ place[d] \in Active
      BY <1>9, <2>2 DEF TrackFits
    <3>2. KeyOf(d) = i
      BY <3>1 DEF KeyOf
    <3>3. d = c => where # "over"
      BY <1>9, <2>2, <3>1, <3>2
    <3>4. place'[d] \in Active
      BY <1>3, <1>4, <3>1, <3>3 DEF Active
    <3> QED BY <1>1, <3>1, <3>4 DEF call
  <2> QED BY <2>1, <2>2 DEF TrackFits
<1>12. AnswerFits'
  <2>1. ASSUME NEW d \in Calls, d # c
        PROVE  /\ place'[d] = place[d] /\ got'[d] = got[d]
               /\ KeyOf(d)' \in cancelled' <=> KeyOf(d) \in cancelled
    BY <1>3, <1>7, <1>8, <1>9, <2>1
  <2>2. /\ where = "write" => c \notin silenced \cup quiet /\ got'[c] = 0
        /\ where \in {"finish", "over"} => (got'[c] = 1 <=> c \notin silenced \cup quiet)
    <3>1. CASE Suppress(c)
      BY <1>4, <3>1 DEF Suppress, Leave, Goto, TypeOK, AnswerFits, Before
    <3>2. CASE Write(c)
      BY <1>4, <3>2 DEF Write, Leave, Goto, TypeOK, AnswerFits
    <3>3. CASE Finish(c)
      BY <1>4, <3>3 DEF Finish, Goto, AnswerFits
    <3> QED BY <3>1, <3>2, <3>3
  <2> SUFFICES ASSUME NEW d \in Calls
               PROVE  /\ place'[d] \in {"unsent", "queued"} => d \notin silenced' /\ got'[d] = 0
                      /\ place'[d] \in Before =>
                            got'[d] = 0 /\ (d \in silenced' <=> KeyOf(d)' \in cancelled')
                      /\ place'[d] = "write" => d \notin silenced' \cup quiet' /\ got'[d] = 0
                      /\ place'[d] \in {"finish", "over"} =>
                            (got'[d] = 1 <=> d \notin silenced' \cup quiet')
    BY DEF AnswerFits
  <2>3. CASE d = c
    BY <1>1, <1>4, <2>2, <2>3 DEF call, Before
  <2>4. CASE d # c
    BY <1>1, <2>1, <2>4 DEF call, AnswerFits
  <2> QED BY <2>3, <2>4
<1> QED BY <1>5, <1>6, <1>10, <1>11, <1>12

LEMMA StepKeeps ==
    ASSUME OwnIds, IInv, [Next]_vars
    PROVE  IInv'
<1>1. CASE Client
  BY <1>1, ClientKeeps
<1>2. CASE Serve
  BY <1>2, ServeKeeps
<1>3. ASSUME NEW c \in Calls, Proceeds(c) \/ Outside(c) PROVE IInv'
  BY <1>3, WorkKeeps, AnswerKeeps DEF Proceeds
<1>4. CASE UNCHANGED vars
  BY <1>4 DEF vars, reader, tracking, call, IInv, TypeOK, QueueFits, TrackFits, AnswerFits,
              CaptureReportsTheTruth, Returned, KeyOf
<1> QED BY <1>1, <1>2, <1>3, <1>4 DEF Next

LEMMA InvariantHolds ==
    ASSUME OwnIds
    PROVE  Spec => []IInv
<1>1. Init => IInv
  BY InitHolds
<1>2. IInv /\ [Next]_vars => IInv'
  BY StepKeeps
<1> QED BY <1>1, <1>2, PTL DEF Spec

-----------------------------------------------------------------------------
\* Every call is somewhere on its way, and an id leads only to a call that has a
\* goroutine and that id.
THEOREM TypeCorrect ==
    ASSUME OwnIds
    PROVE  Spec => []TypeOK
<1>1. IInv => TypeOK
  BY DEF IInv
<1> QED BY <1>1, InvariantHolds, PTL

\* However a cancellation, the end of its call and the writing of its response
\* interleave: exactly one response, or none for a call cancelled in time and for
\* a notification.
THEOREM OneAnswer ==
    ASSUME OwnIds
    PROVE  Spec => []OneAnswerUnlessCancelled
<1>1. IInv => OneAnswerUnlessCancelled
  <2> SUFFICES ASSUME IInv, NEW c \in Calls
               PROVE  /\ c \in silenced => got[c] = 0
                      /\ place[c] = "over" => (got[c] = 1 <=> c \notin silenced \cup quiet)
    BY DEF OneAnswerUnlessCancelled
  <2>1. got[c] \in {0, 1} /\ place[c] \in Places
    BY DEF IInv, TypeOK
  <2> QED BY <2>1 DEF IInv, AnswerFits, Before, Places
<1> QED BY <1>1, InvariantHolds, PTL

\* Neither s.inflight nor s.cancelled keeps what belongs to a call that is over.
THEOREM NothingLeft ==
    ASSUME OwnIds
    PROVE  Spec => []NothingIsLeftTracked
<1>1. IInv => NothingIsLeftTracked
  <2> SUFFICES ASSUME IInv, NEW i \in Keys, inflight[i] # None \/ i \in cancelled
               PROVE  \E c \in Calls : KeyOf(c) = i /\ place[c] \notin {"unsent", "queued", "over"}
    BY DEF NothingIsLeftTracked
  <2>1. CASE inflight[i] # None
    BY <2>1 DEF IInv, TypeOK
  <2>2. CASE i \in cancelled
    BY <2>2 DEF IInv, TrackFits, KeyOf, Active, Before
  <2> QED BY <2>1, <2>2
<1> QED BY <1>1, InvariantHolds, PTL

\* Of all the captures, here and in other processes, one at most reports that it
\* stored its value, and it did.
THEOREM CaptureTruth ==
    ASSUME OwnIds
    PROVE  Spec => []CaptureReportsTheTruth
<1>1. IInv => CaptureReportsTheTruth
  BY DEF IInv
<1> QED BY <1>1, InvariantHolds, PTL

\* Serve does not return before every call that was read has had its response, if
\* it is to have one.
THEOREM Drains ==
    ASSUME OwnIds
    PROVE  Spec => []EofDrains
<1>1. IInv => EofDrains
  BY DEF IInv, Returned, AnswerFits, EofDrains
<1> QED BY <1>1, InvariantHolds, PTL
=============================================================================
