------------------------------ MODULE McpServer ------------------------------
(***************************************************************************)
(* cpass mcp: the JSON-RPC loop of mcp/server.go, the cancellable calls of *)
(* mcp/cancel.go, each in a goroutine of its own, and as much of           *)
(* mcp/tools.go and run/run.go as decides when such a call ends.           *)
(*                                                                         *)
(* A call stands for the channel beginCancellable makes for it, so the     *)
(* comparison s.inflight[key] == cancel is a comparison of calls.  All the *)
(* captures of one behaviour name the same new Handle.  "ping" is every    *)
(* method that is answered before the next line is read.                   *)
(***************************************************************************)
EXTENDS Sequences, Naturals

CONSTANTS
    Calls,      \* the requests the client may send
    Ids,        \* their JSON-RPC ids, as the text idKey compares
    IdOf,       \* the id of each request that has one
    NoId,       \* what idKey makes of no id at all
    Kinds,      \* which of "ping", "run" and "capture" are sent
    MaxLines,   \* bound: lines waiting on stdin
    Other,      \* another cpass process
    None        \* nobody

ASSUME IdsGiven == IdOf \in [Calls -> Ids] /\ NoId \notin Ids
ASSUME KnownKinds == Kinds \subseteq {"ping", "run", "capture"}
ASSUME LinesAreBounded == MaxLines \in Nat \ {0}
ASSUME NotCalls == None \notin Calls \cup Kinds \cup {Other} /\ Other \notin Calls

VARIABLES
    stdin,      \* the lines the server has not read
    open,       \* the client has not closed stdin
    asked,      \* the calls the client has asked to cancel
    main,       \* how far Serve has come
    inflight,   \* s.inflight: whose channel each id leads to
    cancelled,  \* s.cancelled: the ids whose response is to be dropped
    closed,     \* the calls whose channel is closed
    kind,       \* what each call is
    quiet,      \* the calls that were sent without an id
    place,      \* how far it has come
    result,     \* how its child ended, and then how the call did
    vault,      \* who stored the Handle
    got,        \* how many responses each call has had
    silenced    \* history: the calls cancelled before their response was let through

reader == <<stdin, open, asked, main>>
call == <<kind, quiet>>
tracking == <<inflight, cancelled, closed, silenced>>
vars == <<reader, tracking, call, place, result, vault, got>>

Keys == Ids \cup {NoId}
KeyOf(c) == IF c \in quiet THEN NoId ELSE IdOf[c]

Places == {"unsent", "queued", "work", "child", "linger", "stopped", "store",
           "answer", "write", "finish", "over"}

TypeOK ==
    /\ stdin \in Seq([what : {"call", "cancel"}, of : Calls]) /\ Len(stdin) <= MaxLines
    /\ open \in BOOLEAN
    /\ main \in {"read", "drain", "returned"}
    /\ inflight \in [Keys -> Calls \cup {None}]
    /\ \A i \in Keys : inflight[i] # None =>
          KeyOf(inflight[i]) = i /\ place[inflight[i]] \notin {"unsent", "queued", "over"}
    /\ cancelled \subseteq Ids
    /\ {closed, silenced, asked, quiet} \subseteq SUBSET Calls
    /\ kind \in [Calls -> Kinds \cup {None}]
    /\ place \in [Calls -> Places]
    /\ \A c \in Calls : kind[c] = None <=> place[c] = "unsent"
    /\ result \in [Calls -> {"none", "ok", "error"}]
    /\ vault \in Calls \cup {Other, None}
    /\ got \in [Calls -> 0 .. 1]

Init ==
    /\ stdin = <<>> /\ open = TRUE /\ asked = {} /\ main = "read"
    /\ inflight = [i \in Keys |-> None]
    /\ cancelled = {} /\ closed = {} /\ silenced = {}
    /\ kind = [c \in Calls |-> None] /\ quiet = {}
    /\ place = [c \in Calls |-> "unsent"]
    /\ result = [c \in Calls |-> "none"]
    /\ vault = None
    /\ got = [c \in Calls |-> 0]

-----------------------------------------------------------------------------
(***************************************************************************)
(* The client, and whoever else uses the Vault.                            *)
(***************************************************************************)

Line(what, c) ==
    /\ open
    /\ Len(stdin) < MaxLines
    /\ stdin' = Append(stdin, [what |-> what, of |-> c])
    /\ UNCHANGED <<open, main, tracking, result, vault, got>>

\* Without an id it is a notification, whatever its method.
Send(c) ==
    /\ place[c] = "unsent"
    /\ \E k \in Kinds : kind' = [kind EXCEPT ![c] = k]
    /\ quiet' \in {quiet, quiet \cup {c}}
    /\ place' = [place EXCEPT ![c] = "queued"]
    /\ Line("call", c)
    /\ UNCHANGED asked

\* The response may be on its way already.  For a call that has no id the client
\* can only leave the requestId out.
AskToCancel(c) ==
    /\ place[c] # "unsent"
    /\ c \notin asked
    /\ asked' = asked \cup {c}
    /\ Line("cancel", c)
    /\ UNCHANGED <<call, place>>

CloseStdin ==
    /\ open
    /\ open' = FALSE
    /\ UNCHANGED <<stdin, asked, main, tracking, call, place, result, vault, got>>

OtherCapture ==
    /\ vault = None
    /\ vault' = Other
    /\ UNCHANGED <<reader, tracking, call, place, result, got>>

-----------------------------------------------------------------------------
(***************************************************************************)
(* Serve: one line after the other.                                        *)
(***************************************************************************)

Goto(c, where) == place' = [place EXCEPT ![c] = where]

\* A synchronous request is answered before the next line is read.
Reading ==
    /\ main = "read"
    /\ \A c \in Calls : kind[c] = "ping" => place[c] \notin {"answer", "write"}

Reads(what) ==
    /\ Reading
    /\ stdin # <<>>
    /\ Head(stdin).what = what
    /\ stdin' = Tail(stdin)
    /\ UNCHANGED <<open, asked, main, call, result, vault, got>>

ReadPing ==
    /\ Reads("call")
    /\ kind[Head(stdin).of] = "ping"
    /\ Goto(Head(stdin).of, "answer")
    /\ UNCHANGED tracking

\* beginCancellable, and the goroutine.
CallAsync ==
    /\ Reads("call")
    /\ kind[Head(stdin).of] # "ping"
    /\ inflight' = [inflight EXCEPT ![KeyOf(Head(stdin).of)] = Head(stdin).of]
    /\ Goto(Head(stdin).of, "work")
    /\ UNCHANGED <<cancelled, closed, silenced>>

HandleCancelled ==
    LET i == KeyOf(Head(stdin).of)
        c == inflight[i]
    IN  /\ Reads("cancel")
        /\ IF i = NoId \/ c = None
           THEN UNCHANGED tracking
           ELSE /\ inflight' = [inflight EXCEPT ![i] = None]
                /\ cancelled' = cancelled \cup {i}
                /\ closed' = closed \cup {c}
                /\ silenced' = IF place[c] \in {"write", "finish"}
                               THEN silenced ELSE silenced \cup {c}
        /\ UNCHANGED place

Eof ==
    /\ Reading /\ stdin = <<>> /\ ~open
    /\ main' = "drain"
    /\ UNCHANGED <<stdin, open, asked, tracking, call, place, result, vault, got>>

\* Mutant: Serve does not wait for its goroutines.
ReturnAtOnce ==
    /\ main = "drain"
    /\ main' = "returned"
    /\ UNCHANGED <<stdin, open, asked, tracking, call, place, result, vault, got>>

\* s.wg.Wait.
Return ==
    /\ main = "drain"
    /\ \A c \in Calls : place[c] \in {"unsent", "over"}
    /\ main' = "returned"
    /\ UNCHANGED <<stdin, open, asked, tracking, call, place, result, vault, got>>

-----------------------------------------------------------------------------
(***************************************************************************)
(* callRunWithSecrets and callCapture.                                     *)
(***************************************************************************)

\* The response is decided.
Decide(c, how) ==
    /\ result' = [result EXCEPT ![c] = how]
    /\ Goto(c, "answer")

\* Bad arguments, a locked Vault, a missing Handle, the Command Policy, a
\* program that cannot be started.
Refuses(c) ==
    /\ place[c] = "work"
    /\ Decide(c, "error")
    /\ UNCHANGED <<reader, tracking, call, vault, got>>

\* A capture looks the Handle up first.
StartChild(c) ==
    /\ place[c] = "work"
    /\ kind[c] = "capture" => vault = None
    /\ Goto(c, "child")
    /\ UNCHANGED <<reader, tracking, call, result, vault, got>>

\* The child ends by itself, and cmd.Wait reaps it; it goes on waiting as long
\* as a process the child left behind holds its output open.
ChildExits(c) ==
    /\ place[c] = "child"
    /\ \E how \in {"ok", "error"} : result' = [result EXCEPT ![c] = how]
    /\ Goto(c, "linger") \/ Goto(c, "stopped")
    /\ UNCHANGED <<reader, tracking, call, vault, got>>

OutputCloses(c) ==
    /\ place[c] = "linger"
    /\ Goto(c, "stopped")
    /\ UNCHANGED <<reader, tracking, call, result, vault, got>>

\* Mutant: callCapture does not pass its channel on.
KillRunOnly(c) ==
    /\ place[c] = "child" /\ kind[c] = "run" /\ c \in closed
    /\ result' = [result EXCEPT ![c] = "error"]
    /\ Goto(c, "stopped")
    /\ UNCHANGED <<reader, tracking, call, vault, got>>

\* killProcessGroup, which finds no group once the child is reaped.
Kill(c) ==
    /\ place[c] = "child"
    /\ c \in closed
    /\ result' = [result EXCEPT ![c] = "error"]
    /\ Goto(c, "stopped")
    /\ UNCHANGED <<reader, tracking, call, vault, got>>

\* A run reports whatever the exit code is; a capture stores only after zero.
ChildDone(c) ==
    /\ place[c] = "stopped"
    /\ CASE kind[c] = "run" -> Decide(c, "ok")
         [] kind[c] = "capture" /\ result[c] = "ok" -> Goto(c, "store") /\ UNCHANGED result
         [] OTHER -> Decide(c, "error")
    /\ UNCHANGED <<reader, tracking, call, vault, got>>

\* Mutant: the lookup before the child ran is trusted.
StoreUnchecked(c) ==
    /\ place[c] = "store"
    /\ vault' = c
    /\ Decide(c, "ok")
    /\ UNCHANGED <<reader, tracking, call, got>>

\* UpdateVault looks again, under the Vault's lock.
Store(c) ==
    /\ place[c] = "store"
    /\ vault = None
    /\ vault' = c
    /\ Decide(c, "ok")
    /\ UNCHANGED <<reader, tracking, call, got>>

\* The Handle is taken by now, the value is too short, the Vault is locked; or
\* Save failed, perhaps after its rename.
StoreFails(c) ==
    /\ place[c] = "store"
    /\ vault' = vault \/ (vault = None /\ vault' = c)
    /\ Decide(c, "error")
    /\ UNCHANGED <<reader, tracking, call, got>>

\* Where a call goes once its response is written or dropped.
Leave(c) == Goto(c, IF kind[c] = "ping" THEN "over" ELSE "finish")

\* Mutant: writeError does not ask whether the call was cancelled.
SuppressResults(c) ==
    /\ place[c] = "answer"
    /\ IF c \in quiet \/ (KeyOf(c) \in cancelled /\ result[c] = "ok")
       THEN cancelled' = cancelled \ {KeyOf(c)} /\ Leave(c)
       ELSE cancelled' = cancelled /\ Goto(c, "write")
    /\ UNCHANGED <<reader, inflight, closed, silenced, call, result, vault, got>>

\* writeResult and writeError: there is nobody to answer, suppressed drops the
\* response ...
Suppress(c) ==
    /\ place[c] = "answer"
    /\ IF c \in quiet \/ KeyOf(c) \in cancelled
       THEN cancelled' = cancelled \ {KeyOf(c)} /\ Leave(c)
       ELSE cancelled' = cancelled /\ Goto(c, "write")
    /\ UNCHANGED <<reader, inflight, closed, silenced, call, result, vault, got>>

\* ... or writeMsg sends it, no longer under cancelMu.
Write(c) ==
    /\ place[c] = "write"
    /\ got' = [got EXCEPT ![c] = @ + 1]
    /\ Leave(c)
    /\ UNCHANGED <<reader, tracking, call, result, vault>>

\* Mutant: done as it was before it cleared s.cancelled.
FinishKeepsMark(c) ==
    /\ place[c] = "finish"
    /\ inflight' = [i \in Keys |-> IF inflight[i] = c THEN None ELSE inflight[i]]
    /\ Goto(c, "over")
    /\ UNCHANGED <<reader, cancelled, closed, silenced, call, result, vault, got>>

\* The deferred done, and wg.Done.
Finish(c) ==
    /\ place[c] = "finish"
    /\ inflight' = [i \in Keys |-> IF inflight[i] = c THEN None ELSE inflight[i]]
    /\ cancelled' = cancelled \ {KeyOf(c)}
    /\ Goto(c, "over")
    /\ UNCHANGED <<reader, closed, silenced, call, result, vault, got>>

-----------------------------------------------------------------------------
Client ==
    \/ \E c \in Calls : Send(c) \/ AskToCancel(c)
    \/ CloseStdin \/ OtherCapture

Serve == ReadPing \/ CallAsync \/ HandleCancelled \/ Eof \/ Return

\* What the server's own goroutines do, once nothing outside holds them up.
Proceeds(c) ==
    \/ Kill(c) \/ ChildDone(c)
    \/ Store(c) \/ StoreFails(c)
    \/ Suppress(c) \/ Write(c) \/ Finish(c)

\* The unlock key may wait for a human, and the child for anything.
Outside(c) == Refuses(c) \/ StartChild(c) \/ ChildExits(c) \/ OutputCloses(c)

Next == Client \/ Serve \/ \E c \in Calls : Proceeds(c) \/ Outside(c)

Spec == Init /\ [][Next]_vars

FairSpec == Spec /\ WF_vars(Serve) /\ \A c \in Calls : WF_vars(Proceeds(c))
-----------------------------------------------------------------------------
\* The MCP rule cancel.go is built around: a call cancelled before its response
\* was let through never gets one, nor does one without an id (writeResult's
\* comment), and every other call gets exactly one.
OneAnswerUnlessCancelled ==
    \A c \in Calls :
        /\ c \in silenced => got[c] = 0
        /\ place[c] = "over" => (got[c] = 1 <=> c \notin silenced \cup quiet)

\* Whatever order a cancellation and the end of its call come in, neither map
\* keeps an entry of a call that is over (beginCancellable's comment).
NothingIsLeftTracked ==
    \A i \in Keys :
        inflight[i] # None \/ i \in cancelled =>
            \E c \in Calls : KeyOf(c) = i /\ place[c] \notin {"unsent", "queued", "over"}

\* A capture that reports success owns the Handle: no other capture, of this
\* server or of another process, stored over it or under it.
CaptureReportsTheTruth ==
    \A c \in Calls :
        kind[c] = "capture" /\ result[c] = "ok" /\ place[c] \in {"answer", "write", "finish", "over"}
            => vault = c

\* Serve's comment: EOF drains the calls in flight, responses and all, rather than
\* abandoning them.
EofDrains ==
    main = "returned" =>
        \A c \in Calls :
            \/ place[c] = "unsent"
            \/ place[c] = "over" /\ (got[c] = 1 \/ c \in silenced \cup quiet)

\* A cancellation reaches the child of either tool while it runs, even one that
\* would never end by itself (Spec.Cancel).
CancelReachesTheChild ==
    \A c \in Calls : (c \in closed /\ place[c] = "child") ~> place[c] # "child"

\* Spec.Cancel's comment: cancelling ends the call as soon as possible, instead of
\* waiting for the child to exit on its own.
CancelEndsTheCall ==
    \A c \in Calls : (c \in closed /\ place[c] \in {"child", "linger"}) ~> place[c] = "over"
=============================================================================
