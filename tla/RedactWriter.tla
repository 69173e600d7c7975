---------------------------- MODULE RedactWriter ----------------------------
(***************************************************************************)
(* redact.Writer: one output stream of a child, on its way to the Agent.   *)
(* A Write scans what was held back together with the new bytes, sends all *)
(* that can no longer become a Pattern, and holds the rest until more      *)
(* comes or an idle timer releases it.                                     *)
(*                                                                         *)
(* time.AfterFunc runs idleFlush in a goroutine of its own, and Stop does  *)
(* nothing to a timer that has fired: its goroutine waits for w.mu and     *)
(* flushes whatever it finds then.  `waiting` counts those goroutines, and *)
(* `strays` the timers still running that w.timer no longer points at.     *)
(*                                                                         *)
(* A dst that starts failing goes on failing; a Write whose dst fails ends *)
(* the copying (os/exec's io.Copy), so that no Write follows it.           *)
(***************************************************************************)
EXTENDS Naturals, SequencesExt

CONSTANTS Bytes,     \* what a byte may be
          Patterns,  \* the sequences of bytes that give a Secret away
          Chunks,    \* what the child may write at once
          MaxInput   \* bound: how much it writes in all

ASSUME PatternsAssumption ==
    /\ Patterns \subseteq Seq(Bytes) \ {<<>>}
    /\ Chunks \subseteq Seq(Bytes) \ {<<>>}
    /\ MaxInput \in Nat

VARIABLES
    held,      \* w.held
    timer,     \* what w.timer points at: nil, or a timer that runs or has fired
    strays,    \* timers that run although w.timer has forgotten them
    waiting,   \* goroutines in idleFlush, waiting for w.mu
    out,       \* what dst took: single bytes, and markers with what they hide
    closed,    \* w.closed
    writeErr,  \* w.writeErr is set
    broken,    \* dst fails
    copying,   \* no Write has failed yet
    seen,      \* history: everything handed to Write
    cuts       \* history: how much had been sent when idleFlush sent more

writerVars == <<held, timer, strays, waiting, out, closed, writeErr, broken,
                copying, seen, cuts>>

WriterInit ==
    /\ held = <<>> /\ timer = "nil" /\ strays = 0 /\ waiting = 0 /\ out = <<>>
    /\ closed = FALSE /\ writeErr = FALSE /\ broken = FALSE /\ copying = TRUE
    /\ seen = <<>> /\ cuts = {}

-----------------------------------------------------------------------------
(* The matcher. *)

Byte(c)   == [marker |-> FALSE, text |-> <<c>>]
Marker(p) == [marker |-> TRUE, text |-> p]

Raw(s) == [i \in 1..Len(s) |-> Byte(s[i])]

\* The Patterns that occur in buf at i: automaton.find, seen from one position.
OccurAt(buf, i) ==
    {p \in Patterns : i + Len(p) - 1 <= Len(buf) /\ SubSeq(buf, i, i + Len(p) - 1) = p}

Longest(ps) == CHOOSE p \in ps : \A q \in ps : Len(q) <= Len(p)

\* buf with its leftmost-longest occurrences replaced.
Replaced(buf) ==
    LET from[i \in 1..Len(buf) + 1] ==
            IF i = Len(buf) + 1 THEN <<>>
            ELSE IF OccurAt(buf, i) = {} THEN <<Byte(buf[i])>> \o from[i + 1]
            ELSE LET p == Longest(OccurAt(buf, i))
                 IN  <<Marker(p)>> \o from[i + Len(p)]
    IN  from[1]

Text(pieces) == FlattenSeq([i \in 1..Len(pieces) |-> pieces[i].text])

\* What follows the last marker.
AfterMarkers(pieces) ==
    Text(SubSeq(pieces, SelectLastInSeq(pieces, LAMBDA x : x.marker) + 1, Len(pieces)))

LastBytes(s, n) == SubSeq(s, Len(s) - n + 1, Len(s))

\* Mutant: a tail that is nothing but the start of a Pattern is not looked at.
PartialOfInside(tail) ==
    Max({0} \cup {n \in 1..Len(tail) - 1 :
                    \E p \in Patterns : IsStrictPrefix(LastBytes(tail, n), p)})

\* Mutant: the shortest such end instead of the longest.
PartialShortest(tail) ==
    LET ns == {n \in 1..Len(tail) :
                 \E p \in Patterns : IsStrictPrefix(LastBytes(tail, n), p)}
    IN  IF ns = {} THEN 0 ELSE Min(ns)

\* How much of the end of tail more bytes could complete to a Pattern.
PartialLen(tail) ==
    Max({0} \cup {n \in 1..Len(tail) :
                    \E p \in Patterns : IsStrictPrefix(LastBytes(tail, n), p)})

Scan(buf) ==
    LET pieces == Replaced(buf)
        hold   == PartialLen(AfterMarkers(pieces))
    IN  [out |-> SubSeq(pieces, 1, Len(pieces) - hold), rest |-> LastBytes(buf, hold)]

-----------------------------------------------------------------------------
(* The Writer. *)

\* dst.Write: all of it, or an error.
Deliver(pieces) ==
    IF broken
    THEN writeErr' = TRUE /\ UNCHANGED out
    ELSE out' = out \o pieces /\ UNCHANGED writeErr

\* Mutant: the timer is stopped, and armed again only if nothing was held.
WriteArmsOnce(p) ==
    LET scan == Scan(held \o p)
    IN  /\ copying /\ ~closed
        /\ Len(seen) + Len(p) <= MaxInput
        /\ seen' = seen \o p
        /\ IF scan.out # <<>> /\ broken
           THEN held' = <<>> /\ timer' = "nil" /\ copying' = FALSE
           ELSE /\ held' = scan.rest
                /\ timer' = IF scan.rest = <<>> \/ held # <<>> THEN "nil" ELSE "running"
                /\ UNCHANGED copying
        /\ IF scan.out = <<>> THEN UNCHANGED <<out, writeErr>> ELSE Deliver(scan.out)
        /\ UNCHANGED <<strays, waiting, closed, broken, cuts>>

\* Write(p).
Write(p) ==
    LET scan == Scan(held \o p)
    IN  /\ copying /\ ~closed
        /\ Len(seen) + Len(p) <= MaxInput
        /\ seen' = seen \o p
        /\ IF scan.out # <<>> /\ broken
           THEN held' = <<>> /\ timer' = "nil" /\ copying' = FALSE
           ELSE /\ held' = scan.rest
                /\ timer' = IF scan.rest = <<>> THEN "nil" ELSE "running"
                /\ UNCHANGED copying
        /\ IF scan.out = <<>> THEN UNCHANGED <<out, writeErr>> ELSE Deliver(scan.out)
        /\ UNCHANGED <<strays, waiting, closed, broken, cuts>>

\* The idle period of a timer ends: its goroutine starts, and waits for w.mu.
TimerFires ==
    /\ \/ timer = "running" /\ timer' = "fired" /\ UNCHANGED strays
       \/ strays > 0 /\ strays' = strays - 1 /\ UNCHANGED timer
    /\ waiting' = waiting + 1
    /\ UNCHANGED <<held, out, closed, writeErr, broken, copying, seen, cuts>>

Printed == Len(Text(out))

\* Mutant: what it prints stays held.
FlushKeepsHeld ==
    /\ waiting > 0
    /\ waiting' = waiting - 1
    /\ IF closed \/ held = <<>>
       THEN UNCHANGED <<timer, strays, out, writeErr, cuts>>
       ELSE /\ timer' = "nil"
            /\ strays' = strays + (IF timer = "running" THEN 1 ELSE 0)
            /\ Deliver(Raw(held))
            /\ cuts' = cuts \cup {Len(seen)}
    /\ UNCHANGED <<held, closed, broken, copying, seen>>

\* idleFlush, once it has w.mu: it may be a timer's that Write meant to stop.
IdleFlush ==
    /\ waiting > 0
    /\ waiting' = waiting - 1
    /\ IF closed \/ held = <<>>
       THEN UNCHANGED <<held, timer, strays, out, writeErr, cuts>>
       ELSE /\ held' = <<>>
            /\ timer' = "nil"
            /\ strays' = strays + (IF timer = "running" THEN 1 ELSE 0)
            /\ Deliver(Raw(held))
            /\ cuts' = cuts \cup {Len(seen)}
    /\ UNCHANGED <<closed, broken, copying, seen>>

\* Close: the child is gone and all it wrote has been handed over.
Close ==
    /\ ~closed
    /\ closed' = TRUE
    /\ timer' = (IF timer = "running" THEN "nil" ELSE timer)  \* timer.Stop
    /\ held' = <<>>
    /\ IF held = <<>> THEN UNCHANGED <<out, writeErr>> ELSE Deliver(Raw(held))
    /\ UNCHANGED <<strays, waiting, broken, copying, seen, cuts>>

\* The reader of dst goes away.
DstBreaks ==
    /\ ~broken
    /\ broken' = TRUE
    /\ UNCHANGED <<held, timer, strays, waiting, out, closed, writeErr, copying,
                   seen, cuts>>

Done == closed /\ waiting = 0 /\ strays = 0 /\ UNCHANGED writerVars

WriterNext ==
    \/ \E p \in Chunks : Write(p)
    \/ TimerFires
    \/ IdleFlush
    \/ Close
    \/ DstBreaks
    \/ Done

WriterSpec == WriterInit /\ [][WriterNext]_writerVars

\* Timers fire and a goroutine that waits for a mutex gets it; the child writes
\* and ends as it likes.
FairWriterSpec == WriterSpec /\ WF_writerVars(TimerFires) /\ WF_writerVars(IdleFlush)

-----------------------------------------------------------------------------
(* What the Writer promises. *)

\* With what is held: it may still become a Pattern, and a timer will release it.
WriterTypeOK ==
    /\ held \in Seq(Bytes) /\ seen \in Seq(Bytes)
    /\ timer \in {"nil", "running", "fired"}
    /\ strays \in Nat /\ waiting \in Nat /\ waiting + strays <= Len(seen)
    /\ \A i \in 1..Len(out) :
         /\ out[i].text \in Seq(Bytes)
         /\ IF out[i].marker THEN out[i].text \in Patterns ELSE Len(out[i].text) = 1
    /\ {closed, writeErr, broken, copying} \subseteq BOOLEAN
    /\ cuts \subseteq 1..Len(seen)
    /\ held # <<>> =>
         /\ \E p \in Patterns : IsStrictPrefix(held, p)
         /\ timer = "running" \/ (timer = "fired" /\ waiting > 0)

\* Every byte the child wrote is printed once and in its place, as itself or
\* under a marker; those that are not yet are the held ones, and if any are lost
\* Close reports an error (Write, idleFlush, Close).
NothingLost ==
    /\ IsPrefix(Text(out), seen)
    /\ ~writeErr => Text(out) \o held = seen

\* No Secret is printed byte by byte, however it is split across Writes and
\* wherever other Patterns overlap it, unless idleFlush ran in the middle of it
\* (scan, partialLen).
SecretNeverPrinted ==
    \A i \in 1..Len(out) : \A p \in Patterns :
        \/ i + Len(p) - 1 > Len(out)
        \/ Text(SubSeq(out, i, i + Len(p) - 1)) # p
        \/ \E j \in i..i + Len(p) - 1 : out[j].marker
        \/ LET start == Len(Text(SubSeq(out, 1, i - 1)))
           IN  cuts \cap (start + 1..start + Len(p) - 1) # {}

\* Where no Pattern contains another, what is printed and what is held do not
\* depend on how the child's output was cut into Writes (Write's held \o p).
NestFree ==
    \A p, q \in Patterns : p = q \/ \A i \in 1..Len(q) : p \notin OccurAt(q, i)
ChunksDoNotMatter ==
    (NestFree /\ cuts = {} /\ ~writeErr /\ ~closed) =>
        out = Scan(seen).out /\ held = Scan(seen).rest

\* What the child has written gets printed although it never writes again
\* (time.AfterFunc in Write).
EverythingPrinted ==
    \A n \in 1..MaxInput : Len(seen) = n ~> Printed >= n \/ writeErr
=============================================================================
