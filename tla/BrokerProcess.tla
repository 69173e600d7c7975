--------------------------- MODULE BrokerProcess ---------------------------
(***************************************************************************)
(* The Broker of broker/process_unix.go: the processes that hold the       *)
(* unlock key (Serve) and the cpass commands that start, stop and ask them *)
(* through the one socket path they all share (StartBroker, StopBroker,    *)
(* RequestKey).                                                            *)
(*                                                                         *)
(* A socket file is the Broker that bound it: unlinking or overwriting the *)
(* file leaves that Broker listening where nobody can reach it.  A Broker  *)
(* holds the key of the unlock that started it, so the Broker stands for   *)
(* its key.                                                                *)
(***************************************************************************)
EXTENDS Sequences, Naturals

CONSTANTS
    Clients,    \* cpass commands, and other programs of the same user
    Brokers,    \* the Broker processes one behaviour may start
    Commands,   \* which of "unlock", "lock", "resolve" and "hold" each of them runs
    Backlog,    \* bound: connections the kernel queues for one listener
    None        \* nobody

AllCommands == {"unlock", "lock", "resolve", "hold"}

ASSUME BacklogIsPositive == Backlog \in Nat \ {0}
ASSUME KnownCommands == Commands \in [Clients -> SUBSET AllCommands]
ASSUME NoneIsNobody == None \notin Clients \cup Brokers \cup AllCommands

VARIABLES
    path,       \* the Broker whose socket file SocketPath names
    broker,     \* how far each Broker process has come
    queue,      \* the connections each Broker's listener has not closed yet
    pc,         \* how far each client has come
    cmd,        \* the command it runs
    reply,      \* the Broker that answered it
    told        \* history: the Brokers, still running, that have acknowledged a LOCK

net == <<path, broker, queue>>
client == <<pc, cmd, reply>>
vars == <<net, client, told>>

BrokerPlaces == {"unborn", "clear", "bind", "chmod", "accept", "serve", "close", "remove",
                 "exited"}

\* by is None once the client has closed its end.
Conn == [by : Clients \cup {None}, line : {"", "RESOLVE", "LOCK"}]

TypeOK ==
    /\ path \in Brokers \cup {None}
    /\ broker \in [Brokers -> BrokerPlaces]
    /\ queue \in [Brokers -> Seq(Conn)]
    /\ \A b \in Brokers : /\ Len(queue[b]) <= Backlog
                          /\ broker[b] = "serve" => queue[b] # <<>>
    /\ pc \in [Clients -> {"idle", "dial", "write", "read", "remove", "spawn", "probe"}]
    /\ cmd \in [Clients -> AllCommands \cup {None}]
    /\ \A c \in Clients : pc[c] = "idle" <=> cmd[c] = None
    /\ reply \in [Clients -> Brokers \cup {None}]
    /\ told \subseteq Brokers

Init ==
    /\ path = None
    /\ broker = [b \in Brokers |-> "unborn"]
    /\ queue = [b \in Brokers |-> <<>>]
    /\ pc = [c \in Clients |-> "idle"]
    /\ cmd = [c \in Clients |-> None]
    /\ reply = [c \in Clients |-> None]
    /\ told = {}

\* bind and listen are done and the listener is not closed yet.
Listening(b) == broker[b] \in {"chmod", "accept", "serve", "close"}

HoldsKey(b) == broker[b] \notin {"unborn", "exited"}

\* A connect to SocketPath would succeed.
CanDial == path # None /\ Listening(path) /\ Len(queue[path]) < Backlog

Connect(conn) == queue' = [queue EXCEPT ![path] = Append(@, conn)]

Connected(c) == \E b \in Brokers : \E i \in DOMAIN queue[b] : queue[b][i].by = c

\* c's connection now has this client at its end and this line written to it.
Becomes(c, by, line) ==
    queue' = [b \in Brokers |->
                 [i \in DOMAIN queue[b] |->
                     IF queue[b][i].by = c THEN [by |-> by, line |-> line] ELSE queue[b][i]]]

\* c closes its connection.  A LOCK it wrote stays to be read; the answer to a
\* RESOLVE has nobody to go to any more.
Hangup(c) ==
    Becomes(c, None, IF pc[c] = "read" /\ cmd[c] # "resolve" THEN "LOCK" ELSE "")

-----------------------------------------------------------------------------
Goto(c, place) == pc' = [pc EXCEPT ![c] = place]

\* c's command is over.
End(c) ==
    /\ Goto(c, "idle")
    /\ cmd' = [cmd EXCEPT ![c] = None]
    /\ reply' = [reply EXCEPT ![c] = None]

Continue(c, place) ==
    /\ Goto(c, place)
    /\ UNCHANGED <<cmd, reply>>

\* A command starts.  "hold" is another program of the same user: it connects
\* and says nothing.
Begin(c) ==
    /\ pc[c] = "idle"
    /\ \E k \in Commands[c] :
          /\ k = "unlock" => \E b \in Brokers : broker[b] = "unborn"
          /\ cmd' = [cmd EXCEPT ![c] = k]
    /\ Goto(c, "dial")
    /\ UNCHANGED <<net, told, reply>>

Dial(c) ==
    /\ pc[c] = "dial"
    /\ CanDial
    /\ Connect([by |-> c, line |-> ""])
    /\ Continue(c, "write")
    /\ UNCHANGED <<path, broker, told>>

\* Nothing listens.  StopBroker takes the socket file for a stale one.
DialFails(c) ==
    /\ pc[c] = "dial"
    /\ ~CanDial
    /\ IF cmd[c] \in {"lock", "unlock"}
       THEN Continue(c, "remove")
       ELSE End(c)
    /\ UNCHANGED <<net, told>>

\* What StopBroker returns to: cmdLock, or StartBroker.
StopReturns(c) ==
    IF cmd[c] = "lock" THEN End(c) ELSE Continue(c, "spawn")

\* StopBroker's os.Remove, of whatever is at the path by now.
RemoveStale(c) ==
    /\ pc[c] = "remove"
    /\ path' = None
    /\ StopReturns(c)
    /\ UNCHANGED <<broker, queue, told>>

Request(c) ==
    /\ pc[c] = "write"
    /\ cmd[c] # "hold"
    /\ Connected(c)
    /\ Becomes(c, c, IF cmd[c] = "resolve" THEN "RESOLVE" ELSE "LOCK")
    /\ Continue(c, "read")
    /\ UNCHANGED <<path, broker, told>>

Answered(c) ==
    /\ pc[c] = "read"
    /\ reply[c] # None
    /\ IF cmd[c] = "resolve" THEN End(c) ELSE StopReturns(c)
    /\ UNCHANGED <<net, told>>

\* The Broker hung up, or dialTimeout ran out: RequestKey reports ErrLocked,
\* StopBroker does not mind.
GivesUp(c) ==
    /\ pc[c] \in {"write", "read"}
    /\ reply[c] = None
    /\ IF cmd[c] \in {"resolve", "hold"} THEN End(c) ELSE StopReturns(c)
    /\ Hangup(c)
    /\ UNCHANGED <<path, broker, told>>

\* Which process it gets makes no difference.
NewBroker == CHOOSE b \in Brokers : broker[b] = "unborn"

\* StartBroker: the child runs, and the key is in its pipe.
Spawn(c) ==
    /\ pc[c] = "spawn"
    /\ \E b \in Brokers : broker[b] = "unborn"
    /\ broker' = [broker EXCEPT ![NewBroker] = "clear"]
    /\ Continue(c, "probe")
    /\ UNCHANGED <<path, queue, told>>

\* It cannot start, or the pipe breaks.
SpawnFails(c) ==
    /\ pc[c] = "spawn"
    /\ End(c)
    /\ UNCHANGED <<net, told>>

\* StartBroker's probe connects, to whoever listens at the path, and hangs up.
Probe(c) ==
    /\ pc[c] = "probe"
    /\ CanDial
    /\ Connect([by |-> None, line |-> ""])
    /\ End(c)
    /\ UNCHANGED <<path, broker, told>>

\* Mutant: StartBroker polls until somebody listens.
ProbeForever(c) == pc[c] = "probe" /\ ~CanDial /\ UNCHANGED vars

\* dialTimeout runs out with nobody listening.
ProbeTimesOut(c) ==
    /\ pc[c] = "probe"
    /\ ~CanDial
    /\ End(c)
    /\ UNCHANGED <<net, told>>

CrashClient(c) ==
    /\ pc[c] # "idle"
    /\ End(c)
    /\ Hangup(c)
    /\ UNCHANGED <<path, broker, told>>

-----------------------------------------------------------------------------
Now(b, place) == broker' = [broker EXCEPT ![b] = place]

\* Serve's os.Remove of a stale socket.
Clear(b) ==
    /\ broker[b] = "clear"
    /\ path' = None
    /\ Now(b, "bind")
    /\ UNCHANGED <<queue, client, told>>

Bind(b) ==
    /\ broker[b] = "bind"
    /\ path = None
    /\ path' = b
    /\ Now(b, "chmod")
    /\ UNCHANGED <<queue, client, told>>

\* Another Broker bound the path since Clear.
BindFails(b) ==
    /\ broker[b] = "bind"
    /\ path # None
    /\ Now(b, "exited")
    /\ UNCHANGED <<path, queue, client, told>>

\* os.Chmod fails if the socket file is gone.
Chmod(b) ==
    /\ broker[b] = "chmod"
    /\ Now(b, IF path = None THEN "close" ELSE "accept")
    /\ UNCHANGED <<path, queue, client, told>>

Accept(b) ==
    /\ broker[b] = "accept"
    /\ queue[b] # <<>>
    /\ Now(b, "serve")
    /\ UNCHANGED <<path, queue, client, told>>

\* Mutant: the listener has no deadline.
NoIdleTimeout(b) == broker[b] = "accept" /\ queue[b] = <<>> /\ UNCHANGED vars

\* The deadline of the last Accept passes, perhaps as a client dials.
IdleTimeout(b) ==
    /\ broker[b] = "accept"
    /\ Now(b, "close")
    /\ UNCHANGED <<path, queue, client, told>>

\* Connections are answered one at a time.
Served(b) == Head(queue[b])

Serving(b, line) == broker[b] = "serve" /\ Served(b).line = line

\* The connection is closed, after a reply if its client still reads one.
Finish(b, answers) ==
    /\ queue' = [queue EXCEPT ![b] = Tail(@)]
    /\ reply' = IF answers /\ Served(b).by # None
                THEN [reply EXCEPT ![Served(b).by] = b] ELSE reply
    /\ UNCHANGED <<path, pc, cmd>>

ServeResolve(b) ==
    /\ Serving(b, "RESOLVE")
    /\ Finish(b, TRUE)
    /\ Now(b, "accept")
    /\ UNCHANGED told

\* Mutant: serveConn acknowledges LOCK without telling Serve to stop.
ServeLockGoesOn(b) ==
    /\ Serving(b, "LOCK")
    /\ Finish(b, TRUE)
    /\ told' = told \cup {b}
    /\ Now(b, "accept")

ServeLock(b) ==
    /\ Serving(b, "LOCK")
    /\ Finish(b, TRUE)
    /\ told' = told \cup {b}
    /\ Now(b, "close")

\* Mutant: serveConn sets no deadline on the connection.
ServeWaits(b) ==
    /\ Serving(b, "")
    /\ Served(b).by = None
    /\ Finish(b, FALSE)
    /\ Now(b, "accept")
    /\ UNCHANGED told

\* The client hung up without a word, or kept silent for five seconds.
ServeDrops(b) ==
    /\ Serving(b, "")
    /\ Finish(b, FALSE)
    /\ Now(b, "accept")
    /\ UNCHANGED told

\* l.Close: Go unlinks the path a listener was bound to, whoever owns the
\* file there by now, and closes the listener with all it has queued.
Close(b) ==
    /\ broker[b] = "close"
    /\ path' = None
    /\ queue' = [queue EXCEPT ![b] = <<>>]
    /\ Now(b, "remove")
    /\ UNCHANGED <<client, told>>

\* ... and Serve removes the path once more.
RemoveOwn(b) ==
    /\ broker[b] = "remove"
    /\ path' = None
    /\ Now(b, "exited")
    /\ told' = told \ {b}
    /\ UNCHANGED <<queue, client>>

\* kill -9: the socket file stays.
KillBroker(b) ==
    /\ HoldsKey(b)
    /\ Now(b, "exited")
    /\ queue' = [queue EXCEPT ![b] = <<>>]
    /\ told' = told \ {b}
    /\ UNCHANGED <<path, client>>

-----------------------------------------------------------------------------
ClientStep(c) ==
    \/ Dial(c) \/ DialFails(c) \/ RemoveStale(c)
    \/ Request(c) \/ Answered(c) \/ GivesUp(c)
    \/ Spawn(c) \/ SpawnFails(c) \/ Probe(c) \/ ProbeTimesOut(c)

BrokerStep(b) ==
    \/ Clear(b) \/ Bind(b) \/ BindFails(b) \/ Chmod(b)
    \/ Accept(b) \/ IdleTimeout(b)
    \/ ServeResolve(b) \/ ServeLock(b) \/ ServeDrops(b)
    \/ Close(b) \/ RemoveOwn(b)

Next ==
    \/ \E c \in Clients : Begin(c) \/ ClientStep(c) \/ CrashClient(c)
    \/ \E b \in Brokers : BrokerStep(b) \/ KillBroker(b)

Spec == Init /\ [][Next]_vars

\* Scheduled processes run, and their timeouts fire.  Nothing makes a silent
\* program say anything.
FairSpec ==
    /\ Spec
    /\ \A c \in Clients : WF_vars(cmd[c] # "hold" /\ ClientStep(c))
    /\ \A b \in Brokers : WF_vars(BrokerStep(b))
-----------------------------------------------------------------------------
\* A Broker that acknowledged a LOCK never hands out its key any more, to whatever
\* is still queued when it stops (serveConn, Serve).
LockedStaysLocked ==
    [][\A c \in Clients : cmd[c] = "resolve" /\ reply'[c] # reply[c]
                             => reply'[c] \notin told]_vars

Orphaned(b) == broker[b] \in {"accept", "serve"} /\ path # b

ToldToLock(b) == \E i \in DOMAIN queue[b] : queue[b][i].line = "LOCK"

\* A Broker drops its key in the end once nothing at the path leads to it any more
\* (Serve's comment on the idle timeout), and once a LOCK was written to it, even
\* if StopBroker stopped waiting for the acknowledgement behind a connection that
\* says nothing.
KeyIsDropped == \A b \in Brokers : (Orphaned(b) \/ ToldToLock(b)) ~> ~HoldsKey(b)

\* unlock, lock and a request for the key always return, whatever becomes of
\* the Broker they talk to.
CommandReturns ==
    \A c \in Clients : (pc[c] # "idle" /\ cmd[c] # "hold") ~> pc[c] = "idle"
=============================================================================
