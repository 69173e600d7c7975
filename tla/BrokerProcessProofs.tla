------------------------- MODULE BrokerProcessProofs -------------------------
(***************************************************************************)
(* Theorems about BrokerProcess, for any number of clients and Brokers,    *)
(* any commands and any backlog.                                           *)
(***************************************************************************)
EXTENDS BrokerProcess, SequenceTheorems, TLAPS

\* A listener's queue, as TypeOK has it.
Queued(q, place) ==
    /\ q \in Seq(Conn)
    /\ Len(q) <= Backlog
    /\ place = "serve" => q # <<>>

ClientsOK(p, k, r) ==
    /\ p \in [Clients -> {"idle", "dial", "write", "read", "remove", "spawn", "probe"}]
    /\ k \in [Clients -> AllCommands \cup {None}]
    /\ \A c \in Clients : p[c] = "idle" <=> k[c] = None
    /\ r \in [Clients -> Brokers \cup {None}]

BrokersOK(w, s, q) ==
    /\ w \in Brokers \cup {None}
    /\ s \in [Brokers -> BrokerPlaces]
    /\ q \in [Brokers -> Seq(Conn)]
    /\ \A b \in Brokers : Queued(q[b], s[b])

\* TypeOK is about clients, Brokers and those that were told to lock.
LEMMA TypeParts ==
    TypeOK <=> ClientsOK(pc, cmd, reply) /\ BrokersOK(path, broker, queue) /\ told \subseteq Brokers
<1>1. TypeOK => ClientsOK(pc, cmd, reply) /\ told \subseteq Brokers
  BY DEF TypeOK, ClientsOK
<1>2. TypeOK => BrokersOK(path, broker, queue)
  BY DEF TypeOK, BrokersOK, Queued
<1>3. ClientsOK(pc, cmd, reply) /\ BrokersOK(path, broker, queue) /\ told \subseteq Brokers
        => TypeOK
  BY DEF TypeOK, ClientsOK, BrokersOK, Queued
<1> QED BY <1>1, <1>2, <1>3

\* A sequence is as long as its domain says.
LEMMA SameRange ==
    ASSUME NEW m \in Nat, NEW n \in Nat, 1 .. m = 1 .. n
    PROVE  m = n
<1>1. m # 0 => m \in 1 .. n
  OBVIOUS
<1>2. n # 0 => n \in 1 .. m
  OBVIOUS
<1> QED BY <1>1, <1>2

\* A client that writes or hangs up changes what is queued, never how much.
LEMMA BecomesSafe ==
    ASSUME NEW c \in Clients, NEW by \in Clients \cup {None},
           NEW line \in {"", "RESOLVE", "LOCK"},
           BrokersOK(path, broker, queue), Becomes(c, by, line)
    PROVE  BrokersOK(path, broker, queue')
<1> DEFINE f(b) == [i \in DOMAIN queue[b] |->
                       IF queue[b][i].by = c THEN [by |-> by, line |-> line] ELSE queue[b][i]]
<1>1. ASSUME NEW b \in Brokers PROVE Queued(f(b), broker[b]) /\ f(b) \in Seq(Conn)
  <2>1. queue[b] \in Seq(Conn) /\ Queued(queue[b], broker[b])
    BY DEF BrokersOK
  <2>2. DOMAIN queue[b] = 1 .. Len(queue[b]) /\ Len(queue[b]) \in Nat
    BY <2>1, LenProperties
  <2>3. [by |-> by, line |-> line] \in Conn
    BY DEF Conn
  <2>4. \A i \in 1 .. Len(queue[b]) : queue[b][i] \in Conn
    BY <2>1, ElementOfSeq
  <2>5. f(b) \in [1 .. Len(queue[b]) -> Conn]
    BY <2>2, <2>3, <2>4
  <2>6. f(b) \in Seq(Conn) /\ Len(f(b)) = Len(queue[b])
    <3>1. f(b) \in Seq(Conn)
      BY <2>2, <2>5, SeqDef
    <3>2. DOMAIN f(b) = 1 .. Len(queue[b])
      BY <2>5
    <3>3. DOMAIN f(b) = 1 .. Len(f(b)) /\ Len(f(b)) \in Nat
      BY <3>1, LenProperties
    <3>4. Len(f(b)) = Len(queue[b])
      BY <2>2, <3>2, <3>3, SameRange
    <3> QED BY <3>1, <3>4
  <2>7. queue[b] # <<>> => f(b) # <<>>
    BY <2>1, <2>6, EmptySeq
  <2> QED BY <2>1, <2>6, <2>7 DEF Queued
<1>2. queue' = [b \in Brokers |-> f(b)]
  BY DEF Becomes
<1> QED BY <1>1, <1>2 DEF BrokersOK

\* So does a client that connects, while there is room.
LEMMA ConnectSafe ==
    ASSUME NEW conn \in Conn, BrokersOK(path, broker, queue), CanDial, Connect(conn)
    PROVE  BrokersOK(path, broker, queue')
<1>1. path \in Brokers /\ queue[path] \in Seq(Conn) /\ Len(queue[path]) < Backlog
  BY DEF CanDial, BrokersOK
<1>2. /\ Append(queue[path], conn) \in Seq(Conn)
      /\ Len(Append(queue[path], conn)) = Len(queue[path]) + 1
      /\ Append(queue[path], conn) # <<>>
  BY <1>1
<1>3. Len(Append(queue[path], conn)) <= Backlog
  BY <1>1, <1>2, BacklogIsPositive
<1> QED BY <1>2, <1>3 DEF Connect, BrokersOK, Queued

LEMMA HangupSafe ==
    ASSUME NEW c \in Clients, BrokersOK(path, broker, queue), Hangup(c)
    PROVE  BrokersOK(path, broker, queue')
BY BecomesSafe DEF Hangup

\* A command that ends or goes on leaves the clients well typed.
LEMMA ClientSafe ==
    ASSUME NEW c \in Clients, ClientsOK(pc, cmd, reply), pc[c] # "idle",
           \/ End(c)
           \/ \E place \in {"dial", "write", "read", "remove", "spawn", "probe"} : Continue(c, place)
    PROVE  ClientsOK(pc', cmd', reply')
BY DEF ClientsOK, End, Continue, Goto

\* A Broker that closes a connection.
LEMMA FinishSafe ==
    ASSUME NEW b \in Brokers, NEW answers \in BOOLEAN, TypeOK, broker[b] = "serve",
           Finish(b, answers),
           \E place \in {"accept", "close"} : Now(b, place)
    PROVE  ClientsOK(pc', cmd', reply') /\ BrokersOK(path', broker', queue')
<1>1. queue[b] \in Seq(Conn) /\ queue[b] # <<>> /\ Len(queue[b]) <= Backlog
  BY DEF TypeOK
<1>2. Tail(queue[b]) \in Seq(Conn) /\ Len(Tail(queue[b])) <= Backlog
  BY <1>1, HeadTailProperties, BacklogIsPositive
<1>4. ClientsOK(pc', cmd', reply')
  BY DEF TypeOK, ClientsOK, Finish
<1>5. BrokersOK(path', broker', queue')
  BY <1>2 DEF TypeOK, BrokersOK, Queued, Finish, Now, BrokerPlaces
<1> QED BY <1>4, <1>5

-----------------------------------------------------------------------------
\* The type invariant of BrokerProcess: no queue outgrows the backlog, and a Broker
\* that serves has a connection to serve.
THEOREM TypeCorrect == Spec => []TypeOK
<1>1. Init => TypeOK
  BY BacklogIsPositive DEF Init, TypeOK, BrokerPlaces
<1>2. TypeOK /\ [Next]_vars => TypeOK'
  <2> SUFFICES ASSUME TypeOK, [Next]_vars PROVE TypeOK'
    OBVIOUS
  <2> DEFINE C == ClientsOK(pc, cmd, reply)
             B == BrokersOK(path, broker, queue)
  <2>0. C /\ B /\ told \subseteq Brokers
    BY TypeParts
  <2> SUFFICES C' /\ B' /\ told' \subseteq Brokers
    <3>1. C' /\ B' /\ told' \subseteq Brokers => TypeOK'
      BY DEF TypeOK, ClientsOK, BrokersOK, Queued
    <3> QED BY <3>1
  <2>1. CASE UNCHANGED vars
    BY <2>0, <2>1 DEF vars, net, client
  <2>2. ASSUME NEW c \in Clients, Begin(c) PROVE C' /\ B' /\ told' \subseteq Brokers
    <3>1. PICK k \in Commands[c] : cmd' = [cmd EXCEPT ![c] = k]
      BY <2>2 DEF Begin
    <3>2. k \in AllCommands /\ k # None
      BY KnownCommands, NoneIsNobody
    <3>3. C'
      BY <2>0, <2>2, <3>1, <3>2 DEF Begin, Goto, ClientsOK
    <3> QED BY <2>0, <2>2, <3>3 DEF Begin, net
  <2>3. ASSUME NEW c \in Clients, ClientStep(c) \/ CrashClient(c)
        PROVE  C' /\ B' /\ told' \subseteq Brokers
    <3>1. CASE Dial(c) \/ Probe(c)
      <4>1. [by |-> c, line |-> ""] \in Conn /\ [by |-> None, line |-> ""] \in Conn
        BY DEF Conn
      <4> QED BY <2>0, <3>1, <4>1, ConnectSafe, ClientSafe DEF Dial, Probe
    <3>2. CASE Request(c)
      BY <2>0, <3>2, BecomesSafe, ClientSafe DEF Request
    <3>3. CASE GivesUp(c) \/ CrashClient(c)
      BY <2>0, <3>3, HangupSafe, ClientSafe DEF GivesUp, CrashClient, StopReturns
    <3>4. CASE DialFails(c) \/ Answered(c) \/ SpawnFails(c) \/ ProbeTimesOut(c)
      BY <2>0, <3>4, ClientSafe DEF DialFails, Answered, SpawnFails, ProbeTimesOut, StopReturns, net
    <3>5. CASE RemoveStale(c)
      BY <2>0, <3>5, ClientSafe DEF RemoveStale, StopReturns, BrokersOK
    <3>6. CASE Spawn(c)
      <4> QED BY <2>0, <3>6, ClientSafe DEF Spawn, BrokersOK, Queued, BrokerPlaces
    <3> QED BY <2>3, <3>1, <3>2, <3>3, <3>4, <3>5, <3>6 DEF ClientStep
  <2>4. ASSUME NEW b \in Brokers, BrokerStep(b) \/ KillBroker(b)
        PROVE  C' /\ B' /\ told' \subseteq Brokers
    <3>1. CASE Clear(b) \/ Bind(b) \/ BindFails(b) \/ Chmod(b) \/ Accept(b) \/ IdleTimeout(b)
      BY <2>0, <3>1 DEF Clear, Bind, BindFails, Chmod, Accept, IdleTimeout, Now, client,
                        BrokersOK, Queued, BrokerPlaces
    <3>2. CASE ServeResolve(b) \/ ServeLock(b) \/ ServeDrops(b)
      BY <2>0, <3>2, FinishSafe DEF ServeResolve, ServeLock, ServeDrops, Serving
    <3>3. CASE Close(b) \/ RemoveOwn(b) \/ KillBroker(b)
      <4>1. \A place : place # "serve" => Queued(<<>>, place)
        BY BacklogIsPositive, EmptySeq DEF Queued
      <4>2. <<>> \in Seq(Conn)
        OBVIOUS
      <4>3. CASE Close(b) \/ KillBroker(b)
        BY <2>0, <4>1, <4>2, <4>3, ZenonT(40) DEF Close, KillBroker, Now, client, BrokersOK, BrokerPlaces
      <4>4. CASE RemoveOwn(b)
        BY <2>0, <4>4 DEF RemoveOwn, Now, client, BrokersOK, Queued, BrokerPlaces
      <4> QED BY <3>3, <4>3, <4>4
    <3> QED BY <2>4, <3>1, <3>2, <3>3 DEF BrokerStep
  <2> QED BY <2>1, <2>2, <2>3, <2>4 DEF Next
<1> QED BY <1>1, <1>2, PTL DEF Spec

-----------------------------------------------------------------------------
\* A Broker that acknowledged a LOCK is on its way out until it has exited.
ToldStops == \A b \in told : broker[b] \in {"close", "remove"}

\* LockedStaysLocked in every behaviour: serveConn's stop leaves Serve's loop at
\* once, so no queued request is ever answered with a key that was locked away.
THEOREM LockedForGood == Spec => LockedStaysLocked
<1>1. Init => ToldStops
  BY DEF Init, ToldStops
<1>2. TypeOK /\ ToldStops /\ [Next]_vars => ToldStops'
  <2> SUFFICES ASSUME TypeOK, ToldStops, [Next]_vars PROVE ToldStops'
    OBVIOUS
  <2>1. CASE UNCHANGED vars
    BY <2>1 DEF vars, net, ToldStops
  <2>2. ASSUME NEW c \in Clients, Begin(c) \/ ClientStep(c) \/ CrashClient(c) PROVE ToldStops'
    <3>1. CASE Spawn(c)
      <4>1. NewBroker \in Brokers /\ broker[NewBroker] = "unborn"
        BY <3>1 DEF Spawn, NewBroker
      <4> QED BY <3>1, <4>1 DEF Spawn, ToldStops
    <3>2. CASE ~Spawn(c)
      BY <2>2, <3>2 DEF ToldStops, Begin, ClientStep, CrashClient, Dial, DialFails, RemoveStale,
                        Request, Answered, GivesUp, SpawnFails, Probe, ProbeTimesOut, net
    <3> QED BY <3>1, <3>2
  <2>3. ASSUME NEW b \in Brokers, BrokerStep(b) \/ KillBroker(b) PROVE ToldStops'
    BY <2>3, ZenonT(40) DEF ToldStops, TypeOK, BrokerStep, KillBroker, Clear, Bind, BindFails, Chmod, Accept,
                IdleTimeout, ServeResolve, ServeLock, ServeDrops, Serving, Close, RemoveOwn, Now
  <2> QED BY <2>1, <2>2, <2>3 DEF Next
<1>3. TypeOK /\ ToldStops /\ [Next]_vars =>
        [\A c \in Clients : cmd[c] = "resolve" /\ reply'[c] # reply[c]
                               => reply'[c] \notin told]_vars
  <2> SUFFICES ASSUME TypeOK, ToldStops, Next,
                      NEW c \in Clients, cmd[c] = "resolve", reply'[c] # reply[c]
               PROVE  reply'[c] \notin told
    OBVIOUS
  <2>1. None \notin told
    BY NoneIsNobody DEF TypeOK
  <2>2. ASSUME NEW d \in Clients, Begin(d) \/ ClientStep(d) \/ CrashClient(d)
        PROVE  reply'[c] = None
    BY <2>2 DEF TypeOK, Begin, ClientStep, CrashClient, Dial, DialFails, RemoveStale,
           Request, Answered, GivesUp, Spawn, SpawnFails, Probe, ProbeTimesOut, End,
           Continue, StopReturns
  <2>3. ASSUME NEW b \in Brokers, BrokerStep(b) \/ KillBroker(b)
        PROVE  reply'[c] = b /\ broker[b] = "serve"
    BY <2>3 DEF TypeOK, BrokerStep, KillBroker, Clear, Bind, BindFails, Chmod, Accept, IdleTimeout,
                ServeResolve, ServeLock, ServeDrops, Serving, Finish, Close, RemoveOwn, client
  <2> QED BY <2>1, <2>2, <2>3 DEF Next, ToldStops
<1> QED BY <1>1, <1>2, <1>3, TypeCorrect, PTL DEF Spec, LockedStaysLocked
=============================================================================
