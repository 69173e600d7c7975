--------------------------- MODULE KeyCacheProofs ---------------------------
(***************************************************************************)
(* Proofs of KeyCache's safety for any number of calls and keys, and any   *)
(* idle period and deadline.                                               *)
(***************************************************************************)
EXTENDS KeyCache, TLAPS

\* mu is held from a miss to the end of its derivation.
MutexHeld == \A c \in Calls : pc[c] \in {"deriving", "answered"} <=> mutex = c

\* The cache's slice is one that a call derived; no call works with it.
SlicesApart ==
    /\ key # None => \E c \in Calls : key = Derived(c)
    /\ \A c \in Calls : pc[c] \in {"using", "open"} => mine[c] = Copy(c)

\* The cache's slice is whole while nobody derives a new key, and it alone holds
\* a key of those that were derived.
SlicesWhole ==
    /\ key # None /\ mutex = None => heap[key] \in Keys
    /\ \A c \in Calls :
         /\ pc[c] = "using" => heap[Copy(c)] \in Keys
         /\ pc[c] = "open" => heap[Own(c)] \in Keys
         /\ heap[Derived(c)] # Zeroed => key = Derived(c) /\ mutex = None

\* What the Broker answered it held when the derivation began or later, and what
\* is cached it held MaxDelay before at or later.
FreshEnough ==
    /\ source \in Keys => since[source] = 0
    /\ key = None \/ mutex # None => age >= Idle
    /\ \A c \in Calls : pc[c] = "answered" /\ answer # Locked => since[answer] <= delay
    /\ Usable => since[heap[key]] <= age + MaxDelay

IInv == TypeOK /\ MutexHeld /\ SlicesApart /\ SlicesWhole /\ FreshEnough
-----------------------------------------------------------------------------
LEMMA BuffersDiffer ==
    ASSUME NEW c \in Calls, NEW d \in Calls
    PROVE  /\ Derived(c) # Copy(d) /\ Derived(c) # Own(d) /\ Copy(c) # Own(d)
           /\ Derived(c) = Derived(d) => c = d
           /\ Copy(c) = Copy(d) => c = d
           /\ Own(c) = Own(d) => c = d
           /\ {Derived(c), Copy(c), Own(c)} \subseteq Buffer
           /\ None \notin {Derived(c), Copy(c), Own(c)} /\ None \notin Calls
BY KeyCacheAssumption DEF Derived, Copy, Own, Buffer

LEMMA Constants == Idle \in Nat \ {0} /\ MaxDelay \in Nat /\ Old = Idle + MaxDelay
BY KeyCacheAssumption DEF Old

LEMMA InitIInv == Init => IInv
<1> SUFFICES ASSUME Init PROVE IInv
    OBVIOUS
<1>1. TypeOK
    BY Constants DEF Init, TypeOK
<1>2. MutexHeld /\ SlicesApart
    BY BuffersDiffer DEF Init, MutexHeld, SlicesApart
<1>3. SlicesWhole
    BY BuffersDiffer DEF Init, SlicesWhole
<1>4. FreshEnough
    BY Constants DEF Init, FreshEnough, Usable
<1> QED BY <1>1, <1>2, <1>3, <1>4 DEF IInv

LEMMA TickIInv == IInv /\ Tick => IInv'
<1> SUFFICES ASSUME IInv, Tick PROVE IInv'
    OBVIOUS
<1>1. /\ delay \in 0..MaxDelay /\ age \in 0..Idle /\ since \in [Keys -> 0..Old]
      /\ UNCHANGED <<source, heap, key, mutex, answer, pc, mine>>
    BY DEF IInv, TypeOK, Tick, source_
<1>2. TypeOK'
    <2>1. delay' \in 0..MaxDelay
        BY <1>1, Constants DEF Tick
    <2>2. age' \in 0..Idle
        BY <1>1, Constants DEF Tick
    <2>3. since' \in [Keys -> 0..Old]
        BY <1>1, Constants DEF Tick
    <2> QED BY <2>1, <2>2, <2>3 DEF IInv, TypeOK, Tick, source_
<1>3. (MutexHeld /\ SlicesApart /\ SlicesWhole)'
    BY <1>1 DEF IInv, MutexHeld, SlicesApart, SlicesWhole
<1>4. \A k \in Keys : since'[k] <= since[k] + 1 /\ (k = source => since'[k] = 0)
    BY <1>1, Constants DEF Tick
<1>5. FreshEnough'
    <2>1. (source \in Keys => since[source] = 0)'
        BY <1>1, <1>4
    <2>2. (key = None \/ mutex # None => age >= Idle)'
        BY <1>1, Constants DEF Tick, IInv, FreshEnough
    <2>3. ASSUME NEW c \in Calls, pc[c] = "answered", answer # Locked
          PROVE  since'[answer] <= delay'
        <3>1. answer \in Keys /\ since[answer] <= delay /\ mutex # None
            BY <2>3, BuffersDiffer DEF IInv, TypeOK, FreshEnough, MutexHeld
        <3>2. delay' = delay + 1
            BY <3>1 DEF Tick, Deriving
        <3>3. since[answer] \in Nat /\ since'[answer] \in Nat
            BY <1>1, <1>2, <3>1, Constants DEF TypeOK
        <3> QED BY <1>1, <1>4, <3>1, <3>2, <3>3
    <2>4. ASSUME Usable' PROVE since'[heap[key]] <= age' + MaxDelay
        <3>1. key # None /\ age < Idle /\ age' = age + 1
            BY <1>1, <2>4, Constants DEF Usable, Tick
        <3>2. mutex = None
            BY <1>1, <3>1, Constants DEF IInv, FreshEnough
        <3>3. heap[key] \in Keys /\ since[heap[key]] <= age + MaxDelay
            BY <3>1, <3>2 DEF IInv, SlicesWhole, FreshEnough, Usable
        <3>4. since[heap[key]] \in Nat /\ since'[heap[key]] \in Nat
            BY <1>1, <1>2, <3>3, Constants DEF TypeOK
        <3> QED BY <1>1, <1>4, <3>1, <3>3, <3>4, Constants
    <2> QED BY <1>1, <2>1, <2>2, <2>3, <2>4 DEF FreshEnough
<1> QED BY <1>2, <1>3, <1>5 DEF IInv

LEMMA LockIInv == IInv /\ (Lock \/ Rewrap) => IInv'
<1> SUFFICES ASSUME IInv, Lock \/ Rewrap PROVE IInv'
    OBVIOUS
<1>1. /\ UNCHANGED <<since, heap, key, age, mutex, delay, answer, pc, kind, mine>>
      /\ source' \in {source, Locked} /\ wrap' \in Keys
    BY DEF Lock, Rewrap, cache, IInv, TypeOK
<1>2. TypeOK'
    BY <1>1 DEF IInv, TypeOK
<1>3. FreshEnough'
    BY <1>1, KeyCacheAssumption DEF IInv, FreshEnough, Usable
<1> QED BY <1>1, <1>2, <1>3 DEF IInv, MutexHeld, SlicesApart, SlicesWhole

LEMMA UnlockIInv == IInv /\ Unlock => IInv'
<1> SUFFICES ASSUME IInv, Unlock PROVE IInv'
    OBVIOUS
<1>1. /\ UNCHANGED <<wrap, heap, key, age, mutex, delay, answer, pc, kind, mine>>
      /\ source' = wrap /\ since' = [since EXCEPT ![wrap] = 0] /\ wrap \in Keys
      /\ since \in [Keys -> 0..Old]
    BY DEF Unlock, cache, IInv, TypeOK
<1>2. TypeOK'
    BY <1>1, Constants DEF IInv, TypeOK
<1>3. \A k \in Keys : since'[k] \in {since[k], 0} /\ since[k] \in Nat
    BY <1>1, Constants
<1>4. FreshEnough'
    <2>1. (source \in Keys => since[source] = 0)' /\ (key = None \/ mutex # None => age >= Idle)'
        BY <1>1 DEF IInv, FreshEnough
    <2>2. ASSUME NEW c \in Calls, pc[c] = "answered", answer # Locked
          PROVE  since'[answer] <= delay
        <3>1. answer \in Keys /\ since[answer] <= delay /\ delay \in Nat
            BY <2>2, Constants DEF IInv, TypeOK, FreshEnough
        <3> QED BY <1>3, <3>1
    <2>3. ASSUME Usable PROVE since'[heap[key]] <= age + MaxDelay
        <3>1. mutex = None /\ age \in Nat
            BY <2>3, Constants DEF IInv, TypeOK, FreshEnough, Usable
        <3>2. heap[key] \in Keys /\ since[heap[key]] <= age + MaxDelay
            BY <2>3, <3>1 DEF IInv, SlicesWhole, FreshEnough, Usable
        <3> QED BY <1>3, <3>1, <3>2, Constants
    <2> QED BY <1>1, <2>1, <2>2, <2>3 DEF FreshEnough, Usable
<1> QED BY <1>1, <1>2, <1>4 DEF IInv, MutexHeld, SlicesApart, SlicesWhole

LEMMA CallIInv == ASSUME IInv, NEW c \in Calls, Call(c) PROVE IInv'
<1> QED BY DEF Call, IInv, TypeOK, MutexHeld, SlicesApart, SlicesWhole, FreshEnough, Usable,
               source_, cache

LEMMA HitIInv == ASSUME IInv, NEW c \in Calls, Hit(c) PROVE IInv'
<1>1. /\ heap' = [heap EXCEPT ![Copy(c)] = heap[key]] /\ mine' = [mine EXCEPT ![c] = Copy(c)]
      /\ pc' = [pc EXCEPT ![c] = "using"] /\ pc[c] = "key" /\ mutex = None /\ Usable
      /\ UNCHANGED <<source, wrap, since, key, age, mutex, delay, answer, kind>>
    BY DEF Hit, Returned, AgeAfterHit, source_
<1>2. heap[key] \in Keys /\ key # None /\ key \in Buffer
    BY <1>1 DEF IInv, TypeOK, SlicesWhole, Usable
<1>3. TypeOK'
    BY <1>1, <1>2, BuffersDiffer DEF IInv, TypeOK
<1>4. MutexHeld'
    BY <1>1 DEF IInv, TypeOK, MutexHeld
<1>5. SlicesApart'
    BY <1>1 DEF IInv, TypeOK, SlicesApart
<1>6. PICK d \in Calls : key = Derived(d)
    BY <1>2 DEF IInv, SlicesApart
<1>7. heap'[key] = heap[key] /\ \A e \in Calls :
          /\ heap'[Derived(e)] = heap[Derived(e)] /\ heap'[Own(e)] = heap[Own(e)]
          /\ e # c => heap'[Copy(e)] = heap[Copy(e)]
    BY <1>1, <1>6, BuffersDiffer DEF IInv, TypeOK
<1>8. heap'[Copy(c)] \in Keys
    BY <1>1, <1>2, BuffersDiffer DEF IInv, TypeOK
<1>9. SlicesWhole'
    BY <1>1, <1>7, <1>8 DEF IInv, SlicesWhole
<1>10. FreshEnough'
    BY <1>1 DEF IInv, FreshEnough
<1> QED BY <1>3, <1>4, <1>5, <1>9, <1>10 DEF IInv

LEMMA MissIInv == ASSUME IInv, NEW c \in Calls, Miss(c) PROVE IInv'
<1>1. /\ heap' = Wiped /\ mutex' = c /\ delay' = 0 /\ mutex = None /\ ~Usable
      /\ pc' = [pc EXCEPT ![c] = "deriving"] /\ pc[c] = "key"
      /\ UNCHANGED <<source, wrap, since, key, age, answer, kind, mine>>
    BY DEF Miss, source_
<1>2. heap' \in [Buffer -> Keys \cup {Zeroed}]
    BY <1>1 DEF IInv, TypeOK, Wiped
<1>3. TypeOK'
    BY <1>1, <1>2, Constants DEF IInv, TypeOK
<1>4. MutexHeld'
    BY <1>1, BuffersDiffer DEF IInv, TypeOK, MutexHeld
<1>5. SlicesApart'
    BY <1>1 DEF IInv, TypeOK, SlicesApart
<1>6. \A e \in Calls : heap'[Derived(e)] = Zeroed
    <2> SUFFICES ASSUME NEW e \in Calls PROVE heap'[Derived(e)] = Zeroed
        OBVIOUS
    <2>1. CASE key = None
        BY <1>1, <2>1, BuffersDiffer DEF IInv, SlicesWhole, Wiped
    <2>2. CASE key # None
        BY <1>1, BuffersDiffer DEF IInv, TypeOK, SlicesWhole, Wiped
    <2> QED BY <2>1, <2>2
<1>7. \A e \in Calls : heap'[Copy(e)] = heap[Copy(e)] /\ heap'[Own(e)] = heap[Own(e)]
    <2>1. CASE key = None
        BY <1>1, <2>1 DEF Wiped
    <2>2. CASE key # None
        <3>1. PICK d \in Calls : key = Derived(d)
            BY <2>2 DEF IInv, SlicesApart
        <3> QED BY <1>1, <3>1, BuffersDiffer DEF Wiped
    <2> QED BY <2>1, <2>2
<1>8. SlicesWhole'
    BY <1>1, <1>6, <1>7, BuffersDiffer DEF IInv, SlicesWhole
<1>10. FreshEnough'
    <2>2. \A e \in Calls : pc'[e] # "answered"
        BY <1>1, BuffersDiffer DEF IInv, TypeOK, MutexHeld
    <2> QED BY <1>1, <2>2, Constants DEF IInv, TypeOK, FreshEnough, Usable
<1> QED BY <1>3, <1>4, <1>5, <1>8, <1>10 DEF IInv

LEMMA AnswerIInv == ASSUME IInv, NEW c \in Calls, Answer(c) PROVE IInv'
<1>1. /\ answer' \in {source, Locked} /\ pc[c] = "deriving" /\ mutex = c
      /\ pc' = [pc EXCEPT ![c] = "answered"]
      /\ UNCHANGED <<source, wrap, since, heap, key, age, mutex, delay, kind, mine>>
    BY DEF Answer, source_, IInv, MutexHeld
<1>2. TypeOK' /\ MutexHeld' /\ SlicesApart' /\ SlicesWhole'
    BY <1>1 DEF IInv, TypeOK, MutexHeld, SlicesApart, SlicesWhole
<1>3. ASSUME NEW e \in Calls, pc'[e] = "answered", answer' # Locked
      PROVE  since[answer'] <= delay
    <2>1. answer' \in Keys /\ since[answer'] = 0 /\ delay \in Nat
        BY <1>1, <1>3 DEF IInv, TypeOK, FreshEnough
    <2> QED BY <2>1
<1>4. FreshEnough'
    BY <1>1, <1>3 DEF IInv, FreshEnough, Usable
<1> QED BY <1>2, <1>4 DEF IInv

LEMMA DeriveIInv == ASSUME IInv, NEW c \in Calls, Derive(c) PROVE IInv'
<1>1. /\ heap' = [heap EXCEPT ![Derived(c)] = answer, ![Copy(c)] = answer]
      /\ mine' = [mine EXCEPT ![c] = Copy(c)] /\ pc' = [pc EXCEPT ![c] = "using"]
      /\ pc[c] = "answered" /\ answer \in Keys /\ answer # Locked /\ mutex = c
      /\ key' = Derived(c) /\ age' = 0 /\ mutex' = None /\ delay' = 0 /\ answer' = Locked
      /\ UNCHANGED <<source, wrap, since, kind>>
    BY DEF Derive, source_, IInv, TypeOK, MutexHeld
<1>3. TypeOK'
    BY <1>1, BuffersDiffer, Constants DEF IInv, TypeOK
<1>4. MutexHeld'
    BY <1>1, BuffersDiffer DEF IInv, TypeOK, MutexHeld
<1>5. SlicesApart'
    BY <1>1 DEF IInv, TypeOK, SlicesApart
<1>6. heap'[Derived(c)] = answer /\ heap'[Copy(c)] = answer
    BY <1>1, BuffersDiffer DEF IInv, TypeOK
<1>7. \A e \in Calls :
          /\ heap'[Own(e)] = heap[Own(e)]
          /\ e # c => heap'[Copy(e)] = heap[Copy(e)] /\ heap'[Derived(e)] = heap[Derived(e)]
    BY <1>1, BuffersDiffer DEF IInv, TypeOK
<1>8. \A e \in Calls : heap[Derived(e)] = Zeroed
    BY <1>1, BuffersDiffer DEF IInv, SlicesWhole
<1>9. SlicesWhole'
    BY <1>1, <1>6, <1>7, <1>8 DEF IInv, TypeOK, SlicesWhole
<1>10. FreshEnough'
    <2> QED BY <1>1, BuffersDiffer, Constants DEF IInv, TypeOK, FreshEnough
<1> QED BY <1>3, <1>4, <1>5, <1>9, <1>10 DEF IInv

LEMMA DeriveFailsIInv == ASSUME IInv, NEW c \in Calls, DeriveFails(c) PROVE IInv'
<1>1. /\ pc' = [pc EXCEPT ![c] = "idle"] /\ pc[c] = "answered" /\ mutex = c
      /\ key' = None /\ age' = Idle /\ mutex' = None /\ delay' = 0
      /\ UNCHANGED <<source, wrap, since, heap, answer, kind, mine>>
    BY DEF DeriveFails, Unlocked, source_, IInv, MutexHeld
<1>2. TypeOK'
    BY <1>1, Constants DEF IInv, TypeOK
<1>3. MutexHeld'
    BY <1>1, BuffersDiffer DEF IInv, TypeOK, MutexHeld
<1>4. SlicesApart'
    BY <1>1 DEF IInv, TypeOK, SlicesApart
<1>5. SlicesWhole'
    BY <1>1, BuffersDiffer DEF IInv, TypeOK, SlicesWhole
<1>6. FreshEnough'
    <2>1. \A e \in Calls : pc'[e] # "answered"
        BY <1>1, <1>3, BuffersDiffer DEF MutexHeld
    <2> QED BY <1>1, <2>1, Constants DEF IInv, FreshEnough, Usable
<1> QED BY <1>2, <1>3, <1>4, <1>5, <1>6 DEF IInv

LEMMA OpenIInv == ASSUME IInv, NEW c \in Calls, Open(c) PROVE IInv'
<1>1. /\ heap' = [heap EXCEPT ![Own(c)] = wrap] /\ wrap \in Keys
      /\ pc' = [pc EXCEPT ![c] = "open"] /\ pc[c] = "using"
      /\ UNCHANGED <<source, wrap, since, key, age, mutex, delay, answer, kind, mine>>
    BY DEF Open, source_, cache, IInv, TypeOK
<1>2. TypeOK' /\ MutexHeld' /\ SlicesApart'
    BY <1>1 DEF IInv, TypeOK, MutexHeld, SlicesApart
<1>3. heap'[Own(c)] = wrap /\ \A e \in Calls :
          /\ heap'[Copy(e)] = heap[Copy(e)] /\ heap'[Derived(e)] = heap[Derived(e)]
          /\ e # c => heap'[Own(e)] = heap[Own(e)]
    BY <1>1, BuffersDiffer DEF IInv, TypeOK
<1>4. key # None => heap'[key] = heap[key]
    BY <1>3 DEF IInv, SlicesApart
<1>5. SlicesWhole'
    BY <1>1, <1>3 DEF IInv, SlicesWhole
<1>6. FreshEnough'
    BY <1>1, <1>4 DEF IInv, FreshEnough, Usable
<1> QED BY <1>2, <1>5, <1>6 DEF IInv

\* The end of a call zeroes its copy and its Vault's, and nothing else.
LEMMA EndIInv == ASSUME IInv, NEW c \in Calls, OpenFails(c) \/ Close(c) PROVE IInv'
<1>1. /\ pc' = [pc EXCEPT ![c] = "idle"] /\ pc[c] \in {"using", "open"}
      /\ mine' = [mine EXCEPT ![c] = None] /\ mine[c] = Copy(c)
      /\ UNCHANGED <<source, wrap, since, key, age, mutex, delay, answer, kind>>
    BY DEF OpenFails, Close, Returns, source_, cache, IInv, SlicesApart
<1>2. \/ heap' = [heap EXCEPT ![Copy(c)] = Zeroed]
      \/ heap' = [[heap EXCEPT ![Own(c)] = Zeroed] EXCEPT ![Copy(c)] = Zeroed]
    BY <1>1 DEF OpenFails, Close, Returns
<1>3. heap' \in [Buffer -> Keys \cup {Zeroed}]
    BY <1>2 DEF IInv, TypeOK
<1>4. \A e \in Calls :
          /\ heap'[Derived(e)] = heap[Derived(e)]
          /\ e # c => heap'[Copy(e)] = heap[Copy(e)] /\ heap'[Own(e)] = heap[Own(e)]
    BY <1>2, BuffersDiffer DEF IInv, TypeOK
<1>5. TypeOK' /\ MutexHeld' /\ SlicesApart'
    BY <1>1, <1>3 DEF IInv, TypeOK, MutexHeld, SlicesApart
<1>6. key # None => heap'[key] = heap[key]
    BY <1>4 DEF IInv, SlicesApart
<1>7. SlicesWhole'
    BY <1>1, <1>4, <1>6 DEF IInv, TypeOK, SlicesWhole
<1>8. FreshEnough'
    BY <1>1, <1>6 DEF IInv, FreshEnough, Usable
<1> QED BY <1>5, <1>7, <1>8 DEF IInv

LEMMA StepIInv == IInv /\ [Next]_vars => IInv'
<1> SUFFICES ASSUME IInv, [Next]_vars PROVE IInv'
    OBVIOUS
<1>1. CASE UNCHANGED vars
    BY <1>1 DEF vars, source_, cache, IInv, TypeOK, MutexHeld, SlicesApart, SlicesWhole,
                FreshEnough, Usable
<1>2. ASSUME NEW c \in Calls, Call(c) \/ Acquires(c) \/ Proceeds(c) PROVE IInv'
    BY <1>2, CallIInv, HitIInv, MissIInv, AnswerIInv, DeriveIInv, DeriveFailsIInv,
       OpenIInv, EndIInv DEF Acquires, Proceeds
<1> QED BY <1>1, <1>2, TickIInv, LockIInv, UnlockIInv DEF Next

LEMMA Invariance == Spec => []IInv
BY InitIInv, StepIInv, PTL DEF Spec

\* Type correctness.
THEOREM TypeCorrect == Spec => []TypeOK
BY Invariance, PTL DEF IInv

\* No goroutine's zeroing reaches a key another is using, and no expired key is
\* left behind.
THEOREM KeysAreWhole == Spec => []KeysInUseAreWhole
<1>1. IInv => KeysInUseAreWhole
    BY DEF IInv, SlicesApart, SlicesWhole, KeysInUseAreWhole, Usable
<1> QED BY <1>1, Invariance, PTL

\* However busy the server, a key is returned only within one idle period of a
\* derivation that took it from the Broker.
THEOREM ServedKeysAreFresh == Spec => ServedKeyIsFresh
<1>1. IInv /\ [Next]_vars => \A c \in Calls : pc[c] # "using" /\ pc'[c] = "using"
                                  => since'[heap'[mine'[c]]] < Old
    <2> SUFFICES ASSUME IInv, [Next]_vars, NEW c \in Calls, pc[c] # "using", pc'[c] = "using"
                 PROVE  since'[heap'[mine'[c]]] < Old
        OBVIOUS
    <2>1. Hit(c) \/ Derive(c)
        BY DEF Next, vars, Tick, Lock, Unlock, Rewrap, Call, Acquires, Miss, Hit, Proceeds, Answer,
               Derive, DeriveFails, Open, OpenFails, Close, Returns, IInv, TypeOK
    <2>2. CASE Hit(c)
        <3>1. heap'[mine'[c]] = heap[key] /\ since' = since
            BY <2>2, BuffersDiffer DEF Hit, Returned, IInv, TypeOK
        <3>2. heap[key] \in Keys /\ age < Idle /\ since[heap[key]] <= age + MaxDelay
            BY <2>2 DEF Hit, Usable, IInv, SlicesWhole, FreshEnough
        <3>3. since[heap[key]] \in Nat /\ age \in Nat
            BY <3>2, Constants DEF IInv, TypeOK
        <3> QED BY <3>1, <3>2, <3>3, Constants
    <2>3. CASE Derive(c)
        <3>1. heap'[mine'[c]] = answer /\ since' = since /\ answer \in Keys
            BY <2>3, BuffersDiffer DEF Derive, IInv, TypeOK
        <3>2. since[answer] <= delay /\ delay \in 0..MaxDelay /\ since[answer] \in Nat
            BY <2>3 DEF Derive, IInv, TypeOK, FreshEnough
        <3> QED BY <3>1, <3>2, Constants
    <2> QED BY <2>1, <2>2, <2>3
<1> QED BY <1>1, Invariance, PTL DEF Spec, ServedKeyIsFresh
=============================================================================
