----------------------------- MODULE KeyCache -----------------------------
(***************************************************************************)
(* The unlock key an MCP server keeps between tool calls (KeyCache in      *)
(* internal/broker/keycache.go) over the Broker it gets it from (UnlockKey *)
(* and RequestKey), while that is locked and unlocked and the Vault is     *)
(* rewrapped.                                                              *)
(*                                                                         *)
(* Key slices are buffers on a heap, so that it matters which of them are  *)
(* copies and which are zeroed: the one a call derived, the copy Key       *)
(* returns, and the Vault's own.  Time is counted in ticks, as ages.  A    *)
(* derivation is over within MaxDelay of them: RequestKey's deadlines on   *)
(* the dial and on the exchange.                                           *)
(***************************************************************************)
EXTENDS Naturals

CONSTANTS
    Calls,     \* the slots tool calls run in
    Keys,
    Idle,      \* how long a derived key may be used
    MaxDelay,  \* the bound RequestKey's deadlines put on a derivation
    Locked, Zeroed, None

ASSUME KeyCacheAssumption ==
    /\ Idle \in Nat \ {0} /\ MaxDelay \in Nat
    /\ Locked \notin Keys /\ Zeroed \notin Keys
    /\ None \notin Calls \X {"derived", "copy", "vault"} /\ None \notin Calls

VARIABLES
    source,   \* what the Broker holds: a key, or Locked
    wrap,     \* the key the Vault is wrapped under
    since,    \* ticks since the Broker last held each key, up to Old
    heap,     \* what is in each buffer
    key, age, \* KeyCache's key and the ticks since at, up to Idle
    mutex,    \* who holds mu
    delay,    \* ticks the derivation under way has taken
    answer,   \* what the Broker answered to it
    pc, kind, \* where each call is, and whether it is an UpdateVault
    mine      \* the slice Key returned to it

source_ == <<source, wrap>>
cache == <<key, age, mutex, delay, answer>>
vars == <<source_, since, heap, cache, pc, kind, mine>>

Old == Idle + MaxDelay
Buffer == Calls \X {"derived", "copy", "vault"}

Derived(c) == <<c, "derived">>
Copy(c) == <<c, "copy">>
Own(c) == <<c, "vault">>

TypeOK ==
    /\ source \in Keys \cup {Locked} /\ wrap \in Keys
    /\ since \in [Keys -> 0..Old]
    /\ heap \in [Buffer -> Keys \cup {Zeroed}]
    /\ key \in Buffer \cup {None} /\ age \in 0..Idle
    /\ mutex \in Calls \cup {None} /\ delay \in 0..MaxDelay
    /\ answer \in Keys \cup {Locked}
    /\ pc \in [Calls -> {"idle", "key", "deriving", "answered", "using", "open"}]
    /\ kind \in [Calls -> {"read", "update"}]
    /\ mine \in [Calls -> Buffer \cup {None}]

Init ==
    /\ source \in Keys \cup {Locked} /\ wrap \in Keys
    /\ since = [k \in Keys |-> IF k = source THEN 0 ELSE Old]
    /\ heap = [b \in Buffer |-> Zeroed]
    /\ key = None /\ age = Idle
    /\ mutex = None /\ delay = 0 /\ answer = Locked
    /\ pc = [c \in Calls |-> "idle"]
    /\ kind = [c \in Calls |-> "read"]
    /\ mine = [c \in Calls |-> None]

-----------------------------------------------------------------------------
Deriving == mutex # None

Tick ==
    /\ Deriving => delay < MaxDelay
    /\ delay' = IF Deriving THEN delay + 1 ELSE 0
    /\ age' = IF age < Idle THEN age + 1 ELSE age
    /\ since' = [k \in Keys |-> IF k = source THEN 0
                                ELSE IF since[k] < Old THEN since[k] + 1 ELSE Old]
    /\ UNCHANGED <<source_, heap, key, mutex, answer, pc, kind, mine>>

\* cpass lock, and the Broker's own idle timeout.
Lock ==
    /\ source' = Locked
    /\ UNCHANGED <<wrap, since, heap, cache, pc, kind, mine>>

\* cpass unlock derives the key the Vault is wrapped under and starts a Broker.
Unlock ==
    /\ source' = wrap
    /\ since' = [since EXCEPT ![wrap] = 0]
    /\ UNCHANGED <<wrap, heap, cache, pc, kind, mine>>

\* An unlock that upgrades the KDF cost rewraps the Vault before it does that.
Rewrap ==
    /\ wrap' \in Keys
    /\ UNCHANGED <<source, since, heap, cache, pc, kind, mine>>

-----------------------------------------------------------------------------
\* A tool call: OpenVault (and so Resolve), or UpdateVault.
Call(c) ==
    /\ pc[c] = "idle"
    /\ pc' = [pc EXCEPT ![c] = "key"]
    /\ \E k \in {"read", "update"} : kind' = [kind EXCEPT ![c] = k]
    /\ UNCHANGED <<source_, since, heap, cache, mine>>

\* Mutant: the key may be used for one tick longer.
UsableTooLong == key # None /\ age <= Idle

Usable == key # None /\ age < Idle

\* Mutant: a hit starts the period anew.
AgeFromHit == 0

\* A hit leaves at alone.
AgeAfterHit == age

\* Mutant: Key returns its own slice.
ItsOwnSlice(c) == key

Returned(c) == Copy(c)

\* Key, with a key that was derived within idle.
Hit(c) ==
    /\ pc[c] = "key" /\ mutex = None /\ Usable
    /\ heap' = [heap EXCEPT ![Returned(c)] = heap[key]]
    /\ mine' = [mine EXCEPT ![c] = Returned(c)]
    /\ age' = AgeAfterHit
    /\ pc' = [pc EXCEPT ![c] = "using"]
    /\ UNCHANGED <<source_, since, key, mutex, delay, answer, kind>>

\* Mutant: the expired key is left as it was.
Dropped == heap

Wiped == IF key = None THEN heap ELSE [heap EXCEPT ![key] = Zeroed]

\* Key, without: the expired one is zeroed, and UnlockKey is called under mu.
Miss(c) ==
    /\ pc[c] = "key" /\ mutex = None /\ ~Usable
    /\ heap' = Wiped
    /\ mutex' = c /\ delay' = 0
    /\ pc' = [pc EXCEPT ![c] = "deriving"]
    /\ UNCHANGED <<source_, since, key, age, answer, kind, mine>>

\* RequestKey: what the Broker holds, or an error if it did not say in time.
Answer(c) ==
    /\ pc[c] = "deriving"
    /\ answer' \in {source, Locked}
    /\ pc' = [pc EXCEPT ![c] = "answered"]
    /\ UNCHANGED <<source_, since, heap, key, age, mutex, delay, kind, mine>>

\* at is taken after UnlockKey returned.
Derive(c) ==
    /\ pc[c] = "answered" /\ answer # Locked
    /\ heap' = [heap EXCEPT ![Derived(c)] = answer, ![Copy(c)] = answer]
    /\ mine' = [mine EXCEPT ![c] = Copy(c)]
    /\ key' = Derived(c) /\ age' = 0
    /\ mutex' = None /\ delay' = 0 /\ answer' = Locked
    /\ pc' = [pc EXCEPT ![c] = "using"]
    /\ UNCHANGED <<source_, since, kind>>

\* Mutant: an error returns without unlocking mu.
KeepsLock(c) == c

Unlocked(c) == None

DeriveFails(c) ==
    /\ pc[c] = "answered" /\ answer = Locked
    /\ key' = None /\ age' = Idle
    /\ mutex' = Unlocked(c) /\ delay' = 0
    /\ pc' = [pc EXCEPT ![c] = "idle"]
    /\ UNCHANGED <<source_, since, heap, answer, kind, mine>>

-----------------------------------------------------------------------------
\* vault.Open keeps a copy of its own of the key that opens the Vault.
Open(c) ==
    /\ pc[c] = "using" /\ heap[mine[c]] = wrap
    /\ heap' = [heap EXCEPT ![Own(c)] = heap[mine[c]]]
    /\ pc' = [pc EXCEPT ![c] = "open"]
    /\ UNCHANGED <<source_, since, cache, kind, mine>>

\* UpdateVault defers zeroKey; a reader's copy is left to the garbage collector.
Returns(c, h) ==
    /\ heap' = [h EXCEPT ![IF kind[c] = "update" THEN mine[c] ELSE Copy(c)] = Zeroed]
    /\ mine' = [mine EXCEPT ![c] = None]
    /\ pc' = [pc EXCEPT ![c] = "idle"]
    /\ UNCHANGED <<source_, since, cache, kind>>

\* ErrWrongKey, or in Update the file lock's timeout.
OpenFails(c) ==
    /\ pc[c] = "using" /\ (heap[mine[c]] # wrap \/ kind[c] = "update")
    /\ Returns(c, heap)

\* Vault.Close zeroes the Vault's key.
Close(c) ==
    /\ pc[c] = "open"
    /\ Returns(c, [heap EXCEPT ![Own(c)] = Zeroed])

Acquires(c) == Hit(c) \/ Miss(c)
Proceeds(c) == Answer(c) \/ Derive(c) \/ DeriveFails(c) \/ Open(c) \/ OpenFails(c) \/ Close(c)

Next ==
    \/ Tick \/ Lock \/ Unlock \/ Rewrap
    \/ \E c \in Calls : Call(c) \/ Acquires(c) \/ Proceeds(c)

Spec == Init /\ [][Next]_vars

\* Time passes, calls that have what they need go on, and mu, a sync.Mutex, goes
\* to each goroutine that waits for it.
FairSpec ==
    /\ Spec
    /\ WF_vars(Tick)
    /\ \A c \in Calls : WF_vars(Proceeds(c)) /\ SF_vars(Acquires(c))
-----------------------------------------------------------------------------
\* A lock, or a new key, takes effect on a server that is kept busy within one
\* idle period of the last derivation: what Key returns the Broker held then
\* (Key's comment).
ServedKeyIsFresh ==
    [][\A c \in Calls : pc[c] # "using" /\ pc'[c] = "using"
           => since'[heap'[mine'[c]]] < Old]_vars

\* No zeroing, of an expired key, of an updater's copy or of a Vault's, ever gets
\* at a key another goroutine is still using (Key's comment), and none that has
\* expired is left behind.
KeysInUseAreWhole ==
    /\ Usable /\ mutex = None => heap[key] \in Keys
    /\ \A c \in Calls :
         /\ pc[c] = "using" => heap[mine[c]] \in Keys
         /\ pc[c] = "open" => heap[Own(c)] \in Keys
         /\ heap[Derived(c)] # Zeroed => key = Derived(c)

\* Once the Broker's key no longer changes, calls end up with that key, and with
\* none if there is none.
CatchesUp ==
    \A k \in Keys \cup {Locked} :
        <>[](source = k) => <>[](\A c \in Calls : pc[c] = "using" => heap[mine[c]] = k)

\* Every call ends, although all wait for the one that derives the key.
CallReturns == \A c \in Calls : pc[c] = "key" ~> pc[c] = "idle"
=============================================================================
