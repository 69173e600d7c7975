-------------------------- MODULE MCBrokerProcess --------------------------
(***************************************************************************)
(* Two programs and two Brokers.                                           *)
(***************************************************************************)
EXTENDS BrokerProcess, TLC

CONSTANTS c1, c2, b1, b2

\* One terminal unlocks over and over, and each unlock begins by locking; the other
\* locks, asks for the key or keeps a connection to itself.  An unlock that was
\* killed or gave up leaves its Broker to race the next one's.
Offered == (c1 :> {"unlock"}) @@ (c2 :> {"lock", "resolve", "hold"})
=============================================================================
