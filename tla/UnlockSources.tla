--------------------------- MODULE UnlockSources ---------------------------
(***************************************************************************)
(* cmdInit and the commands after it on either platform: UseKeychain says  *)
(* whether the unlock key of a home is a random one in the macOS Keychain  *)
(* (Keychain) or derived from a passphrase for the Broker to hold          *)
(* (PassphraseUnlock).  unlock refuses where there is a Keychain, so a     *)
(* home has one of the two.  keychain upgrade does not ask: on macOS it    *)
(* stores the key that the Broker, or CPASS_KEY, has for a home without.   *)
(***************************************************************************)
EXTENDS PassphraseUnlock

CONSTANTS
    KeychainOffered,  \* what each process may run on macOS
    KeychainStarts,   \* the Vault and the Keychain item to start from
    MaxKeys,          \* bound: random keys
    Others,           \* keys that CPASS_KEY or the Broker may have
    NoItem            \* there is no Keychain item

VARIABLES
    useKeychain,      \* UseKeychain: macOS, without CPASS_UNLOCK=socket
    item, sealed, keys, at, task, held, found, outcome, pulled, apart, foreign

K == INSTANCE Keychain
        WITH Offered <- KeychainOffered, Starts <- KeychainStarts, NoVault <- NoFile,
             vault <- sealed, made <- keys, pc <- at, job <- task, key <- held,
             result <- outcome

ASSUME KeychainFits == K!ConstantsFit

keychainVars == <<item, sealed, keys, at, task, held, found, outcome, pulled,
                  apart, foreign>>

\* What the other source would keep is not there.
SourcesInit ==
    /\ useKeychain \in BOOLEAN
    /\ Init /\ K!Init
    /\ IF useKeychain THEN vault = NoFile /\ salt = NoFile /\ kdf = NoFile
                      ELSE item = NoItem /\ sealed = NoFile

\* What keychain upgrade does where UseKeychain is false, with the key that the
\* Broker or CPASS_KEY has: SecItemDelete, and SecItemAdd if there is no item.
UpgradeElsewhere ==
    /\ ~useKeychain
    /\ \/ item' = NoItem
       \/ item = NoItem /\ item' \in Others
    /\ UNCHANGED <<useKeychain, sealed, keys, at, task, held, found, outcome, pulled,
                   apart, foreign>>

\* UnlockKey and cmdInit look where UseKeychain tells them to.
SourcesNext ==
    \/ ~useKeychain /\ Next /\ UNCHANGED <<useKeychain, keychainVars>>
    \/ useKeychain /\ K!Next /\ UNCHANGED <<useKeychain, vars>>
    \/ UpgradeElsewhere /\ UNCHANGED vars

SourcesSpec == SourcesInit /\ [][SourcesNext]_<<vars, useKeychain, keychainVars>>
-----------------------------------------------------------------------------
\* Keychain's promise, for the homes that have one: a Vault's key is in the
\* Keychain, unless it is where it was taken from or an upgrade took it out.
KeychainOpens == K!KeychainOpens
=============================================================================
